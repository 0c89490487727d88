------------------------------- MODULE Payouts -------------------------------
(***************************************************************************)
(* Withdrawals of a driver's wallet: PayoutsService (wallets/              *)
(* payouts.service.ts) with the three wallet operations it calls           *)
(* (reserveForPayout, finalizePayout, reversePayout of wallets.service.ts),*)
(* the auto-release job and the Mobile Money provider.                     *)
(*                                                                         *)
(* Every HTTP handler and the job run as a "call": a small program that    *)
(* issues one SQL statement or one database transaction per step and may   *)
(* be interleaved with any other call between two of them.  A conditional  *)
(* updateMany is one step (PostgreSQL re-evaluates its WHERE under the row *)
(* lock); what a call read earlier stays in its own record, stale or not.  *)
(***************************************************************************)
EXTENDS Integers

CONSTANTS
    Payouts,        \* the payout ids
    Calls,          \* concurrent HTTP handlers
    Job,            \* the auto-release job (one at a time: its `running` flag)
    NoPayout,       \* "no payout" in the record of an idle call
    Amount,         \* Amount[p], in the smallest unit of the currency
    InitialBalance, \* the wallet's available balance at the start
    MaxDbErrors,    \* bound: how often a wallet transaction may fail
    MaxCrashes,     \* bound: how often a call may die between two steps
    TouchUnreserved,\* may staff or driver act while request() still runs?
    StaffPolicy     \* which payouts staff closes by hand: see MayMark*

ASSUME PayoutsAssumption ==
    /\ Amount \in [Payouts -> Nat \ {0}]
    /\ InitialBalance \in Nat
    /\ MaxDbErrors \in Nat /\ MaxCrashes \in Nat
    /\ TouchUnreserved \in BOOLEAN
    /\ StaffPolicy \in {"any", "waiting", "procedure"}
    /\ NoPayout \notin Payouts
    /\ Job \notin Calls

VARIABLES
    status,         \* payouts.status ("ABSENT" before the row exists)
    destination,    \* payouts.destinationRef, as the guardrails class it
    autoReleaseAt,  \* is a release date set?
    autoProcessed,  \* payouts.autoProcessed
    row,            \* status of the PAYOUT row in wallet_transactions
    balance,        \* wallets.balance
    pending,        \* wallets.pendingBalance, the part of the payouts
    paidOut,        \* history: what finalizePayout took out of the wallet
    provider,       \* what the provider did for this reference
    call,           \* where each call stands
    dbErrors, crashes

payoutVars == <<status, destination, autoReleaseAt, autoProcessed>>
walletVars == <<row, balance, pending, paidOut>>
faultVars  == <<dbErrors, crashes>>
vars == <<payoutVars, walletVars, provider, call, faultVars>>

-----------------------------------------------------------------------------
Open   == {"REQUESTED", "PROCESSING"}
Closed == {"PAID", "FAILED", "CANCELLED"}
Status == {"ABSENT"} \cup Open \cup Closed
RowStatus == {"NONE", "PENDING", "COMPLETED", "REVERSED"}
Destination == {"none", "missing", "known", "new"}
ProviderState == {"none", "pending", "paid", "refused"}
Location == {"idle", "reserve", "undo", "auto", "handover", "send", "disburse",
             "read", "claim", "settle", "reopen"}

Workers == Calls \cup {Job}
CallState == [at : Location, p : Payouts \cup {NoPayout}, next : Status,
              seen : Status, auto : BOOLEAN]
Idle == [at |-> "idle", p |-> NoPayout, next |-> "ABSENT",
         seen |-> "ABSENT", auto |-> FALSE]

Init ==
    /\ status = [p \in Payouts |-> "ABSENT"]
    /\ destination = [p \in Payouts |-> "none"]
    /\ autoReleaseAt = [p \in Payouts |-> FALSE]
    /\ autoProcessed = [p \in Payouts |-> FALSE]
    /\ row = [p \in Payouts |-> "NONE"]
    /\ balance = InitialBalance
    /\ pending = 0
    /\ paidOut = 0
    /\ provider = [p \in Payouts |-> "none"]
    /\ call = [c \in Workers |-> Idle]
    /\ dbErrors = 0
    /\ crashes = 0

\* Call c (on payout P(c)) goes on to its next step, or ends.
P(c) == call[c].p
At(c, place) == call[c].at = place
GoTo(c, place) == call' = [call EXCEPT ![c].at = place]
Return(c) == call' = [call EXCEPT ![c] = Idle]
Begin(c, p, place, next, auto) ==
    /\ At(c, "idle")
    /\ call' = [call EXCEPT ![c] = [at |-> place, p |-> p, next |-> next,
                                    seen |-> status[p], auto |-> auto]]

\* Is request() still between the creation of p and its reservation?
BeingRequested(p) ==
    \E c \in Workers : P(c) = p /\ call[c].at \in {"reserve", "undo"}

\* Somebody outside can act on p: it is listed as soon as it is created.
MayAct(p) == status[p] # "ABSENT" /\ (TouchUnreserved \/ ~BeingRequested(p))

-----------------------------------------------------------------------------
(* request(): create the payout, reserve its funds, try to send it          *)

Request(c, p, d) ==
    /\ status[p] = "ABSENT"
    /\ Begin(c, p, "reserve", "ABSENT", TRUE)
    /\ status' = [status EXCEPT ![p] = "REQUESTED"]
    /\ destination' = [destination EXCEPT ![p] = d]
    /\ UNCHANGED <<autoReleaseAt, autoProcessed, walletVars, provider, faultVars>>

\* reserveForPayout: balance -> pendingBalance and a PENDING row, in one transaction.
ReserveForPayout(c) ==
    /\ At(c, "reserve")
    /\ balance >= Amount[P(c)]
    /\ balance' = balance - Amount[P(c)]
    /\ pending' = pending + Amount[P(c)]
    /\ row' = [row EXCEPT ![P(c)] = "PENDING"]
    /\ GoTo(c, "auto")
    /\ UNCHANGED <<payoutVars, paidOut, provider, faultVars>>

\* The second daily-cap check, a short balance or a database error.
ReservationRefused(c) ==
    /\ At(c, "reserve")
    /\ GoTo(c, "undo")
    /\ UNCHANGED <<payoutVars, walletVars, provider, faultVars>>

\* Mutant: the catch block rethrows and leaves the payout as it is.
UndoForgotten(c) ==
    /\ At(c, "undo")
    /\ Return(c)
    /\ UNCHANGED <<payoutVars, walletVars, provider, faultVars>>

\* The catch block writes CANCELLED whatever the status has become.
UndoRequest(c) ==
    /\ At(c, "undo")
    /\ status' = [status EXCEPT ![P(c)] = "CANCELLED"]
    /\ Return(c)
    /\ UNCHANGED <<destination, autoReleaseAt, autoProcessed, walletVars, provider, faultVars>>

-----------------------------------------------------------------------------
(* processAutomatically(): the settings (mode, cap, delay, is there a real  *)
(* provider) are read at each call and may change at any time, so which     *)
(* branch they select is left open.                                         *)

\* Manual mode, above the cap, no real provider, no destination.
KeepForStaff(c) ==
    /\ At(c, "auto")
    /\ Return(c)
    /\ UNCHANGED <<payoutVars, walletVars, provider, faultVars>>

\* A new destination waits for its safety delay, if the payout still waits.
ScheduleRelease(c) ==
    /\ At(c, "auto")
    /\ destination[P(c)] = "new"
    /\ autoReleaseAt' = [autoReleaseAt EXCEPT ![P(c)] = @ \/ status[P(c)] = "REQUESTED"]
    /\ Return(c)
    /\ UNCHANGED <<status, destination, autoProcessed, walletVars, provider, faultVars>>

SendAutomatically(c) ==
    /\ At(c, "auto")
    /\ destination[P(c)] # "missing"
    /\ GoTo(c, "send")
    /\ UNCHANGED <<payoutVars, walletVars, provider, faultVars>>

(* releaseDue(): the job reads a due payout, then sends it or hands it over. *)

Due(p) == status[p] = "REQUESTED" /\ autoReleaseAt[p]

ReleaseDue(p) ==
    /\ Due(p)
    /\ \E next \in {"send", "handover"} : Begin(Job, p, next, "ABSENT", TRUE)
    /\ UNCHANGED <<payoutVars, walletVars, provider, faultVars>>

\* Mutant: handed over without stopping the countdown.
HandOverStillDue(c) ==
    /\ At(c, "handover")
    /\ Return(c)
    /\ UNCHANGED <<payoutVars, walletVars, provider, faultVars>>

HandOver(c) ==
    /\ At(c, "handover")
    /\ autoReleaseAt' = [autoReleaseAt EXCEPT ![P(c)] = @ /\ status[P(c)] # "REQUESTED"]
    /\ Return(c)
    /\ UNCHANGED <<status, destination, autoProcessed, walletVars, provider, faultVars>>

-----------------------------------------------------------------------------
(* sendToProvider(): claim, call the provider, close by its answer.         *)

Approve(c, p) ==
    /\ MayAct(p)
    /\ status[p] = "REQUESTED"
    /\ destination[p] # "missing"
    /\ Begin(c, p, "send", "ABSENT", FALSE)
    /\ UNCHANGED <<payoutVars, walletVars, provider, faultVars>>

\* Mutant: an update by id, without the status in its WHERE.
ClaimAnyStatus(c) ==
    /\ At(c, "send")
    /\ status' = [status EXCEPT ![P(c)] = "PROCESSING"]
    /\ autoProcessed' = [autoProcessed EXCEPT ![P(c)] = call[c].auto]
    /\ GoTo(c, "disburse")
    /\ UNCHANGED <<destination, autoReleaseAt, walletVars, provider, faultVars>>

ClaimToSend(c) ==
    /\ At(c, "send")
    /\ IF status[P(c)] = "REQUESTED"
       THEN /\ status' = [status EXCEPT ![P(c)] = "PROCESSING"]
            /\ autoProcessed' = [autoProcessed EXCEPT ![P(c)] = call[c].auto]
            /\ GoTo(c, "disburse")
       ELSE /\ Return(c)
            /\ UNCHANGED <<status, autoProcessed>>
    /\ UNCHANGED <<destination, autoReleaseAt, walletVars, provider, faultVars>>

\* The provider keys a transfer by its reference: it never makes a second one
\* and repeats the answer it gave (external).
Answers(p) == IF provider[p] = "none" THEN {"pending", "paid", "refused"}
              ELSE {provider[p]}

DisburseAnswered(c) ==
    /\ At(c, "disburse")
    /\ \E a \in Answers(P(c)) :
        /\ provider' = [provider EXCEPT ![P(c)] = a]
        /\ call' = [call EXCEPT ![c] =
                      IF a = "pending" THEN Idle
                      ELSE [@ EXCEPT !.at = "read",
                                     !.next = IF a = "paid" THEN "PAID" ELSE "FAILED"]]
    /\ UNCHANGED <<payoutVars, walletVars, faultVars>>

\* Mutant: a time-out at the provider is taken for a refusal.
DisburseTimeoutFails(c) ==
    /\ At(c, "disburse")
    /\ \E a \in Answers(P(c)) \cup {provider[P(c)]} :
        provider' = [provider EXCEPT ![P(c)] = a]
    /\ call' = [call EXCEPT ![c].at = "read", ![c].next = "FAILED"]
    /\ UNCHANGED <<payoutVars, walletVars, faultVars>>

\* Network cut or time-out: the transfer was made or not; nothing is written.
DisburseUnknown(c) ==
    /\ At(c, "disburse")
    /\ \E a \in Answers(P(c)) \cup {provider[P(c)]} :
        provider' = [provider EXCEPT ![P(c)] = a]
    /\ Return(c)
    /\ UNCHANGED <<payoutVars, walletVars, faultVars>>

\* An accepted transfer is decided later at the provider; nothing calls back.
ProviderDecides(p) ==
    /\ provider[p] = "pending"
    /\ \E a \in {"paid", "refused"} : provider' = [provider EXCEPT ![p] = a]
    /\ UNCHANGED <<payoutVars, walletVars, call, faultVars>>

-----------------------------------------------------------------------------
(* closeAsPaid() and closeAsFailed(): read, claim, settle, or reopen.       *)

\* sendToProvider's own call of closeAs*: findOne comes after the answer.
ReadToClose(c) ==
    /\ At(c, "read")
    /\ call' = [call EXCEPT ![c].seen = status[P(c)], ![c].at = "claim"]
    /\ UNCHANGED <<payoutVars, walletVars, provider, faultVars>>

\* The routes accept any payout (policy "any").  By the written procedure
\* staff checks at the provider before closing what may have been sent, marks
\* paid what it took in charge, and refuses a waiting payout only for want of a
\* number; with policy "waiting" it refuses any payout its screen shows waiting.
Checked(p) ==
    /\ status[p] = "PROCESSING"
    /\ provider[p] \in {"none", "refused"}
    /\ ~\E c \in Workers : P(c) = p /\ At(c, "disburse")

MayMarkPaid(p) ==
    MayAct(p) /\ (StaffPolicy # "any" => status[p] = "PROCESSING")
MayMarkFailed(p) ==
    /\ MayAct(p)
    /\ StaffPolicy # "any" =>
         \/ Checked(p)
         \/ /\ status[p] = "REQUESTED"
            /\ destination[p] = "missing" \/ StaffPolicy = "waiting"

\* The staff's routes; the record's `seen` is the status findOne returned.
MarkPaid(c, p) ==
    /\ MayMarkPaid(p)
    /\ Begin(c, p, "claim", "PAID", FALSE)
    /\ UNCHANGED <<payoutVars, walletVars, provider, faultVars>>

MarkFailed(c, p) ==
    /\ MayMarkFailed(p)
    /\ Begin(c, p, "claim", "FAILED", FALSE)
    /\ UNCHANGED <<payoutVars, walletVars, provider, faultVars>>

MarkProcessing(p) ==
    /\ MayAct(p)
    /\ status[p] = "REQUESTED"
    /\ status' = [status EXCEPT ![p] = "PROCESSING"]
    /\ UNCHANGED <<destination, autoReleaseAt, autoProcessed, walletVars, provider, call, faultVars>>

\* Mutant: closes whatever the status is.
CloseAnyStatus(c) ==
    /\ At(c, "claim")
    /\ status' = [status EXCEPT ![P(c)] = call[c].next]
    /\ GoTo(c, "settle")
    /\ UNCHANGED <<destination, autoReleaseAt, autoProcessed, walletVars, provider, faultVars>>

\* claimOpenPayout: only what is still open can be closed.
ClaimOpenPayout(c) ==
    /\ At(c, "claim")
    /\ IF status[P(c)] \in Open
       THEN /\ status' = [status EXCEPT ![P(c)] = call[c].next]
            /\ GoTo(c, "settle")
       ELSE Return(c) /\ UNCHANGED status
    /\ UNCHANGED <<destination, autoReleaseAt, autoProcessed, walletVars, provider, faultVars>>

\* Mutant: the driver cancels whatever the status is.
CancelAnyStatus(c, p) ==
    /\ MayAct(p)
    /\ Begin(c, p, "settle", "CANCELLED", FALSE)
    /\ status' = [status EXCEPT ![p] = "CANCELLED"]
    /\ autoReleaseAt' = [autoReleaseAt EXCEPT ![p] = FALSE]
    /\ UNCHANGED <<destination, autoProcessed, walletVars, provider, faultVars>>

\* cancelByDriver: claims a waiting payout, then gives its funds back.
CancelByDriver(c, p) ==
    /\ MayAct(p)
    /\ status[p] = "REQUESTED"
    /\ Begin(c, p, "settle", "CANCELLED", FALSE)
    /\ status' = [status EXCEPT ![p] = "CANCELLED"]
    /\ autoReleaseAt' = [autoReleaseAt EXCEPT ![p] = FALSE]
    /\ UNCHANGED <<destination, autoProcessed, walletVars, provider, faultVars>>

Covered(c) == row[P(c)] = "PENDING" => pending >= Amount[P(c)]

\* Mutant: counts the amount out without claiming its row.
FinalizeUnclaimed(c) ==
    /\ At(c, "settle") /\ call[c].next = "PAID"
    /\ row' = [row EXCEPT ![P(c)] = "COMPLETED"]
    /\ pending' = pending - Amount[P(c)]
    /\ paidOut' = paidOut + Amount[P(c)]
    /\ Return(c)
    /\ UNCHANGED <<balance, payoutVars, provider, faultVars>>

\* Both settle a row that is still PENDING, and do nothing otherwise.
FinalizePayout(c) ==
    /\ At(c, "settle") /\ call[c].next = "PAID"
    /\ Covered(c)
    /\ IF row[P(c)] = "PENDING"
       THEN /\ row' = [row EXCEPT ![P(c)] = "COMPLETED"]
            /\ pending' = pending - Amount[P(c)]
            /\ paidOut' = paidOut + Amount[P(c)]
            /\ UNCHANGED balance
       ELSE UNCHANGED walletVars
    /\ Return(c)
    /\ UNCHANGED <<payoutVars, provider, faultVars>>

ReversePayout(c) ==
    /\ At(c, "settle") /\ call[c].next # "PAID"
    /\ Covered(c)
    /\ IF row[P(c)] = "PENDING"
       THEN /\ row' = [row EXCEPT ![P(c)] = "REVERSED"]
            /\ pending' = pending - Amount[P(c)]
            /\ balance' = balance + Amount[P(c)]
            /\ UNCHANGED paidOut
       ELSE UNCHANGED walletVars
    /\ Return(c)
    /\ UNCHANGED <<payoutVars, provider, faultVars>>

\* The wallet transaction fails and rolls back.
SettleFails(c) ==
    /\ At(c, "settle")
    /\ ~Covered(c) \/ dbErrors < MaxDbErrors
    /\ dbErrors' = IF Covered(c) THEN dbErrors + 1 ELSE dbErrors
    /\ GoTo(c, "reopen")
    /\ UNCHANGED <<payoutVars, walletVars, provider, crashes>>

\* Mutant: the payout stays closed although nothing was settled.
ReopenForgotten(c) ==
    /\ At(c, "reopen")
    /\ Return(c)
    /\ UNCHANGED <<payoutVars, walletVars, provider, faultVars>>

\* closeAs* write back the status they read; cancelByDriver only undoes its own.
Reopen(c) ==
    /\ At(c, "reopen")
    /\ status' = [status EXCEPT ![P(c)] =
                    IF call[c].next # "CANCELLED" THEN call[c].seen
                    ELSE IF @ = "CANCELLED" THEN "REQUESTED" ELSE @]
    /\ Return(c)
    /\ UNCHANGED <<destination, autoReleaseAt, autoProcessed, walletVars, provider, faultVars>>

-----------------------------------------------------------------------------
\* A call dies between two steps: its process stops, or a write outside every
\* try block throws.
Die(c) ==
    /\ ~At(c, "idle")
    /\ crashes < MaxCrashes
    /\ crashes' = crashes + 1
    /\ Return(c)
    /\ UNCHANGED <<payoutVars, walletVars, provider, dbErrors>>

\* What starts a call, and what goes on with one.
Start(c, p) ==
    \/ \E d \in Destination \ {"none"} : Request(c, p, d)
    \/ Approve(c, p)
    \/ MarkPaid(c, p)
    \/ MarkFailed(c, p)
    \/ CancelByDriver(c, p)

Continue(c) ==
    \/ ReserveForPayout(c)
    \/ ReservationRefused(c)
    \/ UndoRequest(c)
    \/ KeepForStaff(c)
    \/ ScheduleRelease(c)
    \/ SendAutomatically(c)
    \/ HandOver(c)
    \/ ClaimToSend(c)
    \/ DisburseAnswered(c)
    \/ DisburseUnknown(c)
    \/ ReadToClose(c)
    \/ ClaimOpenPayout(c)
    \/ FinalizePayout(c)
    \/ ReversePayout(c)
    \/ SettleFails(c)
    \/ Reopen(c)

Next ==
    \/ \E c \in Calls, p \in Payouts : Start(c, p)
    \/ \E p \in Payouts : ReleaseDue(p) \/ MarkProcessing(p) \/ ProviderDecides(p)
    \/ \E c \in Workers : Continue(c) \/ Die(c)

Spec == Init /\ [][Next]_vars

\* A handler that runs goes on, and the job's timer keeps firing.
Fairness ==
    /\ \A c \in Workers : WF_vars(Continue(c))
    /\ WF_vars(\E p \in Payouts : ReleaseDue(p))

FairSpec == Spec /\ Fairness

-----------------------------------------------------------------------------
(* Properties                                                               *)

\* Every variable has its type, the bounded counters included.
TypeOK ==
    /\ status \in [Payouts -> Status]
    /\ destination \in [Payouts -> Destination]
    /\ autoReleaseAt \in [Payouts -> BOOLEAN]
    /\ autoProcessed \in [Payouts -> BOOLEAN]
    /\ row \in [Payouts -> RowStatus]
    /\ balance \in Nat /\ pending \in Nat /\ paidOut \in Nat
    /\ provider \in [Payouts -> ProviderState]
    /\ call \in [Workers -> CallState]
    /\ dbErrors \in 0..MaxDbErrors /\ crashes \in 0..MaxCrashes

\* What the wallet settled and what the payout says never disagree: money
\* counted out belongs to a PAID payout, money given back to one that failed
\* or was cancelled.  claimOpenPayout, cancelByDriver and their reopening must
\* keep it across every interleaving, failed transaction and lost call.
StatusMatchesRow ==
    \A p \in Payouts :
        /\ row[p] = "COMPLETED" => status[p] = "PAID"
        /\ row[p] = "REVERSED" => status[p] \in {"FAILED", "CANCELLED"}

\* Once its row is settled a payout is over: no later write of any handler,
\* the unconditional ones of the catch blocks included, changes its status or
\* its row ("un retrait ne se cloture qu'UNE fois").
SettledIsFinal ==
    [][\A p \in Payouts : row[p] \in {"COMPLETED", "REVERSED"} =>
         status'[p] = status[p] /\ row'[p] = row[p]]_vars

\* The wallet, seen through its PAYOUT rows, is an escrow (Escrow.tla).
PhaseOf == [NONE |-> "free", PENDING |-> "held",
            COMPLETED |-> "paid", REVERSED |-> "returned"]
Phase(p) == PhaseOf[row[p]]

E == INSTANCE Escrow WITH Items <- Payouts, Funds <- InitialBalance,
        available <- balance, held <- pending, gone <- paidOut,
        phase <- [p \in Payouts |-> Phase(p)]

ImplementsEscrow == E!Spec

\* No money is both sent and given back: the provider never pays a payout
\* whose reservation went back to the driver.
NeverPaidAndReturned ==
    \A p \in Payouts : provider[p] = "paid" => row[p] # "REVERSED"

\* sendToProvider's claim lets one call at a time reach the provider.
OneSender ==
    \A c, d \in Workers :
        At(c, "disburse") /\ At(d, "disburse") /\ P(c) = P(d) => c = d

\* A payout that waits or is being sent has its funds reserved as soon as
\* request() is past its reservation.
OpenIsReserved ==
    \A p \in Payouts :
        status[p] \in Open /\ ~BeingRequested(p) => row[p] = "PENDING"

\* A payout that is closed leaves nothing reserved, but for the time the call
\* that closed it takes to settle the row.  Only while the wallet fails at most
\* once: a second failure makes closeAs* write back a closed status, read while
\* the first was being undone.
ClosedIsSettled ==
    \A p \in Payouts :
        status[p] \in Closed /\ row[p] = "PENDING" =>
            \E c \in Workers : P(c) = p /\ call[c].at \in {"settle", "reopen"}

\* Nothing is sent to the provider before its funds are reserved.
SentOnlyIfReserved ==
    \A p \in Payouts : provider[p] # "none" => row[p] # "NONE"

\* The job gets every due payout out of the waiting line: sent, or handed
\* over to the staff, or cancelled meanwhile.
DueIsReleased == \A p \in Payouts : Due(p) ~> ~Due(p)
=============================================================================
