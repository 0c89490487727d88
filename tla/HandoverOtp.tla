----------------------------- MODULE HandoverOtp -----------------------------
(***************************************************************************)
(* The codes of one handover: what OtpService (otp/otp.service.ts) keeps   *)
(* for one step of one parcel, and ShipmentOtpService, which asks for a    *)
(* code, has it verified and then moves the parcel on.                     *)
(*                                                                         *)
(* The beneficiary may ask for a new code at any time; the driver types    *)
(* what he was told, possibly twice.  Every statement of a request is a    *)
(* step of its own: nothing here runs in a transaction.                    *)
(***************************************************************************)
EXTENDS Naturals, FiniteSets, Sequences

CONSTANTS
    Calls,        \* concurrent requests
    MaxCodes,     \* bound: codes issued for the step
    MaxAttempts,  \* otp.max_attempts
    Tolerance,    \* how many of the latest codes a request looks at
    LockAt        \* HANDOVER_LOCK_MAX_FAILED_ATTEMPTS

ASSUME HandoverAssumption ==
    /\ IsFiniteSet(Calls)
    /\ MaxCodes \in Nat /\ MaxAttempts \in Nat \ {0}
    /\ Tolerance \in Nat \ {0} /\ LockAt \in Nat \ {0}

VARIABLES
    step,     \* the parcel is waiting for this step, has passed it, or has left the road
    codes,    \* the rows of otp_codes for this step, the oldest first
    accepted, \* history: how often each code has been accepted
    call      \* where each request stands

vars == <<step, codes, accepted, call>>

-----------------------------------------------------------------------------
Rows == 1..MaxCodes
Guesses == Rows \cup {0}   \* 0: a code that was never issued
Code == [status : {"PENDING", "VERIFIED", "FAILED", "EXPIRED"}, attempts : 0..MaxAttempts,
         valid : BOOLEAN, recent : BOOLEAN]
NewCode == [status |-> "PENDING", attempts |-> 0, valid |-> TRUE, recent |-> TRUE]
CallState == [at : {"idle", "issue", "lock", "read", "fail", "try", "consume", "clear", "advance"},
              guess : Guesses, seen : SUBSET Rows]
Idle == [at |-> "idle", guess |-> 0, seen |-> {}]

Init ==
    /\ step = "WAITING"
    /\ codes = <<>>
    /\ accepted = [k \in Rows |-> 0]
    /\ call = [c \in Calls |-> Idle]

At(c, where) == call[c].at = where
Goes(c, where) == call' = [call EXCEPT ![c].at = where]
Return(c) == call' = [call EXCEPT ![c] = Idle]

Issued == DOMAIN codes
Pending == {k \in Issued : codes[k].status = "PENDING"}
SetStatus(ks, s) == codes' = [k \in Issued |-> IF k \in ks THEN [codes[k] EXCEPT !.status = s] ELSE codes[k]]
Latest(seen) == CHOOSE k \in seen : \A j \in seen : j <= k

-----------------------------------------------------------------------------
(* A code is asked for, by the driver or by its beneficiary.                *)

AskCode(c) ==
    /\ At(c, "idle") /\ step = "WAITING"
    /\ Goes(c, "issue")
    /\ UNCHANGED <<step, codes, accepted>>

Issue(c) ==
    /\ At(c, "issue") /\ Len(codes) < MaxCodes
    /\ codes' = Append(codes, NewCode)
    /\ Return(c)
    /\ UNCHANGED <<step, accepted>>

-----------------------------------------------------------------------------
(* A code is typed.                                                         *)

TypeCode(c, guess) ==
    /\ At(c, "idle") /\ step = "WAITING"
    /\ call' = [call EXCEPT ![c] = [at |-> "lock", guess |-> guess, seen |-> {}]]
    /\ UNCHANGED <<step, codes, accepted>>

\* The sum of the attempts of these codes: each attempt is one pair.
Attempts(ks) == Cardinality({u \in ks \X (1..MaxAttempts) : u[2] <= codes[u[1]].attempts})

\* Mutant: only the codes still open are counted, so that a new code starts afresh.
LockForgets(c) ==
    /\ At(c, "lock")
    /\ IF Attempts({k \in Pending : codes[k].recent}) < LockAt THEN Goes(c, "read") ELSE Return(c)
    /\ UNCHANGED <<step, codes, accepted>>

\* The attempts of the last hour, whatever became of the codes that were not verified.
AssertNotLocked(c) ==
    /\ At(c, "lock")
    /\ IF Attempts({k \in Issued : codes[k].recent /\ codes[k].status # "VERIFIED"}) < LockAt
       THEN Goes(c, "read") ELSE Return(c)
    /\ UNCHANGED <<step, codes, accepted>>

\* The latest pending codes; the newest of them decides whether one may try.
ReadCandidates(c) ==
    LET seen == {k \in Pending : Cardinality({j \in Pending : j > k}) < Tolerance}
        latest == codes[Latest(seen)]
    IN
    /\ At(c, "read")
    /\ IF seen = {} \/ ~latest.valid THEN Return(c)
       ELSE call' = [call EXCEPT ![c].at = IF latest.attempts >= MaxAttempts THEN "fail" ELSE "try",
                                 ![c].seen = seen]
    /\ UNCHANGED <<step, codes, accepted>>

\* By id, whatever the code has become.
MarkFailed(c) ==
    /\ At(c, "fail")
    /\ SetStatus({Latest(call[c].seen)}, "FAILED")
    /\ Return(c)
    /\ UNCHANGED <<step, accepted>>

\* The attempt is claimed before the comparison.
Try(c) ==
    LET latest == Latest(call[c].seen) IN
    /\ At(c, "try")
    /\ IF codes[latest].status = "PENDING" /\ codes[latest].attempts < MaxAttempts
       THEN /\ codes' = [codes EXCEPT ![latest].attempts = @ + 1]
            /\ IF call[c].guess \in call[c].seen /\ codes[call[c].guess].valid
               THEN Goes(c, "consume") ELSE Return(c)
       ELSE UNCHANGED codes /\ Return(c)
    /\ UNCHANGED <<step, accepted>>

\* Mutant: the code is marked by id, as it was when it was read.
ConsumeById(c) ==
    LET match == call[c].guess IN
    /\ At(c, "consume")
    /\ SetStatus({match}, "VERIFIED")
    /\ accepted' = [accepted EXCEPT ![match] = @ + 1]
    /\ Goes(c, "clear")
    /\ UNCHANGED step

Consume(c) ==
    LET match == call[c].guess IN
    /\ At(c, "consume")
    /\ IF codes[match].status = "PENDING"
       THEN /\ SetStatus({match}, "VERIFIED")
            /\ accepted' = [accepted EXCEPT ![match] = @ + 1]
            /\ Goes(c, "clear")
       ELSE UNCHANGED <<codes, accepted>> /\ Return(c)
    /\ UNCHANGED step

ExpireOthers(c) ==
    /\ At(c, "clear")
    /\ SetStatus((call[c].seen \ {call[c].guess}) \cap Pending, "EXPIRED")
    /\ Goes(c, "advance")
    /\ UNCHANGED <<step, accepted>>

\* advance: the parcel moves on only from the status it is waiting in.
Advance(c) ==
    /\ At(c, "advance")
    /\ step' = IF step = "WAITING" THEN "DONE" ELSE step
    /\ Return(c)
    /\ UNCHANGED <<codes, accepted>>

-----------------------------------------------------------------------------
(* What else happens                                                        *)

\* manuallyValidatePickup, manuallyValidateDelivery.
ValidateByHand ==
    /\ step = "WAITING" /\ step' = "DONE"
    /\ UNCHANGED <<codes, accepted, call>>

\* Cancelled, or in dispute.
Leave ==
    /\ step = "WAITING" /\ step' = "LEFT"
    /\ UNCHANGED <<codes, accepted, call>>

\* The validity is a setting, read for each code: a later code may run out first.
CodeExpires(k) ==
    /\ k \in Issued /\ codes[k].valid
    /\ codes' = [codes EXCEPT ![k].valid = FALSE]
    /\ UNCHANGED <<step, accepted, call>>

HourPasses(k) ==
    /\ k \in Issued /\ codes[k].recent
    /\ \A j \in Issued : j < k => ~codes[j].recent
    /\ codes' = [codes EXCEPT ![k].recent = FALSE]
    /\ UNCHANGED <<step, accepted, call>>

Next ==
    \/ \E c \in Calls :
          \/ AskCode(c) \/ Issue(c)
          \/ \E guess \in Issued \cup {0} : TypeCode(c, guess)
          \/ AssertNotLocked(c) \/ ReadCandidates(c) \/ MarkFailed(c) \/ Try(c)
          \/ Consume(c) \/ ExpireOthers(c) \/ Advance(c)
    \/ ValidateByHand \/ Leave
    \/ \E k \in Rows : CodeExpires(k) \/ HourPasses(k)

Spec == Init /\ [][Next]_vars

-----------------------------------------------------------------------------
\* Types: above all, no code takes more attempts than it may, however many requests try it
\* at once.
TypeOK ==
    /\ step \in {"WAITING", "DONE", "LEFT"}
    /\ codes \in Seq(Code) /\ Len(codes) <= MaxCodes
    /\ accepted \in [Rows -> Nat]
    /\ call \in [Calls -> CallState]

\* A code opens one handover at most, whoever types it at the same time, even when another
\* request writes FAILED over it.
AcceptedOnce == \A k \in Rows : accepted[k] <= 1

\* Asking for new codes does not give new guesses: until a code is accepted, the attempts of
\* the last hour pass the limit by what the requests already under way may add, no more.
GuessesAreBounded ==
    (\A k \in Rows : accepted[k] = 0) =>
        Attempts({k \in Issued : codes[k].recent}) < LockAt + Cardinality(Calls)
=============================================================================
