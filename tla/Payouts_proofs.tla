---------------------------- MODULE Payouts_proofs ----------------------------
(***************************************************************************)
(* For every set of payouts and calls, every amount and every bound on the *)
(* faults: the types, that the status of a payout and the row that carries *)
(* its money never disagree, that a settled payout is final, and that the  *)
(* wallet implements Escrow.                                               *)
(*                                                                         *)
(* The inductive invariant says why closing is safe although two catch     *)
(* blocks write the status unconditionally: a call between its claim and   *)
(* the end of its settlement "holds" the payout; nobody else can claim it  *)
(* (OneHolder), except where no money is reserved nor ever will be (Dead). *)
(***************************************************************************)
EXTENDS Payouts, FiniteSetTheorems, TLAPS

Holds(c) == call[c].at \in {"settle", "reopen"}
Requesting(c) == call[c].at \in {"reserve", "undo"}

\* No money is reserved for p and no call will reserve any.
Dead(p) == row[p] = "NONE" /\ \A c \in Workers : ~(P(c) = p /\ At(c, "reserve"))

\* What the record of a running call says of its payout.
CallsOK ==
    \A c \in Workers :
        /\ ~At(c, "idle") => P(c) \in Payouts /\ status[P(c)] # "ABSENT"
        /\ call[c].at \in {"read", "claim", "settle", "reopen"} => call[c].next \in Closed
        /\ call[c].at \in {"claim", "settle", "reopen"} => call[c].seen # "ABSENT"

AbsentHasNoRow == \A p \in Payouts : status[p] = "ABSENT" => row[p] = "NONE"

OneRequest ==
    \A c \in Workers : Requesting(c) =>
        /\ row[P(c)] = "NONE"
        /\ \A d \in Workers : Requesting(d) /\ P(d) = P(c) => d = c

HeldIsUnsettled ==
    \A c \in Workers : Holds(c) => row[P(c)] \in {"NONE", "PENDING"}

HolderOwnsStatus ==
    \A c \in Workers : Holds(c) => status[P(c)] = call[c].next \/ Dead(P(c))

OneHolder ==
    \A c, d \in Workers :
        Holds(c) /\ Holds(d) /\ P(c) = P(d) => c = d \/ Dead(P(c))

IInv ==
    /\ TypeOK
    /\ CallsOK
    /\ AbsentHasNoRow
    /\ OneRequest
    /\ HeldIsUnsettled
    /\ HolderOwnsStatus
    /\ OneHolder
    /\ StatusMatchesRow

LEMMA InitIInv == Init => IInv
BY PayoutsAssumption DEF Init, IInv, TypeOK, CallsOK, AbsentHasNoRow, OneRequest, HeldIsUnsettled,
   HolderOwnsStatus, OneHolder, StatusMatchesRow, Holds, Requesting, At, P, Idle,
   CallState, Location, Status, Open, Closed, RowStatus, Destination, ProviderState

LEMMA NextIInv == IInv /\ [Next]_vars => IInv'
<1> SUFFICES ASSUME IInv, [Next]_vars PROVE IInv'
  OBVIOUS
<1> USE PayoutsAssumption DEF IInv, TypeOK, CallsOK, AbsentHasNoRow, OneRequest, HeldIsUnsettled,
   HolderOwnsStatus, OneHolder, StatusMatchesRow, Holds, Requesting, Dead, At, P, Idle, GoTo, Return,
   CallState, Location, Status, Open, Closed, RowStatus, Destination, ProviderState, Begin,
   payoutVars, walletVars, faultVars, Workers
<1>1. ASSUME NEW c \in Workers, ReserveForPayout(c) PROVE IInv'
  BY <1>1 DEF ReserveForPayout
<1>2. ASSUME NEW c \in Workers, ReservationRefused(c) PROVE IInv'
  BY <1>2 DEF ReservationRefused
<1>3. ASSUME NEW c \in Workers, UndoRequest(c) PROVE IInv'
  BY <1>3 DEF UndoRequest
<1>4. ASSUME NEW c \in Workers, KeepForStaff(c) PROVE IInv'
  BY <1>4 DEF KeepForStaff
<1>5. ASSUME NEW c \in Workers, ScheduleRelease(c) PROVE IInv'
  BY <1>5 DEF ScheduleRelease
<1>6. ASSUME NEW c \in Workers, SendAutomatically(c) PROVE IInv'
  BY <1>6 DEF SendAutomatically
<1>7. ASSUME NEW c \in Workers, HandOver(c) PROVE IInv'
  BY <1>7 DEF HandOver
<1>8. ASSUME NEW c \in Workers, ClaimToSend(c) PROVE IInv'
  <2> USE DEF ClaimToSend
  <2>1. TypeOK'
    <3>1. CASE status[P(c)] = "REQUESTED"
      <4>1. [call[c] EXCEPT !.at = "disburse"] \in CallState
        BY call[c] \in CallState
      <4>2. call' \in [Workers -> CallState]
        BY <1>8, <3>1, <4>1
      <4>3. status' \in [Payouts -> Status] /\ autoProcessed' \in [Payouts -> BOOLEAN]
        BY <1>8, <3>1, call[c] \in CallState
      <4> QED
        BY <1>8, <3>1, <4>2, <4>3
    <3>2. CASE ~(status[P(c)] = "REQUESTED")
      <4>1. Return(c) /\ UNCHANGED <<payoutVars, walletVars, provider, faultVars>>
        BY <1>8, <3>2
      <4> QED
        BY <4>1
    <3> QED
      BY <3>1, <3>2
  <2>2. CallsOK'
    BY <1>8
  <2>3. AbsentHasNoRow'
    BY <1>8
  <2>4. OneRequest'
    BY <1>8
  <2>5. HeldIsUnsettled'
    BY <1>8
  <2>6. HolderOwnsStatus'
    BY <1>8
  <2>7. OneHolder'
    BY <1>8
  <2>8. StatusMatchesRow'
    BY <1>8
  <2> QED
    BY <2>1, <2>2, <2>3, <2>4, <2>5, <2>6, <2>7, <2>8
<1>9. ASSUME NEW c \in Workers, DisburseAnswered(c) PROVE IInv'
  <2> USE DEF DisburseAnswered, Answers
  <2>1. TypeOK'
    <3>1. PICK a \in Answers(P(c)) :
             /\ provider' = [provider EXCEPT ![P(c)] = a]
             /\ call' = [call EXCEPT ![c] =
                           IF a = "pending" THEN Idle
                           ELSE [@ EXCEPT !.at = "read",
                                          !.next = IF a = "paid" THEN "PAID" ELSE "FAILED"]]
      BY <1>9
    <3>2. a \in ProviderState
      BY <1>9, <3>1
    <3>3. CASE a = "pending"
      BY <1>9, <3>1, <3>2, <3>3
    <3>4. CASE a # "pending"
      <4>1. [call[c] EXCEPT !.at = "read", !.next = IF a = "paid" THEN "PAID" ELSE "FAILED"]
               \in CallState
        BY call[c] \in CallState
      <4> QED
        BY <1>9, <3>1, <3>2, <3>4, <4>1
    <3> QED
      BY <3>3, <3>4
  <2>2. CallsOK'
    BY <1>9
  <2>3. AbsentHasNoRow'
    BY <1>9
  <2>4. OneRequest'
    BY <1>9
  <2>5. HeldIsUnsettled'
    BY <1>9
  <2>6. HolderOwnsStatus'
    BY <1>9
  <2>7. OneHolder'
    BY <1>9
  <2>8. StatusMatchesRow'
    BY <1>9
  <2> QED
    BY <2>1, <2>2, <2>3, <2>4, <2>5, <2>6, <2>7, <2>8
<1>10. ASSUME NEW c \in Workers, DisburseUnknown(c) PROVE IInv'
  BY <1>10 DEF DisburseUnknown, Answers
<1>11. ASSUME NEW c \in Workers, ReadToClose(c) PROVE IInv'
  <2> USE DEF ReadToClose
  <2>1. TypeOK'
    BY <1>11
  <2>2. CallsOK'
    BY <1>11
  <2>3. AbsentHasNoRow'
    BY <1>11
  <2>4. OneRequest'
    BY <1>11
  <2>5. HeldIsUnsettled'
    BY <1>11
  <2>6. HolderOwnsStatus'
    BY <1>11
  <2>7. OneHolder'
    BY <1>11
  <2>8. StatusMatchesRow'
    BY <1>11
  <2> QED
    BY <2>1, <2>2, <2>3, <2>4, <2>5, <2>6, <2>7, <2>8
<1>12. ASSUME NEW c \in Workers, ClaimOpenPayout(c) PROVE IInv'
  <2> USE DEF ClaimOpenPayout
  <2>1. TypeOK'
    <3>1. CASE status[P(c)] \in Open
      <4>1. [call[c] EXCEPT !.at = "settle"] \in CallState
        BY call[c] \in CallState
      <4>2. call' \in [Workers -> CallState]
        BY <1>12, <3>1, <4>1
      <4>3. status' \in [Payouts -> Status] /\ autoProcessed' \in [Payouts -> BOOLEAN]
        BY <1>12, <3>1, call[c] \in CallState
      <4> QED
        BY <1>12, <3>1, <4>2, <4>3
    <3>2. CASE ~(status[P(c)] \in Open)
      <4>1. Return(c) /\ UNCHANGED <<payoutVars, walletVars, provider, faultVars>>
        BY <1>12, <3>2
      <4> QED
        BY <4>1
    <3> QED
      BY <3>1, <3>2
  <2>2. CallsOK'
    BY <1>12
  <2>3. AbsentHasNoRow'
    BY <1>12
  <2>4. OneRequest'
    BY <1>12
  <2>5. HeldIsUnsettled'
    BY <1>12
  <2>6. HolderOwnsStatus'
    BY <1>12
  <2>7. OneHolder'
    BY <1>12
  <2>8. StatusMatchesRow'
    BY <1>12
  <2> QED
    BY <2>1, <2>2, <2>3, <2>4, <2>5, <2>6, <2>7, <2>8
<1>13. ASSUME NEW c \in Workers, FinalizePayout(c) PROVE IInv'
  BY <1>13 DEF FinalizePayout, Covered
<1>14. ASSUME NEW c \in Workers, ReversePayout(c) PROVE IInv'
  BY <1>14 DEF ReversePayout, Covered
<1>15. ASSUME NEW c \in Workers, SettleFails(c) PROVE IInv'
  BY <1>15 DEF SettleFails, Covered
<1>16. ASSUME NEW c \in Workers, Reopen(c) PROVE IInv'
  BY <1>16 DEF Reopen
<1>17. ASSUME NEW c \in Workers, Die(c) PROVE IInv'
  BY <1>17 DEF Die
<1>18. ASSUME NEW c \in Calls, NEW p \in Payouts, Approve(c, p) PROVE IInv'
  BY <1>18 DEF Approve, MayAct
<1>19. ASSUME NEW c \in Calls, NEW p \in Payouts, MarkPaid(c, p) PROVE IInv'
  BY <1>19 DEF MarkPaid, MayAct, MayMarkPaid
<1>20. ASSUME NEW c \in Calls, NEW p \in Payouts, MarkFailed(c, p) PROVE IInv'
  BY <1>20 DEF MarkFailed, MayAct, MayMarkFailed
<1>21. ASSUME NEW c \in Calls, NEW p \in Payouts, CancelByDriver(c, p) PROVE IInv'
  BY <1>21 DEF CancelByDriver, MayAct
<1>22. ASSUME NEW p \in Payouts, ReleaseDue(p) PROVE IInv'
  BY <1>22 DEF ReleaseDue, Due
<1>23. ASSUME NEW p \in Payouts, MarkProcessing(p) PROVE IInv'
  BY <1>23 DEF MarkProcessing
<1>24. ASSUME NEW p \in Payouts, ProviderDecides(p) PROVE IInv'
  BY <1>24 DEF ProviderDecides
<1>25. ASSUME NEW c \in Calls, NEW p \in Payouts, NEW d \in Destination \ {"none"}, Request(c, p, d) PROVE IInv'
  BY <1>25 DEF Request
<1>26. CASE UNCHANGED vars
  BY <1>26 DEF vars
<1>27. QED
  BY <1>1, <1>2, <1>3, <1>4, <1>5, <1>6, <1>7, <1>8, <1>9, <1>10, <1>11, <1>12, <1>13, <1>14, <1>15, <1>16, <1>17, <1>18, <1>19, <1>20, <1>21, <1>22, <1>23, <1>24, <1>25, <1>26 DEF Next, Start, Continue

LEMMA SpecIInv == Spec => []IInv
BY InitIInv, NextIInv, PTL DEF Spec

\* Every variable keeps its type: the two balances of the wallet never go
\* below zero whatever the interleaving and the faults.
THEOREM TypeCorrect == Spec => []TypeOK
<1>1. IInv => TypeOK
  BY DEF IInv
<1> QED
  BY <1>1, SpecIInv, PTL

\* Money counted out belongs to a PAID payout and money given back to a failed
\* or cancelled one, for any number of payouts, calls and faults.
THEOREM StatusAgreesWithRow == Spec => []StatusMatchesRow
<1>1. IInv => StatusMatchesRow
  BY DEF IInv
<1> QED
  BY <1>1, SpecIInv, PTL

\* A payout whose row is settled is never written again: the claim of closeAs*
\* finds it closed, request()'s catch block runs only where nothing was
\* reserved, and a reopening call always holds an unsettled payout.
THEOREM SettledStaysFinal == Spec => SettledIsFinal
<1> DEFINE Final == \A p \in Payouts : row[p] \in {"COMPLETED", "REVERSED"} =>
                       status'[p] = status[p] /\ row'[p] = row[p]
<1>1. IInv /\ [Next]_vars => [Final]_vars
  <2> SUFFICES ASSUME IInv, Next PROVE Final
    OBVIOUS
  <2> USE DEF IInv, TypeOK, CallsOK, AbsentHasNoRow, OneRequest, HeldIsUnsettled,
        StatusMatchesRow, Holds, Requesting, At, P, Open, Closed, payoutVars, walletVars, Begin
  <2>1. ASSUME NEW c \in Workers, Continue(c) \/ Die(c) PROVE Final
    BY ZenonT(30), <2>1 DEF Continue, Die, ReserveForPayout, ReservationRefused, UndoRequest, KeepForStaff,
       ScheduleRelease, SendAutomatically, HandOver, ClaimToSend, DisburseAnswered,
       DisburseUnknown, ReadToClose, ClaimOpenPayout, FinalizePayout, ReversePayout,
       SettleFails, Reopen
  <2>2. ASSUME NEW c \in Calls, NEW p \in Payouts, Start(c, p) PROVE Final
    BY <2>2 DEF Start, Request, Approve, MarkPaid, MarkFailed, CancelByDriver, Workers
  <2>3. ASSUME NEW p \in Payouts, ReleaseDue(p) \/ MarkProcessing(p) \/ ProviderDecides(p)
        PROVE Final
    BY <2>3 DEF ReleaseDue, MarkProcessing, ProviderDecides
  <2> QED
    BY <2>1, <2>2, <2>3 DEF Next
<1> QED
  BY <1>1, SpecIInv, PTL DEF SettledIsFinal, Spec

\* Settling one row moves one phase.
LEMMA PhaseStep ==
    ASSUME NEW q \in Payouts, NEW s \in RowStatus, row \in [Payouts -> RowStatus],
           row' = [row EXCEPT ![q] = s]
    PROVE  [p \in Payouts |-> Phase(p)]' =
             [[p \in Payouts |-> Phase(p)] EXCEPT ![q] = PhaseOf[s]]
BY DEF Phase

\* The wallet operations of the payouts implement the escrow: an amount is set
\* aside at most once, from a balance that covers it, and leaves or comes back
\* exactly once; every other step of every handler is invisible to the wallet.
THEOREM PayoutsImplementEscrow == Spec => ImplementsEscrow
<1>1. Init => E!Init
  BY DEF Init, E!Init, Phase, PhaseOf
<1>2. IInv /\ [Next]_vars => [E!Next]_(E!evars)
  <2> SUFFICES ASSUME IInv, [Next]_vars PROVE E!Next \/ UNCHANGED E!evars
    OBVIOUS
  <2>1. CASE UNCHANGED walletVars
    BY <2>1 DEF walletVars, E!evars, Phase
  <2>2. ASSUME NEW c \in Workers, ReserveForPayout(c) PROVE E!Next
    <3>1. P(c) \in Payouts /\ row[P(c)] = "NONE"
      BY <2>2 DEF ReserveForPayout, IInv, CallsOK, At, P, OneRequest, Requesting
    <3>2. row' = [row EXCEPT ![P(c)] = "PENDING"]
      BY <2>2, <3>1 DEF ReserveForPayout, At
    <3>3. E!Hold(P(c))
      <4>1. [p \in Payouts |-> Phase(p)]' = [[p \in Payouts |-> Phase(p)] EXCEPT ![P(c)] = "held"]
        BY <3>1, <3>2, PhaseStep, PhaseOf["PENDING"] = "held" DEF IInv, TypeOK, RowStatus, PhaseOf
      <4>2. [p \in Payouts |-> Phase(p)][P(c)] = "free"
        BY <3>1 DEF Phase, PhaseOf
      <4> QED
        BY <2>2, <3>1, <4>1, <4>2 DEF ReserveForPayout, E!Hold
    <3> QED
      BY <3>1, <3>3, Zenon DEF E!Next
  <2>3. ASSUME NEW c \in Workers, FinalizePayout(c), ~UNCHANGED walletVars PROVE E!Next
    <3>1. P(c) \in Payouts /\ row[P(c)] = "PENDING"
      BY <2>3 DEF FinalizePayout, IInv, CallsOK, At, P
    <3>2. row' = [row EXCEPT ![P(c)] = "COMPLETED"]
      BY <2>3, <3>1 DEF FinalizePayout, At
    <3>3. E!Pay(P(c))
      <4>1. [p \in Payouts |-> Phase(p)]' = [[p \in Payouts |-> Phase(p)] EXCEPT ![P(c)] = "paid"]
        BY <3>1, <3>2, PhaseStep, PhaseOf["COMPLETED"] = "paid" DEF IInv, TypeOK, RowStatus, PhaseOf
      <4>2. [p \in Payouts |-> Phase(p)][P(c)] = "held"
        BY <3>1 DEF Phase, PhaseOf
      <4> QED
        BY <2>3, <3>1, <4>1, <4>2 DEF FinalizePayout, E!Pay
    <3> QED
      BY <3>1, <3>3, Zenon DEF E!Next
  <2>4. ASSUME NEW c \in Workers, ReversePayout(c), ~UNCHANGED walletVars PROVE E!Next
    <3>1. P(c) \in Payouts /\ row[P(c)] = "PENDING"
      BY <2>4 DEF ReversePayout, IInv, CallsOK, At, P
    <3>2. row' = [row EXCEPT ![P(c)] = "REVERSED"]
      BY <2>4, <3>1 DEF ReversePayout, At
    <3>3. E!GiveBack(P(c))
      <4>1. [p \in Payouts |-> Phase(p)]' = [[p \in Payouts |-> Phase(p)] EXCEPT ![P(c)] = "returned"]
        BY <3>1, <3>2, PhaseStep, PhaseOf["REVERSED"] = "returned" DEF IInv, TypeOK, RowStatus, PhaseOf
      <4>2. [p \in Payouts |-> Phase(p)][P(c)] = "held"
        BY <3>1 DEF Phase, PhaseOf
      <4> QED
        BY <2>4, <3>1, <4>1, <4>2 DEF ReversePayout, E!GiveBack
    <3> QED
      BY <3>1, <3>3, Zenon DEF E!Next
  <2>5. ASSUME NEW c \in Workers, Continue(c) \/ Die(c), ~UNCHANGED walletVars
        PROVE ReserveForPayout(c) \/ FinalizePayout(c) \/ ReversePayout(c)
    BY <2>5 DEF Continue, Die, ReservationRefused, UndoRequest, KeepForStaff, ScheduleRelease,
       SendAutomatically, HandOver, ClaimToSend, DisburseAnswered, DisburseUnknown,
       ReadToClose, ClaimOpenPayout, SettleFails, Reopen
  <2>6. ASSUME NEW c \in Calls, NEW p \in Payouts, Start(c, p) PROVE UNCHANGED walletVars
    BY <2>6 DEF Start, Request, Approve, MarkPaid, MarkFailed, CancelByDriver
  <2>7. ASSUME NEW p \in Payouts, ReleaseDue(p) \/ MarkProcessing(p) \/ ProviderDecides(p)
        PROVE UNCHANGED walletVars
    BY <2>7 DEF ReleaseDue, MarkProcessing, ProviderDecides
  <2>8. CASE UNCHANGED vars
    BY <2>1, <2>8 DEF vars
  <2> QED
    BY <2>1, <2>2, <2>3, <2>4, <2>5, <2>6, <2>7, <2>8 DEF Next
<1> QED
  BY <1>1, <1>2, SpecIInv, PTL DEF Spec, ImplementsEscrow, E!Spec

-----------------------------------------------------------------------------
(***************************************************************************)
(* What holds of Payouts when nobody outside acts on a withdrawal before   *)
(* request() has reserved its funds (~TouchUnreserved) and, for the second *)
(* half, when the staff follows its procedure: closes what may have been   *)
(* sent after checking with the provider, refuses a waiting withdrawal     *)
(* only for want of a number.  For any number of payouts and calls.        *)
(*                                                                         *)
(* The invariant of Payouts_proofs leaves an exception, a payout without   *)
(* money whose status two calls may write.  It is gone here (Quiet), so    *)
(* that who closes a payout owns its status (Owners).  What has been sent  *)
(* then never waits again (NeverBack), hence is sent by one call and never *)
(* given back.                                                             *)
(***************************************************************************)

Careful == ~TouchUnreserved
Procedure == ~TouchUnreserved /\ StaffPolicy = "procedure"

Sends(c)   == call[c].at \in {"disburse", "read"}
Closes(c)  == call[c].at \in {"claim", "settle", "reopen"} /\ call[c].next # "CANCELLED"
Cancels(c) == Holds(c) /\ call[c].next = "CANCELLED"
\* The call found the payout sent.
Late(c) == Sends(c) \/ (Closes(c) /\ call[c].seen # "REQUESTED")

\* request() is alone with its payout until the funds are reserved.
Quiet ==
    \A c \in Workers : Requesting(c) =>
        /\ status[P(c)] = "REQUESTED" /\ ~autoReleaseAt[P(c)]
        /\ \A d \in Workers : ~At(d, "idle") /\ P(d) = P(c) => d = c

FreshIsNotDue == \A p \in Payouts : status[p] = "ABSENT" => ~autoReleaseAt[p]

\* Who closes a payout is the only one to, and the status is his.
Owners ==
    \A c \in Workers : Holds(c) =>
        /\ status[P(c)] = call[c].next
        /\ \A d \in Workers : Holds(d) /\ P(d) = P(c) => d = c

Care == Quiet /\ FreshIsNotDue /\ Owners
CareInv == IInv /\ Care

-----------------------------------------------------------------------------
\* The invariant holds at first.
LEMMA InitCare == Init => CareInv
  BY InitIInv DEF Init, CareInv, Care, Quiet, FreshIsNotDue, Owners, Requesting, Holds, Idle

\* No step breaks it.
LEMMA NextCare == Careful /\ CareInv /\ [Next]_vars => CareInv'
<1> SUFFICES ASSUME Careful, CareInv, [Next]_vars PROVE Care'
  BY NextIInv DEF CareInv
<1> USE PayoutsAssumption DEF CareInv, Care, IInv, TypeOK, CallsOK, Quiet, FreshIsNotDue, Owners,
   Careful, Holds, Requesting, At, P, Idle, GoTo, Return, CallState, Open, Closed, Begin,
   payoutVars, walletVars, faultVars, Workers, MayAct, BeingRequested
<1>1. ASSUME NEW c \in Workers, ReserveForPayout(c) PROVE Care'
  BY <1>1 DEF ReserveForPayout
<1>2. ASSUME NEW c \in Workers, ReservationRefused(c) PROVE Care'
  BY <1>2 DEF ReservationRefused
<1>3. ASSUME NEW c \in Workers, UndoRequest(c) PROVE Care'
  BY <1>3 DEF UndoRequest
<1>4. ASSUME NEW c \in Workers, KeepForStaff(c) PROVE Care'
  BY <1>4 DEF KeepForStaff
<1>5. ASSUME NEW c \in Workers, ScheduleRelease(c) PROVE Care'
  BY <1>5 DEF ScheduleRelease
<1>6. ASSUME NEW c \in Workers, SendAutomatically(c) PROVE Care'
  BY <1>6 DEF SendAutomatically
<1>7. ASSUME NEW c \in Workers, HandOver(c) PROVE Care'
  BY <1>7 DEF HandOver
<1>8. ASSUME NEW c \in Workers, ClaimToSend(c) PROVE Care'
  BY <1>8 DEF ClaimToSend
<1>9. ASSUME NEW c \in Workers, DisburseAnswered(c) PROVE Care'
  BY <1>9 DEF DisburseAnswered
<1>10. ASSUME NEW c \in Workers, DisburseUnknown(c) PROVE Care'
  BY <1>10 DEF DisburseUnknown
<1>11. ASSUME NEW c \in Workers, ReadToClose(c) PROVE Care'
  <2>1. Quiet'
    BY SMTT(30), <1>11 DEF ReadToClose
  <2>2. FreshIsNotDue'
    BY <1>11 DEF ReadToClose
  <2>3. Owners'
    BY SMTT(30), <1>11 DEF ReadToClose
  <2> QED
    BY <2>1, <2>2, <2>3
<1>12. ASSUME NEW c \in Workers, ClaimOpenPayout(c) PROVE Care'
  BY <1>12 DEF ClaimOpenPayout
<1>13. ASSUME NEW c \in Workers, FinalizePayout(c) PROVE Care'
  BY <1>13 DEF FinalizePayout
<1>14. ASSUME NEW c \in Workers, ReversePayout(c) PROVE Care'
  BY <1>14 DEF ReversePayout
<1>15. ASSUME NEW c \in Workers, SettleFails(c) PROVE Care'
  BY <1>15 DEF SettleFails
<1>16. ASSUME NEW c \in Workers, Reopen(c) PROVE Care'
  BY <1>16 DEF Reopen
<1>17. ASSUME NEW c \in Workers, Die(c) PROVE Care'
  BY <1>17 DEF Die
<1>18. ASSUME NEW c \in Calls, NEW p \in Payouts, Approve(c, p) PROVE Care'
  BY <1>18 DEF Approve
<1>19. ASSUME NEW c \in Calls, NEW p \in Payouts, MarkPaid(c, p) PROVE Care'
  BY <1>19 DEF MarkPaid, MayMarkPaid
<1>20. ASSUME NEW c \in Calls, NEW p \in Payouts, MarkFailed(c, p) PROVE Care'
  BY <1>20 DEF MarkFailed, MayMarkFailed
<1>21. ASSUME NEW c \in Calls, NEW p \in Payouts, CancelByDriver(c, p) PROVE Care'
  BY <1>21 DEF CancelByDriver
<1>22. ASSUME NEW p \in Payouts, ReleaseDue(p) PROVE Care'
  BY <1>22 DEF ReleaseDue, Due
<1>23. ASSUME NEW p \in Payouts, MarkProcessing(p) PROVE Care'
  BY <1>23 DEF MarkProcessing
<1>24. ASSUME NEW p \in Payouts, ProviderDecides(p) PROVE Care'
  BY <1>24 DEF ProviderDecides
<1>25. ASSUME NEW c \in Calls, NEW p \in Payouts, NEW d \in Destination \ {"none"}, Request(c, p, d) PROVE Care'
  BY <1>25 DEF Request
<1>26. CASE UNCHANGED vars
  BY <1>26 DEF vars
<1> QED
  BY <1>1, <1>2, <1>3, <1>4, <1>5, <1>6, <1>7, <1>8, <1>9, <1>10, <1>11, <1>12, <1>13, <1>14,
     <1>15, <1>16, <1>17, <1>18, <1>19, <1>20, <1>21, <1>22, <1>23, <1>24, <1>25, <1>26
     DEF Next, Start, Continue

-----------------------------------------------------------------------------
(* What has been sent is never given back                                   *)

Untouched ==
    \A p \in Payouts :
        /\ autoReleaseAt[p] => destination[p] # "missing"
        /\ status[p] \in {"ABSENT", "REQUESTED"} => provider[p] = "none"
        /\ destination[p] = "missing" => provider[p] = "none"

\* Only what has a number is sent, and only what has none is refused while it waits.
Numbered ==
    \A c \in Workers :
        /\ call[c].at \in {"send", "disburse", "read"} => destination[P(c)] # "missing"
        /\ Closes(c) /\ call[c].seen = "REQUESTED" => destination[P(c)] = "missing"
        /\ call[c].at \in {"read", "claim"} => call[c].next # "CANCELLED"

\* A payout with a number that was found sent does not wait again.
NeverBack ==
    \A c \in Workers : Late(c) /\ destination[P(c)] # "missing" =>
        /\ status[P(c)] # "REQUESTED"
        /\ \A d \in Workers : Cancels(d) => P(d) # P(c)

Alone == \A c, d \in Workers : Sends(c) /\ Sends(d) /\ P(c) = P(d) => c = d

\* The provider will not pay p: it refused, or was never asked and nobody is asking.
Refusable(p) ==
    /\ provider[p] \in {"none", "refused"}
    /\ \A d \in Workers : At(d, "disburse") => P(d) # p

\* Who gives money back has made sure of that, and so it stays.
Refused ==
    \A c \in Workers :
        /\ (At(c, "read") \/ Closes(c)) /\ call[c].next = "FAILED" => Refusable(P(c))
        /\ Cancels(c) => Refusable(P(c)) /\ provider[P(c)] = "none"

Returned == \A p \in Payouts : row[p] = "REVERSED" => Refusable(p)

Sent == Untouched /\ Numbered /\ NeverBack /\ Alone /\ Refused /\ Returned

\* It holds at first.
LEMMA InitSent == Init => Sent
  BY DEF Init, Sent, Untouched, Numbered, NeverBack, Alone, Refused, Returned, Refusable,
     Sends, Closes, Cancels, Late, Holds, At, Idle

\* closeAs* reads the payout before it claims it: what the call knows stays as it was.
ReadsOn(c) ==
    /\ At(c, "read") /\ call'[c].at = "claim"
    /\ P(c)' = P(c) /\ call'[c].next = call[c].next
    /\ call'[c].seen = status[P(c)] /\ P(c) \in Payouts
    /\ \A d \in Workers \ {c} : call'[d] = call[d]
    /\ UNCHANGED <<status, destination, provider, row>>

\* The status it reads is not REQUESTED, for a payout with a number.
LEMMA NumberedStays ==
    ASSUME NEW c \in Workers, ReadsOn(c), Numbered, NeverBack
    PROVE  Numbered'
  BY DEF ReadsOn, Numbered, NeverBack, Late, Sends, Closes, At, P

\* Nothing new is found sent, nothing new is being cancelled.
LEMMA NeverBackStays ==
    ASSUME NEW c \in Workers, ReadsOn(c), NeverBack
    PROVE  NeverBack'
  <1>1. /\ Late(c) /\ ~Cancels(c)'
        /\ \A d \in Workers \ {c} : (Cancels(d)' <=> Cancels(d)) /\ (Late(d)' <=> Late(d))
    BY DEF ReadsOn, Late, Sends, Closes, Cancels, Holds, At
  <1>2. \A d \in Workers : P(d)' = P(d)
    BY DEF ReadsOn, P
  <1> QED
    BY <1>1, <1>2 DEF ReadsOn, NeverBack

\* What it will do is what it was going to do.
LEMMA RefusedStays ==
    ASSUME NEW c \in Workers, ReadsOn(c), Refused
    PROVE  Refused'
  <1>1. \A p \in Payouts : Refusable(p) => Refusable(p)'
    BY DEF ReadsOn, Refusable, At, P
  <1>2. provider' = provider
    BY DEF ReadsOn
  <1> SUFFICES ASSUME NEW d \in Workers
               PROVE  /\ (At(d, "read") \/ Closes(d))' /\ call'[d].next = "FAILED" => Refusable(P(d))'
                      /\ Cancels(d)' => Refusable(P(d))' /\ provider'[P(d)'] = "none"
    BY Zenon DEF Refused
  <1>3. CASE d = c
    <2>1. At(c, "read") /\ ~Cancels(c)' /\ P(c)' = P(c) /\ call'[c].next = call[c].next
      BY DEF ReadsOn, Cancels, Holds
    <2>2. Refusable(P(c)) => Refusable(P(c))'
      BY <1>1, <2>1 DEF ReadsOn, Refusable
    <2> QED
      BY <1>3, <2>1, <2>2 DEF Refused
  <1>4. CASE d # c
    <2>1. /\ P(d)' = P(d) /\ call'[d].next = call[d].next
          /\ Cancels(d)' <=> Cancels(d)
          /\ (At(d, "read") \/ Closes(d))' <=> At(d, "read") \/ Closes(d)
      BY <1>4 DEF ReadsOn, Cancels, Closes, Holds, At, P
    <2>2. Refusable(P(d)) => Refusable(P(d))'
      BY <1>4 DEF ReadsOn, Refusable, At, P
    <2> QED
      BY <1>2, <2>1, <2>2 DEF Refused
  <1> QED
    BY <1>3, <1>4

\* No step breaks it.
LEMMA NextSent == Procedure /\ CareInv /\ Sent /\ [Next]_vars => Sent'
<1> SUFFICES ASSUME Procedure, CareInv, Sent, [Next]_vars PROVE Sent'
  OBVIOUS
<1> USE PayoutsAssumption DEF CareInv, Care, IInv, TypeOK, CallsOK, Quiet, FreshIsNotDue, Owners,
   StatusMatchesRow, Sent, Untouched, Numbered, NeverBack, Alone, Refused, Returned, Refusable,
   Sends, Closes, Cancels, Late, Procedure, Holds, Requesting, At, P, Idle, GoTo, Return,
   CallState, Open, Closed, Begin, payoutVars, walletVars, faultVars, Workers, MayAct, BeingRequested
<1>1. ASSUME NEW c \in Workers, ReserveForPayout(c) PROVE Sent'
  BY <1>1 DEF ReserveForPayout
<1>2. ASSUME NEW c \in Workers, ReservationRefused(c) PROVE Sent'
  BY <1>2 DEF ReservationRefused
<1>3. ASSUME NEW c \in Workers, UndoRequest(c) PROVE Sent'
  BY <1>3 DEF UndoRequest
<1>4. ASSUME NEW c \in Workers, KeepForStaff(c) PROVE Sent'
  BY <1>4 DEF KeepForStaff
<1>5. ASSUME NEW c \in Workers, ScheduleRelease(c) PROVE Sent'
  BY <1>5 DEF ScheduleRelease
<1>6. ASSUME NEW c \in Workers, SendAutomatically(c) PROVE Sent'
  BY <1>6 DEF SendAutomatically
<1>7. ASSUME NEW c \in Workers, HandOver(c) PROVE Sent'
  BY <1>7 DEF HandOver
<1>8. ASSUME NEW c \in Workers, ClaimToSend(c) PROVE Sent'
  BY SMTT(30), <1>8 DEF ClaimToSend
<1>9. ASSUME NEW c \in Workers, DisburseAnswered(c) PROVE Sent'
  <2> USE <1>9 DEF DisburseAnswered
  <2>0. PICK a \in {"pending", "paid", "refused"} :
           /\ provider' = [provider EXCEPT ![P(c)] = a]
           /\ call' = [call EXCEPT ![c] =
                         IF a = "pending" THEN Idle
                         ELSE [@ EXCEPT !.at = "read",
                                        !.next = IF a = "paid" THEN "PAID" ELSE "FAILED"]]
    <3>1. Answers(P(c)) \subseteq {"pending", "paid", "refused"}
      BY DEF Answers, ProviderState
    <3> QED
      BY <3>1, <1>9, Zenon DEF DisburseAnswered
  <2>1. Untouched'
    BY <2>0
  <2>2. Numbered'
    BY <2>0
  <2>3. NeverBack'
    BY <2>0
  <2>4. Alone'
    BY <2>0
  <2>5. Refused'
    BY <2>0
  <2>6. Returned'
    BY <2>0
  <2> QED
    BY <2>1, <2>2, <2>3, <2>4, <2>5, <2>6
<1>10. ASSUME NEW c \in Workers, DisburseUnknown(c) PROVE Sent'
  <2> USE <1>10 DEF DisburseUnknown
  <2>0. PICK a \in ProviderState :
           /\ provider' = [provider EXCEPT ![P(c)] = a]
           /\ call' = [call EXCEPT ![c] = Idle]
    <3>1. Answers(P(c)) \cup {provider[P(c)]} \subseteq ProviderState
      BY DEF Answers, ProviderState
    <3> QED
      BY <3>1, <1>10, Zenon DEF DisburseUnknown, Return
  <2>1. Untouched'
    BY <2>0
  <2>2. Numbered'
    BY <2>0
  <2>3. NeverBack'
    BY <2>0
  <2>4. Alone'
    BY <2>0
  <2>5. Refused'
    BY <2>0
  <2>6. Returned'
    BY <2>0
  <2> QED
    BY <2>1, <2>2, <2>3, <2>4, <2>5, <2>6
<1>11. ASSUME NEW c \in Workers, ReadToClose(c) PROVE Sent'
  <2>1. ReadsOn(c)
    BY <1>11 DEF ReadToClose, ReadsOn
  <2>2. Untouched' /\ Alone' /\ Returned'
    BY <1>11 DEF ReadToClose
  <2>3. Numbered /\ NeverBack /\ Refused
    OBVIOUS
  <2>4. Numbered' /\ NeverBack' /\ Refused'
    <3> HIDE DEF Numbered, NeverBack, Refused, ReadsOn
    <3> QED
      BY <2>1, <2>3, NumberedStays, NeverBackStays, RefusedStays
  <2> QED
    BY <2>2, <2>4
<1>12. ASSUME NEW c \in Workers, ClaimOpenPayout(c) PROVE Sent'
  BY SMTT(30), <1>12 DEF ClaimOpenPayout
<1>13. ASSUME NEW c \in Workers, FinalizePayout(c) PROVE Sent'
  BY <1>13 DEF FinalizePayout
<1>14. ASSUME NEW c \in Workers, ReversePayout(c) PROVE Sent'
  BY <1>14 DEF ReversePayout
<1>15. ASSUME NEW c \in Workers, SettleFails(c) PROVE Sent'
  BY <1>15 DEF SettleFails
<1>16. ASSUME NEW c \in Workers, Reopen(c) PROVE Sent'
  BY <1>16 DEF Reopen
<1>17. ASSUME NEW c \in Workers, Die(c) PROVE Sent'
  BY <1>17 DEF Die
<1>18. ASSUME NEW c \in Calls, NEW p \in Payouts, Approve(c, p) PROVE Sent'
  BY <1>18 DEF Approve
<1>19. ASSUME NEW c \in Calls, NEW p \in Payouts, MarkPaid(c, p) PROVE Sent'
  BY <1>19 DEF MarkPaid, MayMarkPaid
<1>20. ASSUME NEW c \in Calls, NEW p \in Payouts, MarkFailed(c, p) PROVE Sent'
  BY SMTT(30), <1>20 DEF MarkFailed, MayMarkFailed, Checked
<1>21. ASSUME NEW c \in Calls, NEW p \in Payouts, CancelByDriver(c, p) PROVE Sent'
  BY <1>21 DEF CancelByDriver
<1>22. ASSUME NEW p \in Payouts, ReleaseDue(p) PROVE Sent'
  BY <1>22 DEF ReleaseDue, Due
<1>23. ASSUME NEW p \in Payouts, MarkProcessing(p) PROVE Sent'
  BY <1>23 DEF MarkProcessing
<1>24. ASSUME NEW p \in Payouts, ProviderDecides(p) PROVE Sent'
  BY <1>24 DEF ProviderDecides
<1>25. ASSUME NEW c \in Calls, NEW p \in Payouts, NEW d \in Destination \ {"none"}, Request(c, p, d)
       PROVE  Sent'
  BY <1>25 DEF Request
<1>26. CASE UNCHANGED vars
  BY <1>26 DEF vars
<1> QED
  BY <1>1, <1>2, <1>3, <1>4, <1>5, <1>6, <1>7, <1>8, <1>9, <1>10, <1>11, <1>12, <1>13, <1>14,
     <1>15, <1>16, <1>17, <1>18, <1>19, <1>20, <1>21, <1>22, <1>23, <1>24, <1>25, <1>26
     DEF Next, Start, Continue

-----------------------------------------------------------------------------
(* What is open has its funds reserved                                      *)

\* Who closes a payout has its funds to settle.
HeldIsReserved == \A c \in Workers : Holds(c) => row[P(c)] = "PENDING"

Backed == OpenIsReserved /\ HeldIsReserved

\* It holds at first.
LEMMA InitBacked == Init => Backed
  BY DEF Init, Backed, OpenIsReserved, HeldIsReserved, Holds, Open, Idle

\* No step breaks it, unless a call dies between a withdrawal and its reservation.
LEMMA NextBacked == Careful /\ MaxCrashes = 0 /\ CareInv /\ Backed /\ [Next]_vars => Backed'
<1> SUFFICES ASSUME Careful, MaxCrashes = 0, CareInv, Backed, [Next]_vars PROVE Backed'
  OBVIOUS
<1> USE PayoutsAssumption DEF CareInv, Care, IInv, TypeOK, CallsOK, OneRequest, Quiet, FreshIsNotDue,
   Owners, Backed, OpenIsReserved, HeldIsReserved, Careful, Holds, Requesting, At, P, Idle, GoTo,
   Return, CallState, Status, Open, Closed, Begin, payoutVars, walletVars, faultVars, Workers, MayAct,
   BeingRequested
<1>1. ASSUME NEW c \in Workers, ReserveForPayout(c) PROVE Backed'
  BY <1>1 DEF ReserveForPayout
<1>2. ASSUME NEW c \in Workers, ReservationRefused(c) PROVE Backed'
  BY <1>2 DEF ReservationRefused
<1>3. ASSUME NEW c \in Workers, UndoRequest(c) PROVE Backed'
  BY <1>3 DEF UndoRequest
<1>4. ASSUME NEW c \in Workers, KeepForStaff(c) PROVE Backed'
  BY <1>4 DEF KeepForStaff
<1>5. ASSUME NEW c \in Workers, ScheduleRelease(c) PROVE Backed'
  BY <1>5 DEF ScheduleRelease
<1>6. ASSUME NEW c \in Workers, SendAutomatically(c) PROVE Backed'
  BY <1>6 DEF SendAutomatically
<1>7. ASSUME NEW c \in Workers, HandOver(c) PROVE Backed'
  BY <1>7 DEF HandOver
<1>8. ASSUME NEW c \in Workers, ClaimToSend(c) PROVE Backed'
  BY <1>8 DEF ClaimToSend
<1>9. ASSUME NEW c \in Workers, DisburseAnswered(c) PROVE Backed'
  BY <1>9 DEF DisburseAnswered
<1>10. ASSUME NEW c \in Workers, DisburseUnknown(c) PROVE Backed'
  BY <1>10 DEF DisburseUnknown
<1>11. ASSUME NEW c \in Workers, ReadToClose(c) PROVE Backed'
  BY <1>11 DEF ReadToClose
<1>12. ASSUME NEW c \in Workers, ClaimOpenPayout(c) PROVE Backed'
  BY SMTT(30), <1>12 DEF ClaimOpenPayout
<1>13. ASSUME NEW c \in Workers, FinalizePayout(c) PROVE Backed'
  BY <1>13 DEF FinalizePayout
<1>14. ASSUME NEW c \in Workers, ReversePayout(c) PROVE Backed'
  BY <1>14 DEF ReversePayout
<1>15. ASSUME NEW c \in Workers, SettleFails(c) PROVE Backed'
  BY <1>15 DEF SettleFails
<1>16. ASSUME NEW c \in Workers, Reopen(c) PROVE Backed'
  BY <1>16 DEF Reopen
<1>17. ASSUME NEW c \in Workers, Die(c) PROVE Backed'
  BY <1>17 DEF Die
<1>18. ASSUME NEW c \in Calls, NEW p \in Payouts, Approve(c, p) PROVE Backed'
  BY <1>18 DEF Approve
<1>19. ASSUME NEW c \in Calls, NEW p \in Payouts, MarkPaid(c, p) PROVE Backed'
  BY <1>19 DEF MarkPaid, MayMarkPaid
<1>20. ASSUME NEW c \in Calls, NEW p \in Payouts, MarkFailed(c, p) PROVE Backed'
  BY <1>20 DEF MarkFailed, MayMarkFailed
<1>21. ASSUME NEW c \in Calls, NEW p \in Payouts, CancelByDriver(c, p) PROVE Backed'
  BY <1>21 DEF CancelByDriver
<1>22. ASSUME NEW p \in Payouts, ReleaseDue(p) PROVE Backed'
  BY <1>22 DEF ReleaseDue, Due
<1>23. ASSUME NEW p \in Payouts, MarkProcessing(p) PROVE Backed'
  BY <1>23 DEF MarkProcessing
<1>24. ASSUME NEW p \in Payouts, ProviderDecides(p) PROVE Backed'
  BY <1>24 DEF ProviderDecides
<1>25. ASSUME NEW c \in Calls, NEW p \in Payouts, NEW d \in Destination \ {"none"}, Request(c, p, d)
       PROVE  Backed'
  BY <1>25 DEF Request
<1>26. CASE UNCHANGED vars
  BY <1>26 DEF vars
<1> QED
  BY <1>1, <1>2, <1>3, <1>4, <1>5, <1>6, <1>7, <1>8, <1>9, <1>10, <1>11, <1>12, <1>13, <1>14,
     <1>15, <1>16, <1>17, <1>18, <1>19, <1>20, <1>21, <1>22, <1>23, <1>24, <1>25, <1>26
     DEF Next, Start, Continue

-----------------------------------------------------------------------------
(* What is closed is settled                                                *)
(*                                                                          *)
(* The wallet can always settle a pending row, since pendingBalance is what *)
(* the pending rows add up to: only a failure of the database makes it roll *)
(* back.  After one the closing handler writes back the status it had read; *)
(* that status may be a closed one, read while another call was closing the *)
(* payout, only if that other call failed too.                              *)

\* g gives each set of payouts its weight, the sum of its amounts.
Weighs(g, S) ==
    /\ g \in [SUBSET S -> Nat]
    /\ g[{}] = 0
    /\ \A T \in SUBSET S : \A x \in S \ T : g[T \cup {x}] = g[T] + Amount[x]

\* Every finite set of payouts has weights: otherwise a smallest one has not,
\* but it is got by adding a payout to one that has.
LEMMA WeightsExist ==
    ASSUME IsFiniteSet(Payouts)
    PROVE  \E g : Weighs(g, Payouts)
<1> DEFINE B == {S \in SUBSET Payouts : ~ \E g : Weighs(g, S)}
<1> SUFFICES ASSUME B # {} PROVE FALSE
  OBVIOUS
<1>1. PICK m \in B : \A t \in B : ~ (t \subseteq m /\ t # m)
  <2>1. IsWellFoundedOn(StrictSubsetOrdering(Payouts), SUBSET Payouts)
    BY FS_StrictSubsetOrderingWellFounded, FS_FiniteSubsetsOfFinite
  <2>2. B \in SUBSET SUBSET Payouts
    OBVIOUS
  <2> HIDE DEF B
  <2>3. PICK m \in B : \A t \in B : ~ (<<t, m>> \in StrictSubsetOrdering(Payouts))
    BY <2>1, <2>2, WFMin
  <2> QED
    BY <2>2, <2>3 DEF StrictSubsetOrdering
<1>2. m \in SUBSET Payouts /\ ~ \E g : Weighs(g, m)
  OBVIOUS
<1>3. m # {}
  <2>1. Weighs([T \in SUBSET {} |-> 0], {})
    BY DEF Weighs
  <2> QED
    BY <1>2, <2>1
<1>4. PICK x : x \in m
  BY <1>3
<1>5. PICK g : Weighs(g, m \ {x})
  <2>1. m \ {x} \notin B
    BY <1>1, <1>4
  <2> QED
    BY <1>2, <2>1
<1> DEFINE h == [T \in SUBSET m |-> g[T \ {x}] + IF x \in T THEN Amount[x] ELSE 0]
<1> HIDE DEF B
<1>6. Amount[x] \in Nat
  BY <1>2, <1>4, PayoutsAssumption
<1>7. \A T \in SUBSET m : T \ {x} \in SUBSET (m \ {x}) /\ g[T \ {x}] \in Nat
  BY <1>5 DEF Weighs
<1>8. \A T \in SUBSET m : h[T] = g[T \ {x}] + IF x \in T THEN Amount[x] ELSE 0
  OBVIOUS
<1>9. h \in [SUBSET m -> Nat]
  <2>1. \A T \in SUBSET m : g[T \ {x}] + (IF x \in T THEN Amount[x] ELSE 0) \in Nat
    BY <1>6, <1>7
  <2> QED
    BY <2>1
<1>10. h[{}] = 0
  <2>1. {} \ {x} = {} /\ {} \in SUBSET m /\ x \notin {}
    OBVIOUS
  <2> HIDE DEF h
  <2>2. h[{}] = g[{} \ {x}] + 0
    BY <1>8, <2>1
  <2>3. g[{} \ {x}] = 0
    BY <1>5, <2>1 DEF Weighs
  <2> QED
    BY <2>2, <2>3
<1>11. ASSUME NEW T \in SUBSET m, NEW y \in m \ T PROVE h[T \cup {y}] = h[T] + Amount[y]
  <2> HIDE DEF h
  <2>1. T \cup {y} \in SUBSET m
    OBVIOUS
  <2>2. CASE y = x
    <3>1. (T \cup {y}) \ {x} = T \ {x} /\ x \notin T /\ x \in T \cup {y}
      BY <2>2
    <3>2. h[T \cup {y}] = g[T \ {x}] + Amount[x]
      BY <1>8, <2>1, <3>1
    <3>3. h[T] = g[T \ {x}] + 0
      BY <1>8, <3>1
    <3>4. g[T \ {x}] \in Int /\ Amount[x] \in Int
      BY <1>6, <1>7
    <3> QED
      BY <2>2, <3>2, <3>3, <3>4
  <2>3. CASE y # x
    <3>1. (T \cup {y}) \ {x} = (T \ {x}) \cup {y} /\ y \in (m \ {x}) \ (T \ {x})
      BY <2>3
    <3>2. g[(T \cup {y}) \ {x}] = g[T \ {x}] + Amount[y]
      BY <1>5, <1>7, <3>1 DEF Weighs
    <3> DEFINE own == IF x \in T THEN Amount[x] ELSE 0
    <3>3. h[T \cup {y}] = g[(T \cup {y}) \ {x}] + own
      BY <1>8, <2>1, <2>3
    <3>4. h[T] = g[T \ {x}] + own
      BY <1>8
    <3>5. g[T \ {x}] \in Int /\ own \in Int /\ Amount[y] \in Int
      BY <1>2, <1>6, <1>7, PayoutsAssumption
    <3> HIDE DEF own
    <3> QED
      BY <3>2, <3>3, <3>4, <3>5
  <2> QED
    BY <2>2, <2>3
<1>12. Weighs(h, m)
  <2> HIDE DEF h
  <2> QED
    BY <1>9, <1>10, <1>11 DEF Weighs
<1> QED
  BY <1>2, <1>12

\* The payouts that wait for their settlement; the wallet's pendingBalance is their weight.
Waiting == {p \in Payouts : row[p] = "PENDING"}
PendingIsWeight == \E g : Weighs(g, Payouts) /\ pending = g[Waiting]

\* One payout more, or one less, among those that wait.
LEMMA WeightOfOne ==
    ASSUME NEW g, Weighs(g, Payouts), NEW T \in SUBSET Payouts, NEW p \in Payouts
    PROVE  /\ p \notin T => g[T \cup {p}] = g[T] + Amount[p]
           /\ p \in T => g[T] = g[T \ {p}] + Amount[p] /\ g[T \ {p}] \in Nat
<1>1. p \notin T => g[T \cup {p}] = g[T] + Amount[p]
  BY DEF Weighs
<1>2. ASSUME p \in T PROVE g[T] = g[T \ {p}] + Amount[p] /\ g[T \ {p}] \in Nat
  <2>1. (T \ {p}) \cup {p} = T /\ T \ {p} \in SUBSET Payouts /\ p \in Payouts \ (T \ {p})
    BY <1>2
  <2>2. g[(T \ {p}) \cup {p}] = g[T \ {p}] + Amount[p] /\ g[T \ {p}] \in Nat
    BY <2>1 DEF Weighs
  <2> QED
    BY <2>1, <2>2
<1> QED
  BY <1>1, <1>2

LEMMA InitWeight == IsFiniteSet(Payouts) /\ Init => PendingIsWeight
<1> SUFFICES ASSUME IsFiniteSet(Payouts), Init PROVE PendingIsWeight
  OBVIOUS
<1>1. PICK g : Weighs(g, Payouts)
  BY WeightsExist
<1>2. Waiting = {} /\ pending = 0
  BY DEF Init, Waiting
<1> QED
  BY <1>1, <1>2 DEF PendingIsWeight, Weighs

\* A pending row is covered by the pendingBalance.
LEMMA PendingIsCovered ==
    ASSUME PendingIsWeight, TypeOK, NEW p \in Waiting
    PROVE  pending >= Amount[p]
<1>1. PICK g : Weighs(g, Payouts) /\ pending = g[Waiting]
  BY DEF PendingIsWeight
<1>2. p \in Payouts /\ Waiting \in SUBSET Payouts
  BY DEF Waiting
<1>3. g[Waiting] = g[Waiting \ {p}] + Amount[p] /\ g[Waiting \ {p}] \in Nat
  BY <1>1, <1>2, WeightOfOne
<1>4. Amount[p] \in Nat
  BY <1>2, PayoutsAssumption
<1> QED
  BY <1>1, <1>3, <1>4

\* Every step keeps it: only three touch the wallet.
LEMMA NextWeight == IInv /\ PendingIsWeight /\ [Next]_vars => PendingIsWeight'
<1> SUFFICES ASSUME IInv, PendingIsWeight, [Next]_vars PROVE PendingIsWeight'
  OBVIOUS
<1>1. PICK g : Weighs(g, Payouts) /\ pending = g[Waiting]
  BY DEF PendingIsWeight
<1>2. Waiting \in SUBSET Payouts /\ g[Waiting] \in Nat /\ TypeOK
  BY <1>1 DEF Waiting, Weighs, IInv
<1>3. CASE UNCHANGED walletVars
  <2>1. Waiting' = Waiting /\ pending' = pending
    BY <1>3 DEF Waiting, walletVars
  <2> QED
    BY <1>1, <2>1 DEF PendingIsWeight
<1>4. ASSUME NEW c \in Workers, ReserveForPayout(c) PROVE PendingIsWeight'
  <2>1. P(c) \in Payouts /\ row[P(c)] = "NONE"
    BY <1>4 DEF IInv, CallsOK, OneRequest, Requesting, ReserveForPayout, At, P
  <2>2. Waiting' = Waiting \cup {P(c)} /\ P(c) \notin Waiting
    BY <1>2, <1>4, <2>1 DEF Waiting, ReserveForPayout, TypeOK
  <2>3. pending' = pending + Amount[P(c)]
    BY <1>4 DEF ReserveForPayout
  <2>4. g[Waiting \cup {P(c)}] = g[Waiting] + Amount[P(c)]
    BY <1>1, <1>2, <2>1, <2>2, WeightOfOne
  <2>5. pending' = g[Waiting \cup {P(c)}]
    BY <1>1, <2>3, <2>4
  <2> QED
    BY <1>1, <2>2, <2>5 DEF PendingIsWeight
<1>5. ASSUME NEW c \in Workers, FinalizePayout(c) \/ ReversePayout(c), row[P(c)] = "PENDING"
      PROVE  PendingIsWeight'
  <2>1. P(c) \in Payouts
    BY <1>5 DEF IInv, CallsOK, FinalizePayout, ReversePayout, At, P
  <2>2. Waiting' = Waiting \ {P(c)} /\ P(c) \in Waiting
    BY <1>2, <1>5, <2>1 DEF Waiting, FinalizePayout, ReversePayout, TypeOK
  <2>3. pending' = pending - Amount[P(c)] /\ Amount[P(c)] \in Nat
    BY <1>5, <2>1, PayoutsAssumption DEF FinalizePayout, ReversePayout
  <2>4. g[Waiting] = g[Waiting \ {P(c)}] + Amount[P(c)] /\ g[Waiting \ {P(c)}] \in Nat
    BY <1>1, <1>2, <2>1, <2>2, WeightOfOne
  <2>5. pending' = g[Waiting \ {P(c)}]
    BY <1>1, <2>3, <2>4
  <2> QED
    BY <1>1, <2>2, <2>5 DEF PendingIsWeight
<1>6. ASSUME NEW c \in Workers, FinalizePayout(c) \/ ReversePayout(c), row[P(c)] # "PENDING"
      PROVE  UNCHANGED walletVars
  BY <1>6 DEF FinalizePayout, ReversePayout
<1>7. ASSUME NEW c \in Workers, Continue(c) \/ Die(c), ~UNCHANGED walletVars
      PROVE ReserveForPayout(c) \/ FinalizePayout(c) \/ ReversePayout(c)
  BY <1>7 DEF Continue, Die, ReservationRefused, UndoRequest, KeepForStaff, ScheduleRelease,
     SendAutomatically, HandOver, ClaimToSend, DisburseAnswered, DisburseUnknown,
     ReadToClose, ClaimOpenPayout, SettleFails, Reopen
<1>8. ASSUME NEW c \in Calls, NEW p \in Payouts, Start(c, p) PROVE UNCHANGED walletVars
  BY <1>8 DEF Start, Request, Approve, MarkPaid, MarkFailed, CancelByDriver
<1>9. ASSUME NEW p \in Payouts, ReleaseDue(p) \/ MarkProcessing(p) \/ ProviderDecides(p)
      PROVE UNCHANGED walletVars
  BY <1>9 DEF ReleaseDue, MarkProcessing, ProviderDecides
<1>10. CASE UNCHANGED vars
  BY <1>3, <1>10 DEF vars
<1> QED
  BY <1>3, <1>4, <1>5, <1>6, <1>7, <1>8, <1>9, <1>10 DEF Next

\* After its failure a handler writes back an open status.
ReopensOpen ==
    \A c \in Workers : At(c, "reopen") =>
        dbErrors = 1 /\ (call[c].next # "CANCELLED" => call[c].seen \in Open)

\* Who read a closed status cannot close the payout unless a failure reopened it,
\* and then settles it without a second failure.
StaleIsHarmless ==
    \A c \in Workers : call[c].seen \in Closed =>
        /\ At(c, "settle") /\ call[c].next # "CANCELLED" => dbErrors = 1
        /\ At(c, "claim") =>
             \/ row[P(c)] # "PENDING" \/ dbErrors = 1
             \/ \E d \in Workers : At(d, "settle") /\ P(d) = P(c)

Settled == ClosedIsSettled /\ ReopensOpen /\ StaleIsHarmless

\* It holds at first.
LEMMA InitSettled == Init => Settled
  BY DEF Init, Settled, ClosedIsSettled, ReopensOpen, StaleIsHarmless, Closed, At, Idle

\* A wallet transaction fails for its database alone.
LEMMA AlwaysCovered ==
    ASSUME TypeOK, PendingIsWeight, NEW c \in Workers, P(c) \in Payouts
    PROVE  Covered(c)
  BY PendingIsCovered DEF Covered, Waiting

LEMMA NextSettled ==
    Careful /\ MaxCrashes = 0 /\ MaxDbErrors <= 1 /\ CareInv /\ Backed /\ PendingIsWeight
      /\ Settled /\ [Next]_vars => Settled'
<1> SUFFICES ASSUME Careful, MaxCrashes = 0, MaxDbErrors <= 1, CareInv, Backed, PendingIsWeight,
                    Settled, [Next]_vars
             PROVE  Settled'
  OBVIOUS
<1> USE PayoutsAssumption DEF CareInv, Care, IInv, TypeOK, CallsOK, OneRequest, Quiet,
   AbsentHasNoRow, Owners, Backed, OpenIsReserved, HeldIsReserved, Settled, ClosedIsSettled, ReopensOpen,
   StaleIsHarmless, Careful, Holds, Requesting, At, P, Idle, GoTo, Return, CallState, Status, Open,
   Closed, Begin, payoutVars, walletVars, faultVars, Workers, MayAct, BeingRequested
<1>1. ASSUME NEW c \in Workers, ReserveForPayout(c) PROVE Settled'
  BY <1>1 DEF ReserveForPayout
<1>2. ASSUME NEW c \in Workers, ReservationRefused(c) PROVE Settled'
  BY <1>2 DEF ReservationRefused
<1>3. ASSUME NEW c \in Workers, UndoRequest(c) PROVE Settled'
  BY <1>3 DEF UndoRequest
<1>4. ASSUME NEW c \in Workers, KeepForStaff(c) PROVE Settled'
  BY <1>4 DEF KeepForStaff
<1>5. ASSUME NEW c \in Workers, ScheduleRelease(c) PROVE Settled'
  BY <1>5 DEF ScheduleRelease
<1>6. ASSUME NEW c \in Workers, SendAutomatically(c) PROVE Settled'
  BY <1>6 DEF SendAutomatically
<1>7. ASSUME NEW c \in Workers, HandOver(c) PROVE Settled'
  BY <1>7 DEF HandOver
<1>8. ASSUME NEW c \in Workers, ClaimToSend(c) PROVE Settled'
  <2>1. ClosedIsSettled'
    BY SMTT(30), <1>8 DEF ClaimToSend
  <2>2. ReopensOpen'
    BY SMTT(30), <1>8 DEF ClaimToSend
  <2>3. StaleIsHarmless'
    BY SMTT(30), <1>8 DEF ClaimToSend
  <2> QED
    BY <2>1, <2>2, <2>3
<1>9. ASSUME NEW c \in Workers, DisburseAnswered(c) PROVE Settled'
  BY <1>9 DEF DisburseAnswered
<1>10. ASSUME NEW c \in Workers, DisburseUnknown(c) PROVE Settled'
  BY <1>10 DEF DisburseUnknown
<1>11. ASSUME NEW c \in Workers, ReadToClose(c) PROVE Settled'
  BY <1>11 DEF ReadToClose
<1>12. ASSUME NEW c \in Workers, ClaimOpenPayout(c) PROVE Settled'
  <2>1. ClosedIsSettled'
    BY SMTT(30), <1>12 DEF ClaimOpenPayout
  <2>2. ReopensOpen'
    BY SMTT(30), <1>12 DEF ClaimOpenPayout
  <2>3. StaleIsHarmless'
    BY SMTT(30), <1>12 DEF ClaimOpenPayout
  <2> QED
    BY <2>1, <2>2, <2>3
<1>13. ASSUME NEW c \in Workers, FinalizePayout(c) PROVE Settled'
  BY <1>13 DEF FinalizePayout
<1>14. ASSUME NEW c \in Workers, ReversePayout(c) PROVE Settled'
  BY <1>14 DEF ReversePayout
<1>15. ASSUME NEW c \in Workers, SettleFails(c) PROVE Settled'
  <2>1. Covered(c)
    BY <1>15, AlwaysCovered DEF SettleFails
  <2>2. dbErrors < MaxDbErrors /\ dbErrors' = dbErrors + 1
    BY <1>15, <2>1 DEF SettleFails
  <2>3. dbErrors = 0 /\ dbErrors' = 1
    BY <2>2
  <2> QED
    BY <1>15, <2>3 DEF SettleFails
<1>16. ASSUME NEW c \in Workers, Reopen(c) PROVE Settled'
  BY <1>16 DEF Reopen
<1>17. ASSUME NEW c \in Workers, Die(c) PROVE Settled'
  BY <1>17 DEF Die
<1>18. ASSUME NEW c \in Calls, NEW p \in Payouts, Approve(c, p) PROVE Settled'
  BY <1>18 DEF Approve
<1>19. ASSUME NEW c \in Calls, NEW p \in Payouts, MarkPaid(c, p) PROVE Settled'
  BY <1>19 DEF MarkPaid, MayMarkPaid
<1>20. ASSUME NEW c \in Calls, NEW p \in Payouts, MarkFailed(c, p) PROVE Settled'
  BY <1>20 DEF MarkFailed, MayMarkFailed
<1>21. ASSUME NEW c \in Calls, NEW p \in Payouts, CancelByDriver(c, p) PROVE Settled'
  BY <1>21 DEF CancelByDriver
<1>22. ASSUME NEW p \in Payouts, ReleaseDue(p) PROVE Settled'
  BY <1>22 DEF ReleaseDue, Due
<1>23. ASSUME NEW p \in Payouts, MarkProcessing(p) PROVE Settled'
  BY <1>23 DEF MarkProcessing
<1>24. ASSUME NEW p \in Payouts, ProviderDecides(p) PROVE Settled'
  BY <1>24 DEF ProviderDecides
<1>25. ASSUME NEW c \in Calls, NEW p \in Payouts, NEW d \in Destination \ {"none"}, Request(c, p, d)
       PROVE  Settled'
  BY <1>25 DEF Request
<1>26. CASE UNCHANGED vars
  BY <1>26 DEF vars
<1> QED
  BY <1>1, <1>2, <1>3, <1>4, <1>5, <1>6, <1>7, <1>8, <1>9, <1>10, <1>11, <1>12, <1>13, <1>14,
     <1>15, <1>16, <1>17, <1>18, <1>19, <1>20, <1>21, <1>22, <1>23, <1>24, <1>25, <1>26
     DEF Next, Start, Continue

-----------------------------------------------------------------------------
\* Nobody acts on what is not reserved yet: the invariant holds in every state.
LEMMA SpecCare == Careful => (Spec => []CareInv)
<1> SUFFICES ASSUME Careful PROVE Spec => []CareInv
  OBVIOUS
<1>1. CareInv /\ [Next]_vars => CareInv'
  BY NextCare
<1> QED
  BY InitCare, <1>1, PTL DEF Spec

\* With the procedure, so does what has been sent.
LEMMA SpecSent == Procedure => (Spec => []Sent)
<1> SUFFICES ASSUME Procedure PROVE Spec => []Sent
  OBVIOUS
<1>1. Spec => []CareInv
  BY SpecCare DEF Procedure, Careful
<1>2. CareInv /\ Sent /\ [Next]_vars => Sent'
  BY NextSent
<1> QED
  BY InitSent, <1>1, <1>2, PTL DEF Spec

\* No withdrawal is both sent and given back, for any number of payouts, calls, failures of
\* the wallet and calls that die, provided the staff follows its procedure (MayMarkFailed):
\* markFailed, cancelByDriver and the provider's refusal are the only ways back.
THEOREM SentMoneyIsNotReturned == Procedure => (Spec => []NeverPaidAndReturned)
<1> SUFFICES ASSUME Procedure PROVE Spec => []NeverPaidAndReturned
  OBVIOUS
<1>1. Sent => NeverPaidAndReturned
  BY DEF Sent, Returned, Refusable, NeverPaidAndReturned
<1> QED
  BY <1>1, SpecSent, PTL

\* Under the same conditions one call at a time reaches the provider for a withdrawal
\* (sendToProvider): no reopening makes it waiting, hence sent, again.
THEOREM OneCallSends == Procedure => (Spec => []OneSender)
<1> SUFFICES ASSUME Procedure PROVE Spec => []OneSender
  OBVIOUS
<1>1. Sent => OneSender
  BY DEF Sent, Alone, Sends, OneSender, At
<1> QED
  BY <1>1, SpecSent, PTL

\* A withdrawal that waits or is sent has its funds reserved, whatever the staff closes and
\* however often the wallet fails, as long as no call dies in request().
THEOREM OpenMoneyIsReserved == Careful /\ MaxCrashes = 0 => (Spec => []OpenIsReserved)
<1> SUFFICES ASSUME Careful, MaxCrashes = 0 PROVE Spec => []OpenIsReserved
  OBVIOUS
<1>1. Spec => []CareInv
  BY SpecCare
<1>2. CareInv /\ Backed /\ [Next]_vars => Backed'
  BY NextBacked
<1>3. Backed => OpenIsReserved
  BY DEF Backed
<1> QED
  BY InitBacked, <1>1, <1>2, <1>3, PTL DEF Spec

\* The pendingBalance covers every pending row, in every state, whatever anybody does: neither
\* finalizePayout nor reversePayout is ever refused for want of it (applyDelta).
THEOREM PendingRowsAreCovered ==
    IsFiniteSet(Payouts) =>
        (Spec => [](\A p \in Payouts : row[p] = "PENDING" => pending >= Amount[p]))
<1> SUFFICES ASSUME IsFiniteSet(Payouts)
             PROVE  Spec => [](\A p \in Payouts : row[p] = "PENDING" => pending >= Amount[p])
  OBVIOUS
<1>1. Init => PendingIsWeight
  BY InitWeight
<1>2. IInv /\ PendingIsWeight /\ [Next]_vars => PendingIsWeight'
  BY NextWeight
<1>3. IInv /\ PendingIsWeight => \A p \in Payouts : row[p] = "PENDING" => pending >= Amount[p]
  BY PendingIsCovered DEF Waiting, IInv
<1> QED
  BY <1>1, <1>2, <1>3, SpecIInv, PTL DEF Spec

\* A closed withdrawal leaves nothing reserved once its call is over, whatever the staff closes,
\* as long as no call dies between the claim and the settlement and the wallet's transaction fails
\* at most once: a second failure may write back a closed status (closeAsPaid, closeAsFailed).
THEOREM ClosedLeavesNothingReserved ==
    Careful /\ MaxCrashes = 0 /\ MaxDbErrors <= 1 /\ IsFiniteSet(Payouts) =>
        (Spec => []ClosedIsSettled)
<1> SUFFICES ASSUME Careful, MaxCrashes = 0, MaxDbErrors <= 1, IsFiniteSet(Payouts)
             PROVE  Spec => []ClosedIsSettled
  OBVIOUS
<1>1. Spec => []CareInv
  BY SpecCare
<1>2. CareInv /\ Backed /\ [Next]_vars => Backed'
  BY NextBacked
<1>3. Init => PendingIsWeight
  BY InitWeight
<1>4. CareInv /\ PendingIsWeight /\ [Next]_vars => PendingIsWeight'
  BY NextWeight DEF CareInv
<1>5. CareInv /\ Backed /\ PendingIsWeight /\ Settled /\ [Next]_vars => Settled'
  BY NextSettled
<1>6. Settled => ClosedIsSettled
  BY DEF Settled
<1> QED
  BY InitBacked, InitSettled, <1>1, <1>2, <1>3, <1>4, <1>5, <1>6, PTL DEF Spec
=============================================================================
