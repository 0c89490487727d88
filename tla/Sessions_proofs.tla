--------------------------- MODULE Sessions_proofs ---------------------------
(***************************************************************************)
(* What Sessions.tla claims, for any number of renewals under way.         *)
(*                                                                         *)
(* NotCutForNothing is not inductive: what makes it one says, as long as   *)
(* nothing that may end the session happened, that the server still        *)
(* accepts the token of the phone (PhoneCanGoOn) and where the renewals    *)
(* stand towards the session and the phone (RenewalsFit).                  *)
(***************************************************************************)
EXTENDS Sessions, TLAPS

USE SessionsAssumption

\* A new token is one that nobody holds.
LEMMA FreshIsUnused == ASSUME Unused # {} PROVE Fresh \in Unused
<1>1. \E t \in Tokens : t \in Unused
  BY DEF Unused
<1>q. QED BY <1>1, Zenon DEF Fresh

-----------------------------------------------------------------------------
(* Types.                                                                   *)

\* The types hold in the initial state.
LEMMA TypeInit == ASSUME Init PROVE TypeOK
<1>1. session \in Session
  BY DEF Init, Session
<1>2. Idle \in Request /\ \A r \in Requests : request[r] = Idle
  BY DEF Init, Idle, Request
<1>3. request \in [Requests -> Request]
  BY <1>2 DEF Init
<1>q. QED BY <1>1, <1>2, <1>3 DEF Init, TypeOK, Idle, At

\* No step of the phone breaks a type.
LEMMA TypePhone ==
  ASSUME TypeOK, NEW r \in Requests,
         Refresh(r) \/ Deliver(r) \/ Refused(r) \/ GiveUp \/ LaunchFails \/ Logout
  PROVE  TypeOK'
<1>1. CASE Refresh(r)
  BY <1>1 DEF Refresh, TypeOK, Session, Request, Idle, At
<1>2. CASE Deliver(r)
  BY <1>2 DEF Deliver, TypeOK, Session, Request, Idle, At
<1>3. CASE Refused(r)
  BY <1>3 DEF Refused, TypeOK, Session, Request, Idle, At
<1>4. CASE GiveUp \/ LaunchFails
  BY <1>4 DEF GiveUp, LaunchFails, TypeOK, Session, Request, At
<1>5. CASE Logout
  BY <1>5 DEF Logout, TypeOK, Session, Request, At
<1>q. QED BY <1>1, <1>2, <1>3, <1>4, <1>5

\* No statement of a renewal breaks a type.
LEMMA TypeServe ==
  ASSUME TypeOK, NEW r \in Requests, Serve(r)
  PROVE  TypeOK'
<1>1. CASE Validate(r) \/ CheckUser(r) \/ RotateNothing(r)
  BY <1>1 DEF Validate, CheckUser, RotateNothing, Goes, TypeOK, Session, Request, At
<1>2. CASE RevokeReused(r)
  <2>1. session' \in Session
    BY ZenonT(30), <1>2 DEF RevokeReused, TypeOK, Session
  <2>2. request' \in [Requests -> Request]
    BY <1>2 DEF RevokeReused, Goes, TypeOK, Request
  <2>3. why' \in SUBSET {"ended", "launch", "late", "stray"}
    BY <1>2 DEF RevokeReused, Stray, TypeOK
  <2>4. \A q \in Requests : /\ ~At(q, "idle")' => request'[q].token # None
                            /\ At(q, "answered")' => request'[q].new # None
    BY <1>2 DEF RevokeReused, Goes, TypeOK, Request, At
  <2>q. QED BY <1>2, <2>1, <2>2, <2>3, <2>4 DEF RevokeReused, TypeOK
<1>3. CASE RotateNormal(r)
  <2>1. Fresh \in Unused
    BY <1>3, FreshIsUnused DEF RotateNormal, Answer
  <2>2. Fresh \in Tokens
    BY <2>1 DEF Unused
  <2>3. session' \in Session
    BY <1>3, <2>2 DEF RotateNormal, TypeOK, Session
  <2>4. request' \in [Requests -> Request]
    BY ZenonT(30), <1>3, <2>2 DEF RotateNormal, Answer, TypeOK, Request
  <2>5. \A q \in Requests : /\ ~At(q, "idle")' => request'[q].token # None
                            /\ At(q, "answered")' => request'[q].new # None
    BY <1>3, <2>2 DEF RotateNormal, Answer, TypeOK, Request, At
  <2>q. QED BY <1>3, <2>3, <2>4, <2>5 DEF RotateNormal, TypeOK
<1>4. CASE RotateGrace(r)
  <2>1. Fresh \in Unused
    BY <1>4, FreshIsUnused DEF RotateGrace, Answer
  <2>2. Fresh \in Tokens
    BY <2>1 DEF Unused
  <2>3. session' \in Session /\ session'.hash = Fresh
    BY <1>4, <2>2 DEF RotateGrace, TypeOK, Session
  <2>4. request' \in [Requests -> Request]
    BY ZenonT(30), <1>4, <2>2 DEF RotateGrace, Answer, TypeOK, Request
  <2>5. why' \in SUBSET {"ended", "launch", "late", "stray"}
    BY <1>4 DEF RotateGrace, Stray, TypeOK
  <2>6. \A q \in Requests : /\ ~At(q, "idle")' => request'[q].token # None
                            /\ At(q, "answered")' => request'[q].new # None
    BY <1>4, <2>2 DEF RotateGrace, Answer, TypeOK, Request, At
  <2>q. QED BY <1>4, <2>3, <2>4, <2>5, <2>6 DEF RotateGrace, TypeOK
<1>q. QED BY <1>1, <1>2, <1>3, <1>4 DEF Serve

\* Neither does anything else that happens to the session.
LEMMA TypeRest ==
  ASSUME TypeOK, (\E r \in Requests : Vanish(r)) \/ GraceEnds \/ Expire \/ RevokeAll \/ Suspend
  PROVE  TypeOK'
<1>1. ASSUME NEW r \in Requests, Vanish(r) PROVE TypeOK'
  BY <1>1 DEF Vanish, TypeOK, Session, Request, Idle, At
<1>2. CASE GraceEnds
  BY <1>2 DEF GraceEnds, TypeOK, Session, Request, At
<1>3. CASE Expire \/ RevokeAll \/ Suspend
  BY ZenonT(30), <1>3 DEF Expire, RevokeAll, Suspend, TypeOK, Session, Request, At
<1>q. QED BY <1>1, <1>2, <1>3

\* Every step keeps the types.
LEMMA TypeStep == ASSUME TypeOK, [Next]_vars PROVE TypeOK'
<1>1. CASE UNCHANGED vars
  BY <1>1 DEF vars, TypeOK, Session, Request, At
<1>2. CASE \E r \in Requests : Refresh(r) \/ Deliver(r) \/ Refused(r)
  BY <1>2, TypePhone
<1>3. CASE \E r \in Requests : Serve(r)
  BY <1>3, TypeServe
<1>4. CASE GiveUp \/ LaunchFails \/ Logout
  BY <1>4 DEF GiveUp, LaunchFails, Logout, TypeOK, Session, Request, At
<1>5. CASE (\E r \in Requests : Vanish(r)) \/ GraceEnds \/ Expire \/ RevokeAll \/ Suspend
  BY <1>5, TypeRest
<1>q. QED BY <1>1, <1>2, <1>3, <1>4, <1>5 DEF Next

\* Whatever the number of tokens and renewals, every variable keeps its type.
THEOREM TypeCorrect == Spec => []TypeOK
<1>1. TypeOK /\ [Next]_vars => TypeOK'
  BY TypeStep
<1>q. QED BY TypeInit, <1>1, PTL DEF Spec

-----------------------------------------------------------------------------
(* A revoked session is over.                                               *)

\* Every statement that rotates the token asks for a session that is not revoked.
LEMMA RevokedStep ==
  ASSUME TypeOK, Next, session.revoked
  PROVE  session'.revoked /\ session'.hash = session.hash
<1>1. CASE session' = session
  BY <1>1
<1>2. CASE Logout \/ GraceEnds \/ Expire \/ RevokeAll
  BY <1>2 DEF Logout, GraceEnds, Expire, RevokeAll, TypeOK, Session
<1>3. ASSUME NEW r \in Requests, Serve(r)
      PROVE  session'.revoked /\ session'.hash = session.hash
  BY <1>3 DEF Serve, Validate, RevokeReused, CheckUser, RotateNormal, RotateGrace, RotateNothing,
              TypeOK, Session
<1>q. QED BY <1>1, <1>2, <1>3
          DEF Next, Refresh, Deliver, Refused, Vanish, GiveUp, LaunchFails, Suspend

\* No renewal, validated before the revocation or after, gets a token out of a revoked session.
THEOREM RevokedSessionIsOver == Spec => RevokedIsOver
<1>1. TypeOK /\ [Next]_vars => [session.revoked => session'.revoked /\ session'.hash = session.hash]_vars
  BY RevokedStep
<1>q. QED BY <1>1, TypeCorrect, PTL DEF Spec, RevokedIsOver

-----------------------------------------------------------------------------
(* The phone is not cut off for nothing.                                    *)

\* The server would accept the token of the phone.
PhoneCanGoOn ==
    /\ ~session.revoked /\ ~session.expired /\ ~suspended
    /\ phone # None
    /\ phone = session.hash \/ WithinGrace(phone)

\* The renewal the phone waits for carries its token and is not being refused; its answer is
\* the current token, which nobody but the phone has ever presented.
RenewalsFit ==
    /\ \A r \in Requests : request[r].token = session.hash => phone = session.hash
    /\ waiting # None =>
         /\ request[waiting].token = phone
         /\ request[waiting].at \in {"sent", "user", "rotate", "answered"}
         /\ At(waiting, "answered") => request[waiting].new = session.hash /\ phone # session.hash

Going == why = {} => PhoneCanGoOn /\ RenewalsFit

\* Going holds when the session is opened.
LEMMA GoingInit == Init => Going
  BY DEF Init, Going, PhoneCanGoOn, RenewalsFit, Idle, At

\* What the phone does keeps it.
LEMMA GoingPhone ==
  ASSUME TypeOK, Going, NEW r \in Requests, Refresh(r) \/ Deliver(r) \/ Refused(r) \/ GiveUp
  PROVE  Going'
<1>1. CASE Refresh(r)
  BY <1>1 DEF Refresh, Going, PhoneCanGoOn, RenewalsFit, WithinGrace, TypeOK, Session, Request, Idle, At
<1>2. CASE Deliver(r)
  BY <1>2 DEF Deliver, Going, PhoneCanGoOn, RenewalsFit, WithinGrace, TypeOK, Session, Request, Idle, At
<1>3. CASE Refused(r)
  BY <1>3 DEF Refused, Going, PhoneCanGoOn, RenewalsFit, WithinGrace, TypeOK, Session, Request, Idle, At
<1>4. CASE GiveUp
  BY <1>4 DEF GiveUp, Going, PhoneCanGoOn, RenewalsFit, WithinGrace, At
<1>q. QED BY <1>1, <1>2, <1>3, <1>4

\* A renewal that reads, or finds nothing to rotate, is not the one that carries the token of a
\* phone in order.
LEMMA GoingReads ==
  ASSUME TypeOK, Going, NEW r \in Requests,
         Validate(r) \/ RevokeReused(r) \/ CheckUser(r) \/ RotateNothing(r)
  PROVE  Going'
<1>1. CASE Validate(r)
  BY <1>1 DEF Validate, Goes, Going, PhoneCanGoOn, RenewalsFit, WithinGrace, TypeOK, Session, Request, At
<1>2. CASE RevokeReused(r)
  BY <1>2 DEF RevokeReused, Goes, Stray, Going, PhoneCanGoOn, RenewalsFit, WithinGrace, TypeOK, Session, Request, At
<1>3. CASE CheckUser(r)
  BY <1>3 DEF CheckUser, Goes, Going, PhoneCanGoOn, RenewalsFit, WithinGrace, TypeOK, Session, Request, At
<1>4. CASE RotateNothing(r)
  BY <1>4 DEF RotateNothing, Goes, Going, PhoneCanGoOn, RenewalsFit, WithinGrace, TypeOK, Session, Request, At
<1>q. QED BY <1>1, <1>2, <1>3, <1>4

\* A rotation makes the token of the phone the previous one, within its grace period.
LEMMA GoingRotates ==
  ASSUME TypeOK, Going, NEW r \in Requests, RotateNormal(r) \/ RotateGrace(r)
  PROVE  Going'
<1>1. Fresh \in Unused
  BY FreshIsUnused DEF RotateNormal, RotateGrace, Answer
<1>2. /\ Fresh \in Tokens /\ Fresh # phone
      /\ \A q \in Requests : request[q].token # Fresh
  BY <1>1 DEF Unused
<1>3. CASE RotateNormal(r)
  BY <1>2, <1>3 DEF RotateNormal, Answer, Going, PhoneCanGoOn, RenewalsFit, WithinGrace, TypeOK, Session, Request, At
<1>4. CASE RotateGrace(r)
  BY <1>2, <1>4 DEF RotateGrace, Answer, Stray, Going, PhoneCanGoOn, RenewalsFit, WithinGrace, TypeOK, Session, Request, At
<1>q. QED BY <1>3, <1>4

\* Everything else keeps it, or is a reason to be cut off.
LEMMA GoingRest ==
  ASSUME TypeOK, Going,
         (\E r \in Requests : Vanish(r)) \/ LaunchFails \/ Logout \/ GraceEnds \/ Expire \/ RevokeAll \/ Suspend
  PROVE  Going'
<1>1. ASSUME NEW r \in Requests, Vanish(r) PROVE Going'
  BY <1>1 DEF Vanish, Going, PhoneCanGoOn, RenewalsFit, WithinGrace, TypeOK, Session, Request, Idle, At
<1>2. CASE GraceEnds
  BY <1>2 DEF GraceEnds, Going, PhoneCanGoOn, RenewalsFit, WithinGrace, TypeOK, Session, At
<1>3. CASE LaunchFails \/ Logout \/ Expire \/ RevokeAll \/ Suspend
  BY <1>3 DEF LaunchFails, Logout, Expire, RevokeAll, Suspend, Going
<1>q. QED BY <1>1, <1>2, <1>3

\* Every step keeps Going.
LEMMA GoingStep == ASSUME TypeOK, Going, [Next]_vars PROVE Going'
<1>1. CASE UNCHANGED vars
  BY <1>1 DEF vars, Going, PhoneCanGoOn, RenewalsFit, WithinGrace, At
<1>2. CASE \E r \in Requests : Refresh(r) \/ Deliver(r) \/ Refused(r)
  BY <1>2, GoingPhone
<1>3. CASE \E r \in Requests : Serve(r)
  BY <1>3, GoingReads, GoingRotates DEF Serve
<1>4. CASE GiveUp
  BY <1>4 DEF GiveUp, Going, PhoneCanGoOn, RenewalsFit, WithinGrace, At
<1>5. CASE (\E r \in Requests : Vanish(r)) \/ LaunchFails \/ Logout \/ GraceEnds \/ Expire \/ RevokeAll \/ Suspend
  BY <1>5, GoingRest
<1>q. QED BY <1>1, <1>2, <1>3, <1>4, <1>5 DEF Next

\* However often answers are lost and renewals repeated, the phone keeps its session unless it
\* ended, its retry came after the grace period, its launch met an error, or a renewal nobody
\* waits for still had an effect.
THEOREM PhoneNotCutForNothing == Spec => []NotCutForNothing
<1>1. TypeOK /\ Going /\ [Next]_vars => Going'
  BY GoingStep
<1>2. Going => NotCutForNothing
  BY DEF Going, PhoneCanGoOn, NotCutForNothing
<1>q. QED BY GoingInit, TypeCorrect, <1>1, <1>2, PTL DEF Spec
=============================================================================
