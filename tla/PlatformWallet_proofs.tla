------------------------ MODULE PlatformWallet_proofs ------------------------
(***************************************************************************)
(* For any number of withdrawals, requests, currencies and codes.          *)
(*                                                                         *)
(* The lock of a currency is held from the first sum to the commit         *)
(* (Locked): what a request has counted there is not spent by another one  *)
(* (Counted); closing takes no lock, so what is closed as paid between the *)
(* two sums is set apart (missed).  The lock guards salaries too: in one   *)
(* currency always, and altogether while the pay sheet ties a salary to    *)
(* its currency (OneSheet).  A code that let a request through is no       *)
(* longer PENDING and is that request's, then its withdrawal's (CodesUsed).*)
(***************************************************************************)
EXTENDS PlatformWallet, FiniteSetTheorems, SequenceTheorems, TLAPS

Asking == {"expire", "issue"}
Sending == {"disburse", "closePaid", "closeFailed"}
Sends(c) == call[c].at \in Sending

-----------------------------------------------------------------------------
(* Types                                                                    *)

\* What a request carries, by the statement it is at.
LEMMA Carries ==
    ASSUME TypeOK, NEW c \in Calls
    PROVE  /\ call[c] \in Request
           /\ call[c].at \in {"idle", "mail", "read"} \cup Asking \cup Confirming \cup Allowing \cup Sending
           /\ call[c].at = "idle" => call[c] = Idle
           /\ call[c].at \in Asking =>
                call[c] \in [at : Asking, cur : Currencies, amount : Amounts]
           /\ call[c].at = "mail" => call[c] \in [at : {"mail"}, code : 1..MaxCodes]
           /\ call[c].at = "read" =>
                call[c] \in [at : {"read"}, cur : Currencies, amount : Amounts, motif : Motifs]
           /\ call[c].at \in Confirming =>
                call[c] \in [at : Confirming, cur : Currencies, amount : Amounts, motif : Motifs,
                             code : 1..MaxCodes, last : BOOLEAN]
           /\ call[c].at \in Allowing =>
                call[c] \in [at : Allowing, cur : Currencies, amount : Amounts, motif : Motifs,
                             code : 1..MaxCodes, left : Int]
           /\ call[c].at \in Sending => call[c] \in [at : Sending, w : Withdrawals]
  <1>1. call[c] \in Request
    BY DEF TypeOK
  <1> QED
    BY <1>1 DEF Request, Idle, Asking, Confirming, Allowing, Sending

LEMMA CallMoves ==
    ASSUME TypeOK, NEW c \in Calls, NEW r \in Request, call' = [call EXCEPT ![c] = r]
    PROVE  /\ call' \in [Calls -> Request] /\ call'[c] = r
           /\ \A d \in Calls : d # c => call'[d] = call[d]
  BY DEF TypeOK

LEMMA IdleIsARequest == Idle \in Request /\ Idle.at = "idle"
  BY DEF Idle, Request

\* A request goes on to its next statement with what it carries.
LEMMA GoesOn ==
    ASSUME TypeOK, NEW c \in Calls, NEW where, Goes(c, where),
           \/ call[c].at \in Asking /\ where \in Asking
           \/ call[c].at \in Confirming /\ where \in Confirming
           \/ call[c].at \in Allowing /\ where \in Allowing
           \/ call[c].at \in Sending /\ where \in Sending
    PROVE  /\ call' \in [Calls -> Request]
           /\ \A d \in Calls : d # c => call'[d] = call[d]
           /\ call'[c].at = where
           /\ call[c].at \in Asking \cup Confirming \cup Allowing =>
                call'[c].cur = call[c].cur /\ call'[c].amount = call[c].amount
           /\ call[c].at \in Confirming \cup Allowing =>
                call'[c].motif = call[c].motif /\ call'[c].code = call[c].code
           /\ call[c].at \in Confirming => call'[c].last = call[c].last
           /\ call[c].at \in Allowing => call'[c].left = call[c].left
           /\ call[c].at \in Sending => call'[c].w = call[c].w
  <1> DEFINE r == [call[c] EXCEPT !.at = where]
  <1>1. call' = [call EXCEPT ![c] = r]
    BY DEF Goes
  <1>2. CASE call[c].at \in Asking /\ where \in Asking
    <2>1. call[c] \in [at : Asking, cur : Currencies, amount : Amounts]
      BY <1>2, Carries
    <2>2. /\ r \in [at : Asking, cur : Currencies, amount : Amounts]
          /\ r.at = where /\ r.cur = call[c].cur /\ r.amount = call[c].amount
      BY <1>2, <2>1
    <2>3. r \in Request
      BY <2>2 DEF Request, Asking
    <2> QED
      BY <1>1, <1>2, <2>2, <2>3, CallMoves DEF Asking, Confirming, Allowing, Sending
  <1>3. CASE call[c].at \in Confirming /\ where \in Confirming
    <2>1. call[c] \in [at : Confirming, cur : Currencies, amount : Amounts, motif : Motifs,
                       code : 1..MaxCodes, last : BOOLEAN]
      BY <1>3, Carries
    <2>2. /\ r \in [at : Confirming, cur : Currencies, amount : Amounts, motif : Motifs,
                    code : 1..MaxCodes, last : BOOLEAN]
          /\ r.at = where /\ r.cur = call[c].cur /\ r.amount = call[c].amount
          /\ r.motif = call[c].motif /\ r.code = call[c].code
          /\ r.last = call[c].last
      BY <1>3, <2>1
    <2>3. r \in Request
      BY <2>2 DEF Request
    <2> QED
      BY <1>1, <1>3, <2>2, <2>3, CallMoves DEF Asking, Confirming, Allowing, Sending
  <1>4. CASE call[c].at \in Allowing /\ where \in Allowing
    <2>1. call[c] \in [at : Allowing, cur : Currencies, amount : Amounts, motif : Motifs,
                       code : 1..MaxCodes, left : Int]
      BY <1>4, Carries
    <2>2. /\ r \in [at : Allowing, cur : Currencies, amount : Amounts, motif : Motifs,
                    code : 1..MaxCodes, left : Int]
          /\ r.at = where /\ r.cur = call[c].cur /\ r.amount = call[c].amount
          /\ r.motif = call[c].motif /\ r.code = call[c].code /\ r.left = call[c].left
      BY <1>4, <2>1
    <2>3. r \in Request
      BY <2>2 DEF Request
    <2> QED
      BY <1>1, <1>4, <2>2, <2>3, CallMoves DEF Asking, Confirming, Allowing, Sending
  <1>5. CASE call[c].at \in Sending /\ where \in Sending
    <2>1. call[c] \in [at : Sending, w : Withdrawals]
      BY <1>5, Carries
    <2>2. r \in [at : Sending, w : Withdrawals] /\ r.at = where /\ r.w = call[c].w
      BY <1>5, <2>1
    <2>3. r \in Request
      BY <2>2 DEF Request, Sending
    <2> QED
      BY <1>1, <1>5, <2>2, <2>3, CallMoves DEF Asking, Confirming, Allowing, Sending
  <1> QED
    BY <1>2, <1>3, <1>4, <1>5

LEMMA CodesAreASequence ==
    ASSUME TypeOK
    PROVE  /\ Len(codes) \in Nat /\ DOMAIN codes = 1..Len(codes) /\ DOMAIN codes \subseteq 1..MaxCodes
           /\ codes \in [DOMAIN codes -> Code]
           /\ \A k \in DOMAIN codes : codes[k].attempts \in 0..MaxAttempts
  <1>1. codes \in Seq(Code) /\ Len(codes) <= MaxCodes /\ MaxCodes \in Nat
    BY PlatformAssumption DEF TypeOK
  <1>2. Len(codes) \in Nat /\ codes \in [1..Len(codes) -> Code] /\ DOMAIN codes = 1..Len(codes)
    BY <1>1, LenProperties
  <1>3. DOMAIN codes \subseteq 1..MaxCodes
    BY <1>1, <1>2
  <1>4. \A k \in DOMAIN codes : codes[k] \in Code
    BY <1>2
  <1> QED
    BY <1>2, <1>3, <1>4 DEF Code

\* Changing codes in place keeps the sequence.
LEMMA SameLength ==
    ASSUME TypeOK, NEW new \in [DOMAIN codes -> Code]
    PROVE  /\ new \in Seq(Code) /\ Len(new) = Len(codes) /\ DOMAIN new = DOMAIN codes
  <1>1. Len(codes) \in Nat /\ DOMAIN codes = 1..Len(codes)
    BY CodesAreASequence
  <1>2. new \in Seq(Code)
    BY <1>1, SeqDef
  <1>3. Len(new) \in Nat /\ 1..Len(new) = 1..Len(codes)
    BY <1>1, <1>2, LenProperties
  <1>4. Len(new) = Len(codes)
    BY <1>1, <1>3
  <1> QED
    BY <1>2, <1>4

\* No code is lost, changes what it was asked for or becomes PENDING again.
CodesGrow ==
    /\ codes' \in Seq(Code) /\ Len(codes') <= MaxCodes
    /\ DOMAIN codes \subseteq DOMAIN codes'
    /\ \A k \in DOMAIN codes :
          /\ codes'[k].cur = codes[k].cur /\ codes'[k].amount = codes[k].amount
          /\ codes[k].status # "PENDING" => codes'[k].status # "PENDING"

LEMMA CodesStay ==
    ASSUME TypeOK, UNCHANGED codes
    PROVE  CodesGrow
  BY DEF TypeOK, CodesGrow

\* One code changes, not to PENDING.
LEMMA OneCodeChanges ==
    ASSUME TypeOK, NEW k \in DOMAIN codes, NEW row \in Code, codes' = [codes EXCEPT ![k] = row],
           row.cur = codes[k].cur, row.amount = codes[k].amount,
           codes[k].status # "PENDING" => row.status # "PENDING"
    PROVE  CodesGrow /\ DOMAIN codes' = DOMAIN codes /\ codes'[k] = row
  <1>1. codes \in [DOMAIN codes -> Code] /\ Len(codes) <= MaxCodes
    BY CodesAreASequence DEF TypeOK
  <1>2. codes' \in [DOMAIN codes -> Code] /\ \A j \in DOMAIN codes : j # k => codes'[j] = codes[j]
    BY <1>1
  <1>3. codes' \in Seq(Code) /\ Len(codes') <= MaxCodes /\ DOMAIN codes' = DOMAIN codes /\ codes'[k] = row
    BY <1>1, <1>2, SameLength
  <1> QED
    BY <1>2, <1>3 DEF CodesGrow

\* One request moves, nothing but the codes may change besides.
LEMMA RequestMoves ==
    ASSUME TypeOK, CodesGrow, NEW c \in Calls, call' \in [Calls -> Request],
           \A d \in Calls : d # c => call'[d] = call[d],
           call'[c].at \in HasCode => call'[c].code \in DOMAIN codes',
           UNCHANGED <<moneyVars, withdrawal>>, lock' \in [Currencies -> Calls \cup {Free}]
    PROVE  TypeOK'
  <1>1. \A d \in Calls : call'[d].at \in HasCode => call'[d].code \in DOMAIN codes'
    BY DEF TypeOK, CodesGrow
  <1> QED
    BY <1>1 DEF TypeOK, CodesGrow, moneyVars

-----------------------------------------------------------------------------
(* What each part of a request does                                         *)

Asks(c) ==
    \/ \E cur \in Currencies, amount \in Amounts : RequestCode(c, cur, amount)
    \/ ExpireFormer(c) \/ IssueCode(c) \/ MailSent(c) \/ MailFails(c)

\* It leads to a code at most, never to a withdrawal.
AskEffect(c) ==
    /\ CodesGrow /\ call' \in [Calls -> Request]
    /\ \A d \in Calls : d # c => call'[d] = call[d]
    /\ call'[c].at \in {"idle", "mail"} \cup Asking
    /\ call'[c].at = "mail" => call'[c].code \in DOMAIN codes'
    /\ UNCHANGED <<moneyVars, withdrawal, lock>>

LEMMA AskSteps ==
    ASSUME TypeOK, NEW c \in Calls, Asks(c)
    PROVE  AskEffect(c)
  <1>1. ASSUME NEW cur \in Currencies, NEW amount \in Amounts, RequestCode(c, cur, amount)
        PROVE  AskEffect(c)
    <2>1. [at |-> "expire", cur |-> cur, amount |-> amount] \in Request
      BY DEF Request
    <2> QED
      BY <1>1, <2>1, CallMoves, CodesStay DEF RequestCode, Asking, AskEffect
  <1>2. ASSUME ExpireFormer(c) PROVE AskEffect(c)
    <2>1. call[c].at \in Asking
      BY <1>2 DEF ExpireFormer, At, Asking
    <2>2. codes \in [DOMAIN codes -> Code] /\ Len(codes) <= MaxCodes
      BY CodesAreASequence DEF TypeOK
    <2>3. \A k \in DOMAIN codes : Used(k, "EXPIRED") \in Code
      BY <2>2 DEF Used, Code, CodeStatus
    <2>4. codes' \in [DOMAIN codes -> Code]
      BY <1>2, <2>2, <2>3 DEF ExpireFormer
    <2>5. codes' \in Seq(Code) /\ Len(codes') <= MaxCodes /\ DOMAIN codes' = DOMAIN codes
      BY <2>2, <2>4, SameLength
    <2>6. \A k \in DOMAIN codes :
             codes'[k].cur = codes[k].cur /\ codes'[k].amount = codes[k].amount /\ codes'[k].status # "PENDING"
      BY <1>2, <2>2, <2>3 DEF ExpireFormer, Used, Code
    <2>7. CodesGrow
      BY <2>5, <2>6 DEF CodesGrow
    <2> QED
      BY <1>2, <2>1, <2>7, GoesOn DEF ExpireFormer, Asking, AskEffect
  <1>3. ASSUME IssueCode(c) PROVE AskEffect(c)
    <2> DEFINE row == [cur |-> call[c].cur, amount |-> call[c].amount, status |-> "PENDING",
                       valid |-> TRUE, attempts |-> 0]
               r == [at |-> "mail", code |-> Len(codes) + 1]
    <2>1. call[c].at \in Asking
      BY <1>3 DEF IssueCode, At, Asking
    <2>2. call[c].cur \in Currencies /\ call[c].amount \in Amounts
      BY <2>1, Carries
    <2>3. row \in Code
      BY <2>2, PlatformAssumption DEF Code, CodeStatus
    <2>4. codes' = Append(codes, row) /\ Len(codes) < MaxCodes /\ Len(codes) \in Nat /\ codes \in Seq(Code)
      BY <1>3, CodesAreASequence DEF IssueCode, TypeOK
    <2>5. /\ codes' \in Seq(Code) /\ Len(codes') = Len(codes) + 1
          /\ \A k \in 1..Len(codes) : codes'[k] = codes[k]
      BY <2>3, <2>4, AppendProperties
    <2>6. DOMAIN codes = 1..Len(codes) /\ DOMAIN codes' = 1..(Len(codes) + 1)
      BY <2>4, <2>5, CodesAreASequence, LenProperties
    <2>7. CodesGrow /\ Len(codes) + 1 \in DOMAIN codes' /\ Len(codes) + 1 \in 1..MaxCodes
      BY <2>4, <2>5, <2>6, PlatformAssumption DEF CodesGrow
    <2>8. r \in Request /\ r.at = "mail" /\ r.code = Len(codes) + 1
      BY <2>7 DEF Request
    <2> QED
      BY <1>3, <2>7, <2>8, CallMoves DEF IssueCode, Asking, AskEffect
  <1>4. ASSUME MailSent(c) PROVE AskEffect(c)
    BY <1>4, IdleIsARequest, CallMoves, CodesStay DEF MailSent, Return, AskEffect
  <1>5. ASSUME MailFails(c) PROVE AskEffect(c)
    <2> DEFINE k == call[c].code
               row == Used(k, "EXPIRED")
    <2>1. k \in DOMAIN codes /\ codes \in [DOMAIN codes -> Code]
      BY <1>5, CodesAreASequence DEF MailFails, At, TypeOK, HasCode
    <2>2. row \in Code /\ row.cur = codes[k].cur /\ row.amount = codes[k].amount /\ row.status = "EXPIRED"
      BY <2>1 DEF Used, Code, CodeStatus
    <2>3. codes' = [codes EXCEPT ![k] = row]
      BY <1>5 DEF MailFails
    <2>4. CodesGrow
      BY <2>1, <2>2, <2>3, OneCodeChanges
    <2> QED
      BY <1>5, <2>4, IdleIsARequest, CallMoves DEF MailFails, Return, AskEffect
  <1> QED
    BY <1>1, <1>2, <1>3, <1>4, <1>5 DEF Asks

Confirms(c) ==
    \/ \E cur \in Currencies, amount \in Amounts, motif \in Motifs :
          Withdraw(c, cur, amount, motif)
    \/ ReadCode(c) \/ CountAttempt(c) \/ BurnCode(c) \/ UseCode(c)

Same(c) ==
    call'[c].cur = call[c].cur /\ call'[c].amount = call[c].amount /\ call'[c].motif = call[c].motif

\* A request reaches the lock with a code that was PENDING, asked for its currency and amount.
ConfirmEffect(c) ==
    /\ CodesGrow /\ DOMAIN codes' = DOMAIN codes /\ call' \in [Calls -> Request]
    /\ \A d \in Calls : d # c => call'[d] = call[d]
    /\ call'[c].at \in {"idle", "read"} \cup (Confirming \ {"sumPaid"})
    /\ call'[c].at = "read" /\ call'[c].motif # Unpaid => sheet[call'[c].motif] = call'[c].cur
    /\ call'[c].at \in Confirming =>
          /\ Same(c) /\ call'[c].code \in DOMAIN codes
          /\ \/ call[c].at = "read" /\ codes[call'[c].code].cur = call[c].cur
                                    /\ codes[call'[c].code].amount = call[c].amount
             \/ call[c].at \in Confirming /\ call'[c].code = call[c].code
    /\ call'[c].at = "lock" =>
          codes[call'[c].code].status = "PENDING" /\ codes'[call'[c].code].status # "PENDING"
    /\ UNCHANGED <<moneyVars, withdrawal, lock>>

LEMMA ConfirmSteps ==
    ASSUME TypeOK, NEW c \in Calls, Confirms(c)
    PROVE  ConfirmEffect(c)
  <1>1. ASSUME NEW cur \in Currencies, NEW amount \in Amounts, NEW motif \in Motifs,
               Withdraw(c, cur, amount, motif)
        PROVE  ConfirmEffect(c)
    <2> DEFINE r == [at |-> "read", cur |-> cur, amount |-> amount, motif |-> motif]
    <2>1. r \in Request /\ r.at = "read" /\ r.motif = motif /\ r.cur = cur
      BY DEF Request
    <2>2. call' = [call EXCEPT ![c] = r]
      BY <1>1 DEF Withdraw
    <2> QED
      BY <1>1, <2>1, <2>2, CallMoves, CodesStay DEF Withdraw, Confirming, ConfirmEffect
  <1>2. ASSUME ReadCode(c) PROVE ConfirmEffect(c)
    <2>1. CASE Matches(c) = {}
      BY <1>2, <2>1, IdleIsARequest, CallMoves, CodesStay DEF ReadCode, Return, Confirming, ConfirmEffect
    <2>2. CASE Matches(c) # {}
      <3>1. PICK k \in Matches(c) :
               call' = [call EXCEPT ![c] =
                  [at |-> "count", cur |-> @.cur, amount |-> @.amount, motif |-> @.motif,
                   code |-> k, last |-> codes[k].attempts + 1 >= MaxAttempts]]
        BY <1>2, <2>2 DEF ReadCode
      <3> DEFINE r == [at |-> "count", cur |-> call[c].cur, amount |-> call[c].amount, motif |-> call[c].motif,
                       code |-> k, last |-> codes[k].attempts + 1 >= MaxAttempts]
      <3>2. call[c] \in [at : {"read"}, cur : Currencies, amount : Amounts, motif : Motifs]
        BY <1>2, Carries DEF ReadCode, At
      <3>3. k \in DOMAIN codes /\ k \in 1..MaxCodes /\ codes[k].cur = call[c].cur /\ codes[k].amount = call[c].amount
        BY <3>1, CodesAreASequence DEF Matches
      <3>4. (codes[k].attempts + 1 >= MaxAttempts) \in BOOLEAN
        OBVIOUS
      <3>5. /\ r \in [at : Confirming, cur : Currencies, amount : Amounts, motif : Motifs,
                      code : 1..MaxCodes, last : BOOLEAN]
            /\ r.at = "count" /\ r.cur = call[c].cur /\ r.amount = call[c].amount /\ r.motif = call[c].motif
            /\ r.code = k
        BY <3>2, <3>3, <3>4 DEF Confirming
      <3>6. r \in Request
        BY <3>5 DEF Request
      <3>7. call' = [call EXCEPT ![c] = r]
        BY <3>1
      <3>8. call' \in [Calls -> Request] /\ call'[c] = r /\ \A d \in Calls : d # c => call'[d] = call[d]
        BY <3>6, <3>7, CallMoves
      <3> QED
        BY <1>2, <3>2, <3>3, <3>5, <3>8, CodesStay DEF ReadCode, Same, Confirming, ConfirmEffect
    <2> QED
      BY <2>1, <2>2
  <1>3. ASSUME CountAttempt(c) PROVE ConfirmEffect(c)
    <2> DEFINE k == call[c].code
               row == [codes[k] EXCEPT !.attempts = @ + 1]
    <2>1. call[c].at = "count" /\ k \in DOMAIN codes /\ codes \in [DOMAIN codes -> Code] /\ MaxAttempts \in Nat
      BY <1>3, CodesAreASequence, PlatformAssumption DEF CountAttempt, At, TypeOK, HasCode, Confirming
    <2>2. UNCHANGED <<moneyVars, withdrawal, lock>>
      BY <1>3 DEF CountAttempt
    <2>3. CASE codes[k].status = "PENDING" /\ codes[k].attempts < MaxAttempts
      <3>1. row \in Code /\ row.cur = codes[k].cur /\ row.amount = codes[k].amount
        BY <2>1, <2>3 DEF Code
      <3>2. codes' = [codes EXCEPT ![k] = row]
        BY <1>3, <2>3 DEF CountAttempt
      <3>3. CodesGrow /\ DOMAIN codes' = DOMAIN codes
        BY <2>1, <2>3, <3>1, <3>2, OneCodeChanges
      <3>4. Goes(c, "use") \/ Goes(c, "burn") \/ Return(c)
        BY <1>3, <2>3 DEF CountAttempt
      <3>5. CASE Return(c)
        BY <2>2, <3>3, <3>5, IdleIsARequest, CallMoves DEF Return, Confirming, ConfirmEffect
      <3>6. CASE Goes(c, "use") \/ Goes(c, "burn")
        BY <2>1, <2>2, <3>3, <3>6, GoesOn DEF Confirming, Same, ConfirmEffect
      <3> QED
        BY <3>4, <3>5, <3>6
    <2>4. CASE ~(codes[k].status = "PENDING" /\ codes[k].attempts < MaxAttempts)
      <3>1. Goes(c, "burn") /\ UNCHANGED codes
        BY <1>3, <2>4 DEF CountAttempt
      <3> QED
        BY <2>1, <2>2, <3>1, CodesStay, GoesOn DEF Confirming, Same, ConfirmEffect
    <2> QED
      BY <2>3, <2>4
  <1>4. ASSUME BurnCode(c) PROVE ConfirmEffect(c)
    <2> DEFINE k == call[c].code
               row == Used(k, "EXPIRED")
    <2>1. k \in DOMAIN codes /\ codes \in [DOMAIN codes -> Code]
      BY <1>4, CodesAreASequence DEF BurnCode, At, TypeOK, HasCode, Confirming
    <2>2. row \in Code /\ row.cur = codes[k].cur /\ row.amount = codes[k].amount /\ row.status = "EXPIRED"
      BY <2>1 DEF Used, Code, CodeStatus
    <2>3. codes' = [codes EXCEPT ![k] = row] \/ UNCHANGED codes
      BY <1>4 DEF BurnCode
    <2>4. CodesGrow /\ DOMAIN codes' = DOMAIN codes
      BY <2>1, <2>2, <2>3, OneCodeChanges, CodesStay
    <2> QED
      BY <1>4, <2>4, IdleIsARequest, CallMoves DEF BurnCode, Return, Confirming, ConfirmEffect
  <1>5. ASSUME UseCode(c) PROVE ConfirmEffect(c)
    <2> DEFINE k == call[c].code
               row == Used(k, "VERIFIED")
    <2>1. call[c].at = "use" /\ k \in DOMAIN codes /\ codes \in [DOMAIN codes -> Code]
      BY <1>5, CodesAreASequence DEF UseCode, At, TypeOK, HasCode, Confirming
    <2>2. UNCHANGED <<moneyVars, withdrawal, lock>>
      BY <1>5 DEF UseCode
    <2>3. CASE codes[k].status = "PENDING"
      <3>1. row \in Code /\ row.cur = codes[k].cur /\ row.amount = codes[k].amount /\ row.status = "VERIFIED"
        BY <2>1 DEF Used, Code, CodeStatus
      <3>2. codes' = [codes EXCEPT ![k] = row] /\ Goes(c, "lock")
        BY <1>5, <2>3 DEF UseCode
      <3>3. CodesGrow /\ DOMAIN codes' = DOMAIN codes /\ codes'[k] = row
        BY <2>1, <3>1, <3>2, OneCodeChanges
      <3>4. codes'[k].status # "PENDING"
        BY <3>1, <3>3
      <3> HIDE DEF k, row
      <3>5. k = call[c].code
        BY DEF k
      <3> QED
        BY <2>1, <2>2, <2>3, <3>2, <3>3, <3>4, <3>5, GoesOn DEF Confirming, Same, ConfirmEffect
    <2>4. CASE codes[k].status # "PENDING"
      BY <1>5, <2>2, <2>4, IdleIsARequest, CallMoves, CodesStay DEF UseCode, Return, Confirming, ConfirmEffect
    <2> QED
      BY <2>3, <2>4
  <1> QED
    BY <1>1, <1>2, <1>3, <1>4, <1>5 DEF Confirms

LEMMA MoneyIsFinite ==
    ASSUME NEW S \in SUBSET (Withdrawals \X (1..MaxEarned))
    PROVE  IsFiniteSet(S) /\ Cardinality(S) \in Nat
  <1>1. IsFiniteSet(1..MaxEarned)
    BY PlatformAssumption, FS_Interval
  <1>2. IsFiniteSet(Withdrawals \X (1..MaxEarned))
    BY <1>1, PlatformAssumption, FS_Product
  <1> QED
    BY <1>2, FS_Subset, FS_CardinalityType

LEMMA TotalIsNat ==
    \A cur, statuses : /\ Money(cur, statuses) \in SUBSET (Withdrawals \X (1..MaxEarned))
                       /\ Total(cur, statuses) \in Nat
  <1>1. \A cur, statuses : Money(cur, statuses) \in SUBSET (Withdrawals \X (1..MaxEarned))
    BY DEF Money
  <1> QED
    BY <1>1, MoneyIsFinite DEF Total

LEMMA LeaveKeepsType ==
    ASSUME TypeOK, NEW c \in Calls
    PROVE  /\ Leave(c, lock) \in [Currencies -> Calls \cup {Free}]
           /\ \A cur \in Currencies :
                 Leave(c, lock)[cur] = IF lock[cur] = c THEN Free ELSE lock[cur]
  BY DEF TypeOK, Leave

\* A request stops where it is, and leaves its lock.
EndEffect(c) ==
    /\ call' \in [Calls -> Request] /\ \A d \in Calls : d # c => call'[d] = call[d]
    /\ call'[c] = Idle /\ lock' = Leave(c, lock)
    /\ UNCHANGED <<moneyVars, codes, withdrawal>>

\* A request goes on behind the lock.
GoOnEffect(c, from, to) ==
    /\ call' \in [Calls -> Request] /\ \A d \in Calls : d # c => call'[d] = call[d]
    /\ call[c].at = from /\ call'[c].at = to /\ Same(c)
    /\ call'[c].code = call[c].code
    /\ UNCHANGED <<moneyVars, codes, withdrawal>>

TakeLockEffect(c) ==
    /\ GoOnEffect(c, "lock", "sumPaid") /\ call[c].cur \in Currencies
    /\ lock[call[c].cur] = Free /\ lock' = [lock EXCEPT ![call[c].cur] = c]

LEMMA TakeLockStep ==
    ASSUME TypeOK, NEW c \in Calls, TakeLock(c)
    PROVE  TakeLockEffect(c)
  <1>1. call[c].at = "lock" /\ call[c].cur \in Currencies
    BY Carries DEF TakeLock, At, Confirming
  <1> QED
    BY <1>1, GoesOn DEF TakeLock, TakeLockEffect, GoOnEffect, Same, Confirming

SumPaidEffect(c) ==
    /\ GoOnEffect(c, "sumPaid", "sumProcessing") /\ UNCHANGED lock
    /\ call'[c].left = earned[call[c].cur] - Total(call[c].cur, {"PAID"})

LEMMA SumPaidStep ==
    ASSUME TypeOK, NEW c \in Calls, SumPaid(c)
    PROVE  SumPaidEffect(c)
  <1> DEFINE left == earned[call[c].cur] - Total(call[c].cur, {"PAID"})
             r == [at |-> "sumProcessing", cur |-> call[c].cur, amount |-> call[c].amount,
                   motif |-> call[c].motif, code |-> call[c].code, left |-> left]
  <1>1. call[c] \in [at : Confirming, cur : Currencies, amount : Amounts, motif : Motifs,
                     code : 1..MaxCodes, last : BOOLEAN]
    BY Carries DEF SumPaid, At, Confirming
  <1>2. left \in Int
    <2>1. earned[call[c].cur] \in 0..MaxEarned /\ Total(call[c].cur, {"PAID"}) \in Nat
      BY <1>1, TotalIsNat DEF TypeOK
    <2> QED
      BY <2>1
  <1> HIDE DEF left
  <1>3. /\ r \in [at : Allowing, cur : Currencies, amount : Amounts, motif : Motifs,
                  code : 1..MaxCodes, left : Int]
        /\ r.at = "sumProcessing" /\ r.cur = call[c].cur /\ r.amount = call[c].amount
        /\ r.motif = call[c].motif /\ r.code = call[c].code /\ r.left = left
    BY <1>1, <1>2 DEF Allowing
  <1>4. r \in Request
    BY <1>3 DEF Request
  <1>5. call' = [call EXCEPT ![c] = r]
    BY DEF SumPaid, left
  <1>6. call' \in [Calls -> Request] /\ call'[c] = r /\ \A d \in Calls : d # c => call'[d] = call[d]
    BY <1>4, <1>5, CallMoves
  <1>7. call[c].at = "sumPaid" /\ UNCHANGED <<moneyVars, codes, withdrawal, lock>>
    BY DEF SumPaid, At
  <1> QED
    BY <1>3, <1>6, <1>7 DEF SumPaidEffect, GoOnEffect, Same, left

AllowEffect(c) ==
    /\ \/ GoOnEffect(c, "sumProcessing", "salary")
       \/ GoOnEffect(c, "sumProcessing", "create") /\ call[c].motif = Unpaid
    /\ call[c].amount <= call[c].left - Total(call[c].cur, {"PROCESSING"})
    /\ UNCHANGED lock

LEMMA SumProcessingStep ==
    ASSUME TypeOK, NEW c \in Calls, SumProcessing(c)
    PROVE  EndEffect(c) \/ AllowEffect(c)
  <1>1. call[c] \in [at : Allowing, cur : Currencies, amount : Amounts, motif : Motifs,
                     code : 1..MaxCodes, left : Int]
    BY Carries DEF SumProcessing, At, Allowing
  <1> DEFINE available == call[c].left - Total(call[c].cur, {"PROCESSING"})
  <1>2. available \in Int /\ call[c].amount \in Int
    <2>1. Total(call[c].cur, {"PROCESSING"}) \in Nat
      BY TotalIsNat
    <2>2. call[c].left \in Int /\ call[c].amount \in Nat
      BY <1>1, PlatformAssumption
    <2> QED
      BY <2>1, <2>2
  <1>3. call[c].at = "sumProcessing" /\ UNCHANGED <<moneyVars, codes, withdrawal>>
    BY DEF SumProcessing, At
  <1>4. CASE call[c].amount > available
    <2>1. Return(c) /\ lock' = Leave(c, lock)
      BY <1>4 DEF SumProcessing
    <2> QED
      BY <1>3, <2>1, IdleIsARequest, CallMoves DEF Return, EndEffect
  <1>5. CASE ~(call[c].amount > available)
    <2>1. call[c].amount <= available
      BY <1>2, <1>5
    <2>2. UNCHANGED lock /\ \/ Goes(c, "salary")
                            \/ Goes(c, "create") /\ call[c].motif = Unpaid
      BY <1>5 DEF SumProcessing
    <2> QED
      BY <1>3, <2>1, <2>2, GoesOn DEF AllowEffect, GoOnEffect, Same, Allowing
  <1> QED
    BY <1>4, <1>5

SalaryEffect(c) ==
    GoOnEffect(c, "salary", "create") /\ ~SalaryIsOut(call[c].motif) /\ UNCHANGED lock

LEMMA SalaryStep ==
    ASSUME TypeOK, NEW c \in Calls, AssertSalaryNotPaid(c)
    PROVE  EndEffect(c) \/ SalaryEffect(c)
  <1>1. call[c].at = "salary" /\ UNCHANGED <<moneyVars, codes, withdrawal>>
    BY DEF AssertSalaryNotPaid, At
  <1>2. CASE SalaryIsOut(call[c].motif)
    <2>1. Return(c) /\ lock' = Leave(c, lock)
      BY <1>2 DEF AssertSalaryNotPaid
    <2> QED
      BY <1>1, <2>1, IdleIsARequest, CallMoves DEF Return, EndEffect
  <1>3. CASE ~SalaryIsOut(call[c].motif)
    <2>1. UNCHANGED lock /\ Goes(c, "create")
      BY <1>3 DEF AssertSalaryNotPaid
    <2> QED
      BY <1>1, <1>3, <2>1, GoesOn DEF SalaryEffect, GoOnEffect, Same, Allowing
  <1> QED
    BY <1>2, <1>3

CreateEffect(c, w) ==
    /\ call' \in [Calls -> Request] /\ \A d \in Calls : d # c => call'[d] = call[d]
    /\ call[c].at = "create" /\ call[c].cur \in Currencies /\ call[c].amount \in Amounts
    /\ call[c].motif \in Motifs /\ call[c].code \in DOMAIN codes
    /\ \/ manual /\ call'[c] = Idle
       \/ ~manual /\ call'[c].at = "disburse" /\ call'[c].w = w
    /\ withdrawal[w].status = "ABSENT" /\ withdrawal' \in [Withdrawals -> Withdrawal \cup {Absent}]
    /\ withdrawal'[w] \in Withdrawal /\ withdrawal'[w].status = "PROCESSING"
    /\ withdrawal'[w].cur = call[c].cur /\ withdrawal'[w].amount = call[c].amount
    /\ withdrawal'[w].motif = call[c].motif /\ withdrawal'[w].code = call[c].code
    /\ \A v \in Withdrawals : v # w => withdrawal'[v] = withdrawal[v]
    /\ lock' = Leave(c, lock) /\ UNCHANGED <<moneyVars, codes>>

LEMMA CreateStep ==
    ASSUME TypeOK, NEW c \in Calls, NEW w \in Withdrawals, Create(c, w)
    PROVE  CreateEffect(c, w)
  <1> DEFINE row == [status |-> "PROCESSING", cur |-> call[c].cur, amount |-> call[c].amount,
                     motif |-> call[c].motif, code |-> call[c].code]
             sent == [at |-> "disburse", w |-> w]
  <1>1. /\ call[c] \in [at : Allowing, cur : Currencies, amount : Amounts, motif : Motifs,
                        code : 1..MaxCodes, left : Int]
        /\ call[c].code \in DOMAIN codes
    BY Carries DEF Create, At, Allowing, TypeOK, HasCode
  <1>2. /\ row \in Withdrawal /\ row.status = "PROCESSING" /\ row.cur = call[c].cur
        /\ row.amount = call[c].amount /\ row.motif = call[c].motif /\ row.code = call[c].code
    BY <1>1 DEF Withdrawal
  <1>3. sent \in Request /\ sent.at = "disburse" /\ sent.w = w
    BY DEF Request
  <1>4. withdrawal' = [withdrawal EXCEPT ![w] = row] /\ call[c].at = "create" /\ withdrawal[w].status = "ABSENT"
    BY DEF Create, At
  <1>5. /\ withdrawal' \in [Withdrawals -> Withdrawal \cup {Absent}] /\ withdrawal'[w] = row
        /\ \A v \in Withdrawals : v # w => withdrawal'[v] = withdrawal[v]
    BY <1>2, <1>4 DEF TypeOK
  <1>6. CASE manual
    BY <1>1, <1>2, <1>4, <1>5, <1>6, IdleIsARequest, CallMoves DEF Create, CreateEffect
  <1>7. CASE ~manual
    BY <1>1, <1>2, <1>3, <1>4, <1>5, <1>7, CallMoves DEF Create, CreateEffect
  <1> QED
    BY <1>6, <1>7

LEMMA RowIs ==
    ASSUME TypeOK, NEW w \in Withdrawals
    PROVE  /\ withdrawal[w] = Absent <=> withdrawal[w].status = "ABSENT"
           /\ withdrawal[w].status # "ABSENT" => withdrawal[w] \in Withdrawal
           /\ withdrawal[w].status \in {"ABSENT", "PROCESSING", "PAID", "FAILED"}
  BY DEF TypeOK, Withdrawal, Absent

CloseEffect(w, status) ==
    /\ withdrawal' \in [Withdrawals -> Withdrawal \cup {Absent}]
    /\ \A v \in Withdrawals : v # w => withdrawal'[v] = withdrawal[v]
    /\ withdrawal[w].status # "PROCESSING" => UNCHANGED <<withdrawal, missed>>
    /\ withdrawal[w].status = "PROCESSING" =>
          /\ withdrawal'[w] \in Withdrawal /\ withdrawal'[w].status = status
          /\ withdrawal'[w].cur = withdrawal[w].cur /\ withdrawal'[w].amount = withdrawal[w].amount
          /\ withdrawal'[w].motif = withdrawal[w].motif /\ withdrawal'[w].code = withdrawal[w].code
          /\ missed' = IF status = "PAID" /\ BetweenSums(w) THEN missed \cup {w} ELSE missed

LEMMA CloseStep ==
    ASSUME TypeOK, NEW w \in Withdrawals, NEW status \in {"PAID", "FAILED"}, Close(w, status)
    PROVE  CloseEffect(w, status)
  <1>1. CASE withdrawal[w].status = "PROCESSING"
    <2> DEFINE row == [withdrawal[w] EXCEPT !.status = status]
    <2>1. withdrawal[w] \in Withdrawal
      BY <1>1, RowIs
    <2>2. /\ row \in Withdrawal /\ row.status = status /\ row.cur = withdrawal[w].cur
          /\ row.amount = withdrawal[w].amount /\ row.motif = withdrawal[w].motif
          /\ row.code = withdrawal[w].code
      BY <2>1 DEF Withdrawal
    <2>3. withdrawal' = [withdrawal EXCEPT ![w] = row]
      BY <1>1 DEF Close
    <2>4. /\ withdrawal' \in [Withdrawals -> Withdrawal \cup {Absent}] /\ withdrawal'[w] = row
          /\ \A v \in Withdrawals : v # w => withdrawal'[v] = withdrawal[v]
      BY <2>2, <2>3 DEF TypeOK
    <2>5. missed' = IF status = "PAID" /\ BetweenSums(w) THEN missed \cup {w} ELSE missed
      BY <1>1 DEF Close
    <2> HIDE DEF row
    <2> QED
      BY <1>1, <2>2, <2>4, <2>5 DEF CloseEffect
  <1>2. CASE withdrawal[w].status # "PROCESSING"
    BY <1>2 DEF Close, CloseEffect, TypeOK
  <1> QED
    BY <1>1, <1>2

\* The answer of the operator, or none.
DisburseEffect(c, fact) ==
    /\ call' \in [Calls -> Request] /\ \A d \in Calls : d # c => call'[d] = call[d]
    /\ call[c].at = "disburse" /\ call[c].w \in Withdrawals
    /\ \/ call'[c] = Idle
       \/ /\ \/ call'[c].at = "closePaid" /\ fact = "PAID"
             \/ call'[c].at = "closeFailed" /\ fact = "REFUSED"
          /\ call'[c].w = call[c].w
    /\ transfer' = [transfer EXCEPT ![call[c].w] = fact]
    /\ UNCHANGED <<Operated, withdrawal>>

LEMMA DisburseStep ==
    ASSUME TypeOK, NEW c \in Calls, DisburseAnswered(c) \/ DisburseUnknown(c)
    PROVE  \E fact \in {"NONE", "ACCEPTED", "PAID", "REFUSED"} : DisburseEffect(c, fact)
  <1>1. call[c].at = "disburse" /\ call[c].w \in Withdrawals /\ UNCHANGED <<Operated, withdrawal>>
    BY Carries DEF DisburseAnswered, DisburseUnknown, At, Sending
  <1>2. ASSUME Return(c) PROVE /\ call' \in [Calls -> Request] /\ call'[c] = Idle
                               /\ \A d \in Calls : d # c => call'[d] = call[d]
    BY <1>2, IdleIsARequest, CallMoves DEF Return
  <1>3. CASE DisburseUnknown(c)
    BY <1>1, <1>2, <1>3 DEF DisburseUnknown, DisburseEffect
  <1>4. CASE DisburseAnswered(c)
    <2>1. PICK answer \in {"PAID", "REFUSED", "ACCEPTED"} :
             /\ transfer' = [transfer EXCEPT ![call[c].w] = answer]
             /\ CASE answer = "PAID"     -> Goes(c, "closePaid")
                  [] answer = "REFUSED"  -> Goes(c, "closeFailed")
                  [] answer = "ACCEPTED" -> Return(c)
      BY <1>4 DEF DisburseAnswered
    <2>2. CASE answer = "ACCEPTED"
      BY <1>1, <1>2, <2>1, <2>2 DEF DisburseEffect
    <2>3. CASE answer = "PAID"
      BY <1>1, <2>1, <2>3, GoesOn DEF DisburseEffect, Sending
    <2>4. CASE answer = "REFUSED"
      BY <1>1, <2>1, <2>4, GoesOn DEF DisburseEffect, Sending
    <2> QED
      BY <2>2, <2>3, <2>4
  <1> QED
    BY <1>3, <1>4

\* A request that closes what it sent.
CloseByCallEffect(c, status) ==
    /\ call' \in [Calls -> Request] /\ \A d \in Calls : d # c => call'[d] = call[d]
    /\ call[c].at = (IF status = "PAID" THEN "closePaid" ELSE "closeFailed") /\ call'[c] = Idle
    /\ call[c].w \in Withdrawals /\ CloseEffect(call[c].w, status)
    /\ UNCHANGED Beside

LEMMA CloseByCallStep ==
    ASSUME TypeOK, NEW c \in Calls, CloseAsPaid(c) \/ CloseAsFailed(c)
    PROVE  \E status \in {"PAID", "FAILED"} : CloseByCallEffect(c, status)
  <1>1. call[c].w \in Withdrawals /\ UNCHANGED Beside
    BY Carries DEF CloseAsPaid, CloseAsFailed, At, Sending
  <1>2. /\ call' \in [Calls -> Request] /\ call'[c] = Idle
        /\ \A d \in Calls : d # c => call'[d] = call[d]
    BY IdleIsARequest, CallMoves DEF CloseAsPaid, CloseAsFailed, Return
  <1>3. CASE CloseAsPaid(c)
    BY <1>1, <1>2, <1>3, CloseStep DEF CloseAsPaid, At, CloseByCallEffect
  <1>4. CASE CloseAsFailed(c)
    BY <1>1, <1>2, <1>4, CloseStep DEF CloseAsFailed, At, CloseByCallEffect
  <1> QED
    BY <1>3, <1>4

\* What the SuperAdmin closes.
MarkEffect(w, status) ==
    /\ CloseEffect(w, status)
    /\ StaffChecks => IF status = "PAID" THEN transfer[w] = "PAID"
                      ELSE /\ transfer[w] \in {"NONE", "REFUSED"}
                           /\ \A c \in Calls : ~(At(c, "disburse") /\ call[c].w = w)
    /\ UNCHANGED <<Beside, call>>

LEMMA MarkStep ==
    ASSUME TypeOK, NEW w \in Withdrawals, MarkPaid(w) \/ MarkFailed(w)
    PROVE  \E status \in {"PAID", "FAILED"} : MarkEffect(w, status)
  <1>1. CASE MarkPaid(w)
    BY <1>1, CloseStep DEF MarkPaid, MarkEffect
  <1>2. CASE MarkFailed(w)
    BY <1>2, CloseStep DEF MarkFailed, MarkEffect
  <1> QED
    BY <1>1, <1>2

LEMMA DieStep ==
    ASSUME TypeOK, NEW c \in Calls, Die(c)
    PROVE  EndEffect(c)
  BY IdleIsARequest, CallMoves DEF Die, Return, EndEffect

Outside ==
    \/ \E w \in Withdrawals : OperatorDecides(w) \/ TransferByHand(w)
    \/ \E k \in 1..MaxCodes : CodeExpires(k)
    \/ \E cur \in Currencies : Earn(cur) \/ \E salary \in Salaries : EditSheet(salary, cur)

\* The operator, the clock, the services that end and the pay sheets.
OutsideEffect ==
    /\ CodesGrow /\ DOMAIN codes' = DOMAIN codes
    /\ manual' = manual /\ earned' \in [Currencies -> 0..MaxEarned]
    /\ \A cur \in Currencies : earned'[cur] >= earned[cur]
    /\ sheet' \in [Salaries -> Currencies \cup {NoSheet}]
    /\ moved \subseteq moved' /\ moved' \subseteq Salaries
    /\ \A salary \in Salaries : sheet[salary] = NoSheet \/ sheet'[salary] = sheet[salary] \/ salary \in moved'
    /\ transfer' \in [Withdrawals -> {"NONE", "ACCEPTED", "PAID", "REFUSED"}]
    /\ \A w \in Withdrawals :
          \/ transfer'[w] = transfer[w]
          \/ transfer[w] = "ACCEPTED"
          \/ manual /\ transfer[w] = "NONE" /\ withdrawal[w].status = "PROCESSING"
    /\ UNCHANGED <<withdrawal, lock, call, missed>>

LEMMA OutsideStep ==
    ASSUME TypeOK, Outside
    PROVE  OutsideEffect
  <1> USE DEF OutsideEffect
  <1>1. \A cur \in Currencies : earned[cur] \in Nat /\ earned[cur] >= earned[cur]
    BY PlatformAssumption DEF TypeOK
  <1>2. ASSUME NEW w \in Withdrawals, OperatorDecides(w) PROVE OutsideEffect
    BY <1>1, <1>2, CodesStay DEF OperatorDecides, Operated, TypeOK
  <1>3. ASSUME NEW w \in Withdrawals, TransferByHand(w) PROVE OutsideEffect
    BY <1>1, <1>3, CodesStay DEF TransferByHand, Operated, TypeOK
  <1>4. ASSUME NEW k \in 1..MaxCodes, CodeExpires(k) PROVE OutsideEffect
    <2> DEFINE row == [codes[k] EXCEPT !.valid = FALSE]
    <2>1. k \in DOMAIN codes /\ codes \in [DOMAIN codes -> Code]
      BY <1>4, CodesAreASequence DEF CodeExpires
    <2>2. row \in Code /\ row.cur = codes[k].cur /\ row.amount = codes[k].amount /\ row.status = codes[k].status
      BY <2>1 DEF Code
    <2>3. codes' = [codes EXCEPT ![k] = row]
      BY <1>4 DEF CodeExpires
    <2>4. CodesGrow /\ DOMAIN codes' = DOMAIN codes
      BY <2>1, <2>2, <2>3, OneCodeChanges
    <2> QED
      BY <1>1, <1>4, <2>4 DEF CodeExpires, moneyVars, TypeOK
  <1>5. ASSUME NEW cur \in Currencies, Earn(cur) PROVE OutsideEffect
    <2>1. /\ earned' \in [Currencies -> 0..MaxEarned]
          /\ \A other \in Currencies : earned'[other] >= earned[other]
      BY <1>1, <1>5, PlatformAssumption DEF Earn, TypeOK
    <2> QED
      BY <1>5, <2>1, CodesStay DEF Earn, TypeOK
  <1>6. ASSUME NEW cur \in Currencies, NEW salary \in Salaries, EditSheet(salary, cur) PROVE OutsideEffect
    BY <1>1, <1>6, CodesStay DEF EditSheet, TypeOK
  <1> QED
    BY <1>2, <1>3, <1>4, <1>5, <1>6 DEF Outside

\* A request that takes a step of its own.
Proceeds(c) ==
    \/ AskEffect(c) \/ ConfirmEffect(c) \/ EndEffect(c)
    \/ TakeLockEffect(c) \/ SumPaidEffect(c) \/ AllowEffect(c) \/ SalaryEffect(c)

\* What any step does.
LEMMA NextCases ==
    ASSUME TypeOK, Next
    PROVE  \/ \E c \in Calls : Proceeds(c)
           \/ \E c \in Calls, w \in Withdrawals : CreateEffect(c, w)
           \/ \E c \in Calls, fact \in {"NONE", "ACCEPTED", "PAID", "REFUSED"} : DisburseEffect(c, fact)
           \/ \E c \in Calls, status \in {"PAID", "FAILED"} : CloseByCallEffect(c, status)
           \/ \E w \in Withdrawals, status \in {"PAID", "FAILED"} : MarkEffect(w, status)
           \/ OutsideEffect
  <1>1. ASSUME NEW c \in Calls,
               \/ Asks(c) \/ Confirms(c) \/ TakeLock(c) \/ SumPaid(c) \/ SumProcessing(c)
               \/ AssertSalaryNotPaid(c) \/ Die(c)
        PROVE  Proceeds(c)
    BY <1>1, AskSteps, ConfirmSteps, TakeLockStep, SumPaidStep, SumProcessingStep, SalaryStep, DieStep
       DEF Proceeds
  <1>2. \/ \E c \in Calls :
              \/ Asks(c) \/ Confirms(c) \/ TakeLock(c) \/ SumPaid(c) \/ SumProcessing(c)
              \/ AssertSalaryNotPaid(c) \/ Die(c)
        \/ \E c \in Calls, w \in Withdrawals : Create(c, w)
        \/ \E c \in Calls : DisburseAnswered(c) \/ DisburseUnknown(c)
        \/ \E c \in Calls : CloseAsPaid(c) \/ CloseAsFailed(c)
        \/ \E w \in Withdrawals : MarkPaid(w) \/ MarkFailed(w)
        \/ Outside
    BY DEF Next, Asks, Confirms, Outside
  <1> QED
    BY <1>1, <1>2, CreateStep, DisburseStep, CloseByCallStep, MarkStep, OutsideStep

LEMMA InitType == Init => TypeOK
  <1> SUFFICES ASSUME Init PROVE TypeOK
    OBVIOUS
  <1>1. codes \in Seq(Code) /\ Len(codes) = 0 /\ 0 <= MaxCodes
    BY EmptySeq, PlatformAssumption DEF Init
  <1>2. 0 \in 0..MaxEarned
    BY PlatformAssumption
  <1>3. call \in [Calls -> Request] /\ \A c \in Calls : call[c].at \notin HasCode
    BY IdleIsARequest DEF Init, HasCode, Confirming, Allowing
  <1> QED
    BY <1>1, <1>2, <1>3 DEF Init, TypeOK

LEMMA NextType == TypeOK /\ [Next]_vars => TypeOK'
  <1> SUFFICES ASSUME TypeOK, [Next]_vars PROVE TypeOK'
    OBVIOUS
  <1>1. ASSUME NEW c \in Calls, Proceeds(c) PROVE TypeOK'
    <2>1. CASE AskEffect(c)
      BY <2>1, RequestMoves DEF AskEffect, HasCode, Asking, Confirming, Allowing, TypeOK
    <2>2. CASE ConfirmEffect(c)
      BY <2>2, RequestMoves DEF ConfirmEffect, HasCode, Confirming, Allowing, TypeOK
    <2>3. CASE EndEffect(c)
      BY <2>3, RequestMoves, CodesStay, LeaveKeepsType, IdleIsARequest
         DEF EndEffect, HasCode, Confirming, Allowing
    <2>4. ASSUME NEW from \in HasCode \ {"mail"}, NEW to, GoOnEffect(c, from, to),
                 lock' \in [Currencies -> Calls \cup {Free}]
          PROVE  TypeOK'
      BY <2>4, RequestMoves, CodesStay DEF GoOnEffect, TypeOK
    <2>5. CASE TakeLockEffect(c)
      BY <2>4, <2>5 DEF TakeLockEffect, HasCode, Confirming, TypeOK
    <2>6. CASE SumPaidEffect(c)
      BY <2>4, <2>6 DEF SumPaidEffect, HasCode, Confirming, TypeOK
    <2>7. CASE AllowEffect(c)
      BY <2>4, <2>7 DEF AllowEffect, HasCode, Allowing, TypeOK
    <2>8. CASE SalaryEffect(c)
      BY <2>4, <2>8 DEF SalaryEffect, HasCode, Allowing, TypeOK
    <2> QED
      BY <1>1, <2>1, <2>2, <2>3, <2>5, <2>6, <2>7, <2>8 DEF Proceeds
  <1>2. ASSUME NEW c \in Calls, NEW w \in Withdrawals, CreateEffect(c, w) PROVE TypeOK'
    <2>1. call'[c].at \notin HasCode
      BY <1>2, IdleIsARequest DEF CreateEffect, HasCode, Confirming, Allowing
    <2>2. lock' \in [Currencies -> Calls \cup {Free}]
      BY <1>2, LeaveKeepsType DEF CreateEffect
    <2> QED
      BY <1>2, <2>1, <2>2 DEF CreateEffect, moneyVars, TypeOK
  <1>3. ASSUME NEW c \in Calls, NEW fact \in {"NONE", "ACCEPTED", "PAID", "REFUSED"}, DisburseEffect(c, fact)
        PROVE  TypeOK'
    <2>1. call'[c].at \notin HasCode
      BY <1>3, IdleIsARequest DEF DisburseEffect, HasCode, Confirming, Allowing
    <2> QED
      BY <1>3, <2>1 DEF DisburseEffect, Operated, TypeOK
  <1>4. ASSUME NEW c \in Calls, NEW status \in {"PAID", "FAILED"}, CloseByCallEffect(c, status) PROVE TypeOK'
    <2>1. call'[c].at \notin HasCode
      BY <1>4, IdleIsARequest DEF CloseByCallEffect, HasCode, Confirming, Allowing
    <2> QED
      BY <1>4, <2>1 DEF CloseByCallEffect, CloseEffect, Beside, TypeOK
  <1>5. ASSUME NEW w \in Withdrawals, NEW status \in {"PAID", "FAILED"}, MarkEffect(w, status) PROVE TypeOK'
    BY <1>5 DEF MarkEffect, CloseEffect, Beside, TypeOK
  <1>6. CASE OutsideEffect
    BY <1>6 DEF OutsideEffect, CodesGrow, TypeOK
  <1>7. CASE UNCHANGED vars
    BY <1>7 DEF vars, TypeOK
  <1> QED
    BY <1>1, <1>2, <1>3, <1>4, <1>5, <1>6, <1>7, NextCases

LEMMA SpecType == Spec => []TypeOK
  BY InitType, NextType, PTL DEF Spec

\* For any number of withdrawals, requests, currencies and codes every variable keeps its type;
\* above all no code takes more attempts than WITHDRAWAL_CODE_MAX_ATTEMPTS (consume counts the
\* attempt with the limit in its condition).
THEOREM TypeCorrect == Spec => []TypeOK
  BY SpecType

-----------------------------------------------------------------------------
(* What a step may do to the withdrawals                                    *)

\* But for the one that is created, withdrawals stay and keep what they are for.
RowsKept ==
    \A w \in Withdrawals :
        /\ withdrawal'[w] = Absent <=> withdrawal[w] = Absent
        /\ withdrawal[w] # Absent =>
              /\ withdrawal'[w].cur = withdrawal[w].cur /\ withdrawal'[w].amount = withdrawal[w].amount
              /\ withdrawal'[w].motif = withdrawal[w].motif /\ withdrawal'[w].code = withdrawal[w].code

LEMMA RowsStay ==
    ASSUME TypeOK, UNCHANGED withdrawal
    PROVE  RowsKept
  BY DEF RowsKept

LEMMA CloseKeepsRows ==
    ASSUME TypeOK, NEW w \in Withdrawals, NEW status \in {"PAID", "FAILED"}, CloseEffect(w, status)
    PROVE  /\ RowsKept
           /\ \A v \in Withdrawals : withdrawal[v].status \in {"PAID", "FAILED"} => withdrawal'[v] = withdrawal[v]
  <1>1. CASE withdrawal[w].status = "PROCESSING"
    <2>1. withdrawal[w] # Absent /\ withdrawal'[w] # Absent
      BY <1>1 DEF CloseEffect, Absent
    <2> QED
      BY <1>1, <2>1 DEF CloseEffect, RowsKept
  <1>2. CASE withdrawal[w].status # "PROCESSING"
    BY <1>2 DEF CloseEffect, RowsKept
  <1> QED
    BY <1>1, <1>2

\* A closed withdrawal stays as it was closed, whoever closes it: close() and create only write
\* over a withdrawal in progress and over none.
THEOREM ClosedStaysClosed == Spec => ClosedIsFinal
  <1> DEFINE Final == \A w \in Withdrawals :
                          withdrawal[w].status \in {"PAID", "FAILED"} => withdrawal'[w] = withdrawal[w]
  <1>1. TypeOK /\ [Next]_vars => Final
    <2> SUFFICES ASSUME TypeOK, [Next]_vars PROVE Final
      OBVIOUS
    <2>1. ASSUME NEW c \in Calls, Proceeds(c) PROVE withdrawal' = withdrawal
      BY <2>1 DEF Proceeds, AskEffect, ConfirmEffect, EndEffect, TakeLockEffect, SumPaidEffect, AllowEffect,
                  SalaryEffect, GoOnEffect
    <2>2. ASSUME NEW c \in Calls, NEW w \in Withdrawals, CreateEffect(c, w) PROVE Final
      BY <2>2 DEF CreateEffect
    <2>3. ASSUME NEW c \in Calls, NEW fact, DisburseEffect(c, fact) PROVE withdrawal' = withdrawal
      BY <2>3 DEF DisburseEffect
    <2>4. ASSUME NEW w \in Withdrawals, NEW status \in {"PAID", "FAILED"}, CloseEffect(w, status) PROVE Final
      BY <2>4, CloseKeepsRows
    <2>5. ASSUME NEW c \in Calls, NEW status \in {"PAID", "FAILED"}, CloseByCallEffect(c, status) PROVE Final
      BY <2>4, <2>5 DEF CloseByCallEffect
    <2>6. ASSUME NEW w \in Withdrawals, NEW status \in {"PAID", "FAILED"}, MarkEffect(w, status) PROVE Final
      BY <2>4, <2>6 DEF MarkEffect
    <2>7. CASE OutsideEffect
      BY <2>7 DEF OutsideEffect
    <2>8. CASE UNCHANGED vars
      BY <2>8 DEF vars
    <2> QED
      BY <2>1, <2>2, <2>3, <2>5, <2>6, <2>7, <2>8, NextCases
  <1>2. Final = (\A w \in Withdrawals :
                     withdrawal[w].status \in {"PAID", "FAILED"} => withdrawal'[w] = withdrawal[w])
    OBVIOUS
  <1> HIDE DEF Final
  <1>3. Spec => [][Final]_vars
    BY <1>1, SpecType, PTL DEF Spec
  <1> QED
    BY <1>2, <1>3, PTL DEF ClosedIsFinal, Final

-----------------------------------------------------------------------------
(* One code, one withdrawal                                                 *)

Confirmed == {"lock", "sumPaid"} \cup Allowing
Holding == Confirming \cup Allowing

\* A request looks at a code asked for what it wants; once let through, the code is not PENDING.
CallsMatch ==
    \A c \in Calls : call[c].at \in Holding =>
        /\ call[c].code \in DOMAIN codes
        /\ codes[call[c].code].cur = call[c].cur /\ codes[call[c].code].amount = call[c].amount
        /\ call[c].at \in Confirmed => codes[call[c].code].status # "PENDING"

RowsMatch ==
    \A w \in Withdrawals : withdrawal[w] # Absent =>
        /\ withdrawal[w].code \in DOMAIN codes
        /\ codes[withdrawal[w].code].cur = withdrawal[w].cur
        /\ codes[withdrawal[w].code].amount = withdrawal[w].amount
        /\ codes[withdrawal[w].code].status # "PENDING"

\* A code lets one request through, and confirms one withdrawal.
Apart ==
    /\ \A c, d \in Calls :
          call[c].at \in Confirmed /\ call[d].at \in Confirmed /\ call[c].code = call[d].code => c = d
    /\ \A c \in Calls, w \in Withdrawals :
          call[c].at \in Confirmed /\ withdrawal[w] # Absent => call[c].code # withdrawal[w].code
    /\ \A w, v \in Withdrawals :
          withdrawal[w] # Absent /\ withdrawal[v] # Absent /\ withdrawal[w].code = withdrawal[v].code => w = v

CodesUsed == CallsMatch /\ RowsMatch /\ Apart

LEMMA InitUsed == Init => CodesUsed
  <1> SUFFICES ASSUME Init PROVE CodesUsed
    OBVIOUS
  <1>1. \A c \in Calls : call[c].at \notin Holding /\ call[c].at \notin Confirmed
    BY IdleIsARequest DEF Init, Holding, Confirmed, Confirming, Allowing
  <1>2. \A w \in Withdrawals : withdrawal[w] = Absent
    BY DEF Init
  <1> QED
    BY <1>1, <1>2 DEF CodesUsed, CallsMatch, RowsMatch, Apart

\* No request is let through that was not.
LEMMA NobodyLetThrough ==
    ASSUME TypeOK, CodesUsed, CodesGrow, RowsKept, NEW c \in Calls,
           \A d \in Calls : d # c => call'[d] = call[d],
           call'[c].at \in Holding =>
              /\ call[c].at \in Holding /\ Same(c) /\ call'[c].code = call[c].code
              /\ call'[c].at \in Confirmed => call[c].at \in Confirmed
    PROVE  CodesUsed'
  <1>1. \A d \in Calls : call'[d].at \in Holding =>
           /\ call[d].at \in Holding /\ call'[d].code = call[d].code
           /\ call'[d].cur = call[d].cur /\ call'[d].amount = call[d].amount
           /\ call'[d].at \in Confirmed => call[d].at \in Confirmed
    BY DEF Same
  <1>2. \A d \in Calls : call'[d].at \in Confirmed => call'[d].at \in Holding
    BY DEF Confirmed, Holding, Confirming
  <1>3. CallsMatch'
    BY <1>1 DEF CodesUsed, CallsMatch, CodesGrow
  <1>4. RowsMatch'
    BY DEF CodesUsed, RowsMatch, CodesGrow, RowsKept
  <1>5. Apart'
    BY <1>1, <1>2 DEF CodesUsed, Apart, RowsKept
  <1> QED
    BY <1>3, <1>4, <1>5 DEF CodesUsed

LEMMA ConfirmKeepsUsed ==
    ASSUME TypeOK, CodesUsed, NEW c \in Calls, ConfirmEffect(c)
    PROVE  CodesUsed'
  <1>1. CodesGrow /\ DOMAIN codes' = DOMAIN codes /\ \A d \in Calls : d # c => call'[d] = call[d]
    BY DEF ConfirmEffect
  <1>2. /\ \A w \in Withdrawals : withdrawal'[w] = withdrawal[w]
        /\ \A w \in Withdrawals : withdrawal'[w] = Absent <=> withdrawal[w] = Absent
    BY DEF ConfirmEffect
  <1>3. call'[c].at \in Holding =>
           /\ call'[c].code \in DOMAIN codes
           /\ codes[call'[c].code].cur = call'[c].cur /\ codes[call'[c].code].amount = call'[c].amount
    BY DEF ConfirmEffect, CodesUsed, CallsMatch, Holding, Same, Confirming, Allowing
  <1>4. call'[c].at \in Confirmed =>
           codes[call'[c].code].status = "PENDING" /\ codes'[call'[c].code].status # "PENDING"
    BY DEF ConfirmEffect, Confirmed, Confirming, Allowing
  <1>5. \A d \in Calls : call[d].at \in Confirmed =>
           /\ call[d].code \in DOMAIN codes /\ codes[call[d].code].status # "PENDING"
    BY DEF CodesUsed, CallsMatch, Holding, Confirmed, Confirming
  <1>6. CallsMatch'
    <2>1. ASSUME NEW d \in Calls, d # c, call'[d].at \in Holding
          PROVE  /\ call'[d].code \in DOMAIN codes'
                 /\ codes'[call'[d].code].cur = call'[d].cur /\ codes'[call'[d].code].amount = call'[d].amount
                 /\ call'[d].at \in Confirmed => codes'[call'[d].code].status # "PENDING"
      BY <1>1, <2>1 DEF CodesUsed, CallsMatch, CodesGrow
    <2>2. call'[c].at \in Holding =>
                 /\ call'[c].code \in DOMAIN codes'
                 /\ codes'[call'[c].code].cur = call'[c].cur /\ codes'[call'[c].code].amount = call'[c].amount
                 /\ call'[c].at \in Confirmed => codes'[call'[c].code].status # "PENDING"
      BY <1>1, <1>3, <1>4 DEF CodesGrow
    <2> QED
      BY <2>1, <2>2 DEF CallsMatch
  <1>7. RowsMatch'
    BY <1>1, <1>2 DEF CodesUsed, RowsMatch, CodesGrow
  <1>8. Apart'
    BY <1>1, <1>2, <1>4, <1>5 DEF CodesUsed, Apart, RowsMatch
  <1> QED
    BY <1>6, <1>7, <1>8 DEF CodesUsed

LEMMA CreateKeepsUsed ==
    ASSUME TypeOK, CodesUsed, NEW c \in Calls, NEW w \in Withdrawals, CreateEffect(c, w)
    PROVE  CodesUsed'
  <1>1. /\ \A d \in Calls : d # c => call'[d] = call[d]
        /\ call'[c].at \notin Holding /\ call'[c].at \notin Confirmed
    BY IdleIsARequest DEF CreateEffect, Holding, Confirmed, Confirming, Allowing
  <1>2. /\ call[c].at \in Confirmed /\ call[c].at \in Holding
        /\ withdrawal[w] = Absent /\ withdrawal'[w] # Absent
        /\ withdrawal'[w].code = call[c].code /\ withdrawal'[w].cur = call[c].cur
        /\ withdrawal'[w].amount = call[c].amount
        /\ \A v \in Withdrawals : v # w => withdrawal'[v] = withdrawal[v]
        /\ codes' = codes
    BY RowIs DEF CreateEffect, Holding, Confirmed, Allowing, Absent
  <1>3. CallsMatch'
    BY <1>1, <1>2 DEF CodesUsed, CallsMatch
  <1>4. RowsMatch'
    BY <1>2 DEF CodesUsed, CallsMatch, RowsMatch
  <1>5. Apart'
    BY <1>1, <1>2 DEF CodesUsed, Apart
  <1> QED
    BY <1>3, <1>4, <1>5 DEF CodesUsed

LEMMA NextUsed == TypeOK /\ CodesUsed /\ [Next]_vars => CodesUsed'
  <1> SUFFICES ASSUME TypeOK, CodesUsed, [Next]_vars PROVE CodesUsed'
    OBVIOUS
  <1>1. ASSUME NEW c \in Calls, Proceeds(c) PROVE CodesUsed'
    <2>1. CASE AskEffect(c)
      BY <2>1, NobodyLetThrough, RowsStay DEF AskEffect, Holding, Asking, Confirming, Allowing
    <2>2. CASE ConfirmEffect(c)
      BY <2>2, ConfirmKeepsUsed
    <2>3. CASE EndEffect(c)
      BY <2>3, NobodyLetThrough, RowsStay, CodesStay, IdleIsARequest
         DEF EndEffect, Holding, Confirming, Allowing
    <2>4. ASSUME NEW from \in Confirmed, NEW to, GoOnEffect(c, from, to)
          PROVE  CodesUsed'
      <3>1. from \in Holding
        BY <2>4 DEF Confirmed, Holding, Confirming
      <3> QED
        BY <2>4, <3>1, NobodyLetThrough, RowsStay, CodesStay DEF GoOnEffect
    <2> QED
      BY <1>1, <2>1, <2>2, <2>3, <2>4
         DEF Proceeds, TakeLockEffect, SumPaidEffect, AllowEffect, SalaryEffect, Confirmed, Allowing
  <1>2. ASSUME NEW c \in Calls, NEW w \in Withdrawals, CreateEffect(c, w) PROVE CodesUsed'
    BY <1>2, CreateKeepsUsed
  <1>3. ASSUME NEW c \in Calls, NEW fact, DisburseEffect(c, fact) PROVE CodesUsed'
    <2>1. call'[c].at \notin Holding
      BY <1>3, IdleIsARequest DEF DisburseEffect, Holding, Confirming, Allowing
    <2>2. UNCHANGED codes /\ UNCHANGED withdrawal
      BY <1>3 DEF DisburseEffect, Operated
    <2> QED
      BY <1>3, <2>1, <2>2, NobodyLetThrough, RowsStay, CodesStay DEF DisburseEffect
  <1>4. ASSUME NEW c \in Calls, NEW status \in {"PAID", "FAILED"}, CloseByCallEffect(c, status)
        PROVE  CodesUsed'
    <2>1. call'[c].at \notin Holding
      BY <1>4, IdleIsARequest DEF CloseByCallEffect, Holding, Confirming, Allowing
    <2> QED
      BY <1>4, <2>1, NobodyLetThrough, CloseKeepsRows, CodesStay DEF CloseByCallEffect, Beside
  <1>5. ASSUME CodesGrow, RowsKept, UNCHANGED call PROVE CodesUsed'
    BY <1>5 DEF CodesUsed, CallsMatch, RowsMatch, Apart, CodesGrow, RowsKept, Holding, Confirmed, Confirming
  <1>6. ASSUME NEW w \in Withdrawals, NEW status \in {"PAID", "FAILED"}, MarkEffect(w, status) PROVE CodesUsed'
    BY <1>5, <1>6, CloseKeepsRows, CodesStay DEF MarkEffect, Beside
  <1>7. CASE OutsideEffect
    BY <1>5, <1>7, RowsStay DEF OutsideEffect
  <1>8. CASE UNCHANGED vars
    BY <1>5, <1>8, RowsStay, CodesStay DEF vars
  <1> QED
    BY <1>1, <1>2, <1>3, <1>4, <1>6, <1>7, <1>8, NextCases

\* Each withdrawal was confirmed by a code of its own, asked for its currency and amount: consume
\* claims the code on its PENDING status, and nothing makes a code PENDING again.
THEOREM OneCodeOneWithdrawal == Spec => []CodeOfItsOwn
  <1>1. Spec => []CodesUsed
    BY InitUsed, NextUsed, SpecType, PTL DEF Spec
  <1>2. CodesUsed => CodeOfItsOwn
    BY DEF CodesUsed, RowsMatch, Apart, CodeOfItsOwn
  <1> QED
    BY <1>1, <1>2, PTL

-----------------------------------------------------------------------------
(* The lock of a currency                                                   *)

InLock == {"sumPaid"} \cup Allowing

\* From the first sum to the commit a request holds the lock of its currency.
Locked == \A c \in Calls : call[c].at \in InLock => lock[call[c].cur] = c

LEMMA LockIsForOne ==
    ASSUME Locked, NEW c \in Calls, NEW d \in Calls,
           call[c].at \in InLock, call[d].at \in InLock, call[c].cur = call[d].cur
    PROVE  c = d
  BY DEF Locked

LEMMA InitLocked == Init => Locked
  BY IdleIsARequest DEF Init, Locked, InLock, Allowing

LEMMA NextLocked == TypeOK /\ Locked /\ [Next]_vars => Locked'
  <1> SUFFICES ASSUME TypeOK, Locked, [Next]_vars PROVE Locked'
    OBVIOUS
  <1>1. ASSUME NEW c \in Calls, \A d \in Calls : d # c => call'[d] = call[d], UNCHANGED lock,
               call'[c].at \in InLock => call[c].at \in InLock /\ call'[c].cur = call[c].cur
        PROVE  Locked'
    BY <1>1 DEF Locked
  <1>2. ASSUME NEW c \in Calls, \A d \in Calls : d # c => call'[d] = call[d], lock' = Leave(c, lock),
               call'[c].at \notin InLock
        PROVE  Locked'
    <2>1. ASSUME NEW d \in Calls, call'[d].at \in InLock PROVE lock'[call'[d].cur] = d
      <3>1. d # c /\ call'[d] = call[d] /\ call[d].at \in InLock
        BY <1>2, <2>1
      <3>2. call[d].cur \in Currencies
        BY <3>1, Carries DEF InLock, Confirming, Allowing
      <3> QED
        BY <1>2, <3>1, <3>2, LeaveKeepsType DEF Locked
    <2> QED
      BY <2>1 DEF Locked
  <1>3. ASSUME NEW c \in Calls, Proceeds(c) PROVE Locked'
    <2>1. CASE AskEffect(c)
      BY <1>1, <2>1 DEF AskEffect, InLock, Asking, Allowing
    <2>2. CASE ConfirmEffect(c)
      BY <1>1, <2>2 DEF ConfirmEffect, InLock, Confirming, Allowing
    <2>3. CASE EndEffect(c)
      BY <1>2, <2>3, IdleIsARequest DEF EndEffect, InLock, Allowing
    <2>4. CASE TakeLockEffect(c)
      <3>1. lock' = [lock EXCEPT ![call[c].cur] = c] /\ lock[call[c].cur] = Free
        BY <2>4 DEF TakeLockEffect
      <3>2. call'[c].cur = call[c].cur /\ call[c].cur \in Currencies
            /\ \A d \in Calls : d # c => call'[d] = call[d]
        BY <2>4 DEF TakeLockEffect, GoOnEffect, Same
      <3>3. ASSUME NEW d \in Calls, call'[d].at \in InLock PROVE lock'[call'[d].cur] = d
        <4>1. CASE d = c
          BY <3>1, <3>2, <4>1 DEF TypeOK
        <4>2. CASE d # c
          <5>1. call'[d] = call[d] /\ lock[call[d].cur] = d
            BY <3>2, <3>3, <4>2 DEF Locked
          <5>2. call[d].cur # call[c].cur
            BY <3>1, <5>1, PlatformAssumption
          <5> QED
            BY <3>1, <5>1, <5>2 DEF TypeOK
        <4> QED
          BY <4>1, <4>2
      <3> QED
        BY <3>3 DEF Locked
    <2>5. CASE SumPaidEffect(c) \/ AllowEffect(c) \/ SalaryEffect(c)
      BY <1>1, <2>5 DEF SumPaidEffect, AllowEffect, SalaryEffect, GoOnEffect, Same, InLock, Allowing
    <2> QED
      BY <1>3, <2>1, <2>2, <2>3, <2>4, <2>5 DEF Proceeds
  <1>4. ASSUME NEW c \in Calls, NEW w \in Withdrawals, CreateEffect(c, w) PROVE Locked'
    BY <1>2, <1>4, IdleIsARequest DEF CreateEffect, InLock, Allowing
  <1>5. ASSUME NEW c \in Calls, NEW fact, DisburseEffect(c, fact) PROVE Locked'
    BY <1>1, <1>5, IdleIsARequest DEF DisburseEffect, Operated, InLock, Allowing
  <1>6. ASSUME NEW c \in Calls, NEW status \in {"PAID", "FAILED"}, CloseByCallEffect(c, status) PROVE Locked'
    BY <1>1, <1>6, IdleIsARequest DEF CloseByCallEffect, Beside, InLock, Allowing
  <1>7. ASSUME NEW w \in Withdrawals, NEW status \in {"PAID", "FAILED"}, MarkEffect(w, status) PROVE Locked'
    BY <1>7 DEF MarkEffect, Beside, Locked
  <1>8. CASE OutsideEffect
    BY <1>8 DEF OutsideEffect, Locked
  <1>9. CASE UNCHANGED vars
    BY <1>9 DEF vars, Locked
  <1> QED
    BY <1>3, <1>4, <1>5, <1>6, <1>7, <1>8, <1>9, NextCases

-----------------------------------------------------------------------------
(* Salaries                                                                 *)

Stays(motif) == motif # Unpaid /\ motif \notin moved

\* A salary whose pay sheet never moved is asked for, and paid, in the currency of its pay sheet.
OneSheet ==
    /\ \A c \in Calls : call[c].at \in {"read"} \cup Holding /\ Stays(call[c].motif) =>
          sheet[call[c].motif] = call[c].cur
    /\ \A w \in Withdrawals : withdrawal[w] # Absent /\ Stays(withdrawal[w].motif) =>
          sheet[withdrawal[w].motif] = withdrawal[w].cur

\* What was checked behind the lock still holds at the commit, as far as the lock goes.
StillDue ==
    \A c \in Calls, w \in Withdrawals :
        /\ call[c].at = "create" /\ call[c].motif # Unpaid
        /\ withdrawal[w].status \in Open /\ withdrawal[w].motif = call[c].motif
        => withdrawal[w].cur # call[c].cur /\ call[c].motif \in moved

Salaried == Locked /\ OneSheet /\ StillDue /\ SalaryOncePerSheet

LEMMA InitSalaried == Init => Salaried
  <1> SUFFICES ASSUME Init PROVE Salaried
    OBVIOUS
  <1>1. \A c \in Calls : call[c].at = "idle"
    BY IdleIsARequest DEF Init
  <1>2. \A w \in Withdrawals : withdrawal[w] = Absent /\ withdrawal[w].status = "ABSENT"
    BY DEF Init, Absent
  <1> QED
    BY <1>1, <1>2, InitLocked
       DEF Salaried, OneSheet, Stays, PaySameSalary, StillDue, SalaryOncePerSheet, Holding, Confirming, Allowing, Open

\* No withdrawal becomes open: what was due or paid once remains so.
NoneOpens ==
    /\ RowsKept
    /\ \A w \in Withdrawals : withdrawal'[w].status \in Open => withdrawal[w].status \in Open

LEMMA NoneOpensKeeps ==
    ASSUME TypeOK, Salaried, Locked', NoneOpens, UNCHANGED <<sheet, moved>>, NEW c \in Calls,
           \A d \in Calls : d # c => call'[d] = call[d],
           call'[c].at \in Holding => /\ call[c].at \in {"read"} \cup Holding
                                      /\ call'[c].motif = call[c].motif /\ call'[c].cur = call[c].cur,
           call'[c].at = "read" /\ call'[c].motif # Unpaid => sheet[call'[c].motif] = call'[c].cur,
           call'[c].at = "create" /\ call'[c].motif # Unpaid =>
              \/ ~SalaryIsOut(call'[c].motif)
              \/ call[c].at = "create"
    PROVE  Salaried'
  <1>1. \A w \in Withdrawals : withdrawal'[w].status \in Open =>
           /\ withdrawal[w].status \in Open /\ withdrawal[w] # Absent
           /\ withdrawal'[w].motif = withdrawal[w].motif /\ withdrawal'[w].cur = withdrawal[w].cur
    BY RowIs DEF NoneOpens, RowsKept, Open
  <1>2. StillDue'
    <2>1. ASSUME NEW d \in Calls, NEW w \in Withdrawals, call'[d].at = "create", call'[d].motif # Unpaid,
                 withdrawal'[w].status \in Open, withdrawal'[w].motif = call'[d].motif
          PROVE  withdrawal'[w].cur # call'[d].cur /\ call'[d].motif \in moved
      <3>1. /\ withdrawal[w].status \in Open /\ withdrawal[w].motif = call'[d].motif
            /\ withdrawal'[w].cur = withdrawal[w].cur
        BY <1>1, <2>1
      <3>2. SalaryIsOut(call'[d].motif)
        BY <3>1 DEF SalaryIsOut
      <3>3. call[d].at = "create" /\ call'[d].motif = call[d].motif /\ call'[d].cur = call[d].cur
        BY <2>1, <3>2 DEF Holding, Allowing
      <3> QED
        BY <2>1, <3>1, <3>3 DEF Salaried, StillDue
    <2> QED
      BY <2>1 DEF StillDue
  <1>3. SalaryOncePerSheet'
    BY <1>1 DEF Salaried, SalaryOncePerSheet, PaySameSalary
  <1>4. OneSheet'
    <2>1. \A d \in Calls : call'[d].at \in {"read"} \cup Holding /\ Stays(call'[d].motif) =>
             sheet[call'[d].motif] = call'[d].cur
      BY DEF Salaried, OneSheet, Holding, Confirming, Allowing, Stays
    <2>2. \A w \in Withdrawals : withdrawal'[w] # Absent /\ Stays(withdrawal'[w].motif) =>
             sheet[withdrawal'[w].motif] = withdrawal'[w].cur
      BY DEF Salaried, OneSheet, NoneOpens, RowsKept
    <2> QED
      BY <2>1, <2>2 DEF OneSheet, Stays
  <1> QED
    BY <1>2, <1>3, <1>4 DEF Salaried

LEMMA CreateKeepsSalaried ==
    ASSUME TypeOK, Salaried, Locked', NEW c \in Calls, NEW w \in Withdrawals, CreateEffect(c, w)
    PROVE  Salaried'
  <1>1. /\ \A d \in Calls : d # c => call'[d] = call[d]
        /\ call'[c].at \notin {"read"} \cup Holding
        /\ call[c].at = "create" /\ call[c].at \in Holding /\ call[c].at \in InLock
        /\ sheet' = sheet /\ moved' = moved
    BY IdleIsARequest DEF CreateEffect, Holding, InLock, Confirming, Allowing, moneyVars
  <1>2. /\ withdrawal'[w].motif = call[c].motif /\ withdrawal'[w].cur = call[c].cur
        /\ \A v \in Withdrawals : v # w => withdrawal'[v] = withdrawal[v]
    BY DEF CreateEffect
  <1>3. \A v \in Withdrawals :
           call[c].motif # Unpaid /\ withdrawal[v].status \in Open /\ withdrawal[v].motif = call[c].motif =>
              withdrawal[v].cur # call[c].cur /\ call[c].motif \in moved
    BY <1>1 DEF Salaried, StillDue
  <1>4. SalaryOncePerSheet'
    <2>1. ASSUME NEW u \in Withdrawals, NEW v \in Withdrawals, PaySameSalary(u, v)', u # v
          PROVE  withdrawal'[u].cur # withdrawal'[v].cur /\ withdrawal'[u].motif \in moved
      <3>1. CASE u # w /\ v # w
        BY <1>2, <2>1, <3>1 DEF Salaried, SalaryOncePerSheet, PaySameSalary
      <3>2. CASE u = w /\ v # w
        BY <1>2, <1>3, <2>1, <3>2 DEF PaySameSalary
      <3>3. CASE u # w /\ v = w
        BY <1>2, <1>3, <2>1, <3>3 DEF PaySameSalary
      <3> QED
        BY <2>1, <3>1, <3>2, <3>3
    <2> QED
      BY <1>1, <2>1 DEF SalaryOncePerSheet
  <1>5. OneSheet'
    <2>1. \A d \in Calls : call'[d].at \in {"read"} \cup Holding /\ Stays(call'[d].motif) =>
             sheet'[call'[d].motif] = call'[d].cur
      BY <1>1 DEF Salaried, OneSheet
    <2>2. \A v \in Withdrawals : withdrawal'[v] # Absent /\ Stays(withdrawal'[v].motif) =>
             sheet'[withdrawal'[v].motif] = withdrawal'[v].cur
      BY <1>1, <1>2 DEF Salaried, OneSheet
    <2> QED
      BY <1>1, <2>1, <2>2 DEF OneSheet, Stays
  <1>6. StillDue'
    <2>1. ASSUME NEW d \in Calls, NEW v \in Withdrawals, call'[d].at = "create", call'[d].motif # Unpaid,
                 withdrawal'[v].status \in Open, withdrawal'[v].motif = call'[d].motif
          PROVE  withdrawal'[v].cur # call'[d].cur /\ call'[d].motif \in moved
      <3>1. d # c /\ call'[d] = call[d] /\ call[d].at \in Holding /\ call[d].at \in InLock
        BY <1>1, <2>1 DEF Holding, InLock, Allowing
      <3>2. CASE v # w
        BY <1>2, <2>1, <3>1, <3>2 DEF Salaried, StillDue
      <3>3. CASE v = w
        <4>1. call[d].cur # call[c].cur
          BY <1>1, <3>1, LockIsForOne DEF Salaried
        <4>2. call[d].motif = call[c].motif
          BY <1>2, <2>1, <3>1, <3>3
        <4>3. ASSUME call[d].motif \notin moved PROVE FALSE
          BY <1>1, <2>1, <3>1, <4>1, <4>2, <4>3 DEF Salaried, OneSheet, Stays
        <4> QED
          BY <1>2, <3>1, <3>3, <4>1, <4>3
      <3> QED
        BY <3>2, <3>3
    <2> QED
      BY <1>1, <2>1 DEF StillDue
  <1> QED
    BY <1>4, <1>5, <1>6 DEF Salaried

LEMMA NextSalaried == TypeOK /\ Salaried /\ [Next]_vars => Salaried'
  <1> SUFFICES ASSUME TypeOK, Salaried, [Next]_vars PROVE Salaried'
    OBVIOUS
  <1>1. Locked'
    BY NextLocked DEF Salaried
  <1>2. UNCHANGED withdrawal => NoneOpens
    BY RowsStay DEF NoneOpens
  <1>3. ASSUME NEW w \in Withdrawals, NEW status \in {"PAID", "FAILED"}, CloseEffect(w, status)
        PROVE  NoneOpens
    BY <1>3, CloseKeepsRows DEF NoneOpens, CloseEffect, Open
  <1>4. ASSUME NEW c \in Calls, Proceeds(c) PROVE Salaried'
    <2>1. CASE AskEffect(c)
      BY <1>1, <1>2, <2>1, NoneOpensKeeps DEF AskEffect, Holding, Asking, Confirming, Allowing, moneyVars
    <2>2. CASE ConfirmEffect(c)
      BY <1>1, <1>2, <2>2, NoneOpensKeeps DEF ConfirmEffect, Holding, Same, Confirming, Allowing, moneyVars
    <2>3. CASE EndEffect(c)
      BY <1>1, <1>2, <2>3, NoneOpensKeeps, IdleIsARequest
         DEF EndEffect, Holding, Confirming, Allowing, moneyVars
    <2>4. ASSUME NEW from \in Holding, NEW to, GoOnEffect(c, from, to), to # "read",
                 to = "create" /\ call[c].motif # Unpaid => ~SalaryIsOut(call[c].motif)
          PROVE  Salaried'
      BY <1>1, <1>2, <2>4, NoneOpensKeeps DEF GoOnEffect, Same, moneyVars
    <2>5. CASE TakeLockEffect(c)
      BY <2>4, <2>5 DEF TakeLockEffect, Holding, Confirming
    <2>6. CASE SumPaidEffect(c)
      BY <2>4, <2>6 DEF SumPaidEffect, Holding, Confirming
    <2>7. CASE AllowEffect(c)
      BY <2>4, <2>7 DEF AllowEffect, Holding, Allowing
    <2>8. CASE SalaryEffect(c)
      BY <2>4, <2>8 DEF SalaryEffect, Holding, Allowing
    <2> QED
      BY <1>4, <2>1, <2>2, <2>3, <2>5, <2>6, <2>7, <2>8 DEF Proceeds
  <1>5. ASSUME NEW c \in Calls, NEW w \in Withdrawals, CreateEffect(c, w) PROVE Salaried'
    BY <1>1, <1>5, CreateKeepsSalaried
  <1>6. ASSUME NEW c \in Calls, NEW fact, DisburseEffect(c, fact) PROVE Salaried'
    <2>1. call'[c].at \notin {"read"} \cup Holding /\ call'[c].at # "create"
      BY <1>6, IdleIsARequest DEF DisburseEffect, Holding, Confirming, Allowing
    <2> QED
      BY <1>1, <1>2, <1>6, <2>1, NoneOpensKeeps DEF DisburseEffect, Operated
  <1>7. ASSUME NEW c \in Calls, NEW status \in {"PAID", "FAILED"}, CloseByCallEffect(c, status)
        PROVE  Salaried'
    <2>1. call'[c].at \notin {"read"} \cup Holding /\ call'[c].at # "create"
      BY <1>7, IdleIsARequest DEF CloseByCallEffect, Holding, Confirming, Allowing
    <2> QED
      BY <1>1, <1>3, <1>7, <2>1, NoneOpensKeeps DEF CloseByCallEffect, Beside
  <1>8. ASSUME NoneOpens, UNCHANGED <<sheet, moved, call>> PROVE Salaried'
    <2>1. \A w \in Withdrawals : withdrawal'[w].status \in Open =>
             /\ withdrawal[w].status \in Open /\ withdrawal[w] # Absent
             /\ withdrawal'[w].motif = withdrawal[w].motif /\ withdrawal'[w].cur = withdrawal[w].cur
      BY <1>8, RowIs DEF NoneOpens, RowsKept, Open
    <2>2. OneSheet'
      BY <1>8 DEF Salaried, OneSheet, Stays, NoneOpens, RowsKept
    <2>3. StillDue'
      BY <1>8, <2>1 DEF Salaried, StillDue
    <2>4. SalaryOncePerSheet'
      BY <1>8, <2>1 DEF Salaried, SalaryOncePerSheet, PaySameSalary
    <2> QED
      BY <1>1, <2>2, <2>3, <2>4 DEF Salaried
  <1>9. ASSUME NEW w \in Withdrawals, NEW status \in {"PAID", "FAILED"}, MarkEffect(w, status) PROVE Salaried'
    BY <1>3, <1>8, <1>9 DEF MarkEffect, Beside
  <1>10. CASE OutsideEffect
    <2>1. /\ UNCHANGED <<withdrawal, call>> /\ moved \subseteq moved'
          /\ \A salary \in Salaries :
                sheet[salary] = NoSheet \/ sheet'[salary] = sheet[salary] \/ salary \in moved'
      BY <1>10 DEF OutsideEffect
    <2>2. ASSUME NEW motif \in Motifs, Stays(motif)', sheet[motif] \in Currencies
          PROVE  sheet'[motif] = sheet[motif]
      BY <2>1, <2>2, PlatformAssumption DEF Motifs, Stays
    <2>3. \A motif : Stays(motif)' => Stays(motif)
      BY <2>1 DEF Stays
    <2>4. OneSheet'
      <3>1. ASSUME NEW c \in Calls, call[c].at \in {"read"} \cup Holding, Stays(call[c].motif)'
            PROVE  sheet'[call[c].motif] = call[c].cur
        <4>1. call[c].motif \in Motifs /\ call[c].cur \in Currencies
          BY <3>1, Carries DEF Holding
        <4>2. sheet[call[c].motif] = call[c].cur
          BY <2>1, <3>1 DEF Salaried, OneSheet, Stays
        <4> QED
          BY <2>1, <2>2, <3>1, <4>1, <4>2
      <3>2. ASSUME NEW w \in Withdrawals, withdrawal[w] # Absent, Stays(withdrawal[w].motif)'
            PROVE  sheet'[withdrawal[w].motif] = withdrawal[w].cur
        <4>1. withdrawal[w].motif \in Motifs /\ withdrawal[w].cur \in Currencies
          BY <3>2, RowIs DEF Withdrawal
        <4>2. sheet[withdrawal[w].motif] = withdrawal[w].cur
          BY <2>1, <3>2 DEF Salaried, OneSheet, Stays
        <4> QED
          BY <2>1, <2>2, <3>2, <4>1, <4>2
      <3> QED
        BY <2>1, <3>1, <3>2 DEF OneSheet, Stays
    <2>5. StillDue' /\ SalaryOncePerSheet'
      BY <2>1 DEF Salaried, StillDue, SalaryOncePerSheet, PaySameSalary
    <2> QED
      BY <1>1, <2>4, <2>5 DEF Salaried
  <1>11. CASE UNCHANGED vars
    BY <1>2, <1>8, <1>11 DEF vars
  <1> QED
    BY <1>4, <1>5, <1>6, <1>7, <1>9, <1>10, <1>11, NextCases

\* Two requests for one salary do not both pass, each with its code: the second check is behind
\* the lock of the currency.  A salary is out at most once in each currency, and in two only if
\* its pay sheet went from the one to the other.
THEOREM SalaryPaidOnce == Spec => []SalaryOncePerSheet
  <1>1. TypeOK /\ Salaried /\ [Next]_vars => Salaried'
    BY NextSalaried
  <1>2. Salaried => SalaryOncePerSheet
    BY DEF Salaried
  <1> QED
    BY <1>1, <1>2, InitSalaried, SpecType, PTL DEF Spec

-----------------------------------------------------------------------------
(* The money of a currency                                                  *)

SeenTotal(cur, statuses) == Cardinality(Seen(cur, statuses))

LEMMA SeenIsNat ==
    \A cur, statuses : /\ Seen(cur, statuses) \in SUBSET (Withdrawals \X (1..MaxEarned))
                       /\ SeenTotal(cur, statuses) \in Nat
  <1>1. \A cur, statuses : Seen(cur, statuses) \in SUBSET (Withdrawals \X (1..MaxEarned))
    BY DEF Seen, Money
  <1> QED
    BY <1>1, MoneyIsFinite DEF SeenTotal

LEMMA SeenSplits ==
    \A cur : SeenTotal(cur, Open) = SeenTotal(cur, {"PAID"}) + SeenTotal(cur, {"PROCESSING"})
  <1> SUFFICES ASSUME NEW cur PROVE SeenTotal(cur, Open) = SeenTotal(cur, {"PAID"}) + SeenTotal(cur, {"PROCESSING"})
    OBVIOUS
  <1> DEFINE P == Seen(cur, {"PAID"})
             Q == Seen(cur, {"PROCESSING"})
  <1>1. Seen(cur, Open) = P \cup Q /\ P \cap Q = {}
    BY DEF Seen, Money, Open
  <1>2. IsFiniteSet(P) /\ IsFiniteSet(Q)
    BY SeenIsNat, MoneyIsFinite
  <1>3. Cardinality(P) \in Nat /\ Cardinality(Q) \in Nat /\ Cardinality({}) = 0
    BY <1>2, FS_CardinalityType, FS_EmptySet
  <1>4. Cardinality(P \cup Q) = Cardinality(P) + Cardinality(Q) - Cardinality(P \cap Q)
    BY <1>2, FS_Union
  <1>5. Cardinality(P \cup Q) = Cardinality(P) + Cardinality(Q)
    <2> HIDE DEF P, Q
    <2>1. Cardinality(P \cap Q) = 0
      BY Zenon, <1>1, <1>3
    <2> QED
      BY <1>3, <1>4, <2>1
  <1> QED
    BY <1>1, <1>5 DEF SeenTotal

LEMMA LessMoney ==
    ASSUME NEW T \in SUBSET (Withdrawals \X (1..MaxEarned)), NEW S \in SUBSET T
    PROVE  Cardinality(S) <= Cardinality(T)
  BY MoneyIsFinite, FS_Subset

LEMMA OneWithdrawalMore ==
    ASSUME NEW w \in Withdrawals, NEW amount \in Amounts, NEW S \in SUBSET (Withdrawals \X (1..MaxEarned)),
           NEW T \in SUBSET (S \cup ({w} \X (1..amount)))
    PROVE  Cardinality(T) <= Cardinality(S) + amount
  <1> DEFINE A == {w} \X (1..amount)
             U == S \cup A
  <1>1. amount \in Nat /\ amount <= MaxEarned /\ MaxEarned \in Nat /\ 1..amount \subseteq 1..MaxEarned
    BY PlatformAssumption
  <1>2. IsFiniteSet(1..amount) /\ Cardinality(1..amount) = amount
    BY <1>1, FS_Interval
  <1>3. IsFiniteSet({w}) /\ Cardinality({w}) = 1
    BY FS_Singleton
  <1>4. Cardinality({w} \X (1..amount)) = 1 * amount
    <2>1. ASSUME NEW one, IsFiniteSet(one), NEW units, IsFiniteSet(units)
          PROVE  Cardinality(one \X units) = Cardinality(one) * Cardinality(units)
      BY <2>1, FS_Product
    <2>2. Cardinality({w} \X (1..amount)) = Cardinality({w}) * Cardinality(1..amount)
      BY <1>2, <1>3, <2>1
    <2> QED
      BY <1>2, <1>3, <2>2
  <1>5. A \in SUBSET (Withdrawals \X (1..MaxEarned)) /\ U \in SUBSET (Withdrawals \X (1..MaxEarned))
    BY <1>1
  <1>6. Cardinality(T) <= Cardinality(U)
    BY <1>5, LessMoney
  <1>7. Cardinality(U) = Cardinality(S) + Cardinality(A) - Cardinality(S \cap A)
    <2>1. IsFiniteSet(S) /\ IsFiniteSet(A)
      BY <1>5, MoneyIsFinite
    <2> HIDE DEF A
    <2> QED
      BY <2>1, FS_Union
  <1>8. /\ Cardinality(S \cap A) \in Nat /\ Cardinality(S) \in Nat
        /\ Cardinality(T) \in Nat /\ Cardinality(U) \in Nat
    BY <1>5, MoneyIsFinite
  <1>9. Cardinality(A) = amount
    BY <1>1, <1>4
  <1> HIDE DEF A, U
  <1> QED
    BY <1>1, <1>6, <1>7, <1>8, <1>9

LEMMA SeenIsNatNext ==
    \A cur, statuses : SeenTotal(cur, statuses)' \in Nat
  <1>1. \A cur, statuses : Seen(cur, statuses)' \in SUBSET (Withdrawals \X (1..MaxEarned))
    BY DEF Seen, Money
  <1> QED
    BY <1>1, MoneyIsFinite DEF SeenTotal

\* The sums a request reads count at least what is seen.
LEMMA SumsSeeIt ==
    \A cur, statuses : Total(cur, statuses) \in Nat /\ SeenTotal(cur, statuses) <= Total(cur, statuses)
  <1> SUFFICES ASSUME NEW cur, NEW statuses
               PROVE  Total(cur, statuses) \in Nat /\ SeenTotal(cur, statuses) <= Total(cur, statuses)
    OBVIOUS
  <1>1. Seen(cur, statuses) \in SUBSET Money(cur, statuses)
    BY DEF Seen
  <1> QED
    BY <1>1, TotalIsNat, LessMoney DEF SeenTotal, Total

\* Closing never brings money out; as paid, between the two sums of a balance, it is missed.
LEMMA CloseMovesMoney ==
    ASSUME TypeOK, NEW w \in Withdrawals, NEW status \in {"PAID", "FAILED"}, CloseEffect(w, status), NEW cur
    PROVE  /\ SeenTotal(cur, Open)' <= SeenTotal(cur, Open)
           /\ (\E d \in Calls : call[d].at = "sumProcessing" /\ call[d].cur = cur) =>
                 SeenTotal(cur, {"PAID"})' <= SeenTotal(cur, {"PAID"})
  <1>1. CASE withdrawal[w].status # "PROCESSING"
    <2>1. withdrawal' = withdrawal /\ missed' = missed
      BY <1>1 DEF CloseEffect
    <2>2. /\ SeenTotal(cur, Open)' = SeenTotal(cur, Open)
          /\ SeenTotal(cur, {"PAID"})' = SeenTotal(cur, {"PAID"})
      BY <2>1 DEF SeenTotal, Seen, Money
    <2> QED
      BY <2>2, SeenIsNat
  <1>2. CASE withdrawal[w].status = "PROCESSING"
    <2>1. /\ \A v \in Withdrawals : v # w => withdrawal'[v] = withdrawal[v]
          /\ withdrawal'[w].status = status /\ withdrawal'[w].cur = withdrawal[w].cur
          /\ withdrawal'[w].amount = withdrawal[w].amount
          /\ missed' = IF status = "PAID" /\ BetweenSums(w) THEN missed \cup {w} ELSE missed
      BY <1>2 DEF CloseEffect
    <2>2. Seen(cur, Open)' \in SUBSET Seen(cur, Open)
      BY <1>2, <2>1 DEF Seen, Money, Open
    <2>3. SeenTotal(cur, Open)' <= SeenTotal(cur, Open)
      BY <2>2, LessMoney, SeenIsNat DEF SeenTotal
    <2>4. ASSUME NEW d \in Calls, call[d].at = "sumProcessing", call[d].cur = cur
          PROVE  SeenTotal(cur, {"PAID"})' <= SeenTotal(cur, {"PAID"})
      <3>1. withdrawal[w].cur = cur => BetweenSums(w)
        BY <2>4 DEF BetweenSums, At
      <3>2. Seen(cur, {"PAID"})' \in SUBSET Seen(cur, {"PAID"})
        BY <1>2, <2>1, <3>1 DEF Seen, Money
      <3> QED
        BY <3>2, LessMoney, SeenIsNat DEF SeenTotal
    <2> QED
      BY <2>3, <2>4
  <1> QED
    BY <1>1, <1>2

LEMMA CreateMovesMoney ==
    ASSUME TypeOK, NEW c \in Calls, NEW w \in Withdrawals, CreateEffect(c, w), NEW cur
    PROVE  /\ SeenTotal(cur, {"PAID"})' = SeenTotal(cur, {"PAID"})
           /\ cur # call[c].cur => SeenTotal(cur, Open)' = SeenTotal(cur, Open)
           /\ SeenTotal(cur, Open)' <= SeenTotal(cur, Open) + call[c].amount
  <1>1. /\ \A v \in Withdrawals : v # w => withdrawal'[v] = withdrawal[v]
        /\ withdrawal'[w].status = "PROCESSING" /\ withdrawal'[w].cur = call[c].cur
        /\ withdrawal'[w].amount = call[c].amount /\ withdrawal[w].status = "ABSENT"
        /\ call[c].amount \in Amounts /\ missed' = missed
    BY DEF CreateEffect, moneyVars
  <1>2. Seen(cur, {"PAID"})' = Seen(cur, {"PAID"})
    BY <1>1 DEF Seen, Money
  <1>3. cur # call[c].cur => Seen(cur, Open)' = Seen(cur, Open)
    BY <1>1 DEF Seen, Money, Open
  <1>4. Seen(cur, Open)' \in SUBSET (Seen(cur, Open) \cup ({w} \X (1..call[c].amount)))
    BY <1>1, PlatformAssumption DEF Seen, Money
  <1>5. SeenTotal(cur, Open)' <= SeenTotal(cur, Open) + call[c].amount
    BY <1>1, <1>4, SeenIsNat, OneWithdrawalMore DEF SeenTotal
  <1> QED
    BY <1>2, <1>3, <1>5 DEF SeenTotal

\* What a request has counted behind the lock.
Counted ==
    \A c \in Calls, cur \in Currencies :
        call[c].at \in Allowing /\ call[c].cur = cur =>
            /\ call[c].at = "sumProcessing" => call[c].left <= earned[cur] - SeenTotal(cur, {"PAID"})
            /\ call[c].at \in {"salary", "create"} => call[c].amount + SeenTotal(cur, Open) <= earned[cur]

Solvent == Locked /\ Counted /\ CountedIsEarned

LEMMA InitSolvent == Init => Solvent
  <1> SUFFICES ASSUME Init PROVE Solvent
    OBVIOUS
  <1>1. \A cur : Seen(cur, Open) = {}
    BY DEF Init, Seen, Money, Open, Absent
  <1>2. \A cur : SeenTotal(cur, Open) = 0
    BY <1>1, FS_EmptySet DEF SeenTotal
  <1>3. CountedIsEarned
    BY <1>2 DEF Init, CountedIsEarned, SeenTotal
  <1>4. Counted
    BY IdleIsARequest DEF Init, Counted, Allowing
  <1> QED
    BY <1>3, <1>4, InitLocked DEF Solvent

\* What a request has counted stands when no less is earned and no more is out.
LEMMA StillCounted ==
    ASSUME TypeOK, Counted, NEW d \in Calls, NEW cur \in Currencies, call[d].cur = cur,
           earned'[cur] \in Nat, earned'[cur] >= earned[cur],
           SeenTotal(cur, Open)' <= SeenTotal(cur, Open),
           call[d].at = "sumProcessing" => SeenTotal(cur, {"PAID"})' <= SeenTotal(cur, {"PAID"})
    PROVE  /\ call[d].at = "sumProcessing" => call[d].left <= earned'[cur] - SeenTotal(cur, {"PAID"})'
           /\ call[d].at \in {"salary", "create"} => call[d].amount + SeenTotal(cur, Open)' <= earned'[cur]
  <1>1. /\ SeenTotal(cur, Open) \in Nat /\ SeenTotal(cur, {"PAID"}) \in Nat
        /\ SeenTotal(cur, Open)' \in Nat /\ SeenTotal(cur, {"PAID"})' \in Nat
    BY SeenIsNat, SeenIsNatNext
  <1>2. earned[cur] \in Nat
    BY PlatformAssumption DEF TypeOK
  <1>3. call[d].at \in Allowing => call[d].left \in Int /\ call[d].amount \in Nat
    BY Carries, PlatformAssumption
  <1>4. /\ call[d].at = "sumProcessing" => call[d].left <= earned[cur] - SeenTotal(cur, {"PAID"})
        /\ call[d].at \in {"salary", "create"} => call[d].amount + SeenTotal(cur, Open) <= earned[cur]
    BY DEF Counted, Allowing
  <1>5. ASSUME call[d].at = "sumProcessing" PROVE call[d].left <= earned'[cur] - SeenTotal(cur, {"PAID"})'
    BY <1>1, <1>2, <1>3, <1>4, <1>5 DEF Allowing
  <1>6. ASSUME call[d].at \in {"salary", "create"} PROVE call[d].amount + SeenTotal(cur, Open)' <= earned'[cur]
    BY <1>1, <1>2, <1>3, <1>4, <1>6 DEF Allowing
  <1> QED
    BY <1>5, <1>6

\* What one step must do to keep the counts: c is the request that moves.
LEMMA KeepsCounts ==
    ASSUME TypeOK, TypeOK', Solvent, Locked', NEW c \in Calls,
           \A d \in Calls : d # c => call'[d] = call[d],
           \A cur \in Currencies : earned'[cur] >= earned[cur],
           \A d \in Calls, cur \in Currencies :
              d # c /\ call[d].at \in Allowing /\ call[d].cur = cur =>
                 /\ SeenTotal(cur, Open)' <= SeenTotal(cur, Open)
                 /\ call[d].at = "sumProcessing" => SeenTotal(cur, {"PAID"})' <= SeenTotal(cur, {"PAID"}),
           \A cur \in Currencies :
              call'[c].at \in Allowing /\ call'[c].cur = cur =>
                 /\ call'[c].at = "sumProcessing" => call'[c].left <= earned'[cur] - SeenTotal(cur, {"PAID"})'
                 /\ call'[c].at \in {"salary", "create"} => call'[c].amount + SeenTotal(cur, Open)' <= earned'[cur],
           \A cur \in Currencies : SeenTotal(cur, Open)' <= earned'[cur]
    PROVE  Solvent'
  <1>1. \A cur \in Currencies : earned'[cur] \in Nat
    BY PlatformAssumption DEF TypeOK
  <1>2. ASSUME NEW d \in Calls, NEW cur \in Currencies, call'[d].at \in Allowing, call'[d].cur = cur
        PROVE  /\ call'[d].at = "sumProcessing" => call'[d].left <= earned'[cur] - SeenTotal(cur, {"PAID"})'
               /\ call'[d].at \in {"salary", "create"} => call'[d].amount + SeenTotal(cur, Open)' <= earned'[cur]
    <2>1. CASE d = c
      BY <1>2, <2>1
    <2>2. CASE d # c
      <3>1. call'[d] = call[d] /\ Counted
        BY <2>2 DEF Solvent
      <3> QED
        BY <1>1, <1>2, <2>2, <3>1, StillCounted
    <2> QED
      BY <2>1, <2>2
  <1>3. Counted'
    BY <1>2 DEF Counted
  <1>4. CountedIsEarned'
    BY DEF CountedIsEarned, SeenTotal
  <1> QED
    BY <1>3, <1>4 DEF Solvent

LEMMA NextSolvent == TypeOK /\ Solvent /\ [Next]_vars => Solvent'
  <1> SUFFICES ASSUME TypeOK, Solvent, [Next]_vars PROVE Solvent'
    OBVIOUS
  <1>1. Locked' /\ TypeOK' /\ Locked /\ Counted
    BY NextLocked, NextType DEF Solvent
  <1>2. \A cur \in Currencies :
           /\ SeenTotal(cur, Open) \in Nat /\ SeenTotal(cur, {"PAID"}) \in Nat /\ SeenTotal(cur, {"PROCESSING"}) \in Nat
           /\ earned[cur] \in Nat /\ SeenTotal(cur, Open) <= earned[cur]
    BY SeenIsNat, PlatformAssumption DEF TypeOK, Solvent, CountedIsEarned, SeenTotal
  <1>3. UNCHANGED <<withdrawal, missed>> =>
           \A cur, statuses : SeenTotal(cur, statuses)' = SeenTotal(cur, statuses)
    BY DEF SeenTotal, Seen, Money
  <1>4. ASSUME NEW c \in Calls, UNCHANGED <<withdrawal, missed, earned>>, \A d \in Calls : d # c => call'[d] = call[d],
               \A cur \in Currencies :
                  call'[c].at \in Allowing /\ call'[c].cur = cur =>
                     /\ call'[c].at = "sumProcessing" => call'[c].left <= earned[cur] - SeenTotal(cur, {"PAID"})
                     /\ call'[c].at \in {"salary", "create"} => call'[c].amount + SeenTotal(cur, Open) <= earned[cur]
        PROVE  Solvent'
    <2>1. \A cur \in Currencies :
             /\ earned'[cur] >= earned[cur] /\ SeenTotal(cur, Open)' <= SeenTotal(cur, Open)
             /\ SeenTotal(cur, {"PAID"})' <= SeenTotal(cur, {"PAID"}) /\ SeenTotal(cur, Open)' <= earned'[cur]
      BY <1>2, <1>3, <1>4
    <2>2. \A cur \in Currencies :
             call'[c].at \in Allowing /\ call'[c].cur = cur =>
                /\ call'[c].at = "sumProcessing" => call'[c].left <= earned'[cur] - SeenTotal(cur, {"PAID"})'
                /\ call'[c].at \in {"salary", "create"} => call'[c].amount + SeenTotal(cur, Open)' <= earned'[cur]
      BY <1>3, <1>4
    <2> QED
      BY <1>1, <1>4, <2>1, <2>2, KeepsCounts
  <1>5. ASSUME NEW c \in Calls, Proceeds(c) PROVE Solvent'
    <2>1. CASE AskEffect(c)
      BY <1>4, <2>1 DEF AskEffect, Asking, Allowing, moneyVars
    <2>2. CASE ConfirmEffect(c)
      BY <1>4, <2>2 DEF ConfirmEffect, Confirming, Allowing, moneyVars
    <2>3. CASE EndEffect(c)
      BY <1>4, <2>3, IdleIsARequest DEF EndEffect, Allowing, moneyVars
    <2>4. CASE TakeLockEffect(c)
      BY <1>4, <2>4 DEF TakeLockEffect, GoOnEffect, Allowing, moneyVars
    <2>5. CASE SumPaidEffect(c)
      <3>1. /\ UNCHANGED <<withdrawal, missed, earned>> /\ \A d \in Calls : d # c => call'[d] = call[d]
            /\ call'[c].at = "sumProcessing" /\ call'[c].cur = call[c].cur
            /\ call'[c].left = earned[call[c].cur] - Total(call[c].cur, {"PAID"})
        BY <2>5 DEF SumPaidEffect, GoOnEffect, Same, moneyVars
      <3>2. ASSUME NEW cur \in Currencies, cur = call[c].cur
            PROVE  call'[c].left <= earned[cur] - SeenTotal(cur, {"PAID"})
        BY <1>2, <3>1, <3>2, SumsSeeIt
      <3> QED
        BY <1>4, <3>1, <3>2
    <2>6. CASE AllowEffect(c)
      <3>1. /\ UNCHANGED <<withdrawal, missed, earned>> /\ \A d \in Calls : d # c => call'[d] = call[d]
            /\ call[c].at = "sumProcessing" /\ call'[c].at \in {"salary", "create"}
            /\ call'[c].cur = call[c].cur /\ call'[c].amount = call[c].amount
            /\ call[c].amount <= call[c].left - Total(call[c].cur, {"PROCESSING"})
        BY <2>6 DEF AllowEffect, GoOnEffect, Same, moneyVars
      <3>2. call[c].left \in Int /\ call[c].amount \in Nat
        BY <3>1, Carries, PlatformAssumption DEF Allowing
      <3>3. ASSUME NEW cur \in Currencies, cur = call[c].cur
            PROVE  call'[c].amount + SeenTotal(cur, Open) <= earned[cur]
        <4>1. call[c].left <= earned[cur] - SeenTotal(cur, {"PAID"})
          BY <1>1, <3>1, <3>3 DEF Counted, Allowing
        <4>2. SeenTotal(cur, Open) = SeenTotal(cur, {"PAID"}) + SeenTotal(cur, {"PROCESSING"})
          BY SeenSplits
        <4>3. /\ Total(cur, {"PROCESSING"}) \in Nat
              /\ SeenTotal(cur, {"PROCESSING"}) <= Total(cur, {"PROCESSING"})
          BY SumsSeeIt
        <4> QED
          BY <1>2, <3>1, <3>2, <3>3, <4>1, <4>2, <4>3
      <3> QED
        BY <1>4, <3>1, <3>3
    <2>7. CASE SalaryEffect(c)
      <3>1. /\ UNCHANGED <<withdrawal, missed, earned>> /\ \A d \in Calls : d # c => call'[d] = call[d]
            /\ call[c].at = "salary" /\ call'[c].at = "create"
            /\ call'[c].cur = call[c].cur /\ call'[c].amount = call[c].amount
        BY <2>7 DEF SalaryEffect, GoOnEffect, Same, moneyVars
      <3>2. ASSUME NEW cur \in Currencies, cur = call[c].cur
            PROVE  call'[c].amount + SeenTotal(cur, Open) <= earned[cur]
        BY <1>1, <3>1, <3>2 DEF Counted, Allowing
      <3> QED
        BY <1>4, <3>1, <3>2
    <2> QED
      BY <1>5, <2>1, <2>2, <2>3, <2>4, <2>5, <2>6, <2>7 DEF Proceeds
  <1>6. ASSUME NEW c \in Calls, NEW w \in Withdrawals, CreateEffect(c, w) PROVE Solvent'
    <2>1. /\ call[c].at = "create" /\ call[c].at \in InLock /\ call[c].at \in Allowing
          /\ call[c].cur \in Currencies /\ call[c].amount \in Nat /\ earned' = earned
          /\ \A d \in Calls : d # c => call'[d] = call[d]
          /\ call'[c].at \notin Allowing
      BY <1>6, IdleIsARequest, PlatformAssumption DEF CreateEffect, InLock, Allowing, moneyVars
    <2>2. ASSUME NEW d \in Calls, NEW cur \in Currencies, d # c, call[d].at \in Allowing, call[d].cur = cur
          PROVE  /\ SeenTotal(cur, Open)' <= SeenTotal(cur, Open)
                 /\ SeenTotal(cur, {"PAID"})' <= SeenTotal(cur, {"PAID"})
      <3>1. cur # call[c].cur
        BY <1>1, <2>1, <2>2, LockIsForOne DEF InLock
      <3>2. SeenTotal(cur, {"PAID"})' = SeenTotal(cur, {"PAID"}) /\ SeenTotal(cur, Open)' = SeenTotal(cur, Open)
        BY <1>6, <3>1, CreateMovesMoney
      <3> QED
        BY <1>2, <3>2
    <2>3. ASSUME NEW cur \in Currencies PROVE SeenTotal(cur, Open)' <= earned'[cur]
      <3>1. CASE cur # call[c].cur
        <4>1. SeenTotal(cur, Open)' = SeenTotal(cur, Open)
          BY <1>6, <3>1, CreateMovesMoney
        <4> QED
          BY <1>2, <2>1, <4>1
      <3>2. CASE cur = call[c].cur
        <4>1. SeenTotal(cur, Open)' <= SeenTotal(cur, Open) + call[c].amount
          BY <1>6, CreateMovesMoney
        <4>2. call[c].amount + SeenTotal(cur, Open) <= earned[cur]
          BY <1>1, <2>1, <3>2 DEF Counted
        <4>3. SeenTotal(cur, Open)' \in Nat
          BY SeenIsNatNext
        <4> QED
          BY <1>2, <2>1, <4>1, <4>2, <4>3
      <3> QED
        BY <3>1, <3>2
    <2>4. \A cur \in Currencies : earned'[cur] >= earned[cur]
      BY <1>2, <2>1
    <2> QED
      BY <1>1, <2>1, <2>2, <2>3, <2>4, KeepsCounts
  <1>7. ASSUME NEW c \in Calls, NEW fact, DisburseEffect(c, fact) PROVE Solvent'
    <2>1. call'[c].at \notin Allowing
      BY <1>7, IdleIsARequest DEF DisburseEffect, Allowing
    <2> QED
      BY <1>4, <1>7, <2>1 DEF DisburseEffect, Operated
  <1>8. ASSUME NEW w \in Withdrawals, NEW status \in {"PAID", "FAILED"}, CloseEffect(w, status),
               UNCHANGED earned, NEW c \in Calls, \A d \in Calls : d # c => call'[d] = call[d],
               call'[c].at \in Allowing => call'[c] = call[c]
        PROVE  Solvent'
    <2>1. \A cur \in Currencies : SeenTotal(cur, Open)' \in Nat /\ SeenTotal(cur, {"PAID"})' \in Nat
      BY SeenIsNatNext
    <2>2. \A cur \in Currencies : SeenTotal(cur, Open)' <= SeenTotal(cur, Open)
      BY <1>8, CloseMovesMoney
    <2>3. ASSUME NEW d \in Calls, NEW cur \in Currencies, call[d].at = "sumProcessing", call[d].cur = cur
          PROVE  SeenTotal(cur, {"PAID"})' <= SeenTotal(cur, {"PAID"})
      BY <1>8, <2>3, CloseMovesMoney
    <2>4. \A cur \in Currencies : earned'[cur] >= earned[cur] /\ earned'[cur] \in Nat
                                  /\ SeenTotal(cur, Open)' <= earned'[cur]
      BY <1>2, <1>8, <2>1, <2>2
    <2>5. ASSUME NEW cur \in Currencies, call'[c].at \in Allowing, call'[c].cur = cur
          PROVE  /\ call'[c].at = "sumProcessing" => call'[c].left <= earned'[cur] - SeenTotal(cur, {"PAID"})'
                 /\ call'[c].at \in {"salary", "create"} => call'[c].amount + SeenTotal(cur, Open)' <= earned'[cur]
      <3>1. call'[c] = call[c] /\ call[c].cur = cur
        BY <1>8, <2>5
      <3>2. call[c].at = "sumProcessing" => SeenTotal(cur, {"PAID"})' <= SeenTotal(cur, {"PAID"})
        BY <2>3, <3>1
      <3>3. /\ call[c].at = "sumProcessing" => call[c].left <= earned'[cur] - SeenTotal(cur, {"PAID"})'
            /\ call[c].at \in {"salary", "create"} => call[c].amount + SeenTotal(cur, Open)' <= earned'[cur]
        BY <1>1, <2>2, <2>4, <3>1, <3>2, StillCounted
      <3> QED
        BY <3>1, <3>3
    <2> QED
      BY <1>1, <1>8, <2>2, <2>3, <2>4, <2>5, KeepsCounts
  <1>9. ASSUME NEW c \in Calls, NEW status \in {"PAID", "FAILED"}, CloseByCallEffect(c, status) PROVE Solvent'
    <2>1. call'[c].at \notin Allowing
      BY <1>9, IdleIsARequest DEF CloseByCallEffect, Allowing
    <2> QED
      BY <1>8, <1>9, <2>1 DEF CloseByCallEffect, Beside
  <1>10. ASSUME \A cur \in Currencies : /\ SeenTotal(cur, Open)' <= SeenTotal(cur, Open)
                                        /\ earned'[cur] >= earned[cur] /\ SeenTotal(cur, Open)' <= earned'[cur],
                \A cur \in Currencies, d \in Calls : call[d].at = "sumProcessing" /\ call[d].cur = cur =>
                    SeenTotal(cur, {"PAID"})' <= SeenTotal(cur, {"PAID"}),
                UNCHANGED call
         PROVE  Solvent'
    <2>1. \A cur \in Currencies : earned'[cur] \in Nat
      BY <1>1, PlatformAssumption DEF TypeOK
    <2>2. \A d \in Calls, cur \in Currencies : call[d].cur = cur =>
             /\ call[d].at = "sumProcessing" => call[d].left <= earned'[cur] - SeenTotal(cur, {"PAID"})'
             /\ call[d].at \in {"salary", "create"} => call[d].amount + SeenTotal(cur, Open)' <= earned'[cur]
      BY <1>1, <1>10, <2>1, StillCounted
    <2>3. Counted'
      BY <1>10, <2>2 DEF Counted
    <2>4. CountedIsEarned'
      BY <1>10 DEF CountedIsEarned, SeenTotal
    <2> QED
      BY <1>1, <2>3, <2>4 DEF Solvent
  <1>11. ASSUME NEW w \in Withdrawals, NEW status \in {"PAID", "FAILED"}, MarkEffect(w, status) PROVE Solvent'
    <2>1. CloseEffect(w, status) /\ earned' = earned /\ call' = call
      BY <1>11 DEF MarkEffect, Beside
    <2>2. \A cur \in Currencies : SeenTotal(cur, Open)' \in Nat /\ SeenTotal(cur, Open)' <= SeenTotal(cur, Open)
      BY <2>1, SeenIsNatNext, CloseMovesMoney
    <2>3. ASSUME NEW d \in Calls, NEW cur \in Currencies, call[d].at = "sumProcessing", call[d].cur = cur
          PROVE  SeenTotal(cur, {"PAID"})' <= SeenTotal(cur, {"PAID"})
      BY <2>1, <2>3, CloseMovesMoney
    <2>4. \A cur \in Currencies : earned'[cur] >= earned[cur] /\ SeenTotal(cur, Open)' <= earned'[cur]
      BY <1>2, <2>1, <2>2
    <2> QED
      BY <1>10, <2>1, <2>2, <2>3, <2>4
  <1>12. ASSUME UNCHANGED <<withdrawal, missed, call>>, \A cur \in Currencies : earned'[cur] >= earned[cur]
         PROVE  Solvent'
    <2>1. \A cur \in Currencies : earned'[cur] \in Nat
      BY <1>1, PlatformAssumption DEF TypeOK
    <2>2. \A cur \in Currencies : /\ SeenTotal(cur, Open)' <= SeenTotal(cur, Open)
                                  /\ SeenTotal(cur, {"PAID"})' <= SeenTotal(cur, {"PAID"})
                                  /\ SeenTotal(cur, Open)' <= earned'[cur]
      BY <1>2, <1>3, <1>12, <2>1
    <2> QED
      BY <1>10, <1>12, <2>2
  <1>13. CASE OutsideEffect
    BY <1>12, <1>13 DEF OutsideEffect
  <1>14. CASE UNCHANGED vars
    BY <1>2, <1>12, <1>14 DEF vars
  <1> QED
    BY <1>5, <1>6, <1>7, <1>9, <1>11, <1>13, <1>14, NextCases

\* The company never withdraws more than it earned, however many requests are made at once, but
\* by what is closed as paid between the two sums of a balance, which both leave out: the lock of
\* the currency is held from the first sum to the commit, and closing does not take it.
THEOREM CompanyIsSolvent == Spec => []CountedIsEarned
  <1>1. TypeOK /\ Solvent /\ [Next]_vars => Solvent'
    BY NextSolvent
  <1>2. Solvent => CountedIsEarned
    BY DEF Solvent
  <1> QED
    BY <1>1, <1>2, InitSolvent, SpecType, PTL DEF Spec

-----------------------------------------------------------------------------
(* The books and the money                                                  *)

Checked == StaffChecks

\* A request alone sends its withdrawal, and closes it by the answer it received.
OnItsWay ==
    /\ \A c \in Calls : Sends(c) => withdrawal[call[c].w].status # "ABSENT"
    /\ \A c \in Calls : call[c].at = "disburse" =>
          ~manual /\ transfer[call[c].w] = "NONE" /\ withdrawal[call[c].w].status = "PROCESSING"
    /\ \A c \in Calls : call[c].at = "closePaid" => transfer[call[c].w] = "PAID"
    /\ \A c \in Calls : call[c].at = "closeFailed" => transfer[call[c].w] = "REFUSED"
    /\ \A c, d \in Calls : Sends(c) /\ Sends(d) /\ call[c].w = call[d].w => c = d
    /\ \A w \in Withdrawals : withdrawal[w].status = "ABSENT" => transfer[w] = "NONE"

Kept == OnItsWay /\ BooksAreTrue

LEMMA InitKept == Init => Kept
  BY IdleIsARequest DEF Init, Kept, OnItsWay, BooksAreTrue, Sends, Sending, Absent

LEMMA SendsW == ASSUME TypeOK, NEW c \in Calls, Sends(c) PROVE call[c].w \in Withdrawals
  BY Carries DEF Sends

\* Requests that do not send change nothing of it.
LEMMA OthersKeep ==
    ASSUME Kept, NEW c \in Calls, \A d \in Calls : d # c => call'[d] = call[d],
           call'[c].at \notin Sending, UNCHANGED <<manual, transfer, withdrawal>>
    PROVE  Kept'
  BY DEF Kept, OnItsWay, BooksAreTrue, Sends, Sending

LEMMA CreateKeepsBooks ==
    ASSUME TypeOK, Kept, NEW c \in Calls, NEW w \in Withdrawals, CreateEffect(c, w)
    PROVE  Kept'
  <1>1. /\ \A d \in Calls : d # c => call'[d] = call[d]
        /\ (call'[c].at \notin Sending \/ (~manual /\ call'[c].at = "disburse" /\ call'[c].w = w))
        /\ withdrawal[w].status = "ABSENT" /\ withdrawal'[w].status = "PROCESSING"
        /\ \A v \in Withdrawals : v # w => withdrawal'[v] = withdrawal[v]
        /\ transfer' = transfer /\ manual' = manual
    BY IdleIsARequest DEF CreateEffect, Sending, moneyVars
  <1>2. transfer[w] = "NONE"
    BY <1>1 DEF Kept, OnItsWay
  <1>3. \A d \in Calls : Sends(d) => call[d].w \in Withdrawals /\ call[d].w # w
    BY <1>1, SendsW DEF Kept, OnItsWay
  <1>4. BooksAreTrue'
    BY <1>1 DEF Kept, BooksAreTrue
  <1>5. OnItsWay'
    <2>1. ASSUME NEW d \in Calls, Sends(d)'
          PROVE  /\ withdrawal'[call'[d].w].status # "ABSENT"
                 /\ call'[d].at = "disburse" => /\ ~manual' /\ transfer'[call'[d].w] = "NONE"
                                                /\ withdrawal'[call'[d].w].status = "PROCESSING"
                 /\ call'[d].at = "closePaid" => transfer'[call'[d].w] = "PAID"
                 /\ call'[d].at = "closeFailed" => transfer'[call'[d].w] = "REFUSED"
      <3>1. CASE d = c
        BY <1>1, <1>2, <2>1, <3>1 DEF Sends, Sending
      <3>2. CASE d # c
        BY <1>1, <1>3, <2>1, <3>2 DEF Sends, Sending, Kept, OnItsWay
      <3> QED
        BY <3>1, <3>2
    <2>2. \A d \in Calls : Sends(d)' /\ d # c => Sends(d) /\ call'[d].w = call[d].w /\ call'[d].w # w
      BY <1>1, <1>3 DEF Sends
    <2>3. Sends(c)' => call'[c].w = w
      BY <1>1 DEF Sends
    <2>4. \A d, e \in Calls : Sends(d)' /\ Sends(e)' /\ call'[d].w = call'[e].w => d = e
      BY <2>2, <2>3 DEF Kept, OnItsWay
    <2>5. \A v \in Withdrawals : withdrawal'[v].status = "ABSENT" => transfer'[v] = "NONE"
      BY <1>1 DEF Kept, OnItsWay
    <2> QED
      BY <2>1, <2>4, <2>5 DEF OnItsWay, Sends, Sending
  <1> QED
    BY <1>4, <1>5 DEF Kept

LEMMA DisburseKeepsBooks ==
    ASSUME TypeOK, Kept, NEW c \in Calls, NEW fact \in {"NONE", "ACCEPTED", "PAID", "REFUSED"},
           DisburseEffect(c, fact)
    PROVE  Kept'
  <1> DEFINE w == call[c].w
  <1>1. /\ \A d \in Calls : d # c => call'[d] = call[d]
        /\ Sends(c) /\ w \in Withdrawals /\ withdrawal' = withdrawal /\ manual' = manual
        /\ transfer' = [transfer EXCEPT ![w] = fact]
        /\ \/ call'[c].at \notin Sending
           \/ /\ call'[c].w = w
              /\ \/ call'[c].at = "closePaid" /\ fact = "PAID"
                 \/ call'[c].at = "closeFailed" /\ fact = "REFUSED"
    BY IdleIsARequest DEF DisburseEffect, Sends, Sending, Operated
  <1>2. withdrawal[w].status = "PROCESSING"
    BY DEF DisburseEffect, Kept, OnItsWay
  <1>3. \A d \in Calls : Sends(d) /\ d # c => call[d].w \in Withdrawals /\ call[d].w # w
    BY <1>1, SendsW DEF Kept, OnItsWay
  <1>4. transfer'[w] = fact /\ \A v \in Withdrawals : v # w => transfer'[v] = transfer[v]
    BY <1>1 DEF TypeOK
  <1> HIDE DEF w
  <1>5. BooksAreTrue'
    BY <1>1, <1>2, <1>4 DEF Kept, BooksAreTrue
  <1>6. OnItsWay'
    <2>1. ASSUME NEW d \in Calls, Sends(d)'
          PROVE  /\ withdrawal'[call'[d].w].status # "ABSENT"
                 /\ call'[d].at = "disburse" => /\ ~manual' /\ transfer'[call'[d].w] = "NONE"
                                                /\ withdrawal'[call'[d].w].status = "PROCESSING"
                 /\ call'[d].at = "closePaid" => transfer'[call'[d].w] = "PAID"
                 /\ call'[d].at = "closeFailed" => transfer'[call'[d].w] = "REFUSED"
      <3>1. CASE d = c
        BY <1>1, <1>2, <1>4, <2>1, <3>1 DEF Sends, Sending
      <3>2. CASE d # c
        BY <1>1, <1>3, <1>4, <2>1, <3>2 DEF Sends, Sending, Kept, OnItsWay
      <3> QED
        BY <3>1, <3>2
    <2>2. \A d \in Calls : Sends(d)' /\ d # c => Sends(d) /\ call'[d].w = call[d].w /\ call'[d].w # w
      BY <1>1, <1>3 DEF Sends
    <2>3. Sends(c)' => call'[c].w = w
      BY <1>1 DEF Sends
    <2>4. \A d, e \in Calls : Sends(d)' /\ Sends(e)' /\ call'[d].w = call'[e].w => d = e
      BY <2>2, <2>3 DEF Kept, OnItsWay
    <2>5. \A v \in Withdrawals : withdrawal'[v].status = "ABSENT" => transfer'[v] = "NONE"
      BY <1>1, <1>2, <1>4 DEF Kept, OnItsWay
    <2> QED
      BY <2>1, <2>4, <2>5 DEF OnItsWay, Sends, Sending
  <1> QED
    BY <1>5, <1>6 DEF Kept

\* Closing what nobody sends, by what became of the money.
LEMMA CloseKeepsBooks ==
    ASSUME TypeOK, Kept, NEW w \in Withdrawals, NEW status \in {"PAID", "FAILED"}, CloseEffect(w, status),
           status = "PAID" => transfer[w] = "PAID",
           status = "FAILED" => transfer[w] \in {"NONE", "REFUSED"},
           \A d \in Calls : call[d].at = "disburse" => call[d].w # w,
           UNCHANGED <<manual, transfer>>,
           \A d \in Calls : call'[d] = call[d] \/ call'[d].at = "idle"
    PROVE  Kept'
  <1>1. CASE withdrawal[w].status # "PROCESSING"
    BY <1>1 DEF CloseEffect, Kept, OnItsWay, BooksAreTrue, Sends, Sending
  <1>2. CASE withdrawal[w].status = "PROCESSING"
    <2>1. /\ \A v \in Withdrawals : v # w => withdrawal'[v] = withdrawal[v]
          /\ withdrawal'[w].status = status
      BY <1>2 DEF CloseEffect
    <2>2. BooksAreTrue'
      BY <2>1 DEF Kept, BooksAreTrue
    <2>3. \A d \in Calls : Sends(d)' => Sends(d) /\ call'[d] = call[d] /\ call[d].w \in Withdrawals
      BY SendsW DEF Sends, Sending
    <2>4. \A d \in Calls : call'[d].at \in Sending => Sends(d)'
      BY DEF Sends
    <2>5. OnItsWay'
      <3>1. ASSUME NEW d \in Calls, Sends(d)'
            PROVE  /\ withdrawal'[call'[d].w].status # "ABSENT"
                   /\ call'[d].at = "disburse" => /\ ~manual' /\ transfer'[call'[d].w] = "NONE"
                                                  /\ withdrawal'[call'[d].w].status = "PROCESSING"
                   /\ call'[d].at = "closePaid" => transfer'[call'[d].w] = "PAID"
                   /\ call'[d].at = "closeFailed" => transfer'[call'[d].w] = "REFUSED"
        BY <2>1, <2>3, <3>1 DEF Kept, OnItsWay
      <3>2. \A v \in Withdrawals : withdrawal'[v].status = "ABSENT" => transfer'[v] = "NONE"
        BY <2>1 DEF Kept, OnItsWay
      <3>3. \A d, e \in Calls : Sends(d)' /\ Sends(e)' /\ call'[d].w = call'[e].w => d = e
        BY <2>3 DEF Kept, OnItsWay
      <3> QED
        BY <2>4, <3>1, <3>2, <3>3 DEF OnItsWay, Sending
    <2> QED
      BY <2>2, <2>5 DEF Kept
  <1> QED
    BY <1>1, <1>2

LEMMA NextKept == Checked /\ TypeOK /\ Kept /\ [Next]_vars => Kept'
  <1> SUFFICES ASSUME Checked, TypeOK, Kept, [Next]_vars PROVE Kept'
    OBVIOUS
  <1>1. ASSUME NEW c \in Calls, Proceeds(c) PROVE Kept'
    <2>1. call'[c].at \notin Sending
      BY <1>1, IdleIsARequest
         DEF Proceeds, AskEffect, ConfirmEffect, EndEffect, TakeLockEffect, SumPaidEffect, AllowEffect,
             SalaryEffect, GoOnEffect, Sending, Asking, Confirming
    <2>2. UNCHANGED <<manual, transfer, withdrawal>> /\ \A d \in Calls : d # c => call'[d] = call[d]
      BY <1>1 DEF Proceeds, AskEffect, ConfirmEffect, EndEffect, TakeLockEffect, SumPaidEffect, AllowEffect,
                  SalaryEffect, GoOnEffect, moneyVars
    <2> QED
      BY <2>1, <2>2, OthersKeep
  <1>2. ASSUME NEW c \in Calls, NEW w \in Withdrawals, CreateEffect(c, w) PROVE Kept'
    BY <1>2, CreateKeepsBooks
  <1>3. ASSUME NEW c \in Calls, NEW fact \in {"NONE", "ACCEPTED", "PAID", "REFUSED"}, DisburseEffect(c, fact)
        PROVE  Kept'
    BY <1>3, DisburseKeepsBooks
  <1>4. ASSUME NEW c \in Calls, NEW status \in {"PAID", "FAILED"}, CloseByCallEffect(c, status) PROVE Kept'
    <2>1. /\ Sends(c) /\ call[c].w \in Withdrawals /\ CloseEffect(call[c].w, status)
          /\ UNCHANGED <<manual, transfer>> /\ call'[c].at = "idle" /\ call[c].at # "disburse"
          /\ \A d \in Calls : d # c => call'[d] = call[d]
      BY <1>4, IdleIsARequest DEF CloseByCallEffect, Sends, Sending, Beside
    <2>2. status = "PAID" => transfer[call[c].w] = "PAID"
      BY <1>4 DEF CloseByCallEffect, Kept, OnItsWay
    <2>3. status = "FAILED" => transfer[call[c].w] \in {"NONE", "REFUSED"}
      BY <1>4 DEF CloseByCallEffect, Kept, OnItsWay
    <2>4. \A d \in Calls : call[d].at = "disburse" => call[d].w # call[c].w
      BY <2>1 DEF Kept, OnItsWay, Sends, Sending
    <2> QED
      BY <2>1, <2>2, <2>3, <2>4, CloseKeepsBooks
  <1>5. ASSUME NEW w \in Withdrawals, NEW status \in {"PAID", "FAILED"}, MarkEffect(w, status) PROVE Kept'
    <2>1. CloseEffect(w, status) /\ UNCHANGED <<manual, transfer, call>>
      BY <1>5 DEF MarkEffect, Beside
    <2>2. status = "PAID" => transfer[w] = "PAID"
      BY <1>5 DEF MarkEffect, Checked
    <2>3. status = "FAILED" =>
             transfer[w] \in {"NONE", "REFUSED"} /\ \A d \in Calls : call[d].at = "disburse" => call[d].w # w
      BY <1>5 DEF MarkEffect, Checked, At
    <2>4. \A d \in Calls : call[d].at = "disburse" => call[d].w # w
      BY <2>2, <2>3 DEF Kept, OnItsWay
    <2> QED
      BY <2>1, <2>2, <2>3, <2>4, CloseKeepsBooks
  <1>6. CASE OutsideEffect
    <2>1. /\ manual' = manual /\ withdrawal' = withdrawal /\ call' = call
          /\ \A w \in Withdrawals :
                \/ transfer'[w] = transfer[w]
                \/ transfer[w] = "ACCEPTED"
                \/ manual /\ transfer[w] = "NONE" /\ withdrawal[w].status = "PROCESSING"
      BY <1>6 DEF OutsideEffect
    <2>2. BooksAreTrue'
      BY <2>1 DEF Kept, BooksAreTrue
    <2>3. \A d \in Calls : call[d].at \in Sending => call[d].w \in Withdrawals
      BY SendsW DEF Sends
    <2>4. OnItsWay'
      BY <2>1, <2>3 DEF Kept, OnItsWay, Sends, Sending
    <2> QED
      BY <2>2, <2>4 DEF Kept
  <1>7. CASE UNCHANGED vars
    BY <1>7 DEF vars, Kept, OnItsWay, BooksAreTrue, Sends
  <1> QED
    BY <1>1, <1>2, <1>3, <1>4, <1>5, <1>6, <1>7, NextCases

\* If the SuperAdmin closes by what the merchant account shows, the books say what happened to
\* the money: an answer that did not come closes nothing, and the request that received one is
\* alone with its withdrawal.
THEOREM BooksSayWhatHappened == Checked => (Spec => []BooksAreTrue)
  <1> SUFFICES ASSUME Checked PROVE Spec => []BooksAreTrue
    OBVIOUS
  <1>1. TypeOK /\ Kept /\ [Next]_vars => Kept'
    BY NextKept
  <1>2. Kept => BooksAreTrue
    BY DEF Kept
  <1> QED
    BY <1>1, <1>2, InitKept, SpecType, PTL DEF Spec
=============================================================================
