-------------------------- MODULE HandoverOtp_proofs --------------------------
(***************************************************************************)
(* For any number of codes, requests and attempts: every variable keeps    *)
(* its type -- no code takes more attempts than it may -- and a code is    *)
(* accepted once.  What makes it so is that no step brings a code back to  *)
(* PENDING, and that both the attempt and the acceptance are claimed on    *)
(* that status.  Guesses are bounded because a request that has passed the *)
(* lock without being counted yet is counted with the attempts made.       *)
(***************************************************************************)
EXTENDS HandoverOtp, SequenceTheorems, FiniteSetTheorems, WellFoundedInduction, TLAPS

\* A request under way looks at codes that were issued.
Looking ==
    \A c \in Calls :
        /\ call[c].at \in {"fail", "try"} => call[c].seen # {}
        /\ call[c].at \in {"fail", "try", "consume", "clear"} => call[c].seen \subseteq Issued
        /\ call[c].at = "consume" => call[c].guess \in Issued

\* A code still open has not been accepted.
OpenIsUnused ==
    \A k \in Rows : (k \in Issued => codes[k].status = "PENDING") => accepted[k] = 0

IInv == TypeOK /\ Looking /\ OpenIsUnused /\ AcceptedOnce

-----------------------------------------------------------------------------
LEMMA LatestIsSeen ==
    ASSUME NEW seen \in SUBSET Rows, seen # {}
    PROVE  Latest(seen) \in seen
  <1> DEFINE Bounds == {m \in Nat : \A k \in seen : k <= m}
  <1>1. MaxCodes \in Bounds /\ Bounds \subseteq Nat
    BY HandoverAssumption DEF Rows
  <1>2. PICK n \in Bounds : \A m \in Bounds : ~ (<<m, n>> \in OpToRel(<, Nat))
    BY <1>1, NatLessThanWellFounded, WFMin
  <1>3. \A m \in Bounds : ~ (m < n)
    BY <1>1, <1>2 DEF OpToRel
  <1>4. n \in seen
    <2> SUFFICES ASSUME n \notin seen PROVE FALSE
      OBVIOUS
    <2>1. \A k \in seen : k \in Nat /\ k >= 1 /\ k <= n /\ k # n
      BY HandoverAssumption DEF Rows
    <2>2. n \in Nat /\ n > 1
      BY <2>1
    <2>3. n - 1 \in Bounds /\ n - 1 < n
      BY <2>1, <2>2
    <2> QED
      BY <1>3, <2>3
  <1>5. n \in seen /\ \A j \in seen : j <= n
    BY <1>4
  <1> QED
    BY <1>5 DEF Latest

LEMMA CodesAreASequence ==
    ASSUME TypeOK
    PROVE  /\ Len(codes) \in Nat /\ Issued = 1..Len(codes) /\ Issued \subseteq Rows
           /\ codes \in [Issued -> Code]
           /\ \A k \in Issued : /\ codes[k] \in Code
                                /\ codes[k].attempts \in 0..MaxAttempts
  <1>1. codes \in Seq(Code) /\ Len(codes) <= MaxCodes /\ MaxCodes \in Nat
    BY HandoverAssumption DEF TypeOK
  <1>2. Len(codes) \in Nat /\ codes \in [1..Len(codes) -> Code] /\ Issued = 1..Len(codes)
    BY <1>1, LenProperties DEF Issued
  <1>3. Issued \subseteq Rows
    BY <1>1, <1>2 DEF Rows
  <1>4. \A k \in Issued : codes[k] \in Code
    BY <1>2
  <1>5. \A k \in Issued : codes[k].attempts \in 0..MaxAttempts
    BY <1>4 DEF Code
  <1> QED
    BY <1>2, <1>3, <1>4, <1>5

\* Changing the codes in place keeps the sequence.
LEMMA SameLength ==
    ASSUME TypeOK, NEW new \in [Issued -> Code]
    PROVE  /\ new \in Seq(Code) /\ Len(new) = Len(codes) /\ DOMAIN new = Issued
  <1>1. Len(codes) \in Nat /\ Issued = 1..Len(codes)
    BY CodesAreASequence
  <1>2. new \in Seq(Code)
    BY <1>1, SeqDef
  <1>3. Len(new) \in Nat /\ 1..Len(new) = 1..Len(codes)
    BY <1>1, <1>2, LenProperties
  <1>4. Len(new) = Len(codes)
    BY <1>1, <1>3
  <1> QED
    BY <1>2, <1>4

LEMMA InitKeeps == Init => IInv
  <1> SUFFICES ASSUME Init PROVE IInv
    OBVIOUS
  <1> USE DEF Init
  <1>1. codes \in Seq(Code) /\ Len(codes) = 0 /\ Issued = {}
    BY EmptySeq DEF Issued
  <1>2. Idle \in CallState /\ Idle.at = "idle"
    BY DEF Idle, CallState, Guesses
  <1>3. TypeOK
    BY <1>1, <1>2, HandoverAssumption DEF TypeOK
  <1>4. Looking
    BY <1>2 DEF Looking
  <1> QED
    BY <1>3, <1>4 DEF IInv, OpenIsUnused, AcceptedOnce

-----------------------------------------------------------------------------
(* One lemma for what a request does to its own place, one for each way the *)
(* codes change.                                                            *)

LEMMA CallMoves ==
    ASSUME TypeOK, NEW c \in Calls, NEW r \in CallState, call' = [call EXCEPT ![c] = r]
    PROVE  call' \in [Calls -> CallState] /\ call'[c] = r /\ \A d \in Calls : d # c => call'[d] = call[d]
  BY DEF TypeOK

LEMMA Places ==
    ASSUME TypeOK, NEW c \in Calls
    PROVE  call[c] \in CallState /\ Idle \in CallState /\ Idle.at = "idle"
  BY DEF TypeOK, Idle, CallState, Guesses

\* No code is reopened, none is lost: what the other requests look at stays.
LEMMA CallsOnly ==
    ASSUME IInv, NEW c \in Calls, NEW r \in CallState, call' = [call EXCEPT ![c] = r],
           step' \in {"WAITING", "DONE", "LEFT"}, codes' = codes, accepted' = accepted,
           r.at \in {"fail", "try"} => r.seen # {},
           r.at \in {"fail", "try", "consume", "clear"} => r.seen \subseteq Issued,
           r.at = "consume" => r.guess \in Issued
    PROVE  IInv'
  <1>1. call' \in [Calls -> CallState] /\ call'[c] = r /\ \A d \in Calls : d # c => call'[d] = call[d]
    BY CallMoves DEF IInv
  <1>2. Issued' = Issued
    BY DEF Issued
  <1>3. TypeOK'
    BY <1>1 DEF IInv, TypeOK
  <1>4. Looking'
    <2>1. ASSUME NEW d \in Calls, d # c
          PROVE  /\ call'[d] = call[d]
                 /\ call[d].at \in {"fail", "try"} => call[d].seen # {}
                 /\ call[d].at \in {"fail", "try", "consume", "clear"} => call[d].seen \subseteq Issued
                 /\ call[d].at = "consume" => call[d].guess \in Issued
      BY <1>1, <2>1 DEF IInv, Looking
    <2> QED
      BY <1>1, <1>2, <2>1 DEF Looking
  <1> QED
    BY <1>2, <1>3, <1>4 DEF IInv, OpenIsUnused, AcceptedOnce

LEMMA CodesChange ==
    ASSUME IInv, NEW c \in Calls, NEW r \in CallState, call' = [call EXCEPT ![c] = r],
           step' = step, NEW new \in [Issued -> Code], codes' = new,
           accepted' \in [Rows -> Nat], AcceptedOnce', OpenIsUnused',
           r.at \notin {"fail", "try"},
           r.at \in {"consume", "clear"} => r.seen \subseteq Issued,
           r.at = "consume" => r.guess \in Issued
    PROVE  IInv'
  <1>1. call' \in [Calls -> CallState] /\ call'[c] = r /\ \A d \in Calls : d # c => call'[d] = call[d]
    BY CallMoves DEF IInv
  <1>2. new \in Seq(Code) /\ Len(new) = Len(codes) /\ DOMAIN new = Issued
    BY SameLength DEF IInv
  <1>3. Issued' = Issued
    BY <1>2 DEF Issued
  <1>4. TypeOK'
    BY <1>1, <1>2 DEF IInv, TypeOK
  <1>5. Looking'
    BY <1>1, <1>3 DEF IInv, Looking
  <1> QED
    BY <1>4, <1>5 DEF IInv

\* SetStatus never brings a code back to PENDING.
LEMMA StatusChanges ==
    ASSUME IInv, NEW ks, NEW st \in {"VERIFIED", "FAILED", "EXPIRED"}, SetStatus(ks, st)
    PROVE  \E new \in [Issued -> Code] :
              /\ codes' = new /\ DOMAIN new = Issued
              /\ \A k \in Issued : new[k].status = "PENDING" => codes[k].status = "PENDING" /\ k \notin ks
  <1> DEFINE new == [k \in Issued |-> IF k \in ks THEN [codes[k] EXCEPT !.status = st] ELSE codes[k]]
  <1>1. \A k \in Issued : codes[k] \in Code
    BY CodesAreASequence DEF IInv
  <1>2. \A k \in Issued : [codes[k] EXCEPT !.status = st] \in Code /\ [codes[k] EXCEPT !.status = st].status = st
    BY <1>1 DEF Code
  <1>3. new \in [Issued -> Code] /\ DOMAIN new = Issued
    BY <1>1, <1>2
  <1>4. \A k \in Issued : new[k].status = "PENDING" => codes[k].status = "PENDING" /\ k \notin ks
    BY <1>2
  <1>5. codes' = new
    BY DEF SetStatus
  <1> QED
    BY <1>3, <1>4, <1>5

\* As long as nothing is accepted, codes may change: none is reopened.
LEMMA StillUnused ==
    ASSUME IInv, accepted' = accepted, DOMAIN codes' = Issued,
           \A k \in Issued : codes'[k].status = "PENDING" => codes[k].status = "PENDING"
    PROVE  OpenIsUnused' /\ AcceptedOnce' /\ accepted' \in [Rows -> Nat]
  BY DEF IInv, OpenIsUnused, AcceptedOnce, Issued, TypeOK

LEMMA IssueKeeps ==
    ASSUME IInv, NEW c \in Calls, Issue(c)
    PROVE  IInv'
  <1>1. /\ codes' = Append(codes, NewCode) /\ Len(codes) < MaxCodes
        /\ call' = [call EXCEPT ![c] = Idle] /\ step' = step /\ accepted' = accepted
        /\ codes \in Seq(Code)
    BY DEF Issue, Return, IInv, TypeOK
  <1>2. Idle \in CallState /\ Idle.at = "idle"
    BY Places DEF IInv
  <1>3. /\ call' \in [Calls -> CallState] /\ call'[c] = Idle
        /\ \A d \in Calls : d # c => call'[d] = call[d]
    BY <1>1, <1>2, CallMoves DEF IInv
  <1>4. NewCode \in Code
    BY HandoverAssumption DEF NewCode, Code
  <1>5. /\ codes' \in Seq(Code) /\ Len(codes') = Len(codes) + 1
        /\ \A k \in 1..Len(codes) : codes'[k] = codes[k]
    BY <1>1, <1>4, AppendProperties
  <1>6. /\ Len(codes) \in Nat /\ MaxCodes \in Nat /\ Issued = 1..Len(codes)
        /\ Issued' = 1..(Len(codes) + 1)
    BY <1>1, <1>5, HandoverAssumption, LenProperties DEF Issued
  <1>7. TypeOK'
    BY <1>1, <1>3, <1>5, <1>6 DEF IInv, TypeOK
  <1>8. Looking'
    BY <1>2, <1>3, <1>6 DEF IInv, Looking
  <1>9. OpenIsUnused' /\ AcceptedOnce'
    BY <1>1, <1>5, <1>6 DEF IInv, OpenIsUnused, AcceptedOnce
  <1> QED
    BY <1>7, <1>8, <1>9 DEF IInv

LEMMA ReadKeeps ==
    ASSUME IInv, NEW c \in Calls,
           \/ AskCode(c) \/ \E guess \in Issued \cup {0} : TypeCode(c, guess)
           \/ AssertNotLocked(c) \/ ReadCandidates(c) \/ Advance(c)
    PROVE  IInv'
  <1>1. Issued \subseteq Rows /\ call[c] \in CallState
    BY CodesAreASequence DEF IInv, TypeOK
  <1>2. Idle \in CallState /\ Idle.at = "idle"
    BY Places DEF IInv
  <1>3. CASE AskCode(c)
    <2>1. /\ [call[c] EXCEPT !.at = "issue"] \in CallState /\ [call[c] EXCEPT !.at = "issue"].at = "issue"
      BY <1>1 DEF CallState
    <2>2. call' = [call EXCEPT ![c] = [call[c] EXCEPT !.at = "issue"]] /\ step' \in {"WAITING", "DONE", "LEFT"}
          /\ codes' = codes /\ accepted' = accepted
      BY <1>3, <1>1 DEF AskCode, Goes, IInv, TypeOK
    <2> QED
      BY <2>1, <2>2, CallsOnly
  <1>4. CASE \E guess \in Issued \cup {0} : TypeCode(c, guess)
    <2>1. PICK guess \in Issued \cup {0} : TypeCode(c, guess)
      BY <1>4
    <2> DEFINE r == [at |-> "lock", guess |-> guess, seen |-> {}]
    <2>2. r \in CallState /\ r.at = "lock"
      BY <1>1 DEF CallState, Guesses
    <2>3. call' = [call EXCEPT ![c] = r] /\ step' \in {"WAITING", "DONE", "LEFT"}
          /\ codes' = codes /\ accepted' = accepted
      BY <2>1 DEF TypeCode, IInv, TypeOK
    <2> HIDE DEF r
    <2> QED
      BY <2>2, <2>3, CallsOnly
  <1>5. CASE AssertNotLocked(c)
    <2>1. /\ [call[c] EXCEPT !.at = "read"] \in CallState /\ [call[c] EXCEPT !.at = "read"].at = "read"
      BY <1>1 DEF CallState
    <2>2. /\ \/ call' = [call EXCEPT ![c] = [call[c] EXCEPT !.at = "read"]]
             \/ call' = [call EXCEPT ![c] = Idle]
          /\ step' \in {"WAITING", "DONE", "LEFT"} /\ codes' = codes /\ accepted' = accepted
      BY <1>5, <1>1 DEF AssertNotLocked, Goes, Return, IInv, TypeOK
    <2> QED
      BY <1>2, <2>1, <2>2, CallsOnly
  <1>6. CASE ReadCandidates(c)
    <2> DEFINE seen == {k \in Pending : Cardinality({j \in Pending : j > k}) < Tolerance}
               r(where) == [call[c] EXCEPT !.at = where, !.seen = seen]
    <2>1. seen \subseteq Issued /\ seen \in SUBSET Rows
      BY <1>1 DEF Pending
    <2> HIDE DEF seen
    <2>2. \A where \in {"fail", "try"} : r(where) \in CallState /\ r(where).at = where /\ r(where).seen = seen
      BY <1>1, <2>1 DEF CallState
    <2>3. /\ step' \in {"WAITING", "DONE", "LEFT"} /\ codes' = codes /\ accepted' = accepted
          /\ \/ call' = [call EXCEPT ![c] = Idle]
             \/ seen # {} /\ \E where \in {"fail", "try"} : call' = [call EXCEPT ![c] = r(where)]
      BY <1>6, <1>1 DEF ReadCandidates, Return, seen, IInv, TypeOK
    <2>4. CASE call' = [call EXCEPT ![c] = Idle]
      BY <1>2, <2>3, <2>4, CallsOnly
    <2>5. CASE seen # {} /\ \E where \in {"fail", "try"} : call' = [call EXCEPT ![c] = r(where)]
      <3>1. PICK where \in {"fail", "try"} : call' = [call EXCEPT ![c] = r(where)]
        BY <2>5
      <3>2. r(where) \in CallState /\ r(where).at = where /\ r(where).seen = seen
        BY <2>2
      <3> HIDE DEF r
      <3> QED
        BY <2>1, <2>3, <2>5, <3>1, <3>2, CallsOnly
    <2> QED
      BY <2>3, <2>4, <2>5
  <1>7. CASE Advance(c)
    <2>1. call' = [call EXCEPT ![c] = Idle] /\ step' \in {"WAITING", "DONE", "LEFT"}
          /\ codes' = codes /\ accepted' = accepted
      BY <1>7 DEF Advance, Return, IInv, TypeOK
    <2> QED
      BY <1>2, <2>1, CallsOnly
  <1> QED
    BY <1>3, <1>4, <1>5, <1>6, <1>7

LEMMA MarkKeeps ==
    ASSUME IInv, NEW c \in Calls, MarkFailed(c) \/ ExpireOthers(c)
    PROVE  IInv'
  <1>1. call[c] \in CallState /\ Idle \in CallState /\ Idle.at = "idle"
    BY Places DEF IInv, TypeOK
  <1> DEFINE gone == [call[c] EXCEPT !.at = "advance"]
  <1>2. gone \in CallState /\ gone.at = "advance"
    BY <1>1 DEF CallState
  <1>3. /\ step' = step /\ accepted' = accepted
        /\ \E ks : \E st \in {"VERIFIED", "FAILED", "EXPIRED"} : SetStatus(ks, st)
        /\ \E r \in {Idle, gone} : call' = [call EXCEPT ![c] = r]
    BY <1>1 DEF MarkFailed, ExpireOthers, Goes, Return, IInv, TypeOK
  <1>4. PICK r \in {Idle, gone} : call' = [call EXCEPT ![c] = r]
    BY <1>3
  <1>5. r \in CallState /\ r.at \in {"idle", "advance"}
    BY <1>1, <1>2
  <1>6. PICK new \in [Issued -> Code] :
           /\ codes' = new /\ DOMAIN new = Issued
           /\ \A k \in Issued : new[k].status = "PENDING" => codes[k].status = "PENDING"
    BY <1>3, StatusChanges
  <1>7. OpenIsUnused' /\ AcceptedOnce' /\ accepted' \in [Rows -> Nat]
    BY <1>3, <1>6, StillUnused
  <1> HIDE DEF gone
  <1> QED
    BY <1>3, <1>4, <1>5, <1>6, <1>7, CodesChange

\* The attempt is counted only while there are some left.
LEMMA TryKeeps ==
    ASSUME IInv, NEW c \in Calls, Try(c)
    PROVE  IInv'
  <1> DEFINE latest == Latest(call[c].seen)
             more == [codes[latest] EXCEPT !.attempts = @ + 1]
             found == [call[c] EXCEPT !.at = "consume"]
  <1>1. /\ call[c] \in CallState /\ call[c].at = "try" /\ Idle \in CallState /\ Idle.at = "idle"
        /\ Issued \subseteq Rows
    BY Places, CodesAreASequence DEF IInv, TypeOK, Try, At
  <1>2. call[c].seen \subseteq Issued /\ latest \in Issued
    <2>1. call[c].seen \subseteq Issued /\ call[c].seen # {}
      BY <1>1 DEF IInv, Looking
    <2> QED
      BY <1>1, <2>1, LatestIsSeen
  <1>3. found \in CallState /\ found.at = "consume" /\ found.guess = call[c].guess /\ found.seen = call[c].seen
    BY <1>1 DEF CallState
  <1>4. codes \in [Issued -> Code] /\ codes[latest] \in Code
    BY <1>2, CodesAreASequence DEF IInv
  <1> HIDE DEF latest
  <1>5. CASE codes[latest].status = "PENDING" /\ codes[latest].attempts < MaxAttempts
    <2>1. more \in Code /\ more.status = codes[latest].status
      BY <1>4, <1>5, HandoverAssumption DEF Code
    <2>2. /\ step' = step /\ accepted' = accepted
          /\ codes' = [codes EXCEPT ![latest] = more]
          /\ \/ call' = [call EXCEPT ![c] = Idle]
             \/ call[c].guess \in call[c].seen /\ call' = [call EXCEPT ![c] = found]
      BY <1>1, <1>4, <1>5 DEF Try, latest, Goes, Return, IInv, TypeOK
    <2> DEFINE new == [codes EXCEPT ![latest] = more]
    <2>3. /\ new \in [Issued -> Code] /\ DOMAIN new = Issued
          /\ \A k \in Issued : new[k].status = codes[k].status
      BY <1>2, <1>4, <2>1
    <2> HIDE DEF new, more, found
    <2>4. codes' = new
      BY <2>2 DEF new
    <2>5. OpenIsUnused' /\ AcceptedOnce' /\ accepted' \in [Rows -> Nat]
      BY <2>2, <2>3, <2>4, StillUnused
    <2>6. CASE call' = [call EXCEPT ![c] = Idle]
      BY <1>1, <2>2, <2>3, <2>4, <2>5, <2>6, CodesChange
    <2>7. CASE call[c].guess \in call[c].seen /\ call' = [call EXCEPT ![c] = found]
      BY <1>2, <1>3, <2>2, <2>3, <2>4, <2>5, <2>7, CodesChange
    <2> QED
      BY <2>2, <2>6, <2>7
  <1>6. CASE ~(codes[latest].status = "PENDING" /\ codes[latest].attempts < MaxAttempts)
    <2>1. call' = [call EXCEPT ![c] = Idle] /\ step' \in {"WAITING", "DONE", "LEFT"}
          /\ codes' = codes /\ accepted' = accepted
      BY <1>6 DEF Try, latest, Return, IInv, TypeOK
    <2> QED
      BY <1>1, <2>1, CallsOnly
  <1> QED
    BY <1>5, <1>6

\* The acceptance is claimed on the status, which leaves PENDING with it.
LEMMA ConsumeKeeps ==
    ASSUME IInv, NEW c \in Calls, Consume(c)
    PROVE  IInv'
  <1> DEFINE match == call[c].guess
             done == [call[c] EXCEPT !.at = "clear"]
  <1>1. /\ call[c] \in CallState /\ call[c].at = "consume" /\ Idle \in CallState /\ Idle.at = "idle"
        /\ Issued \subseteq Rows /\ step' = step
    BY Places, CodesAreASequence DEF IInv, TypeOK, Consume, At
  <1>2. match \in Issued /\ match \in Rows /\ call[c].seen \subseteq Issued
    BY <1>1 DEF IInv, Looking
  <1>3. done \in CallState /\ done.at = "clear" /\ done.seen = call[c].seen
    BY <1>1 DEF CallState
  <1>4. CASE codes[match].status = "PENDING"
    <2>1. /\ SetStatus({match}, "VERIFIED")
          /\ accepted' = [accepted EXCEPT ![match] = accepted[match] + 1]
          /\ call' = [call EXCEPT ![c] = done]
      BY <1>1, <1>4 DEF Consume, Goes, IInv, TypeOK
    <2>2. PICK new \in [Issued -> Code] :
             /\ codes' = new /\ DOMAIN new = Issued
             /\ \A k \in Issued : new[k].status = "PENDING" => codes[k].status = "PENDING" /\ k \notin {match}
      BY <2>1, StatusChanges
    <2> HIDE DEF done, match
    <2>3. accepted[match] = 0 /\ accepted \in [Rows -> Nat]
      BY <1>2, <1>4 DEF IInv, OpenIsUnused, TypeOK
    <2>4. /\ accepted' \in [Rows -> Nat] /\ accepted'[match] = 1
          /\ \A k \in Rows : k # match => accepted'[k] = accepted[k]
      BY <1>2, <2>1, <2>3
    <2>5. AcceptedOnce'
      BY <2>3, <2>4 DEF IInv, AcceptedOnce
    <2>6. Issued' = Issued
      BY <2>2 DEF Issued
    <2>7. OpenIsUnused'
      BY <1>2, <2>2, <2>4, <2>6 DEF IInv, OpenIsUnused
    <2> QED
      BY <1>1, <1>2, <1>3, <2>1, <2>2, <2>4, <2>5, <2>7, CodesChange
  <1>5. CASE codes[match].status # "PENDING"
    <2>1. call' = [call EXCEPT ![c] = Idle] /\ step' \in {"WAITING", "DONE", "LEFT"}
          /\ codes' = codes /\ accepted' = accepted
      BY <1>5 DEF Consume, Return, IInv, TypeOK
    <2> QED
      BY <1>1, <2>1, CallsOnly
  <1> QED
    BY <1>4, <1>5

\* Time passes for a code, which keeps its status and its attempts.
LEMMA TimeKeeps ==
    ASSUME IInv, NEW k \in Rows, CodeExpires(k) \/ HourPasses(k)
    PROVE  IInv'
  <1>1. /\ k \in Issued /\ step' = step /\ accepted' = accepted /\ call' = call
        /\ codes \in [Issued -> Code]
    BY CodesAreASequence DEF CodeExpires, HourPasses, IInv
  <1>2. PICK c \in Code : c.status = codes[k].status /\ codes' = [codes EXCEPT ![k] = c]
    <2>1. /\ [codes[k] EXCEPT !.valid = FALSE] \in Code /\ [codes[k] EXCEPT !.recent = FALSE] \in Code
          /\ [codes[k] EXCEPT !.valid = FALSE].status = codes[k].status
          /\ [codes[k] EXCEPT !.recent = FALSE].status = codes[k].status
      BY <1>1 DEF Code
    <2>2. \/ codes' = [codes EXCEPT ![k] = [codes[k] EXCEPT !.valid = FALSE]]
          \/ codes' = [codes EXCEPT ![k] = [codes[k] EXCEPT !.recent = FALSE]]
      BY <1>1 DEF CodeExpires, HourPasses
    <2> QED
      BY <2>1, <2>2
  <1>3. /\ codes' \in [Issued -> Code] /\ DOMAIN codes' = Issued
        /\ \A j \in Issued : codes'[j].status = codes[j].status
    BY <1>1, <1>2
  <1>4. OpenIsUnused' /\ AcceptedOnce'
    BY <1>1, <1>3, StillUnused
  <1>5. codes' \in Seq(Code) /\ Len(codes') = Len(codes)
    BY <1>3, SameLength DEF IInv
  <1>6. TypeOK'
    BY <1>1, <1>5 DEF IInv, TypeOK
  <1>7. Issued' = Issued
    BY <1>3 DEF Issued
  <1>8. Looking'
    BY <1>1, <1>7 DEF IInv, Looking
  <1> QED
    BY <1>4, <1>6, <1>8 DEF IInv

LEMMA StepKeeps == IInv /\ [Next]_vars => IInv'
  <1> SUFFICES ASSUME IInv, [Next]_vars PROVE IInv'
    OBVIOUS
  <1>1. CASE \E c \in Calls : Issue(c)
    BY <1>1, IssueKeeps
  <1>2. CASE \E c \in Calls :
                \/ AskCode(c) \/ \E guess \in Issued \cup {0} : TypeCode(c, guess)
                \/ AssertNotLocked(c) \/ ReadCandidates(c) \/ Advance(c)
    BY <1>2, ReadKeeps
  <1>3. CASE \E c \in Calls : MarkFailed(c) \/ ExpireOthers(c)
    BY <1>3, MarkKeeps
  <1>4. CASE \E c \in Calls : Try(c)
    BY <1>4, TryKeeps
  <1>5. CASE \E c \in Calls : Consume(c)
    BY <1>5, ConsumeKeeps
  <1>6. CASE \E k \in Rows : CodeExpires(k) \/ HourPasses(k)
    BY <1>6, TimeKeeps
  <1>7. CASE ValidateByHand \/ Leave \/ UNCHANGED vars
    <2>1. /\ step' \in {"WAITING", "DONE", "LEFT"}
          /\ codes' = codes /\ accepted' = accepted /\ call' = call
      BY <1>7 DEF ValidateByHand, Leave, vars, IInv, TypeOK
    <2>2. Issued' = Issued
      BY <2>1 DEF Issued
    <2> QED
      BY <2>1, <2>2 DEF IInv, TypeOK, Looking, OpenIsUnused, AcceptedOnce
  <1> QED
    BY <1>1, <1>2, <1>3, <1>4, <1>5, <1>6, <1>7 DEF Next

LEMMA Inductive == Spec => []IInv
  BY InitKeeps, StepKeeps, PTL DEF Spec

\* Every variable keeps its type: whatever requests run at once, no code takes more attempts
\* than it may (OtpService.verify claims the attempt before it compares).
THEOREM TypeCorrect == Spec => []TypeOK
  <1>1. IInv => TypeOK
    BY DEF IInv
  <1> QED
    BY <1>1, Inductive, PTL

\* A code is accepted once (OtpService.verify claims it while it is PENDING).
THEOREM CodesAreForOneUse == Spec => []AcceptedOnce
  <1>1. IInv => AcceptedOnce
    BY DEF IInv
  <1> QED
    BY <1>1, Inductive, PTL

-----------------------------------------------------------------------------
(* How many guesses there are: the attempts of the last hour, and those of  *)
(* the requests that have passed the lock and have not been counted yet.    *)

Recent == {k \in Issued : codes[k].recent}
Spent == {u \in Recent \X (1..MaxAttempts) : u[2] <= codes[u[1]].attempts}
Trying == {c \in Calls : call[c].at \in {"read", "try"}}
Unopened == \A k \in Rows : accepted[k] = 0

VerifiedIsAccepted == \A k \in Issued : codes[k].status = "VERIFIED" => accepted[k] > 0
GuessesFit == Unopened => Cardinality(Spent) + Cardinality(Trying) < LockAt + Cardinality(Calls)

Finite ==
    /\ IsFiniteSet(Spent) /\ Cardinality(Spent) \in Nat
    /\ IsFiniteSet(Trying) /\ Cardinality(Trying) \in Nat
    /\ Cardinality(Trying) <= Cardinality(Calls) /\ Cardinality(Calls) \in Nat

LEMMA FinitelyMany == IInv => Finite
  <1> SUFFICES ASSUME IInv PROVE Finite
    OBVIOUS
  <1>1. MaxCodes \in Nat /\ MaxAttempts \in Nat /\ IsFiniteSet(Calls)
    BY HandoverAssumption
  <1>2. IsFiniteSet(Rows \X (1..MaxAttempts))
    <2>1. IsFiniteSet(Rows) /\ IsFiniteSet(1..MaxAttempts)
      BY <1>1, FS_Interval DEF Rows
    <2> QED
      BY <2>1, FS_Product
  <1>3. Spent \subseteq Rows \X (1..MaxAttempts)
    BY CodesAreASequence DEF Spent, Recent, IInv
  <1>4. IsFiniteSet(Spent)
    BY <1>2, <1>3, FS_Subset
  <1>5. Trying \subseteq Calls
    BY DEF Trying
  <1>6. IsFiniteSet(Trying) /\ Cardinality(Trying) <= Cardinality(Calls)
    BY <1>1, <1>5, FS_Subset
  <1> QED
    BY <1>1, <1>4, <1>6, FS_CardinalityType DEF Finite

\* The same in the state after a step.
LEMMA StillFinite == IInv' => Finite'
  BY FinitelyMany, PTL

\* No attempt is added by rows that keep theirs, get older or are new.
LEMMA SpentShrinks ==
    ASSUME IInv, IInv',
           \A k \in Issued' :
              \/ codes'[k].attempts = 0
              \/ /\ k \in Issued /\ codes'[k].attempts = codes[k].attempts
                 /\ codes'[k].recent => codes[k].recent
    PROVE  Cardinality(Spent') <= Cardinality(Spent)
  <1>1. \A k \in Issued' : codes'[k].attempts \in Nat
    BY CodesAreASequence, HandoverAssumption DEF IInv
  <1>2. Spent' \subseteq Spent
    <2> SUFFICES ASSUME NEW k \in Recent', NEW i \in 1..MaxAttempts, i <= codes'[k].attempts
                 PROVE  k \in Recent /\ i <= codes[k].attempts
      BY DEF Spent
    <2> QED
      BY HandoverAssumption DEF Recent
  <1> QED
    BY <1>2, FinitelyMany, FS_Subset DEF Finite

LEMMA TryingShrinks ==
    ASSUME IInv, Trying' \subseteq Trying
    PROVE  Cardinality(Trying') <= Cardinality(Trying)
  BY FinitelyMany, FS_Subset DEF Finite

\* The step of a request that does not lead to a comparison.
LEMMA AsideShrinks ==
    ASSUME NEW c \in Calls, \A d \in Calls : d # c => call'[d] = call[d],
           call'[c].at \in {"read", "try"} => call[c].at \in {"read", "try"}
    PROVE  Trying' \subseteq Trying
  BY DEF Trying

LEMMA FitsStill ==
    ASSUME IInv, IInv', GuessesFit, Unopened' => Unopened,
           Cardinality(Spent') <= Cardinality(Spent), Trying' \subseteq Trying
    PROVE  GuessesFit'
  <1>1. /\ Cardinality(Spent) \in Nat /\ Cardinality(Spent') \in Nat
        /\ Cardinality(Trying) \in Nat /\ Cardinality(Trying') \in Nat
        /\ Cardinality(Calls) \in Nat /\ LockAt \in Nat
    BY FinitelyMany, StillFinite, HandoverAssumption DEF Finite
  <1>2. Cardinality(Trying') <= Cardinality(Trying)
    BY TryingShrinks
  <1> QED
    BY <1>1, <1>2 DEF GuessesFit

LEMMA CallsOf ==
    ASSUME IInv, NEW c \in Calls
    PROVE  /\ \A where : Goes(c, where) =>
                /\ call'[c].at = where /\ \A d \in Calls : d # c => call'[d] = call[d]
           /\ Return(c) => call'[c].at = "idle" /\ \A d \in Calls : d # c => call'[d] = call[d]
  <1>1. call \in [Calls -> CallState] /\ call[c] \in CallState
    BY DEF IInv, TypeOK
  <1> QED
    BY <1>1 DEF Goes, Return, Idle, CallState

\* The requests that change no code.
LEMMA ReadFits ==
    ASSUME IInv, IInv', GuessesFit, VerifiedIsAccepted, NEW c \in Calls,
           \/ AskCode(c) \/ \E guess \in Issued \cup {0} : TypeCode(c, guess)
           \/ ReadCandidates(c) \/ Advance(c)
    PROVE  GuessesFit' /\ VerifiedIsAccepted'
  <1>1. codes' = codes /\ accepted' = accepted
    BY DEF AskCode, TypeCode, ReadCandidates, Advance
  <1>2. Trying' \subseteq Trying
    <2>1. call \in [Calls -> CallState] /\ call[c] \in CallState
      BY DEF IInv, TypeOK
    <2>2. CASE AskCode(c) \/ Advance(c)
      BY <2>2, CallsOf, AsideShrinks DEF AskCode, Advance
    <2>3. CASE \E guess \in Issued \cup {0} : TypeCode(c, guess)
      <3>1. call'[c].at = "lock" /\ \A d \in Calls : d # c => call'[d] = call[d]
        BY <2>1, <2>3 DEF TypeCode
      <3> QED
        BY <3>1, AsideShrinks
    <2>4. CASE ReadCandidates(c)
      <3>1. call[c].at = "read"
        BY <2>4 DEF ReadCandidates, At
      <3>2. \A d \in Calls : d # c => call'[d] = call[d]
        BY <2>1, <2>4 DEF ReadCandidates, Return
      <3> QED
        BY <3>1, <3>2, AsideShrinks
    <2> QED
      BY <2>2, <2>3, <2>4
  <1>3. Cardinality(Spent') <= Cardinality(Spent)
    BY <1>1, SpentShrinks DEF Issued
  <1> QED
    BY <1>1, <1>2, <1>3, FitsStill DEF VerifiedIsAccepted, Unopened, Issued

\* The lock lets a request pass only while less than LockAt attempts were made.
LEMMA LockFits ==
    ASSUME IInv, IInv', GuessesFit, VerifiedIsAccepted, NEW c \in Calls, AssertNotLocked(c)
    PROVE  GuessesFit' /\ VerifiedIsAccepted'
  <1>1. codes' = codes /\ accepted' = accepted /\ Issued' = Issued
    BY DEF AssertNotLocked, Issued
  <1>2. VerifiedIsAccepted'
    BY <1>1 DEF VerifiedIsAccepted
  <1>3. CASE Return(c)
    <2>1. Trying' \subseteq Trying
      BY <1>3, CallsOf, AsideShrinks
    <2>2. Cardinality(Spent') <= Cardinality(Spent)
      BY <1>1, SpentShrinks
    <2> QED
      BY <1>1, <1>2, <2>1, <2>2, FitsStill DEF Unopened
  <1>4. CASE ~Return(c)
    <2> SUFFICES ASSUME Unopened'
                 PROVE  Cardinality(Spent') + Cardinality(Trying') < LockAt + Cardinality(Calls)
      BY <1>2 DEF GuessesFit
    <2>1. {k \in Issued : codes[k].recent /\ codes[k].status # "VERIFIED"} = Recent
      <3>1. \A k \in Issued : accepted[k] = 0
        BY <1>1, CodesAreASequence DEF Unopened, IInv
      <3> QED
        BY <3>1 DEF Recent, VerifiedIsAccepted
    <2>2. Attempts(Recent) < LockAt
      BY <1>4, <2>1 DEF AssertNotLocked
    <2>3. Spent' = Spent
      BY <1>1 DEF Spent, Recent
    <2>4. Cardinality(Spent') < LockAt
      BY <2>2, <2>3 DEF Attempts, Spent
    <2>5. /\ Cardinality(Spent') \in Nat /\ Cardinality(Trying') \in Nat /\ Cardinality(Calls) \in Nat
          /\ Cardinality(Trying') <= Cardinality(Calls) /\ LockAt \in Nat
      BY FinitelyMany, StillFinite, HandoverAssumption DEF Finite
    <2> QED
      BY <2>4, <2>5
  <1> QED
    BY <1>3, <1>4

\* A comparison counts one attempt, which its request had in reserve.
LEMMA TryFits ==
    ASSUME IInv, IInv', GuessesFit, VerifiedIsAccepted, NEW c \in Calls, Try(c)
    PROVE  GuessesFit' /\ VerifiedIsAccepted'
  <1> DEFINE latest == Latest(call[c].seen)
  <1>1. call[c].at = "try" /\ accepted' = accepted /\ codes \in [Issued -> Code]
    BY CodesAreASequence DEF Try, At, IInv
  <1>2. Return(c) \/ Goes(c, "consume")
    BY DEF Try
  <1>3. /\ call'[c].at \notin {"read", "try"} /\ \A d \in Calls : d # c => call'[d] = call[d]
    BY <1>2, CallsOf
  <1>4. CASE codes' = codes
    <2>1. Trying' \subseteq Trying
      BY <1>3, AsideShrinks
    <2>2. Cardinality(Spent') <= Cardinality(Spent)
      BY <1>4, SpentShrinks DEF Issued
    <2> QED
      BY <1>1, <1>4, <2>1, <2>2, FitsStill DEF VerifiedIsAccepted, Unopened, Issued
  <1>5. CASE codes' # codes
    <2>1. latest \in Issued
      <3>1. call[c].seen \subseteq Issued /\ call[c].seen # {} /\ Issued \subseteq Rows
        BY <1>1, CodesAreASequence DEF IInv, Looking
      <3> QED
        BY <3>1, LatestIsSeen
    <2>2. codes' = [codes EXCEPT ![latest].attempts = codes[latest].attempts + 1]
      BY <1>5 DEF Try
    <2> HIDE DEF latest
    <2>3. codes[latest] \in Code /\ codes[latest].attempts \in Nat
      BY <1>1, <2>1, CodesAreASequence, HandoverAssumption DEF IInv
    <2>4. /\ Issued' = Issued
          /\ \A k \in Issued : k # latest => codes'[k] = codes[k]
          /\ codes'[latest].attempts = codes[latest].attempts + 1
          /\ codes'[latest].recent = codes[latest].recent
          /\ codes'[latest].status = codes[latest].status
      BY <1>1, <2>1, <2>2, <2>3 DEF Issued, Code
    <2>5. VerifiedIsAccepted'
      BY <1>1, <2>4 DEF VerifiedIsAccepted
    <2> DEFINE new == <<latest, codes[latest].attempts + 1>>
    <2>6. Spent' \subseteq Spent \cup {new}
      <3> SUFFICES ASSUME NEW k \in Recent', NEW i \in 1..MaxAttempts, i <= codes'[k].attempts
                   PROVE  k \in Recent /\ (i <= codes[k].attempts \/ <<k, i>> = new)
        BY DEF Spent
      <3>1. k \in Recent /\ MaxAttempts \in Nat
        BY <2>4, HandoverAssumption DEF Recent
      <3> QED
        BY <2>3, <2>4, <3>1 DEF Recent
    <2> HIDE DEF new
    <2>7. Cardinality(Spent') <= Cardinality(Spent) + 1
      <3>1. IsFiniteSet(Spent \cup {new}) /\ Cardinality(Spent \cup {new}) \in Nat
        BY FinitelyMany, FS_AddElement, FS_CardinalityType DEF Finite
      <3>2. Cardinality(Spent \cup {new}) <= Cardinality(Spent) + 1
        <4>1. IsFiniteSet(Spent) /\ Cardinality(Spent) \in Nat
          BY FinitelyMany DEF Finite
        <4>2. Cardinality(Spent \cup {new})
                = IF new \in Spent THEN Cardinality(Spent) ELSE Cardinality(Spent) + 1
          BY <4>1, FS_AddElement
        <4> QED
          BY <4>1, <4>2
      <3>3. Cardinality(Spent') <= Cardinality(Spent \cup {new})
        BY <2>6, <3>1, FS_Subset
      <3> QED
        BY <3>1, <3>2, <3>3, FinitelyMany, StillFinite DEF Finite
    <2>8. Cardinality(Trying') <= Cardinality(Trying) - 1
      <3>1. Trying' \subseteq Trying \ {c} /\ c \in Trying
        BY <1>1, <1>3 DEF Trying
      <3>2. IsFiniteSet(Trying \ {c}) /\ Cardinality(Trying \ {c}) = Cardinality(Trying) - 1
        BY <3>1, FinitelyMany, FS_RemoveElement DEF Finite
      <3> QED
        BY <3>1, <3>2, FS_Subset
    <2>9. /\ Cardinality(Spent) \in Nat /\ Cardinality(Spent') \in Nat
          /\ Cardinality(Trying) \in Nat /\ Cardinality(Trying') \in Nat
          /\ Cardinality(Calls) \in Nat /\ LockAt \in Nat
      BY FinitelyMany, StillFinite, HandoverAssumption DEF Finite
    <2>10. Unopened' => Unopened
      BY <1>1 DEF Unopened
    <2> QED
      BY <2>5, <2>7, <2>8, <2>9, <2>10 DEF GuessesFit
  <1> QED
    BY <1>4, <1>5

\* What becomes of a code does not change its attempts.
LEMMA StatusOnly ==
    ASSUME IInv, NEW ks, NEW st, SetStatus(ks, st)
    PROVE  /\ Issued' = Issued
           /\ \A k \in Issued : /\ codes'[k].attempts = codes[k].attempts
                                /\ codes'[k].recent = codes[k].recent
                                /\ codes'[k].status = IF k \in ks THEN st ELSE codes[k].status
  <1>1. \A k \in Issued : codes[k] \in Code
    BY CodesAreASequence DEF IInv
  <1>2. /\ Issued' = Issued
        /\ \A k \in Issued : codes'[k] = IF k \in ks THEN [codes[k] EXCEPT !.status = st] ELSE codes[k]
    BY DEF SetStatus, Issued
  <1> QED
    BY <1>1, <1>2 DEF Code

LEMMA MarkFits ==
    ASSUME IInv, IInv', GuessesFit, VerifiedIsAccepted, NEW c \in Calls,
           MarkFailed(c) \/ Consume(c) \/ ExpireOthers(c)
    PROVE  GuessesFit' /\ VerifiedIsAccepted'
  <1>1. Return(c) \/ \E where \in {"clear", "advance"} : Goes(c, where)
    BY DEF MarkFailed, Consume, ExpireOthers
  <1>2. Trying' \subseteq Trying
    BY <1>1, CallsOf, AsideShrinks
  <1>3. accepted \in [Rows -> Nat] /\ Issued \subseteq Rows
    BY CodesAreASequence DEF IInv, TypeOK
  <1>4. CASE codes' = codes /\ accepted' = accepted
    <2>1. Cardinality(Spent') <= Cardinality(Spent)
      BY <1>4, SpentShrinks DEF Issued
    <2> QED
      BY <1>2, <1>4, <2>1, FitsStill DEF VerifiedIsAccepted, Unopened, Issued
  <1>5. ASSUME NEW ks, NEW st, SetStatus(ks, st), Unopened' => Unopened,
               \A k \in Issued : codes'[k].status = "VERIFIED" => accepted'[k] > 0
        PROVE  GuessesFit' /\ VerifiedIsAccepted'
    <2>1. Issued' = Issued /\ VerifiedIsAccepted'
      BY <1>5, StatusOnly DEF VerifiedIsAccepted
    <2>2. Cardinality(Spent') <= Cardinality(Spent)
      BY <1>5, StatusOnly, SpentShrinks
    <2> QED
      BY <1>2, <1>5, <2>1, <2>2, FitsStill
  <1>6. CASE MarkFailed(c) \/ ExpireOthers(c)
    <2>1. accepted' = accepted
      BY <1>6 DEF MarkFailed, ExpireOthers
    <2>2. PICK ks : \E st \in {"FAILED", "EXPIRED"} : SetStatus(ks, st)
      BY <1>6 DEF MarkFailed, ExpireOthers
    <2>3. \A k \in Issued : codes'[k].status = "VERIFIED" => accepted'[k] > 0
      BY <2>1, <2>2, StatusOnly DEF VerifiedIsAccepted
    <2> QED
      BY <1>5, <2>1, <2>2, <2>3 DEF Unopened
  <1>7. CASE Consume(c) /\ ~(codes' = codes /\ accepted' = accepted)
    <2> DEFINE match == call[c].guess
    <2>1. /\ SetStatus({match}, "VERIFIED")
          /\ accepted' = [accepted EXCEPT ![match] = accepted[match] + 1]
      BY <1>7 DEF Consume
    <2>2. match \in Rows
      BY <1>3, <1>7 DEF Consume, At, IInv, Looking
    <2> HIDE DEF match
    <2>3. /\ accepted'[match] = accepted[match] + 1 /\ accepted[match] \in Nat
          /\ \A k \in Rows : k # match => accepted'[k] = accepted[k]
      BY <1>3, <2>1, <2>2
    <2>4. ~Unopened'
      BY <2>2, <2>3 DEF Unopened
    <2>5. \A k \in Issued : codes'[k].status = "VERIFIED" => accepted'[k] > 0
      BY <1>3, <2>1, <2>3, StatusOnly DEF VerifiedIsAccepted
    <2> QED
      BY <1>5, <2>1, <2>4, <2>5
  <1> QED
    BY <1>4, <1>6, <1>7

LEMMA IssueFits ==
    ASSUME IInv, IInv', GuessesFit, VerifiedIsAccepted, NEW c \in Calls, Issue(c)
    PROVE  GuessesFit' /\ VerifiedIsAccepted'
  <1>1. /\ codes' = Append(codes, NewCode) /\ accepted' = accepted /\ Return(c)
        /\ codes \in Seq(Code) /\ NewCode \in Code
    BY HandoverAssumption DEF Issue, IInv, TypeOK, NewCode, Code
  <1>2. /\ Len(codes) \in Nat /\ Issued = 1..Len(codes) /\ Issued' = 1..(Len(codes) + 1)
        /\ codes'[Len(codes) + 1] = NewCode
        /\ \A k \in Issued : codes'[k] = codes[k]
    BY <1>1, AppendProperties, LenProperties DEF Issued
  <1>3. Trying' \subseteq Trying
    BY <1>1, CallsOf, AsideShrinks
  <1>4. NewCode.attempts = 0 /\ NewCode.status = "PENDING"
    BY DEF NewCode
  <1>5. \A k \in Issued' : k \in Issued \/ codes'[k] = NewCode
    BY <1>2
  <1>6. Cardinality(Spent') <= Cardinality(Spent)
    BY <1>2, <1>4, <1>5, SpentShrinks
  <1>7. VerifiedIsAccepted'
    BY <1>1, <1>2, <1>4, <1>5 DEF VerifiedIsAccepted
  <1> QED
    BY <1>1, <1>3, <1>6, <1>7, FitsStill DEF Unopened

LEMMA TimeFits ==
    ASSUME IInv, IInv', GuessesFit, VerifiedIsAccepted,
           \/ \E k \in Rows : CodeExpires(k) \/ HourPasses(k)
           \/ ValidateByHand \/ Leave \/ UNCHANGED vars
    PROVE  GuessesFit' /\ VerifiedIsAccepted'
  <1>1. accepted' = accepted /\ call' = call
    BY DEF CodeExpires, HourPasses, ValidateByHand, Leave, vars
  <1>2. \A k \in Issued : codes[k] \in Code
    BY CodesAreASequence DEF IInv
  <1>3. /\ Issued' = Issued
        /\ \A k \in Issued : /\ codes'[k].attempts = codes[k].attempts
                             /\ codes'[k].status = codes[k].status
                             /\ codes'[k].recent => codes[k].recent
    <2>1. CASE codes' = codes
      BY <2>1 DEF Issued
    <2>2. CASE \E k \in Rows : CodeExpires(k) \/ HourPasses(k)
      <3>1. PICK k \in Issued : \/ codes' = [codes EXCEPT ![k].valid = FALSE]
                                \/ codes' = [codes EXCEPT ![k].recent = FALSE]
        BY <2>2 DEF CodeExpires, HourPasses
      <3>2. /\ Issued' = Issued /\ \A j \in Issued : j # k => codes'[j] = codes[j]
            /\ \/ codes'[k] = [codes[k] EXCEPT !.valid = FALSE]
               \/ codes'[k] = [codes[k] EXCEPT !.recent = FALSE]
        BY <3>1 DEF Issued
      <3>3. /\ codes'[k].attempts = codes[k].attempts
            /\ codes'[k].status = codes[k].status
            /\ codes'[k].recent => codes[k].recent
        BY <1>2, <3>2 DEF Code
      <3> QED
        BY <3>2, <3>3
    <2> QED
      BY <2>1, <2>2 DEF ValidateByHand, Leave, vars
  <1>4. Cardinality(Spent') <= Cardinality(Spent)
    BY <1>3, SpentShrinks
  <1>5. Trying' = Trying
    BY <1>1 DEF Trying
  <1> QED
    BY <1>1, <1>3, <1>4, <1>5, FitsStill DEF Unopened, VerifiedIsAccepted

LEMMA InitFits == Init => GuessesFit /\ VerifiedIsAccepted
  <1> SUFFICES ASSUME Init PROVE GuessesFit /\ VerifiedIsAccepted
    OBVIOUS
  <1>1. Issued = {} /\ Spent = {}
    BY EmptySeq DEF Init, Issued, Spent, Recent
  <1>2. Trying = {}
    BY DEF Init, Trying, Idle
  <1>3. Cardinality(Calls) \in Nat /\ LockAt \in Nat \ {0}
    BY HandoverAssumption, FS_CardinalityType
  <1> QED
    BY <1>1, <1>2, <1>3, FS_EmptySet DEF GuessesFit, VerifiedIsAccepted

LEMMA NextFits ==
    IInv /\ IInv' /\ GuessesFit /\ VerifiedIsAccepted /\ [Next]_vars
        => GuessesFit' /\ VerifiedIsAccepted'
  BY ReadFits, LockFits, TryFits, MarkFits, IssueFits, TimeFits DEF Next

\* Asking for new codes does not give new guesses: until one of them is accepted, the attempts
\* of the last hour pass the limit by less than the number of requests under way
\* (ShipmentOtpService checks the lock before OtpService.verify counts the attempt).
THEOREM NoEndlessGuessing == Spec => []GuessesAreBounded
  <1>1. IInv /\ GuessesFit => GuessesAreBounded
    <2> SUFFICES ASSUME IInv, GuessesFit, Unopened
                 PROVE  Attempts(Recent) < LockAt + Cardinality(Calls)
      BY DEF GuessesAreBounded, Unopened, Recent
    <2>1. Attempts(Recent) = Cardinality(Spent)
      BY DEF Attempts, Spent
    <2>2. /\ Cardinality(Spent) \in Nat /\ Cardinality(Trying) \in Nat
          /\ Cardinality(Calls) \in Nat /\ LockAt \in Nat
      BY FinitelyMany, StillFinite, HandoverAssumption DEF Finite
    <2> QED
      BY <2>1, <2>2 DEF GuessesFit
  <1> QED
    BY <1>1, InitFits, NextFits, Inductive, PTL DEF Spec
=============================================================================
