--------------------------- MODULE Payments_proofs ---------------------------
(***************************************************************************)
(* The money of a booking, for every price, policy, set of calls and       *)
(* incidents: refunds never add up to more than the price, the wallet says *)
(* what its rows say, the driver never gets more than his part, a cancelled*)
(* booking stays cancelled, and where all or nothing is refunded nobody is *)
(* given what the other was.                                               *)
(*                                                                         *)
(* The claim of a refund is safe because of updatedAt: a call whose read   *)
(* is still current (it is in `current`) has computed its amount from the  *)
(* refunds as they are now, since every write of them empties `current`.   *)
(*                                                                         *)
(* The parts, each an invariant of its own that uses the ones before it:   *)
(*   IInv       the claims of refunds fit in the price                     *)
(*   Ledger     the wallet's figures are sums of its rows                  *)
(*   Trail      the refunds under way are finitely many and claimed        *)
(*   Others     the types of the rest                                      *)
(*   Exclusive  either the client is owed the money or the driver is       *)
(***************************************************************************)
EXTENDS Payments, SequenceTheorems, FiniteSetTheorems, TLAPS

\* Sums over a finite set, by its minimal subsets: where a law fails, it fails for
\* a smallest subset, and there it follows from what it says of a smaller one.
Chosen(s) == CHOOSE x \in s : TRUE
SumStep(f, g, s) == IF s = {} THEN 0 ELSE f[Chosen(s)] + g[s \ {Chosen(s)}]
Sums(f, S, g) == g = [s \in SUBSET S |-> SumStep(f, g, s)]

\* A family of subsets of a finite set has a minimal member.
LEMMA MinimalSubset ==
    ASSUME NEW S, IsFiniteSet(S), NEW B \in SUBSET SUBSET S, B # {}
    PROVE  \E m \in B : \A t \in B : t \subseteq m => t = m
  <1>1. IsWellFoundedOn(StrictSubsetOrdering(S), SUBSET S)
    BY FS_StrictSubsetOrderingWellFounded, FS_FiniteSubsetsOfFinite
  <1>2. PICK m \in B : \A t \in B : ~ (<<t, m>> \in StrictSubsetOrdering(S))
    BY <1>1, WFMin
  <1>3. \A t \in B : t \subseteq m => t = m
    BY <1>2 DEF StrictSubsetOrdering
  <1> QED
    BY <1>3

LEMMA ChosenIsIn == \A s : s # {} => Chosen(s) \in s
  BY DEF Chosen

\* Two functions with the recursive equation of the sums agree where both are defined.
LEMMA SumsAgree ==
    ASSUME NEW f, NEW S, IsFiniteSet(S), NEW T, S \subseteq T, NEW g, NEW h,
           Sums(f, S, g), Sums(f, T, h)
    PROVE  \A s \in SUBSET S : g[s] = h[s]
  <1> DEFINE B == {s \in SUBSET S : g[s] # h[s]}
  <1> SUFFICES ASSUME B # {} PROVE FALSE
    OBVIOUS
  <1>1. PICK m \in B : \A t \in B : t \subseteq m => t = m
    <2>1. B \in SUBSET SUBSET S
      OBVIOUS
    <2> HIDE DEF B
    <2> QED
      BY <2>1, MinimalSubset
  <1>2. g[m] = SumStep(f, g, m) /\ h[m] = SumStep(f, h, m)
    BY DEF Sums
  <1>3. m # {}
    BY <1>2 DEF SumStep
  <1>4. g[m \ {Chosen(m)}] = h[m \ {Chosen(m)}]
    BY <1>1, <1>3, ChosenIsIn
  <1> QED
    BY <1>2, <1>4 DEF SumStep

LEMMA SumIs ==
    ASSUME NEW f, NEW S, IsFiniteSet(S), NEW g, Sums(f, S, g)
    PROVE  SumFunctionOnSet(f, S) = g[S]
  <1> DEFINE h == CHOOSE h : h = [s \in SUBSET S |-> SumStep(f, h, s)]
  <1>1. Sums(f, S, h)
    BY DEF Sums
  <1>2. SumFunctionOnSet(f, S) = h[S]
    BY DEF SumFunctionOnSet, FoldFunctionOnSet, MapThenFoldSet, SumStep, Chosen
  <1> QED
    BY <1>1, <1>2, SumsAgree

\* Once the sum of a set is defined, so is that of each of its subsets.
LEMMA SumUnfolds ==
    ASSUME NEW f, NEW S, IsFiniteSet(S), NEW g, Sums(f, S, g), S # {}
    PROVE  SumFunctionOnSet(f, S) = f[Chosen(S)] + SumFunctionOnSet(f, S \ {Chosen(S)})
  <1> DEFINE T == S \ {Chosen(S)}
             h == [s \in SUBSET T |-> g[s]]
  <1>1. IsFiniteSet(T) /\ T \subseteq S
    BY FS_RemoveElement
  <1>2. Sums(f, T, h)
    <2>1. \A s \in SUBSET T : s \ {Chosen(s)} \in SUBSET T
      OBVIOUS
    <2>2. \A s \in SUBSET T : g[s] = SumStep(f, g, s)
      BY <1>1 DEF Sums
    <2>3. \A s \in SUBSET T : SumStep(f, h, s) = SumStep(f, g, s)
      BY <2>1 DEF SumStep
    <2> QED
      BY <2>2, <2>3 DEF Sums
  <1>3. SumFunctionOnSet(f, T) = h[T]
    <2> HIDE DEF T, h
    <2> QED
      BY <1>1, <1>2, SumIs
  <1>4. h[T] = g[T]
    OBVIOUS
  <1>5. SumFunctionOnSet(f, S) = g[S] /\ g[S] = SumStep(f, g, S)
    BY SumIs DEF Sums
  <1> QED
    BY <1>3, <1>4, <1>5 DEF SumStep

\* The recursive equation has a solution over every finite set.
LEMMA SumsExist ==
    ASSUME NEW f, NEW S, IsFiniteSet(S)
    PROVE  \E g : Sums(f, S, g)
  <1> DEFINE B == {s \in SUBSET S : ~ \E g : Sums(f, s, g)}
  <1>1. B \in SUBSET SUBSET S
    OBVIOUS
  <1> SUFFICES ASSUME B # {} PROVE FALSE
    OBVIOUS
  <1>2. PICK m \in B : \A t \in B : t \subseteq m => t = m
    <2> HIDE DEF B
    <2> QED
      BY <1>1, MinimalSubset
  <1>3. m \in SUBSET S /\ ~ \E g : Sums(f, m, g)
    OBVIOUS
  <1>4. \A t \in SUBSET m : t # m => \E g : Sums(f, t, g)
    BY <1>2, <1>3
  <1>5. \A t \in SUBSET m : IsFiniteSet(t)
    BY <1>3, FS_Subset
  <1> DEFINE h == [s \in SUBSET m |->
                     IF s = {} THEN 0
                     ELSE f[Chosen(s)] + SumFunctionOnSet(f, s \ {Chosen(s)})]
  <1> HIDE DEF B
  <1>6. ASSUME NEW t \in SUBSET m, t # m PROVE SumFunctionOnSet(f, t) = h[t]
    <2>1. PICK g : Sums(f, t, g)
      BY <1>4, <1>6
    <2>2. CASE t = {}
      <3>1. SumFunctionOnSet(f, t) = g[t] /\ g[t] = SumStep(f, g, t)
        BY <1>5, <2>1, SumIs DEF Sums
      <3> QED
        BY <2>2, <3>1 DEF SumStep
    <2>3. CASE t # {}
      BY <1>5, <2>1, <2>3, SumUnfolds
    <2> QED
      BY <2>2, <2>3
  <1>7. \A s \in SUBSET m : h[s] = SumStep(f, h, s)
    <2> SUFFICES ASSUME NEW s \in SUBSET m PROVE h[s] = SumStep(f, h, s)
      OBVIOUS
    <2>1. CASE s = {}
      BY <2>1 DEF SumStep
    <2>2. CASE s # {}
      <3>1. s \ {Chosen(s)} \in SUBSET m /\ s \ {Chosen(s)} # m
        BY <2>2, ChosenIsIn
      <3>2. SumFunctionOnSet(f, s \ {Chosen(s)}) = h[s \ {Chosen(s)}]
        BY <1>6, <3>1
      <3>3. h[s] = f[Chosen(s)] + SumFunctionOnSet(f, s \ {Chosen(s)})
        BY <2>2
      <3> HIDE DEF h
      <3> QED
        BY <2>2, <3>2, <3>3 DEF SumStep
    <2> QED
      BY <2>1, <2>2
  <1>8. h = [s \in SUBSET m |-> SumStep(f, h, s)]
    <2>1. h = [s \in SUBSET m |-> h[s]]
      OBVIOUS
    <2> HIDE DEF h
    <2> QED
      BY <1>7, <2>1
  <1>9. Sums(f, m, h)
    BY <1>8 DEF Sums
  <1> QED
    BY <1>3, <1>9

-----------------------------------------------------------------------------
LEMMA SumEmpty == \A f : SumFunctionOnSet(f, {}) = 0
  <1> SUFFICES ASSUME NEW f PROVE SumFunctionOnSet(f, {}) = 0
    OBVIOUS
  <1>1. PICK g : Sums(f, {}, g)
    BY FS_EmptySet, SumsExist
  <1>2. SumFunctionOnSet(f, {}) = g[{}]
    BY <1>1, FS_EmptySet, SumIs
  <1> QED
    BY <1>1, <1>2 DEF Sums, SumStep

LEMMA SumChosen ==
    ASSUME NEW f, NEW S, IsFiniteSet(S), S # {}
    PROVE  SumFunctionOnSet(f, S) = f[Chosen(S)] + SumFunctionOnSet(f, S \ {Chosen(S)})
  BY SumsExist, SumUnfolds

LEMMA SumIsInt ==
    ASSUME NEW f, NEW S, IsFiniteSet(S), \A x \in S : f[x] \in Int
    PROVE  SumFunctionOnSet(f, S) \in Int
  <1> DEFINE B == {s \in SUBSET S : SumFunctionOnSet(f, s) \notin Int}
  <1>1. B \in SUBSET SUBSET S
    OBVIOUS
  <1> SUFFICES ASSUME B # {} PROVE FALSE
    OBVIOUS
  <1>2. PICK m \in B : \A t \in B : t \subseteq m => t = m
    <2> HIDE DEF B
    <2> QED
      BY <1>1, MinimalSubset
  <1>3. m # {}
    BY SumEmpty
  <1>4. Chosen(m) \in m /\ IsFiniteSet(m)
    BY <1>3, ChosenIsIn, FS_Subset
  <1>5. m \ {Chosen(m)} \notin B
    BY <1>2, <1>4
  <1>6. SumFunctionOnSet(f, m \ {Chosen(m)}) \in Int
    BY <1>5
  <1> QED
    BY <1>3, <1>4, <1>6, SumChosen

\* Any element may be taken out first.
LEMMA SumRemove ==
    ASSUME NEW f, NEW S, IsFiniteSet(S), \A x \in S : f[x] \in Int, NEW e \in S
    PROVE  SumFunctionOnSet(f, S) = f[e] + SumFunctionOnSet(f, S \ {e})
  <1> DEFINE Holds(s) ==
               \A x \in s : SumFunctionOnSet(f, s) = f[x] + SumFunctionOnSet(f, s \ {x})
             B == {s \in SUBSET S : ~ Holds(s)}
  <1>1. B \in SUBSET SUBSET S
    OBVIOUS
  <1> SUFFICES ASSUME B # {} PROVE FALSE
    OBVIOUS
  <1>2. PICK m \in B : \A t \in B : t \subseteq m => t = m
    <2> HIDE DEF B
    <2> QED
      BY <1>1, MinimalSubset
  <1>3. PICK x \in m : SumFunctionOnSet(f, m) # f[x] + SumFunctionOnSet(f, m \ {x})
    OBVIOUS
  <1> DEFINE c == Chosen(m)
  <1>4. c \in m /\ IsFiniteSet(m)
    BY ChosenIsIn, FS_Subset
  <1>5. SumFunctionOnSet(f, m) = f[c] + SumFunctionOnSet(f, m \ {c})
    BY <1>4, SumChosen
  <1>6. x # c
    BY <1>3, <1>5
  <1>7. Holds(m \ {c}) /\ Holds(m \ {x})
    BY <1>2, <1>4
  <1> HIDE DEF c
  <1>8. /\ SumFunctionOnSet(f, m \ {c}) = f[x] + SumFunctionOnSet(f, (m \ {c}) \ {x})
        /\ SumFunctionOnSet(f, m \ {x}) = f[c] + SumFunctionOnSet(f, (m \ {x}) \ {c})
    BY <1>4, <1>6, <1>7
  <1>9. (m \ {c}) \ {x} = (m \ {x}) \ {c}
    OBVIOUS
  <1>10. SumFunctionOnSet(f, (m \ {c}) \ {x}) \in Int
    <2>1. IsFiniteSet((m \ {c}) \ {x})
      BY <1>4, FS_RemoveElement
    <2> QED
      BY <2>1, SumIsInt
  <1>11. f[x] \in Int /\ f[c] \in Int
    BY <1>4
  <1> HIDE DEF B, Holds
  <1>12. SumFunctionOnSet(f, m) = f[c] + (f[x] + SumFunctionOnSet(f, (m \ {c}) \ {x}))
    BY <1>5, <1>8
  <1>13. SumFunctionOnSet(f, m \ {x}) = f[c] + SumFunctionOnSet(f, (m \ {c}) \ {x})
    BY <1>8, <1>9
  <1> QED
    BY <1>3, <1>10, <1>11, <1>12, <1>13

\* Functions that agree on a set have the same sum there.
LEMMA SumSame ==
    ASSUME NEW f, NEW g, NEW S, IsFiniteSet(S), \A x \in S : f[x] = g[x]
    PROVE  SumFunctionOnSet(f, S) = SumFunctionOnSet(g, S)
  <1> DEFINE B == {s \in SUBSET S : SumFunctionOnSet(f, s) # SumFunctionOnSet(g, s)}
  <1>1. B \in SUBSET SUBSET S
    OBVIOUS
  <1> SUFFICES ASSUME B # {} PROVE FALSE
    OBVIOUS
  <1>2. PICK m \in B : \A t \in B : t \subseteq m => t = m
    <2> HIDE DEF B
    <2> QED
      BY <1>1, MinimalSubset
  <1>3. m # {}
    BY SumEmpty
  <1>4. Chosen(m) \in m /\ IsFiniteSet(m)
    BY <1>3, ChosenIsIn, FS_Subset
  <1>5. m \ {Chosen(m)} \notin B
    BY <1>2, <1>4
  <1>6. SumFunctionOnSet(f, m \ {Chosen(m)}) = SumFunctionOnSet(g, m \ {Chosen(m)})
    BY <1>5
  <1>7. f[Chosen(m)] = g[Chosen(m)]
    BY <1>4
  <1>8. SumFunctionOnSet(f, m) = SumFunctionOnSet(g, m)
    BY <1>3, <1>4, <1>6, <1>7, SumChosen
  <1> QED
    BY <1>8

\* The sum of a set is that of any part of it and of the rest.
LEMMA SumSplits ==
    ASSUME NEW f, NEW S, IsFiniteSet(S), \A x \in S : f[x] \in Int, NEW T \in SUBSET S
    PROVE  SumFunctionOnSet(f, S) = SumFunctionOnSet(f, T) + SumFunctionOnSet(f, S \ T)
  <1> DEFINE B == {s \in SUBSET T :
                     SumFunctionOnSet(f, S) # SumFunctionOnSet(f, s) + SumFunctionOnSet(f, S \ s)}
  <1>1. B \in SUBSET SUBSET T /\ IsFiniteSet(T)
    BY FS_Subset
  <1> SUFFICES ASSUME B # {} PROVE FALSE
    OBVIOUS
  <1>2. PICK m \in B : \A t \in B : t \subseteq m => t = m
    <2> HIDE DEF B
    <2> QED
      BY <1>1, MinimalSubset
  <1>3. SumFunctionOnSet(f, S) \in Int
    BY SumIsInt
  <1>4. m # {}
    <2>1. S \ {} = S
      OBVIOUS
    <2> QED
      BY <1>3, <2>1, SumEmpty
  <1> DEFINE x == Chosen(m)
             r == m \ {x}
  <1>5. x \in m /\ x \in S /\ m \subseteq S
    BY <1>4, ChosenIsIn
  <1>6. r \notin B /\ r \in SUBSET T
    BY <1>2, <1>5
  <1>7. SumFunctionOnSet(f, S) = SumFunctionOnSet(f, r) + SumFunctionOnSet(f, S \ r)
    BY <1>6
  <1>8. IsFiniteSet(m) /\ IsFiniteSet(S \ r) /\ IsFiniteSet(r) /\ IsFiniteSet(S \ m)
    BY <1>5, FS_Subset
  <1> HIDE DEF x
  <1>9. SumFunctionOnSet(f, m) = f[x] + SumFunctionOnSet(f, r)
    BY <1>5, <1>8, SumRemove
  <1>10. SumFunctionOnSet(f, S \ r) = f[x] + SumFunctionOnSet(f, S \ m)
    <2>1. x \in S \ r /\ (S \ r) \ {x} = S \ m
      BY <1>5
    <2> HIDE DEF r
    <2>2. SumFunctionOnSet(f, S \ r) = f[x] + SumFunctionOnSet(f, (S \ r) \ {x})
      BY <1>8, <2>1, SumRemove
    <2> QED
      BY <2>1, <2>2
  <1>11. /\ f[x] \in Int /\ SumFunctionOnSet(f, r) \in Int /\ SumFunctionOnSet(f, S \ m) \in Int
    BY <1>5, <1>8, SumIsInt
  <1>12. SumFunctionOnSet(f, S) # SumFunctionOnSet(f, m) + SumFunctionOnSet(f, S \ m)
    OBVIOUS
  <1> HIDE DEF B, r
  <1> QED
    BY <1>7, <1>9, <1>10, <1>11, <1>12

\* A bound of every term but one that is not positive.
LEMMA SumIsBounded ==
    ASSUME NEW f, NEW S, IsFiniteSet(S), NEW top \in Nat, NEW e,
           \A x \in S : f[x] \in Int /\ IF x = e THEN f[x] <= top ELSE f[x] <= 0
    PROVE  SumFunctionOnSet(f, S) <= IF e \in S THEN top ELSE 0
  <1> DEFINE B == {s \in SUBSET S : ~ (SumFunctionOnSet(f, s) <= IF e \in s THEN top ELSE 0)}
  <1>1. B \in SUBSET SUBSET S
    OBVIOUS
  <1> SUFFICES ASSUME B # {} PROVE FALSE
    OBVIOUS
  <1>2. PICK m \in B : \A t \in B : t \subseteq m => t = m
    <2> HIDE DEF B
    <2> QED
      BY <1>1, MinimalSubset
  <1>3. m # {}
    BY SumEmpty
  <1> DEFINE x == Chosen(m)
  <1>4. x \in m /\ x \in S /\ IsFiniteSet(m)
    BY <1>3, ChosenIsIn, FS_Subset
  <1>5. m \ {x} \notin B
    BY <1>2, <1>4
  <1>6. SumFunctionOnSet(f, m \ {x}) <= IF e \in m \ {x} THEN top ELSE 0
    BY <1>5
  <1>7. SumFunctionOnSet(f, m) = f[x] + SumFunctionOnSet(f, m \ {x})
    BY <1>3, <1>4, SumChosen
  <1>8. f[x] \in Int /\ SumFunctionOnSet(f, m \ {x}) \in Int
    <2>1. IsFiniteSet(m \ {x})
      BY <1>4, FS_RemoveElement
    <2> QED
      BY <1>4, <2>1, SumIsInt
  <1>9. IF x = e THEN f[x] <= top ELSE f[x] <= 0
    BY <1>4
  <1>10. ~ (SumFunctionOnSet(f, m) <= IF e \in m THEN top ELSE 0)
    OBVIOUS
  <1> HIDE DEF B, x
  <1> QED
    BY <1>4, <1>6, <1>7, <1>8, <1>9, <1>10

LEMMA SumIsNat ==
    ASSUME NEW f, NEW S, IsFiniteSet(S), \A x \in S : f[x] \in Nat
    PROVE  SumFunctionOnSet(f, S) \in Nat
  <1> DEFINE B == {s \in SUBSET S : SumFunctionOnSet(f, s) \notin Nat}
  <1>1. B \in SUBSET SUBSET S
    OBVIOUS
  <1> SUFFICES ASSUME B # {} PROVE FALSE
    OBVIOUS
  <1>2. PICK m \in B : \A t \in B : t \subseteq m => t = m
    <2> HIDE DEF B
    <2> QED
      BY <1>1, MinimalSubset
  <1>3. m # {}
    BY SumEmpty
  <1>4. Chosen(m) \in m /\ IsFiniteSet(m)
    BY <1>3, ChosenIsIn, FS_Subset
  <1>5. m \ {Chosen(m)} \notin B
    BY <1>2, <1>4
  <1>6. SumFunctionOnSet(f, m \ {Chosen(m)}) \in Nat
    BY <1>5
  <1> QED
    BY <1>3, <1>4, <1>6, SumChosen

-----------------------------------------------------------------------------
\* The claims of refunds
RowsOK == \E S : rows \in Seq(S)

CurrentReadsFit ==
    \A c \in current : At(c, "claimRefund") => refunded + call[c].amount <= Price

IInv ==
    /\ payment \in PaymentStatus
    /\ share \in {NoShare} \cup 0..Price
    /\ refunded \in Int
    /\ current \subseteq Workers
    /\ call \in [Workers -> CallState]
    /\ RowsOK
    /\ CurrentReadsFit
    /\ RefundsWithinPrice
-----------------------------------------------------------------------------
\* Settling or appending rows keeps them a sequence.
LEMMA RowIds ==
    ASSUME RowsOK
    PROVE  /\ Len(rows) \in Nat
           /\ DOMAIN rows = 1..Len(rows)
           /\ Pending \subseteq Nat
  <1>1. PICK S : rows \in Seq(S)
    BY DEF RowsOK
  <1>2. Len(rows) \in Nat /\ DOMAIN rows = 1..Len(rows)
    BY <1>1, LenProperties
  <1> QED
    BY <1>2 DEF Pending

LEMMA SettledRows ==
    ASSUME RowsOK, NEW ids, NEW st, Settle(ids, st)
    PROVE  RowsOK'
  <1>1. PICK n \in Nat : DOMAIN rows = 1..n
    BY RowIds
  <1>2. PICK T : \A i \in 1..n : rows'[i] \in T
    <2>1. \A i \in 1..n : rows'[i] \in {rows'[j] : j \in 1..n}
      OBVIOUS
    <2> QED
      BY <2>1
  <1>3. rows' \in [1..n -> T]
    BY <1>1, <1>2 DEF Settle
  <1>4. rows' \in Seq(T)
    BY <1>3, SeqDef
  <1> QED
    BY <1>4 DEF RowsOK

LEMMA SameRows == ASSUME RowsOK, UNCHANGED rows PROVE RowsOK'
  BY DEF RowsOK

LEMMA AppendedRows ==
    ASSUME RowsOK, NEW e, rows' = Append(rows, e)
    PROVE  RowsOK'
  <1>1. PICK S : rows \in Seq(S)
    BY DEF RowsOK
  <1>2. rows \in Seq(S \cup {e})
    BY <1>1, SeqMonotonic
  <1>3. rows' \in Seq(S \cup {e})
    BY <1>2, AppendProperties
  <1> QED
    BY <1>3 DEF RowsOK

-----------------------------------------------------------------------------
LEMMA IdleIsCall == Idle \in CallState /\ Idle.at # "claimRefund"
  BY PaymentsAssumption
     DEF Idle, CallState, Deciders, Location, Capture, Afterwards, PaymentStatus

LEMMA InitIInv == Init => IInv
  <1> SUFFICES ASSUME Init PROVE IInv
    OBVIOUS
  <1>1. RowsOK
    <2>1. rows \in Seq({})
      BY EmptySeq DEF Init
    <2> QED
      BY <2>1 DEF RowsOK
  <1> QED
    BY <1>1, IdleIsCall, PaymentsAssumption
       DEF Init, IInv, CurrentReadsFit, RefundsWithinPrice, PaymentStatus, NoShare

\* What a call may do without a claim of a refund being made or changed.
ClaimsKept ==
    \A w \in Workers : At(w, "claimRefund")' =>
        At(w, "claimRefund") /\ call'[w].amount = call[w].amount

\* What a step that does not touch the refunds leaves as it needs to be.
Kept ==
    /\ UNCHANGED refunded
    /\ RowsOK'
    /\ current' \in {current, {}}
    /\ payment' \in PaymentStatus
    /\ share' \in {NoShare} \cup 0..Price

LEMMA UntouchedIInv ==
    ASSUME IInv, Kept, call' \in [Workers -> CallState], ClaimsKept
    PROVE  IInv'
  BY DEF Kept, IInv, ClaimsKept, CurrentReadsFit, RefundsWithinPrice, At

\* The ways a call goes on, none of which leads to "claimRefund".
Elsewhere == Location \ {"claimRefund"}
Moves(c) ==
    \/ Return(c)
    \/ Proceed(c)
    \/ \E place \in Elsewhere : GoTo(c, place)
    \/ \E place \in Elsewhere, by \in Deciders, a \in Attempts \cup {NoAttempt},
          then \in Afterwards, amount \in 0..Price : BeginBy(c, by, place, a, then, amount)

\* A call's record replaced by another that does not claim a refund.
LEMMA RecordReplaced ==
    ASSUME call \in [Workers -> CallState], NEW c \in Workers, NEW r \in CallState,
           r.at # "claimRefund", call' = [call EXCEPT ![c] = r]
    PROVE  call' \in [Workers -> CallState] /\ ClaimsKept
  BY DEF ClaimsKept, At

LEMMA CallMoves ==
    ASSUME call \in [Workers -> CallState], NEW c \in Workers, Moves(c)
    PROVE  call' \in [Workers -> CallState] /\ ClaimsKept
  <1>1. CASE Return(c)
    BY <1>1, IdleIsCall, RecordReplaced DEF Return
  <1>2. CASE \E place \in Elsewhere : GoTo(c, place)
    <2>1. PICK place \in Elsewhere : GoTo(c, place)
      BY <1>2
    <2> DEFINE moved == [call[c] EXCEPT !.at = place]
    <2>2. moved \in CallState /\ moved.at # "claimRefund"
      BY DEF CallState, Elsewhere
    <2>3. call' = [call EXCEPT ![c] = moved]
      BY <2>1 DEF GoTo
    <2> HIDE DEF moved
    <2> QED
      BY <2>2, <2>3, RecordReplaced
  <1>3. CASE Proceed(c)
    <2>1. CASE call[c].then = "idle"
      BY <1>3, <2>1, <1>1 DEF Proceed
    <2>2. CASE call[c].then # "idle"
      <3> DEFINE moved == [call[c] EXCEPT !.at = call[c].then, !.then = "idle"]
      <3>1. call[c] \in CallState
        OBVIOUS
      <3>2. call[c].then \in Elsewhere /\ "idle" \in Afterwards
        BY <3>1 DEF CallState, Afterwards, Elsewhere, Location
      <3>3. moved \in CallState /\ moved.at # "claimRefund"
        BY <3>1, <3>2 DEF CallState, Elsewhere
      <3>4. call' = [call EXCEPT ![c] = moved]
        BY <1>3, <2>2 DEF Proceed
      <3> HIDE DEF moved
      <3> QED
        BY <3>3, <3>4, RecordReplaced
    <2> QED
      BY <1>1, <2>1, <2>2, <1>3 DEF Proceed
  <1>4. CASE \E place \in Elsewhere, by \in Deciders, a \in Attempts \cup {NoAttempt},
               then \in Afterwards, amount \in 0..Price : BeginBy(c, by, place, a, then, amount)
    <2>1. PICK place \in Elsewhere, by \in Deciders, a \in Attempts \cup {NoAttempt},
               then \in Afterwards, amount \in 0..Price : BeginBy(c, by, place, a, then, amount)
      BY <1>4
    <2> DEFINE begun == [Idle EXCEPT !.at = place, !.by = by, !.a = a,
                                     !.then = then, !.amount = amount]
    <2>2. begun \in CallState /\ begun.at # "claimRefund"
      BY IdleIsCall DEF CallState, Elsewhere
    <2>3. call' = [call EXCEPT ![c] = begun]
      BY <2>1 DEF BeginBy
    <2> HIDE DEF begun
    <2> QED
      BY <2>2, <2>3, RecordReplaced
  <1> QED
    BY <1>1, <1>2, <1>3, <1>4 DEF Moves
LEMMA QuietStep ==
    ASSUME IInv, Kept, NEW c \in Workers, Moves(c)
    PROVE  IInv'
  BY CallMoves, UntouchedIInv DEF IInv

LEMMA ReadRowsIInv ==
    ASSUME IInv, NEW c \in Workers, NEW from, NEW to \in Elsewhere, NEW allowed,
           ReadRows(c, from, to, allowed)
    PROVE  IInv'
  <1>1. Kept
    BY SameRows DEF ReadRows, Kept, IInv, bookingVars, paymentVars, refundVars, walletVars
  <1>2. CASE allowed /\ Pending # {}
    <2> DEFINE moved == [call[c] EXCEPT !.at = to, !.read = Pending]
    <2>1. call[c] \in CallState /\ Pending \subseteq Nat
      BY RowIds DEF IInv
    <2>2. moved \in CallState /\ moved.at # "claimRefund"
      BY <2>1 DEF CallState, Elsewhere
    <2>3. call' = [call EXCEPT ![c] = moved]
      BY <1>2 DEF ReadRows
    <2> HIDE DEF moved
    <2> QED
      BY <1>1, <2>2, <2>3, RecordReplaced, UntouchedIInv DEF IInv
  <1>3. CASE ~(allowed /\ Pending # {})
    <2>1. Moves(c)
      BY <1>3 DEF ReadRows, Moves
    <2> QED
      BY <1>1, <2>1, QuietStep
  <1> QED
    BY <1>2, <1>3

\* The three steps of a refund: only a read that is still current is claimed.
LEMMA ReadToRefundIInv ==
    ASSUME IInv, NEW c \in Workers, ReadToRefund(c)
    PROVE  IInv'
  <1>1. call[c] \in CallState
    BY DEF IInv
  <1>2. CASE /\ call[c].amount > 0 /\ refunded < Price
             /\ payment \in Refundable
             /\ \E a \in Attempts : attempt[a] = "CAPTURED"
    <2> DEFINE left   == Price - refunded
               amount == IF call[c].amount > left THEN left ELSE call[c].amount
               asked  == [call[c] EXCEPT !.at = "claimRefund", !.seen = payment,
                                         !.amount = amount,
                                         !.full = refunded + amount >= Price]
    <2>1. amount \in 0..Price /\ refunded + amount <= Price
      BY <1>1, <1>2, PaymentsAssumption DEF IInv, CallState
    <2>2. call' = [call EXCEPT ![c] = asked]
      BY <1>2 DEF ReadToRefund
    <2>3. asked \in CallState /\ asked.amount = amount
      <3> HIDE DEF amount
      <3>1. "claimRefund" \in Location /\ payment \in PaymentStatus
        BY DEF Location, IInv
      <3>2. (refunded + amount >= Price) \in BOOLEAN
        OBVIOUS
      <3> QED
        BY <1>1, <2>1, <3>1, <3>2 DEF CallState
    <2> HIDE DEF asked, amount
    <2>4. call' \in [Workers -> CallState]
      BY <2>2, <2>3 DEF IInv
    <2>5. CurrentReadsFit'
      BY <1>2, <2>1, <2>2, <2>3 DEF IInv, ReadToRefund, CurrentReadsFit, At, refundVars
    <2> QED
      BY <1>2, <2>4, <2>5, SameRows
         DEF IInv, ReadToRefund, RefundsWithinPrice, bookingVars, refundVars, walletVars
  <1>3. CASE ~(/\ call[c].amount > 0 /\ refunded < Price
               /\ payment \in Refundable
               /\ \E a \in Attempts : attempt[a] = "CAPTURED")
    <2>1. Moves(c) /\ Kept
      BY <1>3, SameRows
         DEF ReadToRefund, NothingRefunded, Throw, Moves, Elsewhere, Location, Kept, IInv, bookingVars, refundVars, walletVars
    <2> QED
      BY <2>1, QuietStep
  <1> QED
    BY <1>2, <1>3

LEMMA ClaimRefundIInv ==
    ASSUME IInv, NEW c \in Workers, ClaimRefund(c)
    PROVE  IInv'
  <1>1. Moves(c)
    BY DEF ClaimRefund, NothingRefunded, Throw, Moves, Elsewhere, Location
  <1>2. CASE c \in current
    <2>1. refunded + call[c].amount <= Price /\ call[c].amount \in Int
      BY <1>2 DEF IInv, CurrentReadsFit, ClaimRefund, CallState
    <2>2. refunded' \in Int /\ RefundsWithinPrice' /\ current' = {}
      BY <1>2, <2>1 DEF IInv, ClaimRefund, RefundsWithinPrice, WritePayment
    <2>3. CurrentReadsFit'
      BY <2>2 DEF CurrentReadsFit
    <2>4. payment' \in PaymentStatus
      BY <1>2 DEF ClaimRefund, WritePayment, PaymentStatus
    <2> QED
      BY <1>1, <2>2, <2>3, <2>4, CallMoves, SameRows
         DEF IInv, ClaimRefund, bookingVars, walletVars
  <1>3. CASE c \notin current
    <2>1. Kept
      BY <1>3, SameRows DEF ClaimRefund, Kept, IInv, bookingVars, walletVars
    <2> QED
      BY <1>1, <2>1, QuietStep
  <1> QED
    BY <1>2, <1>3

LEMMA RollbackIInv ==
    ASSUME IInv, NEW c \in Workers, Rollback(c)
    PROVE  IInv'
  <1>1. call[c].amount \in 0..Price /\ call[c].seen \in PaymentStatus
    BY DEF IInv, CallState
  <1>2. refunded' \in Int /\ RefundsWithinPrice' /\ current' = {}
    BY <1>1, PaymentsAssumption DEF IInv, Rollback, RefundsWithinPrice, WritePayment
  <1>3. CurrentReadsFit' /\ payment' \in PaymentStatus
    BY <1>1, <1>2 DEF CurrentReadsFit, Rollback, WritePayment
  <1>4. Moves(c)
    BY DEF Rollback, Throw, Moves, Elsewhere, Location
  <1> QED
    BY <1>2, <1>3, <1>4, CallMoves, SameRows
       DEF IInv, Rollback, bookingVars, walletVars

\* A late payment asks for the whole price.
LEMMA NoteFullRefundIInv ==
    ASSUME IInv, NEW c \in Workers, NoteFullRefund(c)
    PROVE  IInv'
  <1> DEFINE moved == [call[c] EXCEPT !.at = "refund", !.amount = Price]
  <1>1. Kept
    BY PaymentsAssumption, SameRows
       DEF NoteFullRefund, Kept, IInv, paymentVars, refundVars, walletVars
  <1>2. Price \in 0..Price /\ "refund" \in Location /\ call[c] \in CallState
    BY PaymentsAssumption DEF Location, IInv
  <1>3. moved \in CallState /\ moved.at # "claimRefund"
    BY <1>2 DEF CallState
  <1>4. call' = [call EXCEPT ![c] = moved]
    BY DEF NoteFullRefund
  <1> HIDE DEF moved
  <1> QED
    BY <1>1, <1>3, <1>4, RecordReplaced, UntouchedIInv DEF IInv

LEMMA ContinueIInv ==
    ASSUME IInv, NEW c \in Workers, Continue(c)
    PROVE  IInv'
  <1>1. CASE FailAttempt(c)
    <2>1. Moves(c) /\ Kept
      BY <1>1, SameRows
         DEF FailAttempt, IInv, Moves, Elsewhere, Location, Capture, Kept, WritePayment,
             PaymentStatus, bookingVars, paymentVars, refundVars, walletVars
    <2> QED
      BY <2>1, QuietStep
  <1>2. CASE FailPayment(c)
    <2>1. Moves(c) /\ Kept
      BY <1>2, SameRows
         DEF FailPayment, IInv, Moves, Elsewhere, Location, Capture, Kept, WritePayment,
             PaymentStatus, bookingVars, paymentVars, refundVars, walletVars
    <2> QED
      BY <2>1, QuietStep
  <1>3. CASE ClaimAttempt(c)
    <2>1. Moves(c) /\ Kept
      BY <1>3, SameRows
         DEF ClaimAttempt, IInv, Moves, Elsewhere, Location, Capture, Kept, WritePayment,
             PaymentStatus, bookingVars, paymentVars, refundVars, walletVars
    <2> QED
      BY <2>1, QuietStep
  <1>4. CASE ClaimPayment(c)
    <2>1. Moves(c) /\ Kept
      BY <1>4, SameRows
         DEF ClaimPayment, IInv, Moves, Elsewhere, Location, Capture, Kept, WritePayment,
             PaymentStatus, bookingVars, paymentVars, refundVars, walletVars
    <2> QED
      BY <2>1, QuietStep
  <1>5. CASE Confirm(c)
    <2>1. Moves(c) /\ Kept
      BY <1>5, SameRows
         DEF Confirm, IInv, Moves, Elsewhere, Location, Capture, Kept, WritePayment,
             PaymentStatus, bookingVars, paymentVars, refundVars, walletVars
    <2> QED
      BY <2>1, QuietStep
  <1>6. CASE NoteFullRefund(c)
    BY <1>6, NoteFullRefundIInv
  <1>7. CASE HoldRevenue(c)
    <2>1. RowsOK'
      <3>1. CASE rows = <<>>
        <4>1. rows' = Append(rows, [amount |-> Net, status |-> "PENDING"])
          BY <1>7, <3>1 DEF HoldRevenue
        <4> QED
          BY <4>1, AppendedRows DEF IInv
      <3>2. CASE rows # <<>>
        BY <1>7, <3>2, SameRows DEF HoldRevenue, IInv
      <3> QED
        BY <3>1, <3>2
    <2>2. Moves(c)
      BY <1>7 DEF HoldRevenue, Moves, Elsewhere, Location, Capture
    <2> QED
      BY <1>7, <2>1, <2>2, QuietStep
         DEF HoldRevenue, IInv, Kept, bookingVars, paymentVars, refundVars
  <1>8. CASE Notified(c)
    <2>1. Moves(c) /\ Kept
      BY <1>8, SameRows
         DEF Notified, IInv, Moves, Elsewhere, Location, Capture, Kept, WritePayment,
             PaymentStatus, bookingVars, paymentVars, refundVars, walletVars
    <2> QED
      BY <2>1, QuietStep
  <1>9. CASE CaptureThrows(c)
    <2>1. Moves(c) /\ Kept
      BY <1>9, SameRows
         DEF CaptureThrows, IInv, Moves, Elsewhere, Location, Capture, Kept, WritePayment,
             PaymentStatus, bookingVars, paymentVars, refundVars, walletVars
    <2> QED
      BY <2>1, QuietStep
  <1>10. CASE ResetAttempt(c)
    <2>1. Moves(c) /\ Kept
      BY <1>10, SameRows
         DEF ResetAttempt, IInv, Moves, Elsewhere, Location, Capture, Kept, WritePayment,
             PaymentStatus, bookingVars, paymentVars, refundVars, walletVars
    <2> QED
      BY <2>1, QuietStep
  <1>11. CASE ResetPayment(c)
    <2>1. Moves(c) /\ Kept
      BY <1>11, SameRows
         DEF ResetPayment, IInv, Moves, Elsewhere, Location, Capture, Kept, WritePayment,
             PaymentStatus, bookingVars, paymentVars, refundVars, walletVars
    <2> QED
      BY <2>1, QuietStep
  <1>12. CASE ReadToRefund(c)
    BY <1>12, ReadToRefundIInv
  <1>13. CASE ClaimRefund(c)
    BY <1>13, ClaimRefundIInv
  <1>14. CASE ProviderRefunds(c)
    <2>1. Moves(c) /\ Kept
      BY <1>14, SameRows
         DEF ProviderRefunds, IInv, Moves, Elsewhere, Location, Capture, Kept, WritePayment,
             PaymentStatus, bookingVars, paymentVars, refundVars, walletVars
    <2> QED
      BY <2>1, QuietStep
  <1>15. CASE ProviderRefuses(c)
    <2>1. Moves(c) /\ Kept
      BY <1>15, SameRows
         DEF ProviderRefuses, IInv, Moves, Elsewhere, Location, Capture, Kept, WritePayment,
             PaymentStatus, bookingVars, paymentVars, refundVars, walletVars
    <2> QED
      BY <2>1, QuietStep
  <1>16. CASE AnswerLost(c)
    <2>1. Moves(c) /\ Kept
      BY <1>16, SameRows
         DEF AnswerLost, IInv, Moves, Elsewhere, Location, Capture, Kept, WritePayment,
             PaymentStatus, bookingVars, paymentVars, refundVars, walletVars
    <2> QED
      BY <2>1, QuietStep
  <1>17. CASE Rollback(c)
    BY <1>17, RollbackIInv
  <1>18. CASE MarkRefunded(c)
    <2>1. Moves(c) /\ Kept
      BY <1>18, SameRows
         DEF MarkRefunded, IInv, Moves, Elsewhere, Location, Capture, Kept, WritePayment,
             PaymentStatus, bookingVars, paymentVars, refundVars, walletVars
    <2> QED
      BY <2>1, QuietStep
  <1>19. CASE ReadToRelease(c)
    BY <1>19, ReadRowsIInv DEF ReadToRelease, Elsewhere, Location
  <1>20. CASE ReadToReverse(c)
    BY <1>20, ReadRowsIInv DEF ReadToReverse, Elsewhere, Location
  <1>21. CASE ReadToDeduct(c)
    BY <1>21, ReadRowsIInv DEF ReadToDeduct, Elsewhere, Location
  <1>22. CASE Conflict(c)
    <2>1. Moves(c) /\ Kept
      BY <1>22, SameRows
         DEF Conflict, Throw, IInv, Moves, Elsewhere, Location, Capture, Kept, WritePayment,
             PaymentStatus, bookingVars, paymentVars, refundVars, walletVars
    <2> QED
      BY <2>1, QuietStep
  <1>23. CASE AlreadySettled(c)
    <2>1. Moves(c) /\ Kept
      BY <1>23, SameRows
         DEF AlreadySettled, IInv, Moves, Elsewhere, Location, Capture, Kept, WritePayment,
             PaymentStatus, bookingVars, paymentVars, refundVars, walletVars
    <2> QED
      BY <2>1, QuietStep
  <1>24. CASE Release(c)
    <2>1. Moves(c) /\ RowsOK'
      BY <1>24, SettledRows DEF Release, IInv, Moves
    <2> QED
      BY <1>24, <2>1, QuietStep
         DEF Release, IInv, Kept, bookingVars, paymentVars, refundVars
  <1>25. CASE Reverse(c)
    <2>1. Moves(c) /\ RowsOK'
      BY <1>25, SettledRows DEF Reverse, IInv, Moves
    <2> QED
      BY <1>25, <2>1, QuietStep
         DEF Reverse, IInv, Kept, bookingVars, paymentVars, refundVars
  <1>26. CASE Deduct(c)
    <2>1. RowsOK'
      BY <1>26, SameRows, AppendedRows DEF Deduct, IInv
    <2>2. Moves(c)
      BY <1>26 DEF Deduct, Moves
    <2> QED
      BY <1>26, <2>1, <2>2, QuietStep
         DEF Deduct, IInv, Kept, bookingVars, paymentVars, refundVars
  <1>27. CASE TakeBackResolution(c)
    <2>1. Moves(c) /\ Kept
      BY <1>27, SameRows
         DEF TakeBackResolution, IInv, Moves, Kept, paymentVars, refundVars, walletVars
    <2> QED
      BY <2>1, QuietStep
  <1> QED
    BY <1>1, <1>2, <1>3, <1>4, <1>5, <1>6, <1>7, <1>8, <1>9, <1>10, <1>11,
       <1>12, <1>13, <1>14, <1>15, <1>16, <1>17, <1>18, <1>19, <1>20, <1>21,
       <1>22, <1>23, <1>24, <1>25, <1>26, <1>27
       DEF Continue
LEMMA BeginMoves ==
    ASSUME NEW c \in Workers, NEW by \in Deciders, NEW a \in Attempts \cup {NoAttempt},
           NEW place \in {"claimAttempt", "failAttempt", "refund", "release", "reverse"},
           NEW then \in {"idle", "failPayment", "reverse", "release"},
           NEW amount \in 0..Price, BeginBy(c, by, place, a, then, amount)
    PROVE  Moves(c)
  <1>1. place \in Elsewhere /\ then \in Afterwards
    BY DEF Elsewhere, Location, Afterwards
  <1> QED
    BY <1>1 DEF Moves

LEMMA StartIInv ==
    ASSUME IInv, NEW c \in Workers, Start(c)
    PROVE  IInv'
  <1>0. /\ Price \in 0..Price /\ 0 \in 0..Price
        /\ StaffAmounts \subseteq 0..Price /\ Shares \subseteq 0..Price
    BY PaymentsAssumption
  <1> DEFINE Quietly == Moves(c) /\ Kept
  <1>1. ASSUME NEW a \in Attempts, Webhook(c, a) PROVE Quietly
    <2>1. Moves(c)
      BY <1>0, <1>1, BeginMoves DEF Webhook, Begin, Deciders
    <2> QED
      BY <1>1, <2>1, SameRows
         DEF Webhook, IInv, Kept, bookingVars, paymentVars, refundVars, walletVars
  <1>2. ASSUME NEW s \in 0..Price, NEW from, Cancel(c, s, from) PROVE Quietly
    <2>1. Moves(c)
      BY <1>2, BeginMoves DEF Cancel, AfterRefund, Begin, Deciders
    <2> QED
      BY <1>2, <2>1, SameRows
         DEF Cancel, IInv, Kept, paymentVars, refundVars, walletVars
  <1>3. CASE CancelByClient(c) \/ CancelWithTrip(c) \/ ExpireUnpaid(c)
    BY <1>0, <1>2, <1>3, QuietStep
       DEF CancelByClient, CancelWithTrip, ExpireUnpaid
  <1>4. CASE Complete(c) \/ DeclareNoShow(c)
    <2>1. Moves(c)
      BY <1>0, <1>4, BeginMoves DEF Complete, DeclareNoShow, Begin, Deciders
    <2>2. Kept
      BY <1>4, SameRows
         DEF Complete, DeclareNoShow, IInv, Kept, paymentVars, refundVars, walletVars
    <2> QED
      BY <2>1, <2>2, QuietStep
  <1>5. CASE StaffRefunds(c)
    <2>1. PICK m \in StaffAmounts : Begin(c, "refund", NoAttempt, "idle", m)
      BY <1>5 DEF StaffRefunds
    <2>2. Moves(c)
      BY <1>0, <2>1, BeginMoves DEF Begin, Deciders
    <2>3. Kept
      BY <1>5, SameRows
         DEF StaffRefunds, IInv, Kept, bookingVars, paymentVars, refundVars, walletVars
    <2> QED
      BY <2>2, <2>3, QuietStep
  <1>6. CASE ResolveDispute(c)
    <2>1. ASSUME NEW s \in StaffAmounts, CancelByArbiter(c, s)
          PROVE  Moves(c) /\ share' \in {NoShare} \cup 0..Price
      <3>1. Moves(c)
        BY <1>0, <2>1, BeginMoves DEF CancelByArbiter, AfterRefund, Deciders
      <3>2. share' \in {share, s}
        BY <2>1 DEF CancelByArbiter
      <3> QED
        BY <1>0, <3>1, <3>2 DEF IInv
    <2>2. CASE UNCHANGED <<booking, share, call>>
      <3>1. ClaimsKept /\ call' \in [Workers -> CallState] /\ Kept
        BY <1>6, <2>2, SameRows
           DEF ResolveDispute, ClaimsKept, At, IInv, Kept, paymentVars, refundVars, walletVars
      <3> QED
        BY <3>1, UntouchedIInv
    <2>3. CASE ~UNCHANGED <<booking, share, call>>
      <3>1. Moves(c) /\ share' \in {NoShare} \cup 0..Price
        <4>1. CASE \E s \in StaffAmounts : CancelByArbiter(c, s)
          BY <2>1, <4>1
        <4>2. CASE ~\E s \in StaffAmounts : CancelByArbiter(c, s)
          <5>1. /\ UNCHANGED share
                /\ \E by \in Deciders, place \in {"release", "refund"}, m \in 0..Price :
                     BeginBy(c, by, place, NoAttempt, "idle", m)
            BY <1>0, <1>6, <2>3, <4>2 DEF ResolveDispute, Deciders
          <5> QED
            BY <5>1, BeginMoves DEF IInv
        <4> QED
          BY <4>1, <4>2
      <3>2. Kept
        BY <1>6, <3>1, SameRows
           DEF ResolveDispute, IInv, Kept, paymentVars, refundVars, walletVars
      <3> QED
        BY <3>1, <3>2, QuietStep
    <2> QED
      BY <2>2, <2>3
  <1> QED
    BY <1>1, <1>3, <1>4, <1>5, <1>6, QuietStep DEF Start

LEMMA NextIInv == IInv /\ [Next]_vars => IInv'
  <1> SUFFICES ASSUME IInv, [Next]_vars PROVE IInv'
    OBVIOUS
  <1>1. ASSUME call' \in [Workers -> CallState], ClaimsKept, Kept PROVE IInv'
    BY <1>1, UntouchedIInv
  <1>2. ASSUME UNCHANGED call PROVE call' \in [Workers -> CallState] /\ ClaimsKept
    BY <1>2 DEF IInv, ClaimsKept, At
  <1>3. ASSUME NEW a \in Attempts, Initiate(a) \/ ProviderDecides(a) PROVE IInv'
    <2>1. Kept /\ UNCHANGED call
      BY <1>3, SameRows
         DEF Initiate, ProviderDecides, IInv, Kept, WritePayment, PaymentStatus,
             bookingVars, refundVars, walletVars
    <2> QED
      BY <1>1, <1>2, <2>1
  <1>4. CASE OpenDispute \/ UNCHANGED vars
    <2>1. Kept /\ UNCHANGED call
      BY <1>4, SameRows
         DEF OpenDispute, vars, IInv, Kept, bookingVars, paymentVars, refundVars, walletVars
    <2> QED
      BY <1>1, <1>2, <2>1
  <1>5. ASSUME NEW c \in Calls, Start(c) PROVE IInv'
    BY <1>5, StartIInv DEF Workers
  <1>6. ASSUME NEW c \in Workers, Continue(c) PROVE IInv'
    BY <1>6, ContinueIInv
  <1>7. ASSUME NEW c \in Workers, Die(c) PROVE IInv'
    <2>1. Kept /\ Moves(c)
      BY <1>7, SameRows
         DEF Die, IInv, Kept, Moves, bookingVars, paymentVars, refundVars, walletVars
    <2> QED
      BY <2>1, QuietStep
  <1>8. CASE RecoverRefund
    <2>1. share \in 0..Price /\ 0 \in 0..Price /\ RefundJob \in Workers
      BY <1>8, PaymentsAssumption DEF RecoverRefund, IInv, Workers
    <2>2. Moves(RefundJob)
      BY <1>8, <2>1, BeginMoves DEF RecoverRefund, AfterRefund, Begin, Deciders
    <2>3. Kept
      BY <1>8, SameRows
         DEF RecoverRefund, IInv, Kept, bookingVars, paymentVars, refundVars, walletVars
    <2> QED
      BY <2>1, <2>2, <2>3, QuietStep
  <1>9. CASE RecoverHeldFunds
    <2>1. 0 \in 0..Price /\ HeldJob \in Workers
      BY PaymentsAssumption DEF Workers
    <2>2. Moves(HeldJob)
      BY <1>9, <2>1, BeginMoves DEF RecoverHeldFunds, Begin, Deciders
    <2>3. Kept
      BY <1>9, SameRows
         DEF RecoverHeldFunds, IInv, Kept, bookingVars, paymentVars, refundVars, walletVars
    <2> QED
      BY <2>1, <2>2, <2>3, QuietStep
  <1> QED
    BY <1>3, <1>4, <1>5, <1>6, <1>7, <1>8, <1>9 DEF Next
-----------------------------------------------------------------------------
\* However many calls, routes and recoveries refund the same payment at once,
\* and whatever is refused, lost or killed on the way, its REFUNDED rows never
\* add up to more than its price (executeRefund's claim on updatedAt).
THEOREM RefundsCapped == Spec => []RefundsWithinPrice
  <1>1. IInv => RefundsWithinPrice
    BY DEF IInv
  <1> QED
    BY <1>1, InitIInv, NextIInv, PTL DEF Spec

\* No payment, refund, resolution or recovery brings a cancelled booking back:
\* every write of bookings.status is conditional on the status it expects.
THEOREM CancelledStaysCancelled == Spec => CancelledIsFinal
  <1> DEFINE Stays == booking = "CANCELLED" => booking' = "CANCELLED"
  <1>1. ASSUME NEW a \in Attempts, Initiate(a) \/ ProviderDecides(a) PROVE Stays
    BY <1>1 DEF Initiate, ProviderDecides, bookingVars
  <1>2. ASSUME NEW c \in Calls, Start(c) PROVE Stays
    BY <1>2
       DEF Start, Webhook, CancelByClient, CancelWithTrip, ExpireUnpaid, Cancel, Payable,
           Complete, DeclareNoShow, StaffRefunds, ResolveDispute, CancelByArbiter,
           bookingVars
  <1>3. ASSUME NEW c \in Workers, Continue(c) PROVE Stays
    <2>1. CASE Confirm(c) \/ MarkRefunded(c)
      BY <2>1 DEF Confirm, MarkRefunded
    <2>2. CASE ~(Confirm(c) \/ MarkRefunded(c))
      <3>1. UNCHANGED booking
        BY <1>3, <2>2
           DEF Continue, FailAttempt, FailPayment, ClaimAttempt, ClaimPayment,
               NoteFullRefund, HoldRevenue, Notified, CaptureThrows, ResetAttempt,
               ResetPayment, ReadToRefund, ClaimRefund, ProviderRefunds, ProviderRefuses,
               AnswerLost, Rollback, ReadToRelease, ReadToReverse, ReadToDeduct, ReadRows,
               Conflict, AlreadySettled, TakeBackResolution, Release, Reverse,
               Deduct, bookingVars
      <3> QED
        BY <3>1
    <2> QED
      BY <2>1, <2>2
  <1>4. ASSUME NEW c \in Workers, Die(c) PROVE Stays
    BY <1>4 DEF Die, bookingVars
  <1>5. ASSUME OpenDispute \/ RecoverRefund \/ RecoverHeldFunds \/ UNCHANGED vars
        PROVE  Stays
    BY <1>5 DEF OpenDispute, RecoverRefund, RecoverHeldFunds, vars, bookingVars
  <1>6. [Next]_vars => [booking = "CANCELLED" => booking' = "CANCELLED"]_vars
    BY <1>1, <1>2, <1>3, <1>4, <1>5 DEF Next
  <1> QED
    BY <1>6, PTL DEF Spec, CancelledIsFinal

-----------------------------------------------------------------------------
\* The wallet's rows and figures
Amounts == [i \in DOMAIN rows |-> rows[i].amount]

\* The wallet's figures are those of the rows, of which only the revenue adds anything.
Ledger ==
    /\ rows \in Seq(Row)
    /\ \A i \in DOMAIN rows : rows[i].amount <= IF i = Revenue THEN Net ELSE 0
    /\ pending = Sum(Pending)
    /\ balance = Sum(Completed)
    /\ \A c \in Workers : call[c].read \subseteq DOMAIN rows

LEMMA SumOfRows == \A ids : Sum(ids) = SumFunctionOnSet(Amounts, ids)
  BY DEF Sum, Amounts

LEMMA LedgerRows ==
    ASSUME Ledger
    PROVE  /\ Len(rows) \in Nat /\ DOMAIN rows = 1..Len(rows)
           /\ IsFiniteSet(DOMAIN rows)
           /\ \A i \in DOMAIN rows : rows[i] \in Row /\ Amounts[i] = rows[i].amount
                                     /\ Amounts[i] \in Int
           /\ Pending \subseteq DOMAIN rows /\ Completed \subseteq DOMAIN rows
  <1>1. rows \in Seq(Row)
    BY DEF Ledger
  <1>2. Len(rows) \in Nat /\ DOMAIN rows = 1..Len(rows) /\ rows \in [1..Len(rows) -> Row]
    BY <1>1, LenProperties
  <1>3. IsFiniteSet(DOMAIN rows)
    BY <1>2, FS_Interval
  <1>4. \A i \in DOMAIN rows : rows[i] \in Row
    BY <1>2
  <1>5. \A i \in DOMAIN rows : rows[i].amount \in Int
    BY <1>4, PaymentsAssumption DEF Row
  <1> QED
    BY <1>2, <1>3, <1>4, <1>5 DEF Amounts, Pending, Completed

LEMMA SumOfSome ==
    ASSUME Ledger, NEW T \in SUBSET DOMAIN rows
    PROVE  /\ IsFiniteSet(T) /\ Sum(T) \in Int /\ Sum(T) <= Net
           /\ \A U \in SUBSET T : Sum(T) = Sum(U) + Sum(T \ U)
  <1>1. IsFiniteSet(T)
    BY LedgerRows, FS_Subset
  <1>2. \A i \in T : Amounts[i] \in Int
    BY LedgerRows
  <1>3. Sum(T) \in Int
    BY <1>1, <1>2, SumIsInt, SumOfRows
  <1>4. Sum(T) <= Net
    <2>1. Net \in Nat
      BY PaymentsAssumption
    <2>2. \A i \in T : Amounts[i] \in Int /\ IF i = Revenue THEN Amounts[i] <= Net ELSE Amounts[i] <= 0
      BY <1>2, LedgerRows DEF Ledger
    <2>3. SumFunctionOnSet(Amounts, T) <= IF Revenue \in T THEN Net ELSE 0
      BY <1>1, <2>1, <2>2, SumIsBounded
    <2> QED
      BY <1>3, <2>1, <2>3, SumOfRows
  <1>5. \A U \in SUBSET T : Sum(T) = Sum(U) + Sum(T \ U)
    BY <1>1, <1>2, SumSplits, SumOfRows
  <1> QED
    BY <1>1, <1>3, <1>4, <1>5

\* What settles rows that are pending.
LEMMA SettleLedger ==
    ASSUME Ledger, NEW ids \in SUBSET Pending, NEW st \in {"COMPLETED", "REVERSED"},
           Settle(ids, st), pending' = pending - Sum(ids),
           balance' = IF st = "COMPLETED" THEN balance + Sum(ids) ELSE balance,
           \A c \in Workers : call'[c].read \subseteq DOMAIN rows
    PROVE  Ledger'
  <1>1. /\ DOMAIN rows' = DOMAIN rows
        /\ \A i \in DOMAIN rows : /\ rows'[i] = IF i \in ids THEN [rows[i] EXCEPT !.status = st] ELSE rows[i]
    BY DEF Settle
  <1>2. \A i \in DOMAIN rows : rows'[i] \in Row /\ rows'[i].amount = rows[i].amount
    <2> SUFFICES ASSUME NEW i \in DOMAIN rows
                 PROVE  rows'[i] \in Row /\ rows'[i].amount = rows[i].amount
      OBVIOUS
    <2>1. rows[i] \in Row
      BY LedgerRows
    <2> QED
      BY <1>1, <2>1 DEF Row
  <1>3. rows' \in Seq(Row)
    <2>1. rows' \in [1..Len(rows) -> Row]
      BY <1>1, <1>2, LedgerRows DEF Settle
    <2> QED
      BY <2>1, LedgerRows, SeqDef
  <1>4. Amounts' = Amounts
    BY <1>1, <1>2 DEF Amounts
  <1>5. \A i \in DOMAIN rows : rows'[i].status = IF i \in ids THEN st ELSE rows[i].status
    <2> SUFFICES ASSUME NEW i \in DOMAIN rows
                 PROVE  rows'[i].status = IF i \in ids THEN st ELSE rows[i].status
      OBVIOUS
    <2>1. rows[i] \in Row
      BY LedgerRows
    <2> QED
      BY <1>1, <2>1 DEF Row
  <1>6. Pending' = Pending \ ids
    BY <1>1, <1>5 DEF Pending
  <1>7. /\ st = "COMPLETED" => Completed' = Completed \cup ids
        /\ st = "REVERSED" => Completed' = Completed
    BY <1>1, <1>5 DEF Pending, Completed
  <1>8. pending' = SumFunctionOnSet(Amounts, Pending \ ids)
    <2>1. Sum(Pending) = Sum(ids) + Sum(Pending \ ids)
      BY LedgerRows, SumOfSome
    <2>2. Sum(Pending \ ids) \in Int /\ Sum(ids) \in Int
      BY LedgerRows, SumOfSome
    <2> QED
      BY <2>1, <2>2, SumOfRows DEF Ledger
  <1>9. CASE st = "COMPLETED"
    <2>1. Completed \cup ids \in SUBSET DOMAIN rows /\ ids \in SUBSET (Completed \cup ids)
      BY LedgerRows
    <2>2. Sum(Completed \cup ids) = Sum(ids) + Sum((Completed \cup ids) \ ids)
      BY <2>1, SumOfSome
    <2>3. (Completed \cup ids) \ ids = Completed
      <3>1. \A i \in Completed : i \notin Pending
        BY DEF Completed, Pending
      <3>2. \A i \in ids : i \in Pending
        OBVIOUS
      <3>3. \A i : i \in (Completed \cup ids) \ ids <=> i \in Completed
        BY <3>1, <3>2
      <3> QED
        BY <3>3
    <2>4. Sum(Completed) \in Int /\ Sum(ids) \in Int
      BY LedgerRows, SumOfSome
    <2>5. balance' = Sum(Completed \cup ids)
      <3>1. Sum(Completed \cup ids) = Sum(ids) + Sum(Completed)
        BY <2>2, <2>3, Zenon
      <3>2. balance' = balance + Sum(ids) /\ balance = Sum(Completed)
        BY <1>9 DEF Ledger
      <3> QED
        BY <2>4, <3>1, <3>2
    <2>6. balance' = SumFunctionOnSet(Amounts, Completed \cup ids)
      BY <2>5, SumOfRows
    <2> QED
      BY <1>1, <1>2, <1>3, <1>4, <1>6, <1>7, <1>8, <1>9, <2>6 DEF Ledger, Sum, Amounts
  <1>10. CASE st = "REVERSED"
    <2>1. balance' = SumFunctionOnSet(Amounts, Completed)
      BY <1>10, SumOfRows DEF Ledger
    <2> QED
      BY <1>1, <1>2, <1>3, <1>4, <1>6, <1>7, <1>8, <1>10, <2>1 DEF Ledger, Sum, Amounts
  <1> QED
    BY <1>9, <1>10

LEMMA AppendLedger ==
    ASSUME Ledger, NEW amount \in -Price..Price, amount <= IF Len(rows) = 0 THEN Net ELSE 0,
           rows' = Append(rows, [amount |-> amount, status |-> "PENDING"]),
           pending' = pending + amount, UNCHANGED balance,
           \A c \in Workers : call'[c].read \subseteq DOMAIN rows
    PROVE  Ledger'
  <1> DEFINE row == [amount |-> amount, status |-> "PENDING"]
             new == Len(rows) + 1
  <1>1. row \in Row
    BY DEF Row
  <1> HIDE DEF row
  <1>2. rows \in Seq(Row) /\ rows' = Append(rows, row)
    BY DEF Ledger, row
  <1>3. /\ rows' \in Seq(Row) /\ Len(rows') = new /\ rows'[new] = row
        /\ \A i \in 1..Len(rows) : rows'[i] = rows[i]
    BY <1>1, <1>2, AppendProperties
  <1>4. DOMAIN rows' = DOMAIN rows \cup {new} /\ new \notin DOMAIN rows
    <2>1. DOMAIN rows' = 1..new
      BY <1>3, LenProperties
    <2>2. 1..new = 1..Len(rows) \cup {new}
      BY LedgerRows
    <2> QED
      BY <2>1, <2>2, LedgerRows
  <1>5. \A i \in DOMAIN rows : rows'[i] = rows[i]
    BY <1>3, LedgerRows
  <1>6. row.amount = amount /\ row.status = "PENDING"
    BY DEF row
  <1>7. Pending' = Pending \cup {new} /\ Completed' = Completed
    BY <1>3, <1>4, <1>5, <1>6 DEF Pending, Completed
  <1>8. Amounts'[new] = amount /\ \A i \in DOMAIN rows : Amounts'[i] = Amounts[i]
    BY <1>3, <1>4, <1>5, <1>6 DEF Amounts
  <1>9. \A T \in SUBSET DOMAIN rows : SumFunctionOnSet(Amounts', T) = Sum(T)
    <2> SUFFICES ASSUME NEW T \in SUBSET DOMAIN rows
                 PROVE  SumFunctionOnSet(Amounts', T) = SumFunctionOnSet(Amounts, T)
      BY SumOfRows
    <2>1. IsFiniteSet(T) /\ \A i \in T : Amounts'[i] = Amounts[i]
      BY <1>8, SumOfSome
    <2> QED
      BY <2>1, SumSame
  <1>10. SumFunctionOnSet(Amounts', Pending \cup {new}) = amount + Sum(Pending)
    <2>1. IsFiniteSet(Pending \cup {new})
      BY LedgerRows, SumOfSome, FS_AddElement
    <2>2. \A i \in Pending \cup {new} : Amounts'[i] \in Int
      BY <1>8, LedgerRows
    <2>3. (Pending \cup {new}) \ {new} = Pending
      BY <1>4, LedgerRows
    <2>4. SumFunctionOnSet(Amounts', Pending \cup {new})
            = Amounts'[new] + SumFunctionOnSet(Amounts', (Pending \cup {new}) \ {new})
      <3>1. new \in Pending \cup {new}
        OBVIOUS
      <3> QED
        BY <2>1, <2>2, <3>1, SumRemove
    <2> QED
      BY <1>8, <1>9, <2>3, <2>4, LedgerRows
  <1>11. pending' = SumFunctionOnSet(Amounts', Pending')
    BY <1>7, <1>10, LedgerRows, SumOfSome DEF Ledger
  <1>12. balance' = SumFunctionOnSet(Amounts', Completed')
    BY <1>7, <1>9, LedgerRows DEF Ledger
  <1>13. \A i \in DOMAIN rows' : rows'[i].amount <= IF i = Revenue THEN Net ELSE 0
    <2>1. rows'[new].amount <= IF new = Revenue THEN Net ELSE 0
      BY <1>3, <1>6, LedgerRows DEF Revenue
    <2> QED
      BY <1>4, <1>5, <2>1 DEF Ledger
  <1> QED
    BY <1>3, <1>4, <1>11, <1>12, <1>13 DEF Ledger, Sum, Amounts

LEMMA ShareIsLess ==
    ASSUME NEW net \in Nat, NEW p \in Nat \ {0}, NEW m \in 0..p
    PROVE  (net * m) \div p \in 0..net
  <1> DEFINE q == (net * m) \div p
  <1>1. net * m \in Nat /\ net * m <= net * p
    OBVIOUS
  <1>2. q \in Int /\ p * q <= net * m /\ net * m < p * q + p
    BY <1>1
  <1> HIDE DEF q
  <1>3. q <= net
    <2> SUFFICES ASSUME q >= net + 1 PROVE FALSE
      BY <1>2
    <2>1. p * q >= p * (net + 1)
      BY <1>2
    <2>2. p * (net + 1) = net * p + p
      OBVIOUS
    <2> QED
      BY <1>1, <1>2, <2>1, <2>2
  <1>4. q >= 0
    <2> SUFFICES ASSUME q <= -1 PROVE FALSE
      BY <1>2
    <2>1. p * q <= p * (-1)
      BY <1>2
    <2> QED
      BY <1>1, <1>2, <2>1
  <1> QED
    BY <1>2, <1>3, <1>4 DEF q

-----------------------------------------------------------------------------
\* What each step does to the rows read and to the refunds asked for
\* Where a call asks the provider for a refund, or undoes one.
Asking == {"ask", "rollback"}
OneCall(c) == \A w \in Workers \ {c} : call'[w] = call[w]
\* The step of a call that reads no row and asks for no refund.
Plain(c) == /\ OneCall(c)
            /\ call'[c].at \notin Asking
            /\ call'[c].read \subseteq call[c].read

LEMMA PlainSteps ==
    ASSUME call \in [Workers -> CallState], NEW c \in Workers
    PROVE  /\ Return(c) => Plain(c)
           /\ \A place \in Location \ Asking : GoTo(c, place) => Plain(c)
           /\ Proceed(c) => Plain(c)
           /\ Throw(c) => Plain(c)
           /\ NothingRefunded(c) => Plain(c)
  <1>1. call[c] \in CallState
    OBVIOUS
  <1>2. Return(c) => Plain(c)
    BY DEF Return, Plain, OneCall, Idle, Asking
  <1>3. ASSUME NEW place \in Location \ Asking, GoTo(c, place) PROVE Plain(c)
    BY <1>1, <1>3 DEF GoTo, Plain, OneCall, CallState
  <1>4. Proceed(c) => Plain(c)
    <2> SUFFICES ASSUME call[c].then # "idle", Proceed(c) PROVE Plain(c)
      BY <1>2 DEF Proceed
    <2>1. call[c].then \in Afterwards
      BY <1>1 DEF CallState
    <2>2. call'[c] = [call[c] EXCEPT !.at = call[c].then, !.then = "idle"] /\ OneCall(c)
      BY DEF Proceed, OneCall
    <2>3. call'[c].at = call[c].then /\ call'[c].read = call[c].read
      BY <1>1, <2>2 DEF CallState
    <2> QED
      BY <2>1, <2>2, <2>3 DEF Plain, Afterwards, Asking
  <1>5. Throw(c) => Plain(c)
    BY <1>2, <1>3 DEF Throw, Location, Asking
  <1>6. NothingRefunded(c) => Plain(c)
    BY <1>4, <1>5 DEF NothingRefunded
  <1> QED
    BY <1>2, <1>3, <1>4, <1>5, <1>6

\* What a step of a call does to the rows a call may have read and to the refunds.
Reads(c) == OneCall(c) /\ call'[c].read \subseteq call[c].read \cup Pending
Calm(c) == /\ OneCall(c)
           /\ call[c].at \notin Asking /\ call'[c].at \notin Asking
           /\ UNCHANGED refundVars
Quiet(c) == Reads(c) /\ Calm(c) /\ UNCHANGED walletVars

LEMMA PlainIsQuiet ==
    ASSUME NEW c \in Workers, Plain(c), call[c].at \notin Asking
    PROVE  /\ Reads(c)
           /\ UNCHANGED refundVars => Calm(c)
           /\ UNCHANGED <<refundVars, walletVars>> => Quiet(c)
  BY DEF Plain, Reads, Calm, Quiet

LEMMA ReadingIsQuiet ==
    ASSUME call \in [Workers -> CallState], NEW c \in Workers,
           NEW from, from \notin Asking, NEW to \in Location \ Asking, NEW allowed,
           ReadRows(c, from, to, allowed)
    PROVE  Quiet(c)
  <1>1. call[c] \in CallState /\ call[c].at \notin Asking /\ UNCHANGED <<refundVars, walletVars>>
    BY DEF ReadRows, At
  <1>2. CASE allowed /\ Pending # {}
    <2>1. call'[c] = [call[c] EXCEPT !.at = to, !.read = Pending] /\ OneCall(c)
      BY <1>2 DEF ReadRows, OneCall
    <2>2. call'[c].at = to /\ call'[c].read = Pending
      BY <1>1, <2>1 DEF CallState
    <2> QED
      BY <1>1, <2>1, <2>2 DEF Quiet, Reads, Calm
  <1>3. CASE ~(allowed /\ Pending # {})
    <2>1. Plain(c)
      BY <1>3, PlainSteps DEF ReadRows
    <2> QED
      BY <1>1, <2>1, PlainIsQuiet
  <1> QED
    BY <1>2, <1>3

LEMMA CaptureSteps ==
    ASSUME call \in [Workers -> CallState], NEW c \in Workers,
           \/ FailAttempt(c) \/ FailPayment(c) \/ ClaimAttempt(c) \/ ClaimPayment(c)
           \/ Confirm(c) \/ NoteFullRefund(c) \/ Notified(c) \/ CaptureThrows(c)
           \/ ResetAttempt(c) \/ ResetPayment(c)
    PROVE  Quiet(c)
  <1>1. call[c].at \notin Asking /\ UNCHANGED <<refundVars, walletVars>>
    BY DEF FailAttempt, FailPayment, ClaimAttempt, ClaimPayment, Confirm, NoteFullRefund,
           Notified, CaptureThrows, ResetAttempt, ResetPayment, At, Asking, Capture
  <1>2. CASE NoteFullRefund(c)
    <2>1. call[c] \in CallState
      OBVIOUS
    <2>2. call'[c].at = "refund" /\ call'[c].read = call[c].read /\ OneCall(c)
      BY <1>2, <2>1 DEF NoteFullRefund, CallState, OneCall
    <2> QED
      BY <1>1, <2>2 DEF Quiet, Reads, Calm, Asking
  <1>3. CASE ~NoteFullRefund(c)
    <2>1. Return(c) \/ Proceed(c) \/ \E place \in Location \ Asking : GoTo(c, place)
      BY <1>3 DEF FailAttempt, FailPayment, ClaimAttempt, ClaimPayment, Confirm, Notified,
           CaptureThrows, ResetAttempt, ResetPayment, Location, Capture, Asking
    <2>2. Plain(c)
      BY <2>1, PlainSteps
    <2> QED
      BY <1>1, <2>2, PlainIsQuiet
  <1> QED
    BY <1>2, <1>3

LEMMA ReadToRefundStep ==
    ASSUME call \in [Workers -> CallState], NEW c \in Workers, ReadToRefund(c)
    PROVE  Quiet(c)
  <1>1. call[c].at \notin Asking /\ UNCHANGED <<refundVars, walletVars>>
    BY DEF ReadToRefund, At, Asking
  <1>2. CASE NothingRefunded(c)
    BY <1>1, <1>2, PlainSteps, PlainIsQuiet
  <1>3. CASE ~NothingRefunded(c)
    <2>1. PICK amount : call' = [call EXCEPT ![c].at = "claimRefund", ![c].seen = payment,
                                        ![c].amount = amount,
                                        ![c].full = refunded + amount >= Price]
      BY <1>3 DEF ReadToRefund
    <2>2. call[c] \in CallState
      OBVIOUS
    <2>3. call'[c].at = "claimRefund" /\ call'[c].read = call[c].read /\ OneCall(c)
      BY <2>1, <2>2 DEF CallState, OneCall
    <2> QED
      BY <1>1, <2>3 DEF Quiet, Reads, Calm, Asking
  <1> QED
    BY <1>2, <1>3

\* The refunds that are asked for: each step of one of them.
LEMMA AskingSteps ==
    ASSUME call \in [Workers -> CallState], NEW c \in Workers,
           \/ ClaimRefund(c) \/ ProviderRefunds(c) \/ ProviderRefuses(c) \/ AnswerLost(c)
           \/ Rollback(c)
    PROVE  Reads(c) /\ UNCHANGED walletVars
  <1>1. UNCHANGED walletVars
    BY DEF ClaimRefund, ProviderRefunds, ProviderRefuses, AnswerLost, Rollback
  <1>2. \/ NothingRefunded(c) \/ Throw(c)
        \/ \E place : GoTo(c, place)
    BY DEF ClaimRefund, ProviderRefunds, ProviderRefuses, AnswerLost, Rollback
  <1>3. ASSUME NEW place, GoTo(c, place) PROVE Reads(c)
    <2>1. call[c] \in CallState
      OBVIOUS
    <2> QED
      BY <1>3, <2>1 DEF GoTo, Reads, OneCall, CallState
  <1>4. Plain(c) => Reads(c)
    BY DEF Plain, Reads
  <1> QED
    BY <1>1, <1>2, <1>3, <1>4, PlainSteps

\* The other steps of a call that is under way.
LEMMA OtherSteps ==
    ASSUME call \in [Workers -> CallState], NEW c \in Workers,
           \/ MarkRefunded(c) \/ Conflict(c) \/ AlreadySettled(c) \/ TakeBackResolution(c)
           \/ HoldRevenue(c) \/ Release(c) \/ Reverse(c) \/ Deduct(c)
    PROVE  Reads(c) /\ Calm(c)
  <1>1. call[c].at \notin Asking /\ UNCHANGED refundVars
    BY DEF MarkRefunded, Conflict, AlreadySettled, TakeBackResolution, HoldRevenue, Release,
           Reverse, Deduct, At, Asking, Capture
  <1>2. \/ Return(c) \/ Proceed(c) \/ Throw(c)
        \/ \E place \in Location \ Asking : GoTo(c, place)
    BY DEF MarkRefunded, Conflict, AlreadySettled, TakeBackResolution, HoldRevenue, Release,
           Reverse, Deduct, Location, Capture, Asking
  <1>3. Plain(c)
    BY <1>2, PlainSteps
  <1> QED
    BY <1>1, <1>3, PlainIsQuiet

LEMMA BeginIsQuiet ==
    ASSUME IInv, NEW c \in Workers, UNCHANGED <<refundVars, walletVars>>,
           NEW place \in {"claimAttempt", "failAttempt", "refund", "release", "reverse"},
           NEW by, NEW a, NEW then, NEW amount, BeginBy(c, by, place, a, then, amount)
    PROVE  Quiet(c)
  <1>1. place \notin Asking
    BY DEF Asking
  <1>2. call[c].at \notin Asking
    BY DEF BeginBy, At, Asking
  <1>3. Plain(c)
    BY <1>1 DEF BeginBy, Plain, OneCall, Idle, IInv
  <1> QED
    BY <1>2, <1>3, PlainIsQuiet

LEMMA StartSteps ==
    ASSUME IInv, NEW c \in Workers, Start(c)
    PROVE  Quiet(c) \/ UNCHANGED <<refundVars, walletVars, call>>
  <1>1. CASE \E a \in Attempts : Webhook(c, a)
    BY <1>1, BeginIsQuiet DEF Webhook, Begin
  <1>2. ASSUME NEW s, NEW from, Cancel(c, s, from) PROVE Quiet(c)
    BY <1>2, BeginIsQuiet DEF Cancel, Begin
  <1>3. CASE CancelByClient(c) \/ CancelWithTrip(c) \/ ExpireUnpaid(c)
    BY <1>2, <1>3 DEF CancelByClient, CancelWithTrip, ExpireUnpaid
  <1>4. CASE Complete(c) \/ DeclareNoShow(c)
    BY <1>4, BeginIsQuiet DEF Complete, DeclareNoShow, Begin
  <1>5. CASE StaffRefunds(c)
    BY <1>5, BeginIsQuiet DEF StaffRefunds, Begin
  <1>6. CASE ResolveDispute(c)
    <2>1. UNCHANGED <<refundVars, walletVars>>
      BY <1>6 DEF ResolveDispute
    <2>2. ASSUME NEW s, CancelByArbiter(c, s) PROVE Quiet(c)
      BY <2>1, <2>2, BeginIsQuiet DEF CancelByArbiter
    <2>3. \/ UNCHANGED call
          \/ BeginBy(c, "arbiter", "release", NoAttempt, "idle", 0)
          \/ BeginBy(c, "arbiter", "refund", NoAttempt, "idle", Price)
          \/ \E m \in StaffAmounts : BeginBy(c, "arbiterAmount", "refund", NoAttempt, "idle", m)
          \/ \E s \in StaffAmounts : CancelByArbiter(c, s)
      BY <1>6 DEF ResolveDispute
    <2> QED
      BY <2>1, <2>2, <2>3, BeginIsQuiet
  <1> QED
    BY <1>1, <1>3, <1>4, <1>5, <1>6 DEF Start

LEMMA RecoverySteps ==
    ASSUME IInv, RecoverRefund \/ RecoverHeldFunds
    PROVE  \E c \in Workers : Quiet(c)
  <1>1. RefundJob \in Workers /\ HeldJob \in Workers
    BY DEF Workers
  <1>2. UNCHANGED <<refundVars, walletVars>>
    BY DEF RecoverRefund, RecoverHeldFunds
  <1>3. RecoverRefund => Quiet(RefundJob)
    BY <1>1, <1>2, BeginIsQuiet DEF RecoverRefund, Begin, AfterRefund
  <1>4. RecoverHeldFunds => Quiet(HeldJob)
    BY <1>1, <1>2, BeginIsQuiet DEF RecoverHeldFunds, Begin
  <1> QED
    BY <1>1, <1>3, <1>4

\* The same over the whole next-state relation.
Asks(c) == \/ ClaimRefund(c) \/ ProviderRefunds(c) \/ ProviderRefuses(c) \/ AnswerLost(c)
           \/ Rollback(c) \/ Die(c)
Settles(c) == HoldRevenue(c) \/ Release(c) \/ Reverse(c) \/ Deduct(c)

LEMMA ContinueSteps ==
    ASSUME IInv, NEW c \in Workers, Continue(c)
    PROVE  \/ Quiet(c)
           \/ Asks(c) /\ Reads(c) /\ UNCHANGED walletVars
           \/ Settles(c) /\ Reads(c) /\ Calm(c)
  <1>0. call \in [Workers -> CallState]
    BY DEF IInv
  <1>1. CASE \/ FailAttempt(c) \/ FailPayment(c) \/ ClaimAttempt(c) \/ ClaimPayment(c)
             \/ Confirm(c) \/ NoteFullRefund(c) \/ Notified(c) \/ CaptureThrows(c)
             \/ ResetAttempt(c) \/ ResetPayment(c)
    BY <1>0, <1>1, CaptureSteps
  <1>2. CASE ReadToRefund(c)
    BY <1>0, <1>2, ReadToRefundStep
  <1>3. CASE ReadToRelease(c) \/ ReadToReverse(c) \/ ReadToDeduct(c)
    <2>1. /\ {"release", "reverse", "deduct"} \cap Asking = {}
          /\ {"releasing", "reversing", "deducting"} \subseteq Location \ Asking
      BY DEF Asking, Location
    <2> QED
      BY <1>0, <1>3, <2>1, ReadingIsQuiet DEF ReadToRelease, ReadToReverse, ReadToDeduct
  <1>4. CASE \/ ClaimRefund(c) \/ ProviderRefunds(c) \/ ProviderRefuses(c) \/ AnswerLost(c)
             \/ Rollback(c)
    BY <1>0, <1>4, AskingSteps DEF Asks
  <1>5. CASE \/ MarkRefunded(c) \/ Conflict(c) \/ AlreadySettled(c) \/ TakeBackResolution(c)
    <2>1. UNCHANGED walletVars
      BY <1>5 DEF MarkRefunded, Conflict, AlreadySettled, TakeBackResolution
    <2> QED
      BY <1>0, <1>5, <2>1, OtherSteps DEF Quiet
  <1>6. CASE Settles(c)
    BY <1>0, <1>6, OtherSteps DEF Settles
  <1> QED
    BY <1>1, <1>2, <1>3, <1>4, <1>5, <1>6 DEF Continue, Settles

LEMMA NextSteps ==
    ASSUME IInv, [Next]_vars
    PROVE  \/ UNCHANGED <<refundVars, walletVars, call>>
           \/ \E c \in Workers :
                \/ Quiet(c)
                \/ Asks(c) /\ Reads(c) /\ UNCHANGED walletVars
                \/ Settles(c) /\ Reads(c) /\ Calm(c)
  <1>1. CASE \/ \E a \in Attempts : Initiate(a) \/ ProviderDecides(a)
             \/ OpenDispute \/ UNCHANGED vars
    BY <1>1 DEF Initiate, ProviderDecides, OpenDispute, vars
  <1>2. ASSUME NEW c \in Calls, Start(c)
        PROVE  Quiet(c) \/ UNCHANGED <<refundVars, walletVars, call>>
    BY <1>2, StartSteps DEF Workers
  <1>3. ASSUME NEW c \in Workers, Die(c) PROVE Asks(c) /\ Reads(c) /\ UNCHANGED walletVars
    <2>1. Plain(c)
      BY <1>3, PlainSteps DEF Die, IInv
    <2> QED
      BY <1>3, <2>1 DEF Die, Asks, Plain, Reads
  <1>4. Calls \subseteq Workers
    BY DEF Workers
  <1> QED
    BY <1>1, <1>2, <1>3, <1>4, ContinueSteps, RecoverySteps DEF Next

-----------------------------------------------------------------------------
\* The ledger through every step
LEMMA InitLedger == Init => Ledger
  <1> SUFFICES ASSUME Init PROVE Ledger
    OBVIOUS
  <1>1. rows \in Seq(Row) /\ DOMAIN rows = {}
    BY EmptySeq DEF Init
  <1>2. Pending = {} /\ Completed = {}
    BY <1>1 DEF Pending, Completed
  <1>3. Sum({}) = 0
    BY SumOfRows, SumEmpty
  <1>4. \A c \in Workers : call[c].read = {}
    BY DEF Init, Idle
  <1> QED
    BY <1>1, <1>2, <1>3, <1>4 DEF Init, Ledger

\* Nothing is read but rows that exist, and rows are never deleted.
LEMMA ReadsExist ==
    ASSUME Ledger, NEW c \in Workers, Reads(c)
    PROVE  \A w \in Workers : call'[w].read \subseteq DOMAIN rows
  BY LedgerRows DEF Reads, OneCall, Ledger

LEMMA LedgerKept ==
    ASSUME Ledger, UNCHANGED walletVars, \A w \in Workers : call'[w].read \subseteq DOMAIN rows
    PROVE  Ledger'
  BY DEF Ledger, walletVars, Sum, Pending, Completed

LEMMA HoldLedger ==
    ASSUME Ledger, NEW c \in Workers, HoldRevenue(c), Reads(c)
    PROVE  Ledger'
  <1>1. \A w \in Workers : call'[w].read \subseteq DOMAIN rows
    BY ReadsExist
  <1>2. CASE rows = <<>>
    <2>1. Len(rows) = 0
      BY <1>2, EmptySeq
    <2>2. Net \in -Price..Price
      BY PaymentsAssumption
    <2>3. rows' = Append(rows, [amount |-> Net, status |-> "PENDING"])
      BY <1>2 DEF HoldRevenue
    <2> QED
      BY <1>1, <1>2, <2>1, <2>2, <2>3, AppendLedger DEF HoldRevenue
  <1>3. CASE rows # <<>>
    BY <1>1, <1>3, LedgerKept DEF HoldRevenue, walletVars
  <1> QED
    BY <1>2, <1>3

LEMMA DeductLedger ==
    ASSUME IInv, Ledger, NEW c \in Workers, Deduct(c), Reads(c)
    PROVE  Ledger'
  <1>1. \A w \in Workers : call'[w].read \subseteq DOMAIN rows
    BY ReadsExist
  <1> DEFINE net == Sum(call[c].read)
             deduction == (net * call[c].amount) \div Price
  <1>2. call[c].amount \in 0..Price /\ call[c].read \subseteq DOMAIN rows
    BY DEF IInv, CallState, Ledger
  <1>3. net \in Int /\ net <= Net
    BY <1>2, SumOfSome
  <1>4. CASE deduction > 0
    <2>1. net > 0
      <3> SUFFICES ASSUME net <= 0 PROVE FALSE
        BY <1>3
      <3>1. net * call[c].amount <= 0 /\ net * call[c].amount \in Int
        BY <1>2, <1>3
      <3> HIDE DEF net
      <3>2. deduction <= 0
        BY <3>1, PaymentsAssumption
      <3> QED
        BY <1>4, <3>2, <3>1, PaymentsAssumption
    <2>2. deduction \in 0..net
      <3>1. net \in Nat /\ Price \in Nat \ {0}
        BY <1>3, <2>1, PaymentsAssumption
      <3> HIDE DEF net
      <3> QED
        BY <1>2, <3>1, ShareIsLess
    <2>3. rows' = Append(rows, [amount |-> -deduction, status |-> "PENDING"])
      BY <1>4 DEF Deduct
    <2>4. pending' = pending - deduction /\ UNCHANGED balance
      BY <1>4 DEF Deduct
    <2>5. pending \in Int
      BY LedgerRows, SumOfSome DEF Ledger
    <2> HIDE DEF deduction, net
    <2>6. -deduction \in -Price..Price /\ -deduction <= IF Len(rows) = 0 THEN Net ELSE 0
      BY <1>3, <2>2, PaymentsAssumption
    <2>7. pending' = pending + (-deduction)
      BY <1>3, <2>2, <2>4, <2>5
    <2> QED
      BY <1>1, <2>3, <2>4, <2>6, <2>7, AppendLedger
  <1>5. CASE ~(deduction > 0)
    BY <1>1, <1>5, LedgerKept DEF Deduct, walletVars
  <1> QED
    BY <1>4, <1>5

LEMMA NextLedger == IInv /\ Ledger /\ [Next]_vars => Ledger'
  <1> SUFFICES ASSUME IInv, Ledger, [Next]_vars PROVE Ledger'
    OBVIOUS
  <1>1. CASE UNCHANGED <<refundVars, walletVars, call>>
    BY <1>1, LedgerKept DEF Ledger
  <1>2. ASSUME NEW c \in Workers, Reads(c), UNCHANGED walletVars PROVE Ledger'
    BY <1>2, ReadsExist, LedgerKept
  <1>3. ASSUME NEW c \in Workers, Settles(c), Reads(c) PROVE Ledger'
    <2>1. \A w \in Workers : call'[w].read \subseteq DOMAIN rows
      BY <1>3, ReadsExist
    <2>2. CASE HoldRevenue(c)
      BY <1>3, <2>2, HoldLedger
    <2>3. CASE Release(c)
      BY <2>1, <2>3, SettleLedger DEF Release
    <2>4. CASE Reverse(c)
      BY <2>1, <2>4, SettleLedger DEF Reverse
    <2>5. CASE Deduct(c)
      BY <1>3, <2>5, DeductLedger
    <2> QED
      BY <1>3, <2>2, <2>3, <2>4, <2>5 DEF Settles
  <1> QED
    BY <1>1, <1>2, <1>3, NextSteps DEF Quiet

\* Through every hold, release, reversal and deduction, by whatever calls and
\* whichever of them fails, the wallet's pending part is the sum of the rows still
\* PENDING and its balance that of the COMPLETED ones (wallets.service.ts moves the
\* figures and the rows in one transaction).
THEOREM WalletTellsRows == Spec => []WalletMatchesRows
  <1>1. Ledger => WalletMatchesRows
    BY DEF Ledger, WalletMatchesRows
  <1> QED
    BY <1>1, InitIInv, NextIInv, InitLedger, NextLedger, PTL DEF Spec

\* However often the capture is replayed and the revenue settled, what the driver
\* holds and what he was paid are never more than the price less the commission.
THEOREM DriverNeverGetsMore == Spec => []DriverGetsAtMostNet
  <1>1. Ledger => DriverGetsAtMostNet
    <2> SUFFICES ASSUME Ledger PROVE DriverGetsAtMostNet
      OBVIOUS
    <2> DEFINE both == Pending \cup Completed
    <2>1. both \in SUBSET DOMAIN rows /\ Pending \in SUBSET both
      BY LedgerRows
    <2>2. both \ Pending = Completed
      <3>1. \A i \in Completed : i \notin Pending
        BY DEF Pending, Completed
      <3> QED
        BY <3>1
    <2>3. Sum(both) = Sum(Pending) + Sum(both \ Pending) /\ Sum(both) <= Net
      BY <2>1, SumOfSome
    <2>4. Sum(Pending) \in Int /\ Sum(Completed) \in Int
      BY LedgerRows, SumOfSome
    <2>5. Sum(both) = Sum(Pending) + Sum(Completed)
      BY <2>2, <2>3, Zenon
    <2> HIDE DEF both
    <2> QED
      BY <2>3, <2>4, <2>5 DEF Ledger, DriverGetsAtMostNet
  <1> QED
    BY <1>1, InitIInv, NextIInv, InitLedger, NextLedger, PTL DEF Spec

-----------------------------------------------------------------------------
\* The refunds under way
AmountOf == [c \in Workers |-> call[c].amount]

\* Finitely many refunds are under way, and none of them for less than nothing.
Trail ==
    /\ IsFiniteSet(Refunding)
    /\ InFlight \in Nat /\ returned \in Nat
    /\ InFlight <= refunded

LEMMA AmountsAreNat ==
    ASSUME IInv
    PROVE  \A c \in Workers : AmountOf[c] \in Nat /\ AmountOf[c] = call[c].amount
  <1>1. \A c \in Workers : call[c].amount \in 0..Price
    BY DEF IInv, CallState
  <1> QED
    BY <1>1, PaymentsAssumption DEF AmountOf

\* The refunds under way from one step to the next, by what happens to one call.
LEMMA InFlightSame ==
    ASSUME IInv, IInv', Trail, NEW c \in Workers, OneCall(c),
           c \in Refunding' <=> c \in Refunding,
           c \in Refunding => call'[c].amount = call[c].amount
    PROVE  IsFiniteSet(Refunding') /\ InFlight' = InFlight
  <1>1. Refunding' = Refunding
    BY DEF Refunding, OneCall
  <1>2. \A w \in Refunding : AmountOf'[w] = AmountOf[w]
    BY AmountsAreNat DEF OneCall, Refunding, AmountOf
  <1>3. SumFunctionOnSet(AmountOf', Refunding) = SumFunctionOnSet(AmountOf, Refunding)
    BY <1>2, SumSame DEF Trail
  <1> QED
    BY <1>1, <1>3 DEF Trail, InFlight, AmountOf

LEMMA InFlightAdds ==
    ASSUME IInv, IInv', Trail, NEW c \in Workers, OneCall(c), c \in Refunding', c \notin Refunding
    PROVE  /\ IsFiniteSet(Refunding') /\ InFlight' = InFlight + call'[c].amount
           /\ InFlight' \in Nat /\ call'[c].amount \in Nat
  <1>1. Refunding' = Refunding \cup {c}
    BY DEF Refunding, OneCall
  <1>2. IsFiniteSet(Refunding \cup {c})
    BY FS_AddElement DEF Trail
  <1>3. /\ \A w \in Refunding \cup {c} : AmountOf'[w] \in Nat
        /\ \A w \in Refunding : AmountOf'[w] = AmountOf[w]
        /\ AmountOf'[c] = call'[c].amount
    BY AmountsAreNat DEF OneCall, Refunding, AmountOf, IInv, CallState
  <1>4. (Refunding \cup {c}) \ {c} = Refunding
    OBVIOUS
  <1>5. SumFunctionOnSet(AmountOf', Refunding \cup {c})
          = AmountOf'[c] + SumFunctionOnSet(AmountOf', (Refunding \cup {c}) \ {c})
    <2>1. \A w \in Refunding \cup {c} : AmountOf'[w] \in Int
      BY <1>3
    <2>2. c \in Refunding \cup {c}
      OBVIOUS
    <2> QED
      BY <1>2, <2>1, <2>2, SumRemove
  <1>6. SumFunctionOnSet(AmountOf', Refunding) = SumFunctionOnSet(AmountOf, Refunding)
    BY <1>3, SumSame DEF Trail
  <1>7. SumFunctionOnSet(AmountOf', Refunding \cup {c}) = call'[c].amount + InFlight
    BY <1>3, <1>4, <1>5, <1>6 DEF InFlight, AmountOf
  <1>8. InFlight' = call'[c].amount + InFlight
    BY <1>1, <1>7 DEF InFlight, AmountOf
  <1>9. call'[c].amount \in Nat /\ InFlight \in Nat
    BY <1>3 DEF Trail
  <1> QED
    BY <1>1, <1>2, <1>8, <1>9

LEMMA InFlightDrops ==
    ASSUME IInv, IInv', Trail, NEW c \in Workers, OneCall(c), c \in Refunding, c \notin Refunding'
    PROVE  /\ IsFiniteSet(Refunding') /\ InFlight' = InFlight - call[c].amount
           /\ InFlight' \in Nat /\ call[c].amount \in Nat
  <1>1. Refunding' = Refunding \ {c}
    BY DEF Refunding, OneCall
  <1>2. IsFiniteSet(Refunding \ {c})
    BY FS_RemoveElement DEF Trail
  <1>3. /\ \A w \in Refunding : AmountOf[w] \in Nat
        /\ \A w \in Refunding \ {c} : AmountOf'[w] = AmountOf[w]
        /\ AmountOf[c] = call[c].amount
    BY AmountsAreNat DEF OneCall, Refunding, AmountOf
  <1>4. SumFunctionOnSet(AmountOf, Refunding)
          = AmountOf[c] + SumFunctionOnSet(AmountOf, Refunding \ {c})
    <2>1. \A w \in Refunding : AmountOf[w] \in Int
      BY <1>3
    <2> QED
      BY <2>1, SumRemove DEF Trail
  <1>5. SumFunctionOnSet(AmountOf, Refunding \ {c}) \in Nat
    BY <1>2, <1>3, SumIsNat
  <1>6. SumFunctionOnSet(AmountOf', Refunding \ {c}) = SumFunctionOnSet(AmountOf, Refunding \ {c})
    BY <1>2, <1>3, SumSame
  <1>7. InFlight' = SumFunctionOnSet(AmountOf, Refunding \ {c})
    BY <1>1, <1>6 DEF InFlight, AmountOf
  <1>8. InFlight = call[c].amount + SumFunctionOnSet(AmountOf, Refunding \ {c})
    BY <1>3, <1>4 DEF InFlight, AmountOf
  <1>9. call[c].amount \in Nat
    BY <1>3
  <1> QED
    BY <1>1, <1>2, <1>5, <1>7, <1>8, <1>9

-----------------------------------------------------------------------------
\* Every step is one of these for the refunds, `amount` being that of one call.
StaysSame      == InFlight' = InFlight /\ UNCHANGED refundVars
Claims(amount) == /\ InFlight' = InFlight + amount /\ refunded' = refunded + amount
                  /\ UNCHANGED returned
Answered(amount) == /\ InFlight' = InFlight - amount /\ returned' = returned + amount
                    /\ UNCHANGED refunded
Lost(amount) == /\ InFlight' = InFlight /\ returned' = returned + amount
                /\ UNCHANGED refunded /\ "lostAnswer" \in Faults
Undone(amount) == /\ InFlight' = InFlight - amount /\ refunded' = refunded - amount
                  /\ UNCHANGED returned
Killed(amount) == /\ InFlight' = InFlight - amount /\ UNCHANGED refundVars
                  /\ "crash" \in Faults

RefundStep(amount) ==
    /\ IsFiniteSet(Refunding') /\ InFlight' \in Nat
    /\ \/ StaysSame \/ Claims(amount) \/ Answered(amount) \/ Lost(amount) \/ Undone(amount)
       \/ Killed(amount)

LEMMA CalmRefunds ==
    ASSUME IInv, IInv', Trail, NEW c \in Workers, Calm(c)
    PROVE  RefundStep(0)
  <1>1. c \notin Refunding /\ c \notin Refunding'
    BY DEF Calm, Refunding, Asking
  <1>2. IsFiniteSet(Refunding') /\ InFlight' = InFlight
    BY <1>1, InFlightSame DEF Calm
  <1> QED
    BY <1>2 DEF Calm, RefundStep, StaysSame, Trail

LEMMA AskingRefunds ==
    ASSUME IInv, IInv', Trail, NEW c \in Workers, Asks(c)
    PROVE  \E amount \in Nat : RefundStep(amount)
  <1>0. call \in [Workers -> CallState] /\ call[c] \in CallState
    BY DEF IInv
  <1>1. ASSUME NEW place, GoTo(c, place)
        PROVE  /\ OneCall(c) /\ call'[c].at = place /\ call'[c].amount = call[c].amount
               /\ c \in Refunding' <=> place \in Asking
    BY <1>0, <1>1 DEF GoTo, OneCall, CallState, Refunding, Asking
  <1>2. Plain(c) => OneCall(c) /\ c \notin Refunding'
    BY DEF Plain, Refunding, Asking
  <1>3. CASE ClaimRefund(c)
    <2>1. c \notin Refunding
      BY <1>3 DEF ClaimRefund, At, Refunding
    <2>2. CASE c \in current
      <3>1. GoTo(c, "ask") /\ refunded' = refunded + call[c].amount /\ UNCHANGED returned
        BY <1>3, <2>2 DEF ClaimRefund
      <3>2. OneCall(c) /\ c \in Refunding' /\ call'[c].amount = call[c].amount
        BY <1>1, <3>1 DEF Asking
      <3>3. /\ IsFiniteSet(Refunding') /\ InFlight' = InFlight + call[c].amount
            /\ InFlight' \in Nat /\ call[c].amount \in Nat
        BY <2>1, <3>2, InFlightAdds
      <3> QED
        BY <3>1, <3>3 DEF RefundStep, Claims
    <2>3. CASE c \notin current
      <3>1. NothingRefunded(c) /\ UNCHANGED refundVars
        BY <1>3, <2>3 DEF ClaimRefund, refundVars
      <3>2. OneCall(c) /\ c \notin Refunding'
        BY <1>0, <1>2, <3>1, PlainSteps
      <3>3. IsFiniteSet(Refunding') /\ InFlight' = InFlight
        BY <2>1, <3>2, InFlightSame
      <3> QED
        BY <3>1, <3>3 DEF RefundStep, StaysSame, Trail
    <2> QED
      BY <2>2, <2>3
  <1>4. CASE ProviderRefunds(c)
    <2>1. c \in Refunding /\ returned' = returned + call[c].amount /\ UNCHANGED refunded
      BY <1>4 DEF ProviderRefunds, At, Refunding
    <2>2. OneCall(c) /\ c \notin Refunding'
      BY <1>1, <1>4 DEF ProviderRefunds, Asking
    <2>3. /\ IsFiniteSet(Refunding') /\ InFlight' = InFlight - call[c].amount
          /\ InFlight' \in Nat /\ call[c].amount \in Nat
      BY <2>1, <2>2, InFlightDrops
    <2> QED
      BY <2>1, <2>3 DEF RefundStep, Answered
  <1>5. CASE ProviderRefuses(c) \/ AnswerLost(c)
    <2>1. c \in Refunding /\ GoTo(c, "rollback")
      BY <1>5 DEF ProviderRefuses, AnswerLost, At, Refunding
    <2>2. OneCall(c) /\ c \in Refunding' /\ call'[c].amount = call[c].amount
      BY <1>1, <2>1 DEF Asking
    <2>3. IsFiniteSet(Refunding') /\ InFlight' = InFlight
      BY <2>1, <2>2, InFlightSame
    <2>4. call[c].amount \in Nat
      BY AmountsAreNat
    <2>5. StaysSame \/ Lost(call[c].amount)
      BY <1>5, <2>3 DEF ProviderRefuses, AnswerLost, Happens, StaysSame, Lost, refundVars
    <2> QED
      BY <2>3, <2>4, <2>5 DEF RefundStep, Trail
  <1>6. CASE Rollback(c)
    <2>1. c \in Refunding /\ refunded' = refunded - call[c].amount /\ UNCHANGED returned
      BY <1>6 DEF Rollback, At, Refunding
    <2>2. OneCall(c) /\ c \notin Refunding'
      BY <1>0, <1>2, <1>6, PlainSteps DEF Rollback
    <2>3. /\ IsFiniteSet(Refunding') /\ InFlight' = InFlight - call[c].amount
          /\ InFlight' \in Nat /\ call[c].amount \in Nat
      BY <2>1, <2>2, InFlightDrops
    <2> QED
      BY <2>1, <2>3 DEF RefundStep, Undone
  <1>7. CASE Die(c)
    <2>1. OneCall(c) /\ c \notin Refunding'
      BY <1>0, <1>2, <1>7, PlainSteps DEF Die
    <2>2. "crash" \in Faults /\ UNCHANGED refundVars
      BY <1>7 DEF Die, Happens
    <2>3. CASE c \in Refunding
      <3>1. /\ IsFiniteSet(Refunding') /\ InFlight' = InFlight - call[c].amount
            /\ InFlight' \in Nat /\ call[c].amount \in Nat
        BY <2>1, <2>3, InFlightDrops
      <3> QED
        BY <2>2, <3>1 DEF RefundStep, Killed
    <2>4. CASE c \notin Refunding
      <3>1. IsFiniteSet(Refunding') /\ InFlight' = InFlight
        BY <2>1, <2>4, InFlightSame
      <3> QED
        BY <2>2, <3>1 DEF RefundStep, StaysSame, Trail
    <2> QED
      BY <2>3, <2>4
  <1> QED
    BY <1>3, <1>4, <1>5, <1>6, <1>7 DEF Asks

LEMMA NextRefunds ==
    ASSUME IInv, IInv', Trail, [Next]_vars
    PROVE  \E amount \in Nat : RefundStep(amount)
  <1>1. CASE UNCHANGED <<refundVars, walletVars, call>>
    <2>1. Refunding' = Refunding /\ InFlight' = InFlight /\ UNCHANGED refundVars
      BY <1>1 DEF Refunding, InFlight
    <2>2. RefundStep(0)
      BY <2>1 DEF RefundStep, StaysSame, Trail
    <2> QED
      BY <2>2
  <1>2. ASSUME NEW c \in Workers, Calm(c) PROVE \E amount \in Nat : RefundStep(amount)
    BY <1>2, CalmRefunds
  <1>3. ASSUME NEW c \in Workers, Asks(c) PROVE \E amount \in Nat : RefundStep(amount)
    BY <1>3, AskingRefunds
  <1> QED
    BY <1>1, <1>2, <1>3, NextSteps DEF Quiet

LEMMA InitTrail == Init => Trail /\ InFlight = 0
  <1> SUFFICES ASSUME Init PROVE Trail /\ InFlight = 0
    OBVIOUS
  <1>1. Refunding = {}
    BY DEF Init, Refunding, Idle
  <1>2. InFlight = 0
    BY <1>1, SumEmpty DEF InFlight
  <1> QED
    BY <1>1, <1>2, FS_EmptySet DEF Init, Trail

\* Every one of these kinds of step, with what it needs of the state before it.
LEMMA RefundStepKeeps ==
    ASSUME IInv, IInv', Trail, NEW amount \in Nat, RefundStep(amount)
    PROVE  /\ Trail'
           /\ Faults \cap {"lostAnswer"} = {} /\ returned + InFlight <= refunded
                => returned' + InFlight' <= refunded'
           /\ Faults \cap {"lostAnswer", "crash"} = {} /\ refunded = returned + InFlight
                => refunded' = returned' + InFlight'
  <1>1. /\ InFlight \in Nat /\ InFlight' \in Nat /\ returned \in Nat /\ refunded \in Int
        /\ InFlight <= refunded
    BY DEF Trail, RefundStep, IInv
  <1>2. CASE StaysSame
    BY <1>1, <1>2 DEF StaysSame, refundVars, Trail, RefundStep
  <1>3. CASE Claims(amount)
    BY <1>1, <1>3 DEF Claims, Trail, RefundStep
  <1>4. CASE Answered(amount)
    BY <1>1, <1>4 DEF Answered, Trail, RefundStep
  <1>5. CASE Lost(amount)
    BY <1>1, <1>5 DEF Lost, Trail, RefundStep
  <1>6. CASE Undone(amount)
    BY <1>1, <1>6 DEF Undone, Trail, RefundStep
  <1>7. CASE Killed(amount)
    BY <1>1, <1>7 DEF Killed, refundVars, Trail, RefundStep
  <1> QED
    BY <1>2, <1>3, <1>4, <1>5, <1>6, <1>7 DEF RefundStep

LEMMA NextTrail == IInv /\ IInv' /\ Trail /\ [Next]_vars => Trail'
  BY NextRefunds, RefundStepKeeps

\* The provider's answers reach the code; no process dies on the way to one.
NoAnswerLost == Faults \cap {"lostAnswer"} = {}
AnswersArrive == Faults \cap {"lostAnswer", "crash"} = {}

RowsCoverRefunds == returned + InFlight <= refunded

LEMMA NextCovered ==
    NoAnswerLost /\ IInv /\ IInv' /\ Trail /\ RowsCoverRefunds /\ [Next]_vars => RowsCoverRefunds'
  BY NextRefunds, RefundStepKeeps DEF NoAnswerLost, RowsCoverRefunds

LEMMA NextTold ==
    AnswersArrive /\ IInv /\ IInv' /\ Trail /\ RowsTellRefunds /\ [Next]_vars => RowsTellRefunds'
  BY NextRefunds, RefundStepKeeps DEF AnswersArrive, RowsTellRefunds

\* As long as the provider's answers are read, refused or not, the REFUNDED rows
\* say exactly what went back to the client, but for what is being asked for or
\* undone (executeRefund writes the row first and takes it back on a refusal).
THEOREM RefundRowsAreTrue == AnswersArrive => (Spec => []RowsTellRefunds)
  <1> SUFFICES ASSUME AnswersArrive PROVE Spec => []RowsTellRefunds
    OBVIOUS
  <1>1. Init => RowsTellRefunds
    BY InitTrail DEF Init, RowsTellRefunds
  <1>2. IInv /\ IInv' /\ Trail /\ RowsTellRefunds /\ [Next]_vars => RowsTellRefunds'
    BY NextTold
  <1> QED
    BY <1>1, <1>2, InitIInv, NextIInv, InitTrail, NextTrail, PTL DEF Spec

\* The client is given back at most what he paid.
ReturnedWithinPrice == returned <= Price

LEMMA CoveredIsWithinPrice == IInv /\ Trail /\ RowsCoverRefunds => ReturnedWithinPrice
  BY PaymentsAssumption DEF IInv, Trail, RowsCoverRefunds, RefundsWithinPrice, ReturnedWithinPrice

\* Even with processes that die half-way, the client is never given back more
\* than he paid, unless an answer of the provider is lost and its refund undone.
THEOREM ClientGetsAtMostPrice == NoAnswerLost => (Spec => []ReturnedWithinPrice)
  <1> SUFFICES ASSUME NoAnswerLost PROVE Spec => []ReturnedWithinPrice
    OBVIOUS
  <1>1. Init => RowsCoverRefunds
    BY InitTrail DEF Init, RowsCoverRefunds
  <1>2. IInv /\ IInv' /\ Trail /\ RowsCoverRefunds /\ [Next]_vars => RowsCoverRefunds'
    BY NextCovered
  <1> QED
    BY <1>1, <1>2, CoveredIsWithinPrice, InitIInv, NextIInv, InitTrail, NextTrail, PTL DEF Spec

-----------------------------------------------------------------------------
\* What the types say of the variables no other part speaks of.
Others ==
    /\ booking \in BookingStatus /\ noShow \in BOOLEAN /\ dispute \in BOOLEAN
    /\ attempt \in [Attempts -> AttemptStatus]
    /\ announced \in [Attempts -> Announcement]
    /\ faults \in 0..MaxFaults

LEMMA InitOthers == Init => Others
  <1> SUFFICES ASSUME Init PROVE Others
    OBVIOUS
  <1>1. faults \in 0..MaxFaults
    BY PaymentsAssumption DEF Init
  <1>2. /\ attempt \in [Attempts -> AttemptStatus]
        /\ announced \in [Attempts -> Announcement]
    BY DEF Init, AttemptStatus, Announcement
  <1>3. booking \in BookingStatus
    BY DEF Init, BookingStatus
  <1>4. noShow \in BOOLEAN /\ dispute \in BOOLEAN
    BY DEF Init
  <1> QED
    BY <1>1, <1>2, <1>3, <1>4 DEF Others

LEMMA Counted ==
    ASSUME Others, (\E incident : Happens(incident)) \/ UNCHANGED faults
    PROVE  faults' \in 0..MaxFaults
  BY PaymentsAssumption DEF Happens, Others

LEMMA NextOthers == Others /\ [Next]_vars => Others'
  <1> SUFFICES ASSUME Others, [Next]_vars PROVE Others'
    OBVIOUS
  <1> DEFINE Mine == UNCHANGED <<bookingVars, attempt, announced>>
  <1>1. ASSUME Mine, (\E incident : Happens(incident)) \/ UNCHANGED faults PROVE Others'
    BY <1>1, Counted DEF Others, bookingVars
  <1>2. ASSUME NEW a \in Attempts, Initiate(a) \/ ProviderDecides(a) PROVE Others'
    BY <1>2 DEF Initiate, ProviderDecides, Others, AttemptStatus, Announcement, bookingVars
  <1>3. ASSUME NEW c \in Calls, Start(c) PROVE Others'
    <2>1. CASE (\E a \in Attempts : Webhook(c, a)) \/ StaffRefunds(c)
      BY <1>1, <2>1 DEF Webhook, StaffRefunds, paymentVars
    <2>2. CASE \/ CancelByClient(c) \/ CancelWithTrip(c) \/ ExpireUnpaid(c) \/ Complete(c)
               \/ DeclareNoShow(c)
      <3>1. booking' \in {"CANCELLED", "COMPLETED"} /\ noShow' \in {noShow, TRUE}
        BY <2>2 DEF CancelByClient, CancelWithTrip, ExpireUnpaid, Cancel, Complete, DeclareNoShow
      <3>2. UNCHANGED <<dispute, attempt, announced, faults>>
        BY <2>2 DEF CancelByClient, CancelWithTrip, ExpireUnpaid, Cancel, Complete, DeclareNoShow,
                    paymentVars
      <3> QED
        BY <3>1, <3>2 DEF Others, BookingStatus
    <2>3. CASE ResolveDispute(c)
      <3>1. booking' \in {booking, "CANCELLED"} /\ dispute' = FALSE
        BY <2>3 DEF ResolveDispute, CancelByArbiter
      <3>2. UNCHANGED <<noShow, attempt, announced, faults>>
        BY <2>3 DEF ResolveDispute, paymentVars
      <3> QED
        BY <3>1, <3>2 DEF Others, BookingStatus
    <2> QED
      BY <1>3, <2>1, <2>2, <2>3 DEF Start
  <1>4. ASSUME NEW c \in Workers, Continue(c) PROVE Others'
    <2>1. CASE FailAttempt(c) \/ ClaimAttempt(c) \/ ResetAttempt(c)
      <3>1. \E s \in AttemptStatus : attempt' = [attempt EXCEPT ![call[c].a] = s]
        BY <2>1 DEF FailAttempt, ClaimAttempt, ResetAttempt, AttemptStatus
      <3>2. UNCHANGED <<bookingVars, announced, faults>>
        BY <2>1 DEF FailAttempt, ClaimAttempt, ResetAttempt
      <3> QED
        BY <3>1, <3>2 DEF Others, bookingVars
    <2>2. CASE Confirm(c) \/ MarkRefunded(c)
      <3>1. booking' \in {booking, "CONFIRMED", "REFUNDED"}
        BY <2>2 DEF Confirm, MarkRefunded
      <3>2. UNCHANGED <<noShow, dispute, attempt, announced, faults>>
        BY <2>2 DEF Confirm, MarkRefunded, paymentVars
      <3> QED
        BY <3>1, <3>2 DEF Others, BookingStatus
    <2>3. CASE NoteFullRefund(c) \/ TakeBackResolution(c)
      <3>1. dispute' \in {dispute, TRUE}
        BY <2>3 DEF NoteFullRefund, TakeBackResolution
      <3>2. UNCHANGED <<booking, noShow, attempt, announced, faults>>
        BY <2>3 DEF NoteFullRefund, TakeBackResolution, paymentVars
      <3> QED
        BY <3>1, <3>2 DEF Others
    <2>4. CASE \/ FailPayment(c) \/ ClaimPayment(c) \/ HoldRevenue(c) \/ Notified(c)
               \/ CaptureThrows(c) \/ ResetPayment(c) \/ ReadToRefund(c) \/ ClaimRefund(c)
               \/ ProviderRefunds(c) \/ ProviderRefuses(c) \/ AnswerLost(c) \/ Rollback(c)
      <3>1. Mine
        BY <2>4 DEF FailPayment, ClaimPayment, HoldRevenue, Notified, CaptureThrows, ResetPayment,
             ReadToRefund, ClaimRefund, ProviderRefunds, ProviderRefuses, AnswerLost, Rollback,
             paymentVars
      <3>2. (\E incident : Happens(incident)) \/ UNCHANGED faults
        BY <2>4 DEF FailPayment, ClaimPayment, HoldRevenue, Notified, CaptureThrows, ResetPayment,
             ReadToRefund, ClaimRefund, ProviderRefunds, ProviderRefuses, AnswerLost, Rollback
      <3> QED
        BY <1>1, <3>1, <3>2
    <2>5. CASE \/ ReadToRelease(c) \/ ReadToReverse(c) \/ ReadToDeduct(c) \/ Conflict(c)
               \/ AlreadySettled(c) \/ Release(c) \/ Reverse(c) \/ Deduct(c)
      <3>1. Mine /\ UNCHANGED faults
        BY <2>5 DEF ReadToRelease, ReadToReverse, ReadToDeduct, ReadRows, Conflict,
             AlreadySettled, Release, Reverse, Deduct, paymentVars
      <3> QED
        BY <1>1, <3>1
    <2> QED
      BY <1>4, <2>1, <2>2, <2>3, <2>4, <2>5 DEF Continue
  <1>5. ASSUME NEW c \in Workers, Die(c) PROVE Others'
    BY <1>1, <1>5 DEF Die, paymentVars
  <1>6. CASE OpenDispute
    BY <1>6, Counted DEF OpenDispute, Others, paymentVars
  <1>7. CASE RecoverRefund \/ RecoverHeldFunds \/ UNCHANGED vars
    BY <1>1, <1>7 DEF RecoverRefund, RecoverHeldFunds, vars, paymentVars
  <1> QED
    BY <1>2, <1>3, <1>4, <1>5, <1>6, <1>7 DEF Next

LEMMA PartsAreTypes == IInv /\ Ledger /\ Trail /\ Others => TypeOK
  <1> SUFFICES ASSUME IInv, Ledger, Trail, Others PROVE TypeOK
    OBVIOUS
  <1>1. refunded \in Nat
    BY DEF IInv, Trail
  <1>2. pending \in Int /\ balance \in Int
    BY LedgerRows, SumOfSome DEF Ledger
  <1> QED
    BY <1>1, <1>2 DEF IInv, Ledger, Trail, Others, TypeOK

\* Every row, call and figure of the booking's payment keeps its type.
THEOREM TypeCorrect == Spec => []TypeOK
  BY InitIInv, NextIInv, InitLedger, NextLedger, InitTrail, NextTrail, InitOthers, NextOthers,
     PartsAreTypes, PTL DEF Spec

-----------------------------------------------------------------------------
\* Either the client or the driver
\* What is refunded is what the policy or the cancellation of a trip decides, nobody
\* else refunds; refunds may be refused and processes may die.  A part is given back
\* once if the recovery waits for the calls that are running.
AsDecided ==
    /\ StaffAmounts = {} /\ Faults \subseteq {"refusal", "crash"}
    /\ JobsWait \/ Shares \subseteq {0, Price}

Claiming == {"claimRefund", "ask", "rollback"}
Never == {"resetAttempt", "resetPayment", "unresolve"}

\* Paid, and no call will hold anything for the driver any more.
NeverHeld ==
    /\ rows = <<>> /\ payment \in Taken
    /\ \A c \in Workers : call[c].at \notin {"confirm", "hold"}
\* What gives money back to the client, what pays the driver, and when each is due.
Refunds(c) == (call[c].at = "refund" /\ call[c].amount > 0) \/ call[c].at \in Claiming
GivesBack(c) == Refunds(c) \/ call[c].at = "markRefunded"
PaysDriver(c) == call[c].at \in {"release", "releasing"} \/ call[c].then = "release"
Owed == booking = "CANCELLED" /\ share > 0
Earned == booking = "COMPLETED" \/ noShow \/ (booking = "CANCELLED" /\ share < Price)

BookingFits ==
    /\ booking # "REFUNDED" /\ ~dispute /\ share \in Shares \cup {NoShare, 0, Price}
    /\ booking # "CANCELLED" \/ noShow => share = NoShare
    /\ noShow => booking = "CANCELLED"
    /\ booking \in {"CONFIRMED", "COMPLETED"} \/ noShow =>
         /\ payment \in Taken
         /\ \A c \in Workers : call[c].at \notin {"confirm", "note"}
\* One call captures, before anything is held; a booking cancelled by then gets nothing.
CaptureFits ==
    /\ payment \notin Taken => rows = <<>> /\ \A c \in Workers : call[c].at \notin Capture
    /\ \A c, d \in Workers : call[c].at \in Capture /\ call[d].at \in Capture => c = d
    /\ \A c \in Workers : call[c].at = "confirm" => rows = <<>>
    /\ \A c \in Workers : call[c].at = "note" => NeverHeld /\ booking = "CANCELLED"
CallsFit == \A c \in Workers :
    /\ call[c].at \notin Never /\ call[c].by = "other"
    /\ call[c].at \in Claiming => call[c].seen \in Taken /\ payment \in Taken
OneGetsIt ==
    /\ refunded > 0 => Owed
    /\ \A c \in Workers : GivesBack(c) => Owed
    /\ \A c \in Workers : PaysDriver(c) => Earned \/ NeverHeld
    /\ balance # 0 => Earned
Exclusive == BookingFits /\ CaptureFits /\ CallsFit /\ OneGetsIt

\* A step that leaves the booking and the capture as they are: how its call goes
\* on, and what it does to the money.
Goes(c) ==
    /\ OneCall(c)
    /\ call'[c].at \notin Capture \cup Never /\ call'[c].by = "other"
    /\ call'[c].at \in Claiming => call'[c].seen \in Taken /\ payment \in Taken
    /\ GivesBack(c)' => GivesBack(c) \/ Owed
    /\ PaysDriver(c)' => PaysDriver(c) \/ Earned
Still ==
    /\ UNCHANGED bookingVars
    /\ rows' = <<>> <=> rows = <<>>
    /\ payment' \in Taken <=> payment \in Taken
    /\ balance' # 0 => balance # 0 \/ Earned
    /\ refunded' > 0 => refunded > 0 \/ Owed

LEMMA HarmlessStep ==
    ASSUME Exclusive, NEW c \in Workers, Goes(c), Still
    PROVE  Exclusive'
  <1>1. /\ UNCHANGED <<booking, share, noShow, dispute>>
        /\ \A w \in Workers \ {c} : call'[w] = call[w]
        /\ call'[c].at \notin {"confirm", "hold", "note"}
    BY DEF Goes, Still, OneCall, bookingVars, Capture
  <1>2. BookingFits'
    BY <1>1 DEF Exclusive, BookingFits, Still
  <1>3. NeverHeld => NeverHeld'
    BY <1>1 DEF NeverHeld, Still
  <1>4. CaptureFits'
    BY <1>1, <1>3 DEF Exclusive, CaptureFits, Goes, Still
  <1>5. CallsFit'
    BY <1>1 DEF Exclusive, CallsFit, Goes, Still
  <1>6. (Earned <=> Earned') /\ (Owed <=> Owed')
    BY <1>1 DEF Earned, Owed
  <1>7. \A w \in Workers \ {c} : (GivesBack(w)' <=> GivesBack(w)) /\ (PaysDriver(w)' <=> PaysDriver(w))
    BY <1>1 DEF Refunds, GivesBack, PaysDriver
  <1>8. OneGetsIt'
    <2>1. \A w \in Workers : GivesBack(w)' => Owed'
      BY <1>6, <1>7 DEF Exclusive, OneGetsIt, Goes
    <2>2. \A w \in Workers : PaysDriver(w)' => Earned' \/ NeverHeld'
      BY <1>3, <1>6, <1>7 DEF Exclusive, OneGetsIt, Goes
    <2>3. (refunded > 0 => Owed)' /\ (balance # 0 => Earned)'
      BY <1>6 DEF Exclusive, OneGetsIt, Still
    <2> QED
      BY <2>1, <2>2, <2>3 DEF OneGetsIt
  <1> QED
    BY <1>2, <1>4, <1>5, <1>8 DEF Exclusive

LEMMA Unmoved == UNCHANGED <<bookingVars, payment, refunded, walletVars>> => Still
  BY DEF Still, walletVars

\* The ways a call goes on.
LEMMA Going ==
    ASSUME IInv, CallsFit, NEW c \in Workers
    PROVE  /\ Return(c) => Goes(c)
           /\ Proceed(c) => Goes(c)
           /\ Throw(c) => Goes(c)
           /\ NothingRefunded(c) => Goes(c)
           /\ \A place \in Location \ (Capture \cup Never \cup Claiming) :
                GoTo(c, place) /\ (place \in {"markRefunded", "refund"} => GivesBack(c))
                               /\ (place \in {"release", "releasing"} => PaysDriver(c)) => Goes(c)
           /\ \A place \in Claiming : GoTo(c, place) /\ call[c].at \in Claiming => Goes(c)
  <1>0. call[c] \in CallState /\ call \in [Workers -> CallState]
    BY DEF IInv
  <1>1. call[c].by = "other"
    BY DEF CallsFit
  <1>2. Return(c) => Goes(c)
    BY <1>0 DEF Return, Idle, Goes, OneCall, Capture, Never, Claiming, Refunds, GivesBack, PaysDriver
  <1>3. ASSUME NEW place \in Location, GoTo(c, place)
        PROVE  /\ OneCall(c) /\ call'[c] = [call[c] EXCEPT !.at = place]
               /\ call'[c].at = place /\ call'[c].by = "other" /\ call'[c].seen = call[c].seen
               /\ call'[c].amount = call[c].amount /\ call'[c].then = call[c].then
    BY <1>0, <1>1, <1>3 DEF GoTo, OneCall, CallState
  <1>4. ASSUME NEW place \in Location \ (Capture \cup Never \cup Claiming), GoTo(c, place),
               place \in {"markRefunded", "refund"} => GivesBack(c),
               place \in {"release", "releasing"} => PaysDriver(c)
        PROVE  Goes(c)
    BY <1>3, <1>4 DEF Goes, Refunds, GivesBack, PaysDriver
  <1>5. ASSUME NEW place \in Claiming, GoTo(c, place), call[c].at \in Claiming
        PROVE  Goes(c)
    <2>1. place \in Location /\ place \notin Capture \cup Never \cup {"release", "releasing"}
      BY DEF Claiming, Location, Capture, Never
    <2> QED
      BY <1>3, <1>5, <2>1 DEF Goes, Refunds, GivesBack, PaysDriver, CallsFit
  <1>6. Proceed(c) => Goes(c)
    <2> SUFFICES ASSUME call[c].then # "idle", Proceed(c) PROVE Goes(c)
      BY <1>2 DEF Proceed
    <2>1. call[c].then \in {"failPayment", "reverse", "release"}
      BY <1>0 DEF CallState, Afterwards
    <2>2. /\ OneCall(c) /\ call'[c] = [call[c] EXCEPT !.at = call[c].then, !.then = "idle"]
      BY <1>0 DEF Proceed, OneCall
    <2>3. call'[c].at = call[c].then /\ call'[c].then = "idle" /\ call'[c].by = "other"
      BY <1>0, <1>1, <2>2 DEF CallState
    <2> QED
      BY <2>1, <2>2, <2>3 DEF Goes, Refunds, GivesBack, PaysDriver, Capture, Never, Claiming
  <1>7. Throw(c) => Goes(c)
    BY <1>1, <1>2 DEF Throw
  <1>8. NothingRefunded(c) => Goes(c)
    BY <1>1, <1>6 DEF NothingRefunded
  <1> QED
    BY <1>2, <1>4, <1>5, <1>6, <1>7, <1>8

\* A call that begins.
LEMMA Beginning ==
    ASSUME IInv, NEW c \in Workers, NEW a, NEW then, NEW amount,
           NEW place \in {"claimAttempt", "failAttempt", "refund", "release", "reverse"},
           Begin(c, place, a, then, amount)
    PROVE  /\ OneCall(c) /\ call[c].at = "idle"
           /\ call'[c].at = place /\ call'[c].by = "other"
           /\ call'[c].then = then /\ call'[c].amount = amount
           /\ (place = "refund" /\ amount > 0 => Owed)
              /\ (place = "release" \/ then = "release" => Earned) => Goes(c)
  <1>1. /\ OneCall(c) /\ call[c].at = "idle"
        /\ call'[c].at = place /\ call'[c].by = "other"
        /\ call'[c].then = then /\ call'[c].amount = amount
    BY DEF Begin, BeginBy, Idle, OneCall, At, IInv
  <1> QED
    BY <1>1 DEF Goes, Refunds, GivesBack, PaysDriver, Capture, Never, Claiming

\* Settling rows leaves as many of them.
LEMMA SettleKeepsRows ==
    ASSUME Ledger, NEW ids, NEW st, Settle(ids, st)
    PROVE  rows' = <<>> <=> rows = <<>>
  <1>1. DOMAIN rows' = DOMAIN rows
    BY DEF Settle
  <1>2. rows \in Seq(Row)
    BY DEF Ledger
  <1>3. rows = <<>> <=> DOMAIN rows = {}
    BY <1>2, EmptySeq, LedgerRows
  <1>4. rows' = <<>> <=> DOMAIN rows' = {}
    <2>1. rows' \in [DOMAIN rows -> {rows'[i] : i \in DOMAIN rows}]
      BY DEF Settle
    <2>2. rows' \in Seq({rows'[i] : i \in DOMAIN rows})
      BY <2>1, LedgerRows, SeqDef
    <2> QED
      BY <2>2, EmptySeq, LenProperties
  <1> QED
    BY <1>1, <1>3, <1>4

LEMMA AppendIsSome ==
    ASSUME Ledger, NEW row, rows' = Append(rows, row) PROVE rows # <<>> => rows' # <<>>
  <1>1. rows \in Seq(Row \cup {row})
    <2>1. rows \in Seq(Row)
      BY DEF Ledger
    <2> QED
      BY <2>1, SeqMonotonic
  <1> QED
    BY <1>1, AppendProperties, EmptySeq

\* Nothing happens but what AsDecided allows.
LEMMA NotHere ==
    ASSUME AsDecided, Exclusive, NEW c \in Workers
    PROVE  /\ ~CaptureThrows(c) /\ ~ResetAttempt(c) /\ ~ResetPayment(c) /\ ~AnswerLost(c)
           /\ ~TakeBackResolution(c) /\ ~StaffRefunds(c) /\ ~ResolveDispute(c) /\ ~OpenDispute
  <1>1. call[c].at \notin Never /\ ~dispute
    BY DEF Exclusive, CallsFit, BookingFits
  <1> QED
    BY <1>1 DEF AsDecided, Never, CaptureThrows, ResetAttempt, ResetPayment, AnswerLost,
       TakeBackResolution, StaffRefunds, ResolveDispute, OpenDispute, Happens, At

LEMMA PayingIsHarmless ==
    ASSUME IInv, Exclusive, NEW c \in Workers,
           FailAttempt(c) \/ FailPayment(c) \/ ClaimAttempt(c) \/ Notified(c) \/ Die(c)
    PROVE  Exclusive'
  <1>1. Return(c) \/ Proceed(c) \/ GoTo(c, "claimPayment")
    BY DEF FailAttempt, FailPayment, ClaimAttempt, Notified, Die
  <1>2. "claimPayment" \in Location \ (Capture \cup Never \cup Claiming)
    BY DEF Location, Capture, Never, Claiming
  <1>3. Goes(c)
    BY <1>1, <1>2, Going DEF Exclusive
  <1>4. CASE FailPayment(c)
    <2>1. payment' = payment \/ (payment \notin Taken /\ payment' = "FAILED")
      BY <1>4 DEF FailPayment, WritePayment
    <2>2. UNCHANGED <<bookingVars, refunded, walletVars>>
      BY <1>4 DEF FailPayment, refundVars
    <2>3. Still
      BY <2>1, <2>2 DEF Still, walletVars, Taken
    <2> QED
      BY <1>3, <2>3, HarmlessStep
  <1>5. CASE ~FailPayment(c)
    <2>1. UNCHANGED <<bookingVars, payment, refunded, walletVars>>
      BY <1>5 DEF FailAttempt, ClaimAttempt, Notified, Die, paymentVars, refundVars
    <2> QED
      BY <1>3, <2>1, Unmoved, HarmlessStep
  <1> QED
    BY <1>4, <1>5

LEMMA ReadToRefundIsHarmless ==
    ASSUME IInv, Exclusive, NEW c \in Workers, ReadToRefund(c)
    PROVE  Exclusive'
  <1>1. UNCHANGED <<bookingVars, payment, refunded, walletVars>>
    BY DEF ReadToRefund, refundVars
  <1>2. CASE NothingRefunded(c)
    <2>1. Goes(c)
      BY <1>2, Going DEF Exclusive
    <2> QED
      BY <1>1, <2>1, Unmoved, HarmlessStep
  <1>3. CASE ~NothingRefunded(c)
    <2>1. PICK amount : call' = [call EXCEPT ![c].at = "claimRefund", ![c].seen = payment,
                                        ![c].amount = amount,
                                        ![c].full = refunded + amount >= Price]
      BY <1>3 DEF ReadToRefund
    <2>2. call[c].amount > 0 /\ payment \in Refundable /\ At(c, "refund")
      BY <1>3 DEF ReadToRefund
    <2>3. call \in [Workers -> CallState] /\ call[c] \in CallState /\ call[c].by = "other"
      BY DEF IInv, Exclusive, CallsFit
    <2>4. /\ OneCall(c) /\ call'[c].at = "claimRefund" /\ call'[c].seen = payment
          /\ call'[c].then = call[c].then /\ call'[c].by = "other"
      BY <2>1, <2>3 DEF OneCall, CallState
    <2>5. Goes(c)
      BY <2>2, <2>4 DEF Goes, Refunds, GivesBack, PaysDriver, At, Claiming, Capture, Never, Taken, Refundable
    <2> QED
      BY <1>1, <2>5, Unmoved, HarmlessStep
  <1> QED
    BY <1>2, <1>3

\* Claiming, asking and undoing a refund move the payment within Taken.
LEMMA RefundIsHarmless ==
    ASSUME IInv, Exclusive, NEW c \in Workers,
           ClaimRefund(c) \/ ProviderRefunds(c) \/ ProviderRefuses(c) \/ Rollback(c)
    PROVE  Exclusive'
  <1>1. call[c].at \in Claiming
    BY DEF ClaimRefund, ProviderRefunds, ProviderRefuses, Rollback, At, Claiming
  <1>2. GivesBack(c) /\ Owed /\ payment \in Taken /\ call[c].seen \in Taken
    BY <1>1 DEF Exclusive, OneGetsIt, CallsFit, Refunds, GivesBack
  <1>3. payment' \in Taken
    BY <1>2 DEF ClaimRefund, ProviderRefunds, ProviderRefuses, Rollback, WritePayment, Taken, paymentVars
  <1>4. UNCHANGED <<bookingVars, walletVars>>
    BY DEF ClaimRefund, ProviderRefunds, ProviderRefuses, Rollback
  <1>5. Still
    BY <1>2, <1>3, <1>4 DEF Still, walletVars
  <1>6. /\ {"markRefunded", "deduct"} \subseteq Location \ (Capture \cup Never \cup Claiming)
        /\ {"ask", "rollback"} \subseteq Claiming
    BY DEF Location, Capture, Never, Claiming
  <1>7. \/ NothingRefunded(c) \/ Throw(c)
        \/ \E place \in {"markRefunded", "deduct", "ask", "rollback"} : GoTo(c, place)
    BY DEF ClaimRefund, ProviderRefunds, ProviderRefuses, Rollback
  <1>8. Goes(c)
    BY <1>1, <1>2, <1>6, <1>7, Going DEF Exclusive
  <1> QED
    BY <1>5, <1>8, HarmlessStep

LEMMA MarkRefundedIsHarmless ==
    ASSUME IInv, Exclusive, NEW c \in Workers, MarkRefunded(c)
    PROVE  Exclusive'
  <1>1. booking = "CANCELLED"
    BY DEF Exclusive, OneGetsIt, Refunds, GivesBack, MarkRefunded, At, Owed
  <1>2. UNCHANGED <<bookingVars, payment, refunded, walletVars>>
    BY <1>1 DEF MarkRefunded, bookingVars, paymentVars, refundVars
  <1>3. "reverse" \in Location \ (Capture \cup Never \cup Claiming)
    BY DEF Location, Capture, Never, Claiming
  <1>4. Goes(c)
    BY <1>3, Going DEF MarkRefunded, Exclusive
  <1> QED
    BY <1>2, <1>4, Unmoved, HarmlessStep

LEMMA ReadRowsIsHarmless ==
    ASSUME IInv, Exclusive, NEW c \in Workers, NEW from, NEW to, NEW allowed,
           \/ from = "release" /\ to = "releasing"
           \/ from = "reverse" /\ to = "reversing"
           \/ from = "deduct" /\ to = "deducting",
           ReadRows(c, from, to, allowed)
    PROVE  Exclusive'
  <1>1. UNCHANGED <<bookingVars, payment, refunded, walletVars>>
    BY DEF ReadRows, paymentVars, refundVars
  <1>2. CASE Proceed(c)
    <2>1. Goes(c)
      BY <1>2, Going DEF Exclusive
    <2> QED
      BY <1>1, <2>1, Unmoved, HarmlessStep
  <1>3. CASE ~Proceed(c)
    <2>1. call' = [call EXCEPT ![c].at = to, ![c].read = Pending]
      BY <1>3 DEF ReadRows
    <2>2. /\ call \in [Workers -> CallState]
          /\ call[c] \in CallState /\ call[c].by = "other" /\ call[c].at = from
      BY DEF IInv, Exclusive, CallsFit, ReadRows, At
    <2>3. /\ OneCall(c) /\ call'[c].at = to
          /\ call'[c].then = call[c].then /\ call'[c].by = "other"
      BY <2>1, <2>2 DEF OneCall, CallState
    <2>4. Goes(c)
      BY <2>2, <2>3 DEF Goes, Refunds, GivesBack, PaysDriver, Claiming, Capture, Never
    <2> QED
      BY <1>1, <2>4, Unmoved, HarmlessStep
  <1> QED
    BY <1>2, <1>3

LEMMA SettlingIsHarmless ==
    ASSUME IInv, Ledger, Exclusive, NEW c \in Workers,
           Conflict(c) \/ AlreadySettled(c) \/ Release(c) \/ Reverse(c) \/ Deduct(c)
    PROVE  Exclusive'
  <1>1. Goes(c)
    <2>1. Throw(c) \/ Proceed(c)
      BY DEF Conflict, AlreadySettled, Release, Reverse, Deduct
    <2> QED
      BY <2>1, Going DEF Exclusive
  <1>2. UNCHANGED <<bookingVars, payment, refunded>>
    BY DEF Conflict, AlreadySettled, Release, Reverse, Deduct, paymentVars, refundVars
  <1>3. CASE Conflict(c) \/ AlreadySettled(c)
    <2>1. UNCHANGED walletVars
      BY <1>3 DEF Conflict, AlreadySettled
    <2> QED
      BY <1>1, <1>2, <2>1, Unmoved, HarmlessStep
  <1>4. CASE Reverse(c)
    <2>1. UNCHANGED balance /\ (rows' = <<>> <=> rows = <<>>)
      BY <1>4, SettleKeepsRows DEF Reverse
    <2> QED
      BY <1>1, <1>2, <2>1, HarmlessStep DEF Still
  <1>5. CASE Deduct(c)
    <2>1. UNCHANGED balance
      BY <1>5 DEF Deduct
    <2>2. rows' = <<>> <=> rows = <<>>
      <3>1. call[c].at = "deducting" /\ rows = <<>> => UNCHANGED rows
        <4> SUFFICES ASSUME rows = <<>> PROVE UNCHANGED rows
          BY <1>5 DEF Deduct, At
        <4>1. call[c].read = {}
          BY EmptySeq DEF Ledger
        <4>2. Sum({}) = 0
          BY SumOfRows, SumEmpty
        <4>3. (0 * call[c].amount) \div Price = 0
          <5>1. call[c].amount \in 0..Price
            BY DEF IInv, CallState
          <5> QED
            BY <5>1, PaymentsAssumption
        <4> QED
          BY <1>5, <4>1, <4>2, <4>3 DEF Deduct
      <3>2. (\E row : rows' = Append(rows, row)) \/ UNCHANGED rows
        BY <1>5 DEF Deduct
      <3> QED
        BY <1>5, <3>1, <3>2, AppendIsSome DEF Deduct, At
    <2> QED
      BY <1>1, <1>2, <2>1, <2>2, HarmlessStep DEF Still
  <1>6. CASE Release(c)
    <2>1. rows' = <<>> <=> rows = <<>>
      BY <1>6, SettleKeepsRows DEF Release
    <2>2. balance' = balance + Sum(call[c].read) /\ (Earned \/ NeverHeld)
      BY <1>6 DEF Release, At, Exclusive, OneGetsIt, PaysDriver
    <2>3. balance \in Int
      BY LedgerRows, SumOfSome DEF Ledger
    <2>4. CASE NeverHeld
      <3>1. call[c].read = {}
        BY <2>4, EmptySeq DEF NeverHeld, Ledger
      <3>2. Sum({}) = 0
        BY SumOfRows, SumEmpty
      <3>3. balance' = balance
        BY <2>2, <2>3, <3>1, <3>2
      <3> QED
        BY <1>1, <1>2, <2>1, <3>3, HarmlessStep DEF Still
    <2>5. CASE Earned
      BY <1>1, <1>2, <2>1, <2>5, HarmlessStep DEF Still
    <2> QED
      BY <2>2, <2>4, <2>5
  <1> QED
    BY <1>3, <1>4, <1>5, <1>6

LEMMA InitExclusive == Init => Exclusive
  <1> SUFFICES ASSUME Init PROVE Exclusive
    OBVIOUS
  <1>1. \A c \in Workers : call[c] = Idle
    BY DEF Init
  <1>2. Idle.at = "idle" /\ Idle.by = "other" /\ Idle.then = "idle"
    BY DEF Idle
  <1>3. /\ \A c \in Workers : /\ call[c].at = "idle" /\ call[c].by = "other"
                              /\ ~GivesBack(c) /\ ~PaysDriver(c)
    BY <1>1, <1>2 DEF Refunds, GivesBack, PaysDriver, Claiming
  <1> QED
    BY <1>3, PaymentsAssumption DEF Init, Exclusive, BookingFits, CaptureFits, CallsFit, OneGetsIt,
       NoShare, Taken, Capture, Never, Claiming

\* Steps of no call.
LEMMA OutsideExclusive ==
    ASSUME Exclusive, \/ \E a \in Attempts : Initiate(a) \/ ProviderDecides(a)
                      \/ UNCHANGED vars
    PROVE  Exclusive'
  <1>1. UNCHANGED <<bookingVars, refundVars, walletVars, call>>
    BY DEF Initiate, ProviderDecides, vars
  <1>2. payment' = payment \/ (payment = "NONE" /\ payment' = "PENDING")
    BY DEF Initiate, ProviderDecides, WritePayment, vars, paymentVars
  <1>3. payment' \in Taken <=> payment \in Taken
    BY <1>2 DEF Taken
  <1> QED
    BY <1>1, <1>3 DEF Exclusive, BookingFits, CaptureFits, CallsFit, OneGetsIt, NeverHeld, Refunds, GivesBack,
       PaysDriver, Owed, Earned, bookingVars, refundVars, walletVars

LEMMA ClaimPaymentExclusive ==
    ASSUME IInv, Exclusive, NEW c \in Workers, ClaimPayment(c)
    PROVE  Exclusive'
  <1>1. UNCHANGED <<bookingVars, refunded, walletVars>>
    BY DEF ClaimPayment, refundVars
  <1>2. CASE payment \in Taken
    <2>1. Return(c) /\ UNCHANGED payment
      BY <1>2 DEF ClaimPayment
    <2> QED
      BY <1>1, <2>1, Going, Unmoved, HarmlessStep DEF Exclusive
  <1>3. CASE payment \notin Taken
    <2>1. GoTo(c, "confirm") /\ payment' = "CAPTURED"
      BY <1>3 DEF ClaimPayment, WritePayment
    <2>2. call[c] \in CallState /\ call \in [Workers -> CallState]
      BY DEF IInv
    <2>3. /\ OneCall(c) /\ call'[c].at = "confirm" /\ call'[c].by = call[c].by
          /\ call'[c].then = call[c].then
      BY <2>1, <2>2 DEF GoTo, OneCall, CallState
    <2>4. UNCHANGED <<booking, share, noShow, dispute, rows, balance, refunded>> /\ payment' \in Taken
      BY <1>1, <2>1 DEF bookingVars, walletVars, Taken
    <2>5. ~NeverHeld /\ ~GivesBack(c)'
      BY <1>3, <2>3 DEF NeverHeld, Refunds, GivesBack, Claiming
    <2>6. PaysDriver(c)' => PaysDriver(c)
      BY <2>3 DEF PaysDriver
    <2>7. \A w \in Workers \ {c} : (GivesBack(w)' <=> GivesBack(w)) /\ (PaysDriver(w)' <=> PaysDriver(w))
      BY <2>3 DEF Refunds, GivesBack, PaysDriver, OneCall
    <2>8. BookingFits'
      BY <1>3, <2>3, <2>4 DEF Exclusive, BookingFits
    <2>9. CaptureFits'
      BY <1>3, <2>3, <2>4 DEF Exclusive, CaptureFits, OneCall, Capture
    <2>10. CallsFit'
      BY <1>3, <2>3, <2>4 DEF Exclusive, CallsFit, OneCall, Never, Claiming
    <2>11. OneGetsIt'
      BY <2>4, <2>5, <2>6, <2>7 DEF Exclusive, OneGetsIt, Earned, Owed
    <2> QED
      BY <2>8, <2>9, <2>10, <2>11 DEF Exclusive
  <1> QED
    BY <1>2, <1>3

\* A call that goes on capturing: what it leaves as it is.
Captures(c, place) ==
    /\ OneCall(c) /\ call'[c].at = place /\ call'[c].by = "other"
    /\ call'[c].then = call[c].then

LEMMA GoingOn ==
    ASSUME IInv, CallsFit, NEW c \in Workers, NEW place, GoTo(c, place)
    PROVE  Captures(c, place)
  <1>1. call[c] \in CallState /\ call \in [Workers -> CallState] /\ call[c].by = "other"
    BY DEF IInv, CallsFit
  <1> QED
    BY <1>1 DEF GoTo, Captures, OneCall, CallState

LEMMA OthersDoTheSame ==
    ASSUME NEW c \in Workers, OneCall(c)
    PROVE  \A w \in Workers \ {c} :
             /\ call'[w] = call[w]
             /\ (GivesBack(w)' <=> GivesBack(w)) /\ (PaysDriver(w)' <=> PaysDriver(w))
  BY DEF Refunds, GivesBack, PaysDriver, OneCall

LEMMA ConfirmExclusive ==
    ASSUME IInv, Others, Exclusive, NEW c \in Workers, Confirm(c)
    PROVE  Exclusive'
  <1>1. /\ call[c].at = "confirm" /\ payment \in Taken /\ rows = <<>> /\ ~noShow
        /\ booking \in {"PENDING_PAYMENT", "CANCELLED"} /\ ~NeverHeld
        /\ \A w \in Workers \ {c} : call[w].at \notin Capture
    <2>1. call[c].at = "confirm" /\ call[c].at \in Capture
      BY DEF Confirm, At, Capture
    <2>2. booking \in {"PENDING_PAYMENT", "CANCELLED"}
      BY <2>1 DEF Exclusive, BookingFits, Others, BookingStatus
    <2> QED
      BY <2>1, <2>2 DEF Exclusive, BookingFits, CaptureFits, NeverHeld
  <1>2. UNCHANGED <<share, noShow, dispute, payment, refunded, rows, balance>>
    BY DEF Confirm, paymentVars, refundVars, walletVars
  <1>3. PICK place \in {"note", "hold"} : Captures(c, place) /\ GoTo(c, place)
                                        /\ (place = "note" <=> booking = "CANCELLED")
    BY <1>1, GoingOn DEF Confirm, Exclusive
  <1>4. booking' = IF booking = "CANCELLED" THEN booking ELSE "CONFIRMED"
    BY <1>1 DEF Confirm
  <1>5. \A w \in Workers \ {c} : call'[w] = call[w] /\ call'[w].at \notin Capture
    BY <1>1, <1>3 DEF Captures, OneCall
  <1>6. ~GivesBack(c)' /\ (PaysDriver(c)' => PaysDriver(c))
    BY <1>3 DEF Captures, Refunds, GivesBack, PaysDriver, Claiming
  <1>7. BookingFits'
    BY <1>1, <1>2, <1>3, <1>4, <1>5 DEF Exclusive, BookingFits, Captures, Capture
  <1>8. booking = "CANCELLED" => NeverHeld'
    BY <1>1, <1>2, <1>3, <1>5 DEF NeverHeld, Captures, Capture
  <1>9. CaptureFits'
    BY <1>1, <1>2, <1>3, <1>4, <1>5, <1>8 DEF CaptureFits, Captures, Capture
  <1>10. CallsFit'
    BY <1>2, <1>3 DEF Exclusive, CallsFit, Captures, OneCall, Never, Claiming
  <1>11. OneGetsIt'
    <2>1. (Earned => Earned') /\ (Owed => Owed')
      BY <1>1, <1>2, <1>4 DEF Earned, Owed
    <2>2. \A w \in Workers : (GivesBack(w)' => GivesBack(w)) /\ (PaysDriver(w)' => PaysDriver(w))
      BY <1>3, <1>6, OthersDoTheSame DEF Captures
    <2> QED
      BY <1>1, <1>2, <2>1, <2>2 DEF Exclusive, OneGetsIt
  <1> QED
    BY <1>7, <1>9, <1>10, <1>11 DEF Exclusive

LEMMA NoteFullRefundExclusive ==
    ASSUME IInv, Ledger, Others, Exclusive, NEW c \in Workers, NoteFullRefund(c)
    PROVE  Exclusive'
  <1>1. /\ call[c].at = "note" /\ booking = "CANCELLED" /\ NeverHeld /\ ~noShow
        /\ \A w \in Workers \ {c} : call[w].at \notin Capture
    <2>1. call[c].at = "note" /\ call[c].at \in Capture
      BY DEF NoteFullRefund, At, Capture
    <2> QED
      BY <2>1 DEF Exclusive, BookingFits, CaptureFits
  <1>2. balance = 0
    <2>1. Completed = {}
      BY <1>1, EmptySeq DEF NeverHeld, Completed
    <2>2. Sum({}) = 0
      BY SumOfRows, SumEmpty
    <2> QED
      BY <2>1, <2>2 DEF Ledger
  <1>3. UNCHANGED <<booking, noShow, dispute, payment, refunded, rows, balance>> /\ share' = Price
    BY <1>1 DEF NoteFullRefund, paymentVars, refundVars, walletVars
  <1>4. /\ OneCall(c) /\ call'[c].at = "refund" /\ call'[c].by = "other"
    <2>1. call[c] \in CallState /\ call \in [Workers -> CallState] /\ call[c].by = "other"
      BY DEF IInv, Exclusive, CallsFit
    <2> QED
      BY <2>1 DEF NoteFullRefund, OneCall, CallState
  <1>5. BookingFits'
    BY <1>1, <1>3, <1>4 DEF Exclusive, BookingFits, OneCall
  <1>6. NeverHeld'
    BY <1>1, <1>3, <1>4 DEF NeverHeld, OneCall, Capture
  <1>7. CaptureFits'
    BY <1>1, <1>3, <1>4, <1>6 DEF NeverHeld, CaptureFits, OneCall, Capture
  <1>8. CallsFit'
    BY <1>3, <1>4 DEF Exclusive, CallsFit, OneCall, Never, Claiming
  <1>9. OneGetsIt'
    <2>1. Owed' /\ balance' = 0
      BY <1>1, <1>2, <1>3, PaymentsAssumption DEF Owed
    <2> QED
      BY <1>6, <2>1 DEF OneGetsIt
  <1> QED
    BY <1>5, <1>7, <1>8, <1>9 DEF Exclusive

LEMMA HoldRevenueExclusive ==
    ASSUME IInv, Ledger, Exclusive, NEW c \in Workers, HoldRevenue(c)
    PROVE  Exclusive'
  <1>1. /\ call[c].at = "hold" /\ payment \in Taken /\ ~NeverHeld
        /\ \A w \in Workers \ {c} : call[w].at \notin Capture
    <2>1. call[c].at = "hold" /\ call[c].at \in Capture
      BY DEF HoldRevenue, At, Capture
    <2> QED
      BY <2>1 DEF Exclusive, CaptureFits, NeverHeld
  <1>2. UNCHANGED <<booking, share, noShow, dispute, payment, refunded, balance>>
    BY DEF HoldRevenue, bookingVars, paymentVars, refundVars
  <1>3. Captures(c, "notify")
    BY GoingOn DEF HoldRevenue, Exclusive
  <1>4. \A w \in Workers \ {c} : call'[w] = call[w] /\ call'[w].at \notin Capture
    BY <1>1, <1>3 DEF Captures, OneCall
  <1>5. \A w \in Workers : (GivesBack(w)' => GivesBack(w)) /\ (PaysDriver(w)' => PaysDriver(w))
    <2>1. ~GivesBack(c)' /\ (PaysDriver(c)' => PaysDriver(c))
      BY <1>3 DEF Captures, Refunds, GivesBack, PaysDriver, Claiming
    <2> QED
      BY <1>3, <2>1, OthersDoTheSame DEF Captures
  <1>6. BookingFits'
    BY <1>2, <1>3, <1>4 DEF Exclusive, BookingFits, Captures, Capture
  <1>7. CaptureFits'
    BY <1>1, <1>2, <1>3, <1>4 DEF CaptureFits, Captures, Capture
  <1>8. CallsFit'
    BY <1>2, <1>3 DEF Exclusive, CallsFit, Captures, OneCall, Never, Claiming
  <1>9. OneGetsIt'
    BY <1>1, <1>2, <1>5 DEF Exclusive, OneGetsIt, Earned, Owed
  <1> QED
    BY <1>6, <1>7, <1>8, <1>9 DEF Exclusive

LEMMA WebhookExclusive ==
    ASSUME IInv, Exclusive, NEW c \in Workers, NEW a \in Attempts, Webhook(c, a)
    PROVE  Exclusive'
  <1>1. UNCHANGED <<bookingVars, payment, refunded, walletVars>>
    BY DEF Webhook, paymentVars, refundVars
  <1>2. PICK place \in {"claimAttempt", "failAttempt"}, then \in {"idle", "failPayment"} :
          Begin(c, place, a, then, 0)
    BY DEF Webhook
  <1>3. Goes(c)
    BY <1>2, Beginning
  <1> QED
    BY <1>1, <1>3, Unmoved, HarmlessStep

LEMMA RecoveryExclusive ==
    ASSUME IInv, Exclusive, RecoverRefund \/ RecoverHeldFunds
    PROVE  Exclusive'
  <1>1. UNCHANGED <<bookingVars, payment, refunded, walletVars>>
    BY DEF RecoverRefund, RecoverHeldFunds, paymentVars, refundVars
  <1>2. RefundJob \in Workers /\ HeldJob \in Workers
    BY DEF Workers
  <1>3. CASE RecoverRefund
    <2>1. booking = "CANCELLED" /\ share \in {NoShare} \cup 0..Price
      BY <1>3 DEF RecoverRefund, IInv
    <2>2. /\ AfterRefund(share) \in {"release", "reverse"}
          /\ AfterRefund(share) = "release" => share < Price
      BY <2>1, PaymentsAssumption DEF AfterRefund, NoShare
    <2>3. CASE Begin(RefundJob, "refund", NoAttempt, AfterRefund(share), share)
      BY <1>1, <1>2, <2>1, <2>2, <2>3, Beginning, Unmoved, HarmlessStep DEF Owed, Earned
    <2>4. CASE Begin(RefundJob, AfterRefund(share), NoAttempt, "idle", 0)
      BY <1>1, <1>2, <2>1, <2>2, <2>4, Beginning, Unmoved, HarmlessStep DEF Owed, Earned
    <2> QED
      BY <1>3, <2>3, <2>4 DEF RecoverRefund
  <1>4. CASE RecoverHeldFunds
    <2>1. Earned /\ Begin(HeldJob, "release", NoAttempt, "idle", 0)
      BY <1>4 DEF RecoverHeldFunds, Earned
    <2> QED
      BY <1>1, <1>2, <2>1, Beginning, Unmoved, HarmlessStep
  <1> QED
    BY <1>3, <1>4

LEMMA CancelExclusive ==
    ASSUME IInv, Exclusive, NEW c \in Workers, NEW s \in Shares \cup {0, Price}, NEW from \in SUBSET Payable,
           Cancel(c, s, from)
    PROVE  Exclusive'
  <1>1. booking \in Payable /\ ~noShow /\ ~Owed /\ ~Earned
    <2>1. booking \in Payable
      BY DEF Cancel
    <2> QED
      BY <2>1 DEF Exclusive, BookingFits, Payable, Owed, Earned
  <1>2. /\ ~(refunded > 0) /\ balance = 0
        /\ \A w \in Workers : ~GivesBack(w) /\ (PaysDriver(w) => NeverHeld)
        /\ \A w \in Workers : call[w].at # "note"
    BY <1>1 DEF Exclusive, OneGetsIt, CaptureFits, Payable
  <1>3. /\ UNCHANGED <<noShow, dispute, payment, refunded, rows, balance>>
        /\ booking' = "CANCELLED" /\ share' = s
        /\ Begin(c, "refund", NoAttempt, AfterRefund(s), s)
    BY DEF Cancel, paymentVars, refundVars, walletVars
  <1>4. /\ OneCall(c) /\ call[c].at = "idle" /\ call'[c].at = "refund" /\ call'[c].by = "other"
        /\ call'[c].then = AfterRefund(s) /\ call'[c].amount = s
    BY <1>3, Beginning
  <1>5. BookingFits'
    BY <1>1, <1>3 DEF Exclusive, BookingFits
  <1>6. NeverHeld => NeverHeld'
    BY <1>3, <1>4 DEF NeverHeld, OneCall
  <1>7. CaptureFits'
    BY <1>2, <1>3, <1>4 DEF Exclusive, CaptureFits, OneCall, Capture
  <1>8. CallsFit'
    BY <1>3, <1>4 DEF Exclusive, CallsFit, OneCall, Never, Claiming
  <1>9. OneGetsIt'
    <2>1. GivesBack(c)' => Owed'
      BY <1>3, <1>4 DEF Refunds, GivesBack, Owed, Claiming
    <2>2. PaysDriver(c)' => Earned'
      <3>1. PaysDriver(c)' => AfterRefund(s) = "release"
        BY <1>4 DEF PaysDriver
      <3>2. AfterRefund(s) = "release" => ~(s >= Price)
        BY DEF AfterRefund
      <3>3. ~(s >= Price) => s < Price
        BY PaymentsAssumption DEF PaymentsAssumption
      <3> QED
        BY <1>3, <3>1, <3>2, <3>3 DEF Earned
    <2>3. \A w \in Workers \ {c} : ~GivesBack(w)' /\ (PaysDriver(w)' => NeverHeld')
      BY <1>2, <1>4, <1>6, OthersDoTheSame
    <2> QED
      BY <1>2, <1>3, <2>1, <2>2, <2>3 DEF OneGetsIt
  <1> QED
    BY <1>5, <1>7, <1>8, <1>9 DEF Exclusive

LEMMA EarnedExclusive ==
    ASSUME IInv, Exclusive, NEW c \in Workers, Complete(c) \/ DeclareNoShow(c)
    PROVE  Exclusive'
  <1>1. /\ booking = "CONFIRMED" \/ noShow
        /\ share = NoShare /\ payment \in Taken /\ ~Owed
        /\ \A w \in Workers : call[w].at \notin {"confirm", "note"}
    <2>1. booking = "CONFIRMED" \/ noShow
      BY DEF Complete, DeclareNoShow
    <2>2. share = NoShare
      BY <2>1 DEF Exclusive, BookingFits
    <2>3. ~Owed
      BY <2>2 DEF Owed, NoShare
    <2> QED
      BY <2>1, <2>2, <2>3 DEF Exclusive, BookingFits
  <1>2. /\ ~(refunded > 0)
        /\ \A w \in Workers : ~GivesBack(w)
    BY <1>1 DEF Exclusive, OneGetsIt
  <1>3. /\ UNCHANGED <<share, dispute, payment, refunded, rows, balance>>
        /\ Begin(c, "release", NoAttempt, "idle", 0)
    BY DEF Complete, DeclareNoShow, paymentVars, refundVars, walletVars
  <1>4. /\ \/ booking' = "COMPLETED" /\ noShow' = noShow /\ booking = "CONFIRMED"
           \/ booking' = "CANCELLED" /\ noShow'
        /\ Earned'
    BY DEF Complete, DeclareNoShow, Earned
  <1>5. OneCall(c) /\ call'[c].at = "release" /\ call'[c].by = "other"
    BY <1>3, Beginning
  <1>6. BookingFits'
    BY <1>1, <1>3, <1>4, <1>5 DEF Exclusive, BookingFits, OneCall
  <1>7. CaptureFits'
    BY <1>1, <1>3, <1>5 DEF Exclusive, CaptureFits, OneCall, Capture
  <1>8. CallsFit'
    BY <1>3, <1>5 DEF Exclusive, CallsFit, OneCall, Never, Claiming
  <1>9. OneGetsIt'
    <2>1. ~GivesBack(c)'
      BY <1>5 DEF Refunds, GivesBack, Claiming
    <2> QED
      BY <1>2, <1>3, <1>4, <1>5, <2>1, OthersDoTheSame DEF OneGetsIt
  <1> QED
    BY <1>6, <1>7, <1>8, <1>9 DEF Exclusive

LEMMA NextExclusive ==
    AsDecided /\ IInv /\ Ledger /\ Others /\ Exclusive /\ [Next]_vars => Exclusive'
  <1> SUFFICES ASSUME AsDecided, IInv, Ledger, Others, Exclusive, [Next]_vars PROVE Exclusive'
    OBVIOUS
  <1>1. ASSUME NEW c \in Calls, Start(c) PROVE Exclusive'
    <2>1. c \in Workers
      BY DEF Workers
    <2>2. CASE CancelByClient(c)
      <3>1. PICK s \in Shares : Cancel(c, s, Payable)
        BY <2>2 DEF CancelByClient
      <3> QED
        BY <2>1, <3>1, CancelExclusive DEF AsDecided
    <2>3. CASE CancelWithTrip(c) \/ ExpireUnpaid(c)
      BY <2>1, <2>3, CancelExclusive DEF CancelWithTrip, ExpireUnpaid, Payable
    <2> QED
      BY <1>1, <2>1, <2>2, <2>3, WebhookExclusive, EarnedExclusive, NotHere DEF Start
  <1>2. ASSUME NEW c \in Workers, Continue(c) PROVE Exclusive'
    <2>1. CASE \/ FailAttempt(c) \/ FailPayment(c) \/ ClaimAttempt(c) \/ Notified(c)
               \/ ReadToRefund(c) \/ MarkRefunded(c)
      BY <2>1, PayingIsHarmless, ReadToRefundIsHarmless, MarkRefundedIsHarmless
    <2>2. CASE ClaimPayment(c) \/ Confirm(c) \/ NoteFullRefund(c) \/ HoldRevenue(c)
      BY <2>2, ClaimPaymentExclusive, ConfirmExclusive, NoteFullRefundExclusive, HoldRevenueExclusive
    <2>3. CASE ClaimRefund(c) \/ ProviderRefunds(c) \/ ProviderRefuses(c) \/ Rollback(c)
      BY <2>3, RefundIsHarmless
    <2>4. CASE ReadToRelease(c) \/ ReadToReverse(c) \/ ReadToDeduct(c)
      BY <2>4, ReadRowsIsHarmless DEF ReadToRelease, ReadToReverse, ReadToDeduct
    <2>5. CASE Conflict(c) \/ AlreadySettled(c) \/ Release(c) \/ Reverse(c) \/ Deduct(c)
      BY <2>5, SettlingIsHarmless
    <2> QED
      BY <1>2, <2>1, <2>2, <2>3, <2>4, <2>5, NotHere DEF Continue
  <1>3. ASSUME NEW c \in Workers, Die(c) PROVE Exclusive'
    BY <1>3, PayingIsHarmless
  <1>4. ~OpenDispute
    <2>1. RefundJob \in Workers
      BY DEF Workers
    <2> QED
      BY <2>1, NotHere
  <1> QED
    BY <1>1, <1>2, <1>3, <1>4, OutsideExclusive, RecoveryExclusive DEF Next

-----------------------------------------------------------------------------
\* A part of the price is given back once
Partly == Owed /\ share < Price
Ended == booking = "COMPLETED" \/ noShow
HeldJobFits == call[HeldJob].at # "idle" => Ended

\* At most one call refunds; what the REFUNDED rows say is what it claimed.
OneRefund ==
    /\ payment \notin Taken => refunded = 0
    /\ Partly =>
        /\ refunded <= share
        /\ payment = "CAPTURED" => refunded = 0
        /\ \A c, d \in Workers : Refunds(c) /\ Refunds(d) => c = d
        /\ \A c \in Workers : Refunds(c) =>
              /\ call[c].amount <= share
              /\ refunded = IF call[c].at \in Asking THEN call[c].amount ELSE 0

\* A step that begins no refund, nor claims one, nor asks for more.
Leaves(c) ==
    /\ OneCall(c)
    /\ Refunds(c)' =>
        /\ Refunds(c)
        /\ call'[c].amount <= call[c].amount
        /\ call'[c].at \in Asking <=> call[c].at \in Asking
        /\ call[c].at \in Asking => call'[c].amount = call[c].amount

LEMMA Leaving ==
    ASSUME IInv, CallsFit, NEW c \in Workers
    PROVE  /\ Return(c) \/ Proceed(c) \/ Throw(c) \/ NothingRefunded(c) => ~Refunds(c)' /\ OneCall(c)
           /\ \A place : GoTo(c, place) /\ place \notin Claiming \cup {"refund"} => Leaves(c)
  <1>1. call[c] \in CallState /\ call \in [Workers -> CallState] /\ call[c].by = "other"
    BY DEF IInv, CallsFit
  <1>2. Return(c) => ~Refunds(c)' /\ OneCall(c)
    BY <1>1 DEF Return, Idle, Refunds, Claiming, OneCall
  <1>3. ASSUME NEW place, GoTo(c, place) PROVE OneCall(c) /\ call'[c].at = place
    BY <1>1, <1>3 DEF GoTo, OneCall, CallState
  <1>4. Proceed(c) => ~Refunds(c)' /\ OneCall(c)
    <2> SUFFICES ASSUME call[c].then # "idle", Proceed(c) PROVE ~Refunds(c)' /\ OneCall(c)
      BY <1>2 DEF Proceed
    <2>1. call[c].then \in {"failPayment", "reverse", "release"}
      BY <1>1 DEF CallState, Afterwards
    <2>2. OneCall(c) /\ call'[c] = [call[c] EXCEPT !.at = call[c].then, !.then = "idle"]
      BY <1>1 DEF Proceed, OneCall
    <2>3. call'[c].at = call[c].then
      BY <1>1, <2>2 DEF CallState
    <2> QED
      BY <2>1, <2>2, <2>3 DEF Refunds, Claiming
  <1>5. ASSUME NEW place, GoTo(c, place), place \notin Claiming \cup {"refund"} PROVE Leaves(c)
    BY <1>3, <1>5 DEF Leaves, Refunds
  <1> QED
    BY <1>1, <1>2, <1>4, <1>5 DEF Throw, NothingRefunded

LEMMA OneRefundKept ==
    ASSUME IInv, IInv', OneRefund, NEW c \in Workers, Leaves(c), UNCHANGED refunded,
           Partly' => Partly /\ share' = share,
           payment' \notin Taken => payment \notin Taken,
           payment' = "CAPTURED" => payment = "CAPTURED" \/ payment \notin Taken
    PROVE  OneRefund'
  <1>1. \A w \in Workers \ {c} : call'[w] = call[w] /\ (Refunds(w)' <=> Refunds(w))
    BY DEF Leaves, OneCall, Refunds
  <1>2. call[c].amount \in Int /\ call'[c].amount \in Int /\ share \in Int
    BY DEF IInv, CallState, NoShare
  <1>3. ASSUME Partly'
        PROVE  /\ refunded' <= share'
               /\ payment' = "CAPTURED" => refunded' = 0
               /\ \A w, d \in Workers : Refunds(w)' /\ Refunds(d)' => w = d
               /\ \A w \in Workers : Refunds(w)' =>
                     /\ call'[w].amount <= share'
                     /\ refunded' = IF call'[w].at \in Asking THEN call'[w].amount ELSE 0
    <2>1. Partly /\ share' = share
      BY <1>3
    <2>2. \A w \in Workers : Refunds(w)' => Refunds(w)
      BY <1>1 DEF Leaves
    <2>3. ASSUME NEW w \in Workers, Refunds(w)'
          PROVE  /\ call'[w].amount <= share
                 /\ refunded = IF call'[w].at \in Asking THEN call'[w].amount ELSE 0
      <3>1. Refunds(w) /\ call[w].amount <= share
            /\ refunded = IF call[w].at \in Asking THEN call[w].amount ELSE 0
        BY <2>1, <2>2, <2>3 DEF OneRefund
      <3>2. CASE w = c
        BY <1>2, <2>3, <3>1, <3>2 DEF Leaves
      <3> QED
        BY <1>1, <3>1, <3>2
    <2> QED
      BY <2>1, <2>2, <2>3 DEF OneRefund
  <1> QED
    BY <1>3 DEF OneRefund

LEMMA InitOneRefund == Init => OneRefund /\ HeldJobFits
  <1> SUFFICES ASSUME Init PROVE OneRefund /\ HeldJobFits
    OBVIOUS
  <1>1. HeldJob \in Workers /\ call[HeldJob] = Idle
    BY DEF Init, Workers
  <1> QED
    BY <1>1 DEF Init, OneRefund, Partly, Owed, HeldJobFits, Idle

LEMMA QuietOnce ==
    ASSUME IInv, IInv', Exclusive, OneRefund, NEW c \in Workers,
           \/ FailAttempt(c) \/ FailPayment(c) \/ ClaimAttempt(c) \/ ClaimPayment(c)
           \/ Confirm(c) \/ HoldRevenue(c) \/ Notified(c) \/ MarkRefunded(c)
           \/ ReadToRelease(c) \/ ReadToReverse(c) \/ ReadToDeduct(c)
           \/ Conflict(c) \/ AlreadySettled(c) \/ Release(c) \/ Reverse(c) \/ Deduct(c)
           \/ ProviderRefunds(c) \/ Die(c)
    PROVE  OneRefund'
  <1>0. call[c] \in CallState /\ call \in [Workers -> CallState] /\ CallsFit
    BY DEF IInv, Exclusive
  <1>1. Leaves(c)
    <2>1. CASE ReadToRelease(c) \/ ReadToReverse(c) \/ ReadToDeduct(c)
      <3>1. PICK to \in {"releasing", "reversing", "deducting"} :
               Proceed(c) \/ call' = [call EXCEPT ![c].at = to, ![c].read = Pending]
        BY <2>1 DEF ReadToRelease, ReadToReverse, ReadToDeduct, ReadRows
      <3>2. CASE call' = [call EXCEPT ![c].at = to, ![c].read = Pending]
        <4>1. call'[c].at = to /\ OneCall(c)
          BY <1>0, <3>2 DEF CallState, OneCall
        <4> QED
          BY <4>1 DEF Leaves, Refunds, Claiming
      <3> QED
        BY <1>0, <3>1, <3>2, Leaving DEF Leaves
    <2>2. CASE ~(ReadToRelease(c) \/ ReadToReverse(c) \/ ReadToDeduct(c))
      <3>1. \/ Return(c) \/ Proceed(c) \/ Throw(c)
            \/ \E place \in {"claimPayment", "confirm", "note", "hold", "notify", "reverse",
                             "markRefunded", "deduct"} : GoTo(c, place)
        BY <2>2 DEF FailAttempt, FailPayment, ClaimAttempt, ClaimPayment, Confirm, HoldRevenue,
           Notified, MarkRefunded, Conflict, AlreadySettled, Release, Reverse, Deduct,
           ProviderRefunds, Die
      <3> QED
        BY <1>0, <3>1, Leaving DEF Leaves, Claiming
    <2> QED
      BY <2>1, <2>2
  <1>2. UNCHANGED refunded
    BY DEF FailAttempt, FailPayment, ClaimAttempt, ClaimPayment, Confirm, HoldRevenue,
       Notified, MarkRefunded, ReadToRelease, ReadToReverse, ReadToDeduct, ReadRows, Conflict,
       AlreadySettled, Release, Reverse, Deduct, ProviderRefunds, Die, refundVars
  <1>3. Partly' => Partly /\ share' = share
    <2>1. share' = share /\ (booking' = "CANCELLED" => booking = "CANCELLED")
      BY DEF FailAttempt, FailPayment, ClaimAttempt, ClaimPayment, Confirm, HoldRevenue,
         Notified, MarkRefunded, ReadToRelease, ReadToReverse, ReadToDeduct, ReadRows, Conflict,
         AlreadySettled, Release, Reverse, Deduct, ProviderRefunds, Die, bookingVars
    <2> QED
      BY <2>1 DEF Partly, Owed
  <1>4. \/ payment' = payment
        \/ payment \notin Taken /\ payment' \in {"FAILED", "CAPTURED"}
    BY DEF FailAttempt, FailPayment, ClaimAttempt, ClaimPayment, Confirm, HoldRevenue,
       Notified, MarkRefunded, ReadToRelease, ReadToReverse, ReadToDeduct, ReadRows, Conflict,
       AlreadySettled, Release, Reverse, Deduct, ProviderRefunds, Die, paymentVars, WritePayment
  <1> QED
    BY <1>1, <1>2, <1>3, <1>4, OneRefundKept

LEMMA ReadToRefundOnce ==
    ASSUME IInv, IInv', Trail, Exclusive, OneRefund, NEW c \in Workers,
           ReadToRefund(c) \/ ProviderRefuses(c)
    PROVE  OneRefund'
  <1>0. call[c] \in CallState /\ call \in [Workers -> CallState] /\ CallsFit
    BY DEF IInv, Exclusive
  <1>1. UNCHANGED <<bookingVars, payment, refunded>>
    BY DEF ReadToRefund, ProviderRefuses, paymentVars, refundVars
  <1>2. Leaves(c)
    <2>1. CASE ProviderRefuses(c)
      <3>1. call'[c] = [call[c] EXCEPT !.at = "rollback"] /\ OneCall(c) /\ call[c].at = "ask"
        BY <1>0, <2>1 DEF ProviderRefuses, GoTo, OneCall, At
      <3>2. call'[c].at = "rollback" /\ call'[c].amount = call[c].amount /\ call[c].amount \in Int
        BY <1>0, <3>1 DEF CallState
      <3> QED
        BY <3>1, <3>2 DEF Leaves, Refunds, Claiming, Asking
    <2>2. CASE ReadToRefund(c) /\ NothingRefunded(c)
      BY <1>0, <2>2, Leaving DEF Leaves
    <2>3. CASE ReadToRefund(c) /\ ~NothingRefunded(c)
      <3> DEFINE left == Price - refunded
                 amount == IF call[c].amount > left THEN left ELSE call[c].amount
      <3>1. /\ call[c].at = "refund" /\ call[c].amount > 0
            /\ call' = [call EXCEPT ![c].at = "claimRefund", ![c].seen = payment,
                                    ![c].amount = amount, ![c].full = refunded + amount >= Price]
        BY <2>3 DEF ReadToRefund, At
      <3>2. amount <= call[c].amount
        BY <1>0, PaymentsAssumption DEF IInv, CallState
      <3> HIDE DEF amount
      <3>3. OneCall(c) /\ call'[c].at = "claimRefund" /\ call'[c].amount = amount
        BY <1>0, <3>1 DEF CallState, OneCall
      <3> QED
        BY <3>1, <3>2, <3>3 DEF Leaves, Refunds, Claiming, Asking
    <2> QED
      BY <2>1, <2>2, <2>3
  <1> QED
    BY <1>1, <1>2, OneRefundKept DEF bookingVars, Partly, Owed

\* The claim and its undoing are the only steps that move the sum of the refunds.
LEMMA ClaimOnce ==
    ASSUME IInv, IInv', Exclusive, OneRefund, NEW c \in Workers,
           ClaimRefund(c) \/ Rollback(c)
    PROVE  OneRefund'
  <1>0. /\ call[c] \in CallState /\ call \in [Workers -> CallState] /\ CallsFit
        /\ call[c].amount \in Nat /\ UNCHANGED <<booking, share>>
    BY DEF IInv, Exclusive, CallState, ClaimRefund, Rollback, bookingVars
  <1>1. Refunds(c) /\ payment \in Taken /\ call[c].seen \in Taken
    BY DEF Exclusive, CallsFit, Refunds, Claiming, ClaimRefund, Rollback, At
  <1>2. CASE ClaimRefund(c) /\ c \notin current
    <2>1. Leaves(c)
      BY <1>0, <1>2, Leaving DEF Leaves, ClaimRefund
    <2> QED
      BY <1>0, <1>2, <2>1, OneRefundKept DEF ClaimRefund, Partly, Owed
  <1>3. ASSUME payment' \in Taken, OneCall(c),
               Partly => /\ refunded' <= share /\ (payment' = "CAPTURED" => refunded' = 0)
                         /\ Refunds(c)' => /\ call'[c].amount <= share
                                           /\ call'[c].at \in Asking /\ refunded' = call'[c].amount
        PROVE  OneRefund'
    <2>1. Partly' <=> Partly
      BY <1>0 DEF Partly, Owed
    <2>2. ASSUME Partly, NEW w \in Workers, Refunds(w)' PROVE w = c
      <3>1. Refunds(w) \/ w = c
        BY <1>3, <2>2 DEF OneCall, Refunds
      <3> QED
        BY <1>1, <2>2, <3>1 DEF OneRefund
    <2> QED
      BY <1>0, <1>3, <2>1, <2>2 DEF OneRefund
  <1>4. CASE ClaimRefund(c) /\ c \in current
    <2>1. /\ call[c].at = "claimRefund" /\ GoTo(c, "ask") /\ refunded' = refunded + call[c].amount
          /\ payment' \in {"REFUNDED", "PARTIALLY_REFUNDED"}
      BY <1>4 DEF ClaimRefund, At, WritePayment
    <2>2. OneCall(c) /\ call'[c].at = "ask" /\ call'[c].amount = call[c].amount
      BY <1>0, <2>1 DEF GoTo, OneCall, CallState
    <2>3. Partly => refunded = 0 /\ call[c].amount <= share
      BY <1>1, <2>1 DEF OneRefund, Asking
    <2> QED
      BY <1>0, <1>3, <2>1, <2>2, <2>3 DEF Taken, Asking
  <1>5. CASE Rollback(c)
    <2>1. /\ call[c].at = "rollback" /\ Throw(c) /\ refunded' = refunded - call[c].amount
          /\ payment' \in Taken
      BY <1>1, <1>5 DEF Rollback, At, WritePayment
    <2>2. OneCall(c) /\ ~Refunds(c)'
      BY <1>0, <2>1, Leaving
    <2>3. Partly => refunded = call[c].amount /\ call[c].amount <= share
      BY <1>1, <2>1 DEF OneRefund, Asking
    <2>4. Partly => refunded' = 0 /\ refunded' <= share
      BY <1>0, <2>1, <2>3 DEF Partly, Owed, IInv, NoShare
    <2> QED
      BY <1>3, <2>1, <2>2, <2>4
  <1> QED
    BY <1>2, <1>4, <1>5

LEMMA NoteOnce ==
    ASSUME IInv, Exclusive, OneRefund, NEW c \in Workers, NoteFullRefund(c)
    PROVE  OneRefund'
  <1>1. booking = "CANCELLED"
    BY DEF Exclusive, CaptureFits, NoteFullRefund, At
  <1>2. share' = Price /\ UNCHANGED <<payment, refunded>>
    BY <1>1 DEF NoteFullRefund, paymentVars, refundVars
  <1> QED
    BY <1>2, PaymentsAssumption DEF OneRefund, Partly

\* A call that begins something else than a refund.
LEMMA BeginOnce ==
    ASSUME IInv, IInv', OneRefund, NEW c \in Workers,
           NEW place \in {"claimAttempt", "failAttempt", "release", "reverse"},
           NEW a, NEW then, NEW amount, Begin(c, place, a, then, amount),
           UNCHANGED <<payment, refunded>>, Partly' => Partly /\ share' = share
    PROVE  OneRefund'
  <1>1. OneCall(c) /\ call'[c].at = place
    BY Beginning
  <1>2. Leaves(c)
    BY <1>1 DEF Leaves, Refunds, Claiming
  <1> QED
    BY <1>2, OneRefundKept

\* The cancellation, or the recovery once every call is over, begins the one refund.
LEMMA RefundBegins ==
    ASSUME IInv, OneRefund, NEW c \in Workers, NEW then,
           Begin(c, "refund", NoAttempt, then, share'),
           \A w \in Workers : ~Refunds(w), refunded = 0,
           UNCHANGED <<payment, refunded>>, share' \in Int
    PROVE  OneRefund'
  <1>1. OneCall(c) /\ call'[c].at = "refund" /\ call'[c].amount = share'
    BY Beginning
  <1>2. \A w \in Workers \ {c} : ~Refunds(w)'
    BY <1>1 DEF OneCall, Refunds
  <1> QED
    BY <1>1, <1>2 DEF OneRefund, Partly, Owed, Asking

LEMMA StartOnce ==
    ASSUME AsDecided, IInv, IInv', Trail, Exclusive, OneRefund, NEW c \in Workers, Start(c)
    PROVE  OneRefund'
  <1>1. ASSUME NEW s \in Shares \cup {0, Price}, NEW from \in SUBSET Payable, Cancel(c, s, from)
        PROVE  OneRefund'
    <2>1. booking \in Payable
      BY <1>1 DEF Cancel
    <2>2. /\ \A w \in Workers : ~Refunds(w)
          /\ ~(refunded > 0)
      BY <2>1 DEF Exclusive, OneGetsIt, GivesBack, Owed, Payable
    <2>3. refunded = 0
      BY <2>2 DEF Trail, IInv
    <2>4. UNCHANGED <<payment, refunded>> /\ share' = s /\ s \in Int
      BY <1>1, PaymentsAssumption DEF Cancel, paymentVars, refundVars
    <2>5. Begin(c, "refund", NoAttempt, AfterRefund(s), share')
      BY <1>1, <2>4 DEF Cancel
    <2> QED
      BY <2>2, <2>3, <2>4, <2>5, RefundBegins
  <1>2. CASE CancelByClient(c) \/ CancelWithTrip(c) \/ ExpireUnpaid(c)
    BY <1>1, <1>2 DEF CancelByClient, CancelWithTrip, ExpireUnpaid, Payable
  <1>3. CASE \E a \in Attempts : Webhook(c, a)
    <2>1. UNCHANGED <<payment, refunded, booking, share>>
      BY <1>3 DEF Webhook, bookingVars, paymentVars, refundVars
    <2>2. PICK place \in {"claimAttempt", "failAttempt"}, a \in Attempts,
               then \in {"idle", "failPayment"} : Begin(c, place, a, then, 0)
      BY <1>3 DEF Webhook
    <2> QED
      BY <2>1, <2>2, BeginOnce DEF Partly, Owed
  <1>4. CASE Complete(c) \/ DeclareNoShow(c)
    <2>1. /\ UNCHANGED <<payment, refunded, share>> /\ Begin(c, "release", NoAttempt, "idle", 0)
          /\ booking = "CONFIRMED" \/ noShow
      BY <1>4 DEF Complete, DeclareNoShow, paymentVars, refundVars
    <2>2. ~Partly'
      BY <2>1 DEF Exclusive, BookingFits, Partly, Owed, NoShare
    <2> QED
      BY <2>1, <2>2, BeginOnce
  <1> QED
    BY <1>2, <1>3, <1>4, NotHere DEF Start

LEMMA RecoveryOnce ==
    ASSUME AsDecided, IInv, IInv', Exclusive, OneRefund, HeldJobFits,
           RecoverRefund \/ RecoverHeldFunds
    PROVE  OneRefund'
  <1>1. UNCHANGED <<payment, refunded, booking, share, noShow>>
    BY DEF RecoverRefund, RecoverHeldFunds, bookingVars, paymentVars, refundVars
  <1>2. RefundJob \in Workers /\ HeldJob \in Workers /\ share \in Int
    BY DEF Workers, IInv, NoShare
  <1>3. CASE RecoverHeldFunds
    BY <1>1, <1>2, <1>3, BeginOnce DEF RecoverHeldFunds, Partly, Owed
  <1>4. CASE RecoverRefund /\ ~NeedsRefund
    <2>1. AfterRefund(share) \in {"release", "reverse"}
      BY DEF AfterRefund
    <2> QED
      BY <1>1, <1>2, <1>4, <2>1, BeginOnce DEF RecoverRefund, Partly, Owed
  <1>5. CASE RecoverRefund /\ NeedsRefund /\ Partly
    <2>1. /\ Begin(RefundJob, "refund", NoAttempt, AfterRefund(share), share)
          /\ payment = "CAPTURED"
      BY <1>5 DEF RecoverRefund, NeedsRefund
    <2>2. JobsWait
      <3>1. share \in Shares /\ share \notin {0, Price}
        BY <1>2, <1>5, PaymentsAssumption DEF Exclusive, BookingFits, Partly, Owed, NoShare
      <3> QED
        BY <3>1 DEF AsDecided
    <2>3. \A w \in Calls : call[w].at = "idle"
      BY <1>5, <2>2 DEF RecoverRefund, DelayIsOver, At
    <2>4. call[RefundJob].at = "idle"
      BY <1>2, <2>1, Beginning
    <2>5. call[HeldJob].at = "idle"
      BY <1>5 DEF HeldJobFits, Ended, Exclusive, BookingFits, Partly, Owed, NoShare
    <2>6. \A w \in Workers : ~Refunds(w)
      BY <2>3, <2>4, <2>5 DEF Workers, Refunds, Claiming
    <2>7. refunded = 0
      BY <1>5, <2>1 DEF OneRefund
    <2> QED
      BY <1>1, <1>2, <2>1, <2>6, <2>7, RefundBegins
  <1>6. CASE RecoverRefund /\ ~Partly
    BY <1>1, <1>6 DEF OneRefund, Partly, Owed
  <1> QED
    BY <1>3, <1>4, <1>5, <1>6

LEMMA NextOneRefund ==
    /\ AsDecided /\ IInv /\ IInv' /\ Trail /\ Exclusive /\ OneRefund /\ HeldJobFits
    /\ [Next]_vars
    => OneRefund'
  <1> SUFFICES ASSUME AsDecided, IInv, IInv', Trail, Exclusive, OneRefund, HeldJobFits,
                      [Next]_vars
               PROVE  OneRefund'
    OBVIOUS
  <1>1. CASE \/ \E a \in Attempts : Initiate(a) \/ ProviderDecides(a)
             \/ UNCHANGED vars
    <2>1. UNCHANGED <<bookingVars, refunded, call>>
      BY <1>1 DEF Initiate, ProviderDecides, vars, refundVars
    <2>2. payment' = payment \/ (payment = "NONE" /\ payment' = "PENDING")
      BY <1>1 DEF Initiate, ProviderDecides, WritePayment, vars, paymentVars
    <2> QED
      BY <2>1, <2>2 DEF OneRefund, Partly, Owed, Refunds, Taken, bookingVars
  <1>2. ASSUME NEW c \in Calls, Start(c) PROVE OneRefund'
    BY <1>2, StartOnce DEF Workers
  <1>3. ASSUME NEW c \in Workers, Continue(c) \/ Die(c) PROVE OneRefund'
    BY <1>3, QuietOnce, ReadToRefundOnce, ClaimOnce, NoteOnce, NotHere DEF Continue
  <1>4. ~OpenDispute
    <2>1. RefundJob \in Workers
      BY DEF Workers
    <2> QED
      BY <2>1, NotHere
  <1> QED
    BY <1>1, <1>2, <1>3, <1>4, RecoveryOnce DEF Next

\* The recovery of held funds runs for bookings that were completed or not shown at.
LEMMA NextHeldJob ==
    AsDecided /\ IInv /\ Exclusive /\ HeldJobFits /\ [Next]_vars => HeldJobFits'
  <1> SUFFICES ASSUME AsDecided, IInv, Exclusive, HeldJobFits, [Next]_vars PROVE HeldJobFits'
    OBVIOUS
  <1>0. HeldJob \in Workers /\ RefundJob \in Workers /\ HeldJob \notin Calls /\ HeldJob # RefundJob
    BY PaymentsAssumption DEF Workers
  <1>1. CASE \/ \E a \in Attempts : Initiate(a) \/ ProviderDecides(a)
             \/ UNCHANGED vars
    BY <1>1 DEF Initiate, ProviderDecides, vars, bookingVars, HeldJobFits, Ended
  <1>2. ASSUME NEW c \in Calls, Start(c) PROVE HeldJobFits'
    <2>1. c \in Workers /\ c # HeldJob
      BY <1>0 DEF Workers
    <2>2. UNCHANGED call \/ OneCall(c)
      BY <1>2, <2>1, StartSteps DEF Quiet, Reads
    <2>3. Ended => Ended'
      BY <1>2, <2>1, NotHere DEF Start, Webhook, CancelByClient, CancelWithTrip, ExpireUnpaid, Cancel,
         Payable, Complete, DeclareNoShow, Ended, bookingVars
    <2> QED
      BY <1>0, <2>1, <2>2, <2>3 DEF HeldJobFits, OneCall
  <1>3. ASSUME NEW c \in Workers, Continue(c) \/ Die(c) PROVE HeldJobFits'
    <2>1. Ended => Ended'
      <3>1. CASE MarkRefunded(c)
        <4>1. booking = "CANCELLED"
          BY <3>1 DEF Exclusive, OneGetsIt, GivesBack, MarkRefunded, At, Owed
        <4> QED
          BY <3>1, <4>1 DEF MarkRefunded, Ended
      <3>2. CASE Confirm(c)
        BY <3>2 DEF Confirm, Ended
      <3>3. UNCHANGED <<booking, noShow>> \/ Confirm(c) \/ MarkRefunded(c)
        BY <1>3 DEF Continue, FailAttempt, FailPayment, ClaimAttempt, ClaimPayment, NoteFullRefund,
           HoldRevenue, Notified, CaptureThrows, ResetAttempt, ResetPayment, ReadToRefund,
           ClaimRefund, ProviderRefunds, ProviderRefuses, AnswerLost, Rollback, ReadToRelease,
           ReadToReverse, ReadToDeduct, ReadRows, Conflict, AlreadySettled, TakeBackResolution,
           Release, Reverse, Deduct, Die, bookingVars
      <3> QED
        BY <3>1, <3>2, <3>3 DEF Ended
    <2>2. OneCall(c)
      <3>1. Die(c) => OneCall(c)
        BY DEF Die, Return, OneCall
      <3> QED
        BY <1>3, <3>1, ContinueSteps DEF Quiet, Reads
    <2>3. call[c].at # "idle"
      BY <1>3 DEF Continue, FailAttempt, FailPayment, ClaimAttempt, ClaimPayment, Confirm,
         NoteFullRefund, HoldRevenue, Notified, CaptureThrows, ResetAttempt, ResetPayment,
         ReadToRefund, ClaimRefund, ProviderRefunds, ProviderRefuses, AnswerLost, Rollback,
         MarkRefunded, ReadToRelease, ReadToReverse, ReadToDeduct, ReadRows, Conflict,
         AlreadySettled, TakeBackResolution, Release, Reverse, Deduct, Die, At, Capture
    <2> QED
      BY <1>0, <2>1, <2>2, <2>3 DEF HeldJobFits, OneCall
  <1>4. CASE RecoverRefund
    <2>1. OneCall(RefundJob) /\ UNCHANGED <<booking, noShow>>
      BY <1>0, <1>4 DEF IInv, RecoverRefund, Begin, BeginBy, OneCall, bookingVars
    <2> QED
      BY <1>0, <2>1 DEF HeldJobFits, Ended, OneCall
  <1>5. CASE RecoverHeldFunds
    <2>1. Ended /\ UNCHANGED <<booking, noShow>>
      BY <1>5 DEF RecoverHeldFunds, Ended, bookingVars
    <2> QED
      BY <2>1 DEF HeldJobFits, Ended
  <1>6. ~OpenDispute
    BY <1>0, NotHere
  <1> QED
    BY <1>1, <1>2, <1>3, <1>4, <1>5, <1>6 DEF Next

\* The same money never goes both ways: a client given everything back, by a full
\* refund or a refund after another, leaves the driver nothing of the booking, paid
\* late, refused, retried by the recovery or interrupted at any point
\* (handleCaptured, settleCancelledBooking and RefundRecoveryService together).
THEOREM RefundedIsNotPaidOut == AsDecided => (Spec => []FullyRefundedIsNotPaid)
  <1> SUFFICES ASSUME AsDecided PROVE Spec => []FullyRefundedIsNotPaid
    OBVIOUS
  <1>1. NoAnswerLost
    BY DEF AsDecided, NoAnswerLost
  <1>2. Init => RowsCoverRefunds
    BY InitTrail DEF Init, RowsCoverRefunds
  <1>3. IInv /\ IInv' /\ Trail /\ RowsCoverRefunds /\ [Next]_vars => RowsCoverRefunds'
    BY <1>1, NextCovered
  <1>4. IInv /\ Ledger /\ Others /\ Exclusive /\ [Next]_vars => Exclusive'
    BY NextExclusive
  <1>5. /\ IInv /\ IInv' /\ Trail /\ Exclusive /\ OneRefund /\ HeldJobFits /\ [Next]_vars
        => OneRefund' /\ HeldJobFits'
    BY NextOneRefund, NextHeldJob
  <1>6. IInv /\ Trail /\ RowsCoverRefunds /\ Exclusive /\ OneRefund => FullyRefundedIsNotPaid
    <2> SUFFICES ASSUME IInv, Trail, RowsCoverRefunds, Exclusive, OneRefund, returned >= Price
                 PROVE  balance <= 0
      BY DEF FullyRefundedIsNotPaid
    <2>1. refunded >= Price /\ Price > 0 /\ refunded \in Int /\ share \in Int
      BY PaymentsAssumption DEF IInv, Trail, RowsCoverRefunds, NoShare
    <2>2. Owed
      BY <2>1, PaymentsAssumption DEF Exclusive, OneGetsIt
    <2>3. ~Partly
      BY <2>1, PaymentsAssumption DEF OneRefund, Partly
    <2>4. ~Earned
      BY <2>1, <2>2, <2>3 DEF Exclusive, BookingFits, Owed, Partly, Earned, NoShare
    <2> QED
      BY <2>4 DEF Exclusive, OneGetsIt
  <1> QED
    BY <1>2, <1>3, <1>4, <1>5, <1>6, InitIInv, NextIInv, InitLedger, NextLedger, InitTrail,
       NextTrail, InitOthers, NextOthers, InitExclusive, InitOneRefund, PTL DEF Spec
=============================================================================
