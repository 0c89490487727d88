----------------------------- MODULE Seats_proofs -----------------------------
(***************************************************************************)
(* For any number of bookings, clients, points and concurrent requests: no *)
(* leg is oversold, the promo code stays within its limits, and what the   *)
(* search shows is exact -- as long as the driver's requests do not        *)
(* overlap, since they write by id what they read to be a draft.           *)
(*                                                                         *)
(* The seats counted under the lock, along the stops read before it, cover *)
(* the seats really taken: that is why an old list of stops sells too few  *)
(* seats at worst.                                                         *)
(***************************************************************************)
EXTENDS Seats, FiniteSetTheorems, WellFoundedInduction, TLAPS

OneDriverCall == \A c, d \in DriverCalls : c = d

Drafts ==
    /\ status = "DRAFT" => \A b \in Bookings : booking[b].status = "ABSENT"
    /\ status = "DRAFT" => \A c \in Calls : call[c].at = "idle"
    /\ \A c \in DriverCalls : call[c].at = "edit" => status = "DRAFT"
    /\ \A c \in DriverCalls : call[c].at \in {"list", "cancel", "release"} => status = "CANCELLED"
    /\ \A c \in DriverCalls : call[c].at # "book"
    /\ status = "DRAFT" => available = total
    /\ \A c \in Calls : call[c].at \in {"idle", "book"}

Slots ==
    /\ \A c \in Calls : call[c].at = "book" =>
          /\ call[c].b \in Bookings /\ booking[call[c].b].status = "ABSENT"
          /\ call[c].wish \in Wishes
    /\ \A c, d \in Calls :
          c # d /\ call[c].at = "book" /\ call[d].at = "book" => call[c].b # call[d].b
    /\ \A b \in redeemed : booking[b].status # "ABSENT"
    /\ \A c \in DriverCalls : call[c].at = "release" => call[c].b \in Bookings

OnTheRoute ==
    /\ \A b \in Bookings : Holds(booking, b) =>
          {booking[b].from, booking[b].to} \subseteq stops \cup {0, Last}
    /\ \A c \in Calls : call[c].at = "book" =>
          /\ call[c].route = stops
          /\ {call[c].wish.from, call[c].wish.to} \subseteq stops \cup {0, Last}

IInv ==
    /\ TypeOK /\ Drafts /\ Slots /\ OnTheRoute
    /\ NeverOversold /\ CounterIsExact /\ CodeWithinLimits

\* Aboard, for other bookings than the present ones.
AboardIn(bs, leg) ==
    {place \in Bookings \X Seats :
        LET hold == bs[place[1]] IN
        /\ hold.status \in Active /\ place[2] <= hold.seats
        /\ hold.from <= leg /\ leg < hold.to}

-----------------------------------------------------------------------------
(* Counting places                                                          *)

LEMMA PlacesAreFinite ==
    ASSUME NEW S \in SUBSET (Bookings \X Seats)
    PROVE  IsFiniteSet(S) /\ Cardinality(S) \in Nat
  <1>1. IsFiniteSet(Seats)
    BY SeatsAssumption, FS_Interval DEF Seats
  <1>2. IsFiniteSet(Bookings \X Seats)
    BY <1>1, SeatsAssumption, FS_Product
  <1> QED
    BY <1>2, FS_Subset, FS_CardinalityType

LEMMA FewerPlaces ==
    ASSUME NEW T \in SUBSET (Bookings \X Seats), NEW S \in SUBSET T
    PROVE  Cardinality(S) <= Cardinality(T)
  BY PlacesAreFinite, FS_Subset

\* A booking of n seats takes n places.
LEMMA PlacesOfOne ==
    ASSUME NEW b \in Bookings, NEW n \in Seats
    PROVE  /\ {b} \X (1..n) \in SUBSET (Bookings \X Seats)
           /\ Cardinality({b} \X (1..n)) = n
  <1>1. n \in Nat /\ n >= 1 /\ 1..n \subseteq Seats
    BY SeatsAssumption DEF Seats
  <1>2. IsFiniteSet(1..n) /\ Cardinality(1..n) = n
    BY <1>1, FS_Interval
  <1>3. IsFiniteSet({b}) /\ Cardinality({b}) = 1
    BY FS_Singleton
  <1>4. Cardinality({b} \X (1..n)) = 1 * n
    BY ZenonT(30), <1>2, <1>3, FS_Product
  <1> QED
    BY <1>1, <1>4

LEMMA OnePlaceMore ==
    ASSUME NEW S \in SUBSET (Bookings \X Seats), NEW b \in Bookings, NEW n \in Seats,
           NEW T \in SUBSET (S \cup ({b} \X (1..n)))
    PROVE  Cardinality(T) <= Cardinality(S) + n
  <1> DEFINE U == S \cup ({b} \X (1..n))
  <1>1. U \in SUBSET (Bookings \X Seats) /\ T \in SUBSET U
    BY PlacesOfOne
  <1>2. Cardinality(T) <= Cardinality(U)
    BY <1>1, FewerPlaces
  <1>3. Cardinality(U) = Cardinality(S) + n - Cardinality(S \cap ({b} \X (1..n)))
    <2>1. IsFiniteSet(S) /\ IsFiniteSet({b} \X (1..n))
      BY PlacesOfOne, PlacesAreFinite
    <2> QED
      BY ZenonT(30), <2>1, PlacesOfOne, FS_Union
  <1>4. /\ Cardinality(S \cap ({b} \X (1..n))) \in Nat /\ Cardinality(S) \in Nat
        /\ Cardinality(T) \in Nat /\ Cardinality(U) \in Nat /\ n \in Nat
    BY <1>1, PlacesOfOne, PlacesAreFinite DEF Seats
  <1> QED
    BY <1>2, <1>3, <1>4

LEMMA CountIsNat ==
    /\ \A leg : Aboard(leg) \in SUBSET (Bookings \X Seats) /\ Cardinality(Aboard(leg)) \in Nat
    /\ \A bs, route, leg : /\ Taken(bs, route, leg) \in SUBSET (Bookings \X Seats)
                           /\ Occupied(bs, route, leg) \in Nat
  <1>1. \A leg : Aboard(leg) \in SUBSET (Bookings \X Seats)
    BY DEF Aboard
  <1>2. \A bs, route, leg : Taken(bs, route, leg) \in SUBSET (Bookings \X Seats)
    BY DEF Taken
  <1> QED
    BY <1>1, <1>2, PlacesAreFinite DEF Occupied

\* Along any list of stops, the count covers who is really aboard.
LEMMA CountCovers ==
    ASSUME NEW route, NEW leg
    PROVE  Cardinality(Aboard(leg)) <= Occupied(booking, route, leg)
  <1>1. Aboard(leg) \in SUBSET Taken(booking, route, leg)
    BY DEF Aboard, Taken, Crosses, Holds
  <1> QED
    BY <1>1, CountIsNat, FewerPlaces DEF Occupied

\* freeSeatsOnFullTrip is always defined: the busiest leg decides.
LEMMA FreeIs ==
    ASSUME NEW bs, total \in Nat
    PROVE  /\ Free(bs) \in 0..total
           /\ Free(bs) > 0 => \A leg \in Legs : Occupied(bs, stops, leg) + Free(bs) <= total
           /\ Free(bs) < total => \E leg \in Legs : Occupied(bs, stops, leg) + Free(bs) >= total
  <1> DEFINE Full == {n \in 0..total : n < total => \E leg \in Legs : Occupied(bs, stops, leg) + n >= total}
             Good(n) == /\ n > 0 => \A leg \in Legs : Occupied(bs, stops, leg) + n <= total
                        /\ n < total => \E leg \in Legs : Occupied(bs, stops, leg) + n >= total
  <1>1. total \in Full /\ Full \subseteq Nat
    OBVIOUS
  <1>2. PICK n \in Full : \A m \in Full : ~ (<<m, n>> \in OpToRel(<, Nat))
    BY <1>1, NatLessThanWellFounded, WFMin
  <1>3. \A m \in Full : ~ (m < n)
    BY <1>1, <1>2 DEF OpToRel
  <1>4. ASSUME n > 0, NEW leg \in Legs, ~(Occupied(bs, stops, leg) + n <= total)
        PROVE  FALSE
    <2>1. Occupied(bs, stops, leg) \in Nat
      BY CountIsNat
    <2>2. n - 1 \in 0..total /\ n - 1 < n /\ Occupied(bs, stops, leg) + (n - 1) >= total
      BY <1>4, <2>1
    <2>3. n - 1 \in Full
      BY <1>4, <2>2
    <2> QED
      BY <1>3, <2>2, <2>3
  <1>5. n \in 0..total /\ Good(n)
    BY <1>4
  <1>6. Free(bs) = CHOOSE k \in 0..total : Good(k)
    BY DEF Free
  <1>7. Free(bs) \in 0..total /\ Good(Free(bs))
    <2> HIDE DEF Good
    <2> QED
      BY <1>5, <1>6
  <1> QED
    BY <1>7

\* Once every stop sold is on the route, what syncTripSeats writes is exact.
LEMMA FreeIsExact ==
    ASSUME NEW bs, total \in Seats,
           \A b \in Bookings : Holds(bs, b) => {bs[b].from, bs[b].to} \subseteq stops \cup {0, Last},
           \A leg \in Legs : Cardinality(AboardIn(bs, leg)) <= total
    PROVE  /\ Free(bs) \in 0..total
           /\ \A leg \in Legs : Cardinality(AboardIn(bs, leg)) + Free(bs) <= total
           /\ \E leg \in Legs : Cardinality(AboardIn(bs, leg)) + Free(bs) = total
  <1>1. \A leg : Taken(bs, stops, leg) = AboardIn(bs, leg)
    BY DEF Taken, AboardIn, Crosses, Holds
  <1>2. \A leg : Occupied(bs, stops, leg) = Cardinality(AboardIn(bs, leg))
    BY <1>1 DEF Occupied
  <1>3. \A leg : Cardinality(AboardIn(bs, leg)) \in Nat
    BY <1>2, CountIsNat
  <1>4. total \in Nat /\ 0 \in Legs
    BY SeatsAssumption DEF Seats, Legs
  <1>5. /\ Free(bs) \in 0..total
        /\ Free(bs) > 0 => \A leg \in Legs : Cardinality(AboardIn(bs, leg)) + Free(bs) <= total
        /\ Free(bs) < total => \E leg \in Legs : Cardinality(AboardIn(bs, leg)) + Free(bs) >= total
    BY <1>2, <1>4, FreeIs
  <1>6. \A leg \in Legs : Cardinality(AboardIn(bs, leg)) + Free(bs) <= total
    BY <1>3, <1>4, <1>5
  <1>7. CASE Free(bs) < total
    BY <1>3, <1>4, <1>5, <1>6, <1>7
  <1>8. CASE Free(bs) = total
    BY <1>3, <1>4, <1>5, <1>6, <1>8
  <1> QED
    BY <1>4, <1>5, <1>6, <1>7, <1>8

LEMMA AboardNow ==
    /\ \A leg : Aboard(leg) = AboardIn(booking, leg)
    /\ \A bs, leg : AboardIn(bs, leg) \in SUBSET (Bookings \X Seats)
  BY DEF Aboard, AboardIn

-----------------------------------------------------------------------------
(* The rows of the promo code                                               *)

LEMMA RowsAreFinite ==
    ASSUME NEW S \in SUBSET Bookings
    PROVE  IsFiniteSet(S) /\ Cardinality(S) \in Nat
  BY SeatsAssumption, FS_Subset, FS_CardinalityType

\* A redemption comes back whole: the row and the counter.
LEMMA ReleaseKeepsLimits ==
    ASSUME TypeOK, CodeWithinLimits, NEW b \in Bookings, Release(b),
           \A d \in Bookings : booking'[d].client = booking[d].client
    PROVE  /\ CodeWithinLimits'
           /\ used' \in 0..CodeLimit /\ redeemed' \subseteq redeemed
  <1>1. redeemed \in SUBSET Bookings /\ redeemed' = redeemed \ {b}
    BY DEF TypeOK, Release
  <1>2. IsFiniteSet(redeemed) /\ Cardinality(redeemed) \in Nat /\ CodeLimit \in Nat /\ ClientLimit \in Nat
    BY <1>1, RowsAreFinite, SeatsAssumption
  <1>3. Cardinality(redeemed') = IF b \in redeemed THEN Cardinality(redeemed) - 1 ELSE Cardinality(redeemed)
    BY <1>1, <1>2, FS_RemoveElement
  <1>4. Cardinality(redeemed') \in Nat
    BY <1>1, RowsAreFinite
  <1>5. used' = Cardinality(redeemed') /\ used' \in 0..CodeLimit
    BY <1>2, <1>3, <1>4 DEF CodeWithinLimits, Release
  <1>6. ASSUME NEW client \in Clients
        PROVE  Cardinality(RedeemedBy(client, redeemed)') <= ClientLimit
    <2>1. RedeemedBy(client, redeemed)' \in SUBSET RedeemedBy(client, redeemed)
      BY <1>1 DEF RedeemedBy
    <2>2. RedeemedBy(client, redeemed) \in SUBSET Bookings
      BY <1>1 DEF RedeemedBy
    <2>3. RedeemedBy(client, redeemed)' \in SUBSET Bookings
      BY <2>1, <2>2
    <2>4. /\ Cardinality(RedeemedBy(client, redeemed)') <= Cardinality(RedeemedBy(client, redeemed))
          /\ Cardinality(RedeemedBy(client, redeemed)) \in Nat
          /\ Cardinality(RedeemedBy(client, redeemed)') \in Nat
      BY <2>1, <2>2, <2>3, RowsAreFinite, FS_Subset
    <2> QED
      BY <1>2, <2>4 DEF CodeWithinLimits
  <1>7. used' <= CodeLimit /\ redeemed' \subseteq redeemed
    BY <1>1, <1>2, <1>5
  <1>8. CodeWithinLimits'
    BY <1>5, <1>6, <1>7 DEF CodeWithinLimits
  <1> QED
    BY <1>5, <1>7, <1>8

\* Nothing about the code changes with the status of a booking.
LEMMA SameCodeKeepsLimits ==
    ASSUME TypeOK, CodeWithinLimits, UNCHANGED codeVars,
           \A d \in redeemed : booking'[d].client = booking[d].client
    PROVE  CodeWithinLimits'
  <1>1. redeemed' = redeemed /\ used' = used
    BY DEF codeVars
  <1>2. ASSUME NEW client \in Clients
        PROVE  RedeemedBy(client, redeemed)' = RedeemedBy(client, redeemed)
    BY <1>1 DEF RedeemedBy
  <1> QED
    BY <1>1, <1>2 DEF CodeWithinLimits

-----------------------------------------------------------------------------
(* The driver's and the support's requests                                  *)

LEMMA InitKeeps == Init => IInv
  <1> SUFFICES ASSUME Init PROVE IInv
    OBVIOUS
  <1> USE DEF Init
  <1>1. 0 \in Nat /\ MaxSeats \in Seats /\ 1 \in Seats /\ 0 \in Points /\ Last \in Points
    BY SeatsAssumption DEF Seats, Points
  <1>2. NotBooked \in BookingState
    BY <1>1 DEF NotBooked, BookingState
  <1>3. Idle \in CallState
    BY <1>2 DEF Idle, CallState
  <1>4. TypeOK
    BY <1>1, <1>2, <1>3, SeatsAssumption DEF TypeOK, TripStatus, Seats
  <1>5. \A leg : Aboard(leg) = {}
    BY DEF Aboard, NotBooked, Active
  <1>6. NeverOversold
    BY <1>1, <1>5, FS_EmptySet DEF NeverOversold, Seats
  <1>7. CounterIsExact
    BY DEF CounterIsExact
  <1>8. \A client \in Clients : RedeemedBy(client, redeemed) = {}
    BY DEF RedeemedBy
  <1>9. CodeWithinLimits
    BY <1>1, <1>8, FS_EmptySet, SeatsAssumption DEF CodeWithinLimits
  <1>10. Drafts
    BY DEF Drafts, Idle, NotBooked, Workers
  <1>11. Slots /\ OnTheRoute
    BY DEF Slots, OnTheRoute, Idle, NotBooked, Workers, Holds, Active
  <1> QED
    BY <1>4, <1>6, <1>7, <1>9, <1>10, <1>11 DEF IInv

LEMMA IdleIsACall ==
    /\ Idle \in CallState /\ Idle.at = "idle" /\ Idle.b = NoBooking
    /\ Calls \subseteq Workers /\ DriverCalls \subseteq Workers
    /\ \A c \in Calls, d \in DriverCalls : c # d
  <1>1. 1 \in Seats /\ 0 \in Points /\ Last \in Points
    BY SeatsAssumption DEF Seats, Points
  <1>2. NotBooked \in BookingState
    BY <1>1 DEF NotBooked, BookingState
  <1> QED
    BY <1>2, SeatsAssumption DEF Idle, CallState, Workers

\* A draft is nobody's: no booking, no request under way.
LEMMA DrawKeeps ==
    ASSUME IInv, OneDriverCall, NEW c \in DriverCalls, Draw(c)
    PROVE  IInv'
  <1>1. /\ status = "DRAFT" /\ booking' = booking /\ used' = used /\ redeemed' = redeemed
    BY DEF IInv, Drafts, Draw, ReadDraft, Publish, SetSeats, AddStop, RemoveStop, At, codeVars, tripVars
  <1>2. /\ \A b \in Bookings : booking[b].status = "ABSENT"
        /\ \A d \in Calls : call[d].at = "idle"
        /\ \A d \in DriverCalls : d = c
        /\ available = total
    BY <1>1 DEF IInv, Drafts, OneDriverCall
  <1>3. PICK r \in CallState :
            /\ call' = [call EXCEPT ![c] = r]
            /\ r = Idle \/ (r = [Idle EXCEPT !.at = "edit"] /\ status' = "DRAFT")
    <2>1. [Idle EXCEPT !.at = "edit"] \in CallState
      BY IdleIsACall DEF CallState
    <2> QED
      BY <1>1, <2>1, IdleIsACall
         DEF Draw, ReadDraft, Publish, SetSeats, AddStop, RemoveStop, Return, Becomes, tripVars
  <1>4. c \in Workers /\ call \in [Workers -> CallState] /\ IsFiniteSet(Bookings)
    BY IdleIsACall, SeatsAssumption DEF IInv, TypeOK
  <1>5. /\ status' \in {"DRAFT", "PUBLISHED"} /\ stops' \subseteq Between
        /\ total' \in Seats /\ available' = total'
        /\ r # Idle => status' = "DRAFT"
    BY <1>1, <1>2, <1>3
       DEF IInv, TypeOK, Draw, ReadDraft, Publish, SetSeats, AddStop, RemoveStop, tripVars
  <1>6. \A d \in Calls : call'[d] = call[d]
    BY <1>3, <1>4, IdleIsACall
  <1>7. call'[c] = r /\ call' \in [Workers -> CallState] /\ r.at \in {"idle", "edit"}
    <2>1. [Idle EXCEPT !.at = "edit"].at = "edit"
      BY DEF Idle
    <2> QED
      BY <1>3, <1>4, <2>1, IdleIsACall
  <1>8. TypeOK'
    BY <1>1, <1>5, <1>7, SeatsAssumption DEF IInv, TypeOK, TripStatus, Seats
  <1>9. Drafts'
    BY <1>1, <1>2, <1>5, <1>6, <1>7, <1>3, IdleIsACall DEF Drafts
  <1>10. Slots'
    BY <1>1, <1>2, <1>6, <1>7 DEF IInv, Slots
  <1>11. OnTheRoute'
    BY <1>1, <1>2, <1>6 DEF OnTheRoute, Holds, Active
  <1>12. \A leg : Aboard(leg)' = {}
    BY <1>1, <1>2 DEF Aboard, Active
  <1>13. total' \in Nat /\ 0 \in Legs
    BY <1>5, SeatsAssumption DEF Seats, Legs
  <1>14. \A leg \in Legs : Cardinality(Aboard(leg)') = 0
    BY <1>12, FS_EmptySet
  <1>15. NeverOversold' /\ CounterIsExact'
    BY <1>5, <1>13, <1>14 DEF NeverOversold, CounterIsExact
  <1>16. CodeWithinLimits'
    BY <1>1, SameCodeKeepsLimits DEF IInv, codeVars
  <1> QED
    BY <1>8, <1>9, <1>10, <1>11, <1>15, <1>16 DEF IInv

-----------------------------------------------------------------------------
(* Cancelling a booking                                                     *)

LEMMA CancelledFrees ==
    ASSUME IInv, NEW b \in Bookings, Holds(booking, b)
    PROVE  /\ Cancelled(b) \in [Bookings -> BookingState]
           /\ \A d \in Bookings :
                 /\ Cancelled(b)[d].client = booking[d].client
                 /\ Cancelled(b)[d].status = "ABSENT" <=> booking[d].status = "ABSENT"
           /\ \A d \in Bookings : Holds(Cancelled(b), d) =>
                 {Cancelled(b)[d].from, Cancelled(b)[d].to} \subseteq stops \cup {0, Last}
           /\ \A leg \in Legs : Cardinality(AboardIn(Cancelled(b), leg)) <= total
  <1>1. booking \in [Bookings -> BookingState] /\ total \in Nat
    BY SeatsAssumption DEF IInv, TypeOK, Seats
  <1>2. booking[b].status # "ABSENT"
    BY DEF Holds, Active
  <1>3. \A d \in Bookings : d # b => Cancelled(b)[d] = booking[d]
    BY <1>1 DEF Cancelled
  <1>4. /\ Cancelled(b)[b].status = "CANCELLED" /\ Cancelled(b)[b].client = booking[b].client
        /\ Cancelled(b) \in [Bookings -> BookingState]
    BY <1>1 DEF Cancelled, BookingState
  <1>5. ASSUME NEW leg \in Legs
        PROVE  Cardinality(AboardIn(Cancelled(b), leg)) <= total
    <2>1. AboardIn(Cancelled(b), leg) \subseteq Aboard(leg)
      BY <1>3, <1>4 DEF AboardIn, Aboard, Active
    <2>2. Aboard(leg) \in SUBSET (Bookings \X Seats) /\ Cardinality(Aboard(leg)) <= total
      BY <1>5, CountIsNat DEF IInv, NeverOversold
    <2>3. /\ Cardinality(AboardIn(Cancelled(b), leg)) <= Cardinality(Aboard(leg))
          /\ Cardinality(AboardIn(Cancelled(b), leg)) \in Nat /\ Cardinality(Aboard(leg)) \in Nat
      BY <2>1, <2>2, FewerPlaces, PlacesAreFinite, AboardNow
    <2> QED
      BY <1>1, <2>2, <2>3
  <1>6. \A d \in Bookings : Holds(Cancelled(b), d) =>
           {Cancelled(b)[d].from, Cancelled(b)[d].to} \subseteq stops \cup {0, Last}
    BY <1>3, <1>4 DEF IInv, OnTheRoute, Holds, Active
  <1> QED
    BY <1>2, <1>3, <1>4, <1>5, <1>6

\* ExpireUnpaid, the client's and the arbiter's cancellations: what they share.
LEMMA CancelKeeps ==
    ASSUME IInv, NEW b \in Bookings, Holds(booking, b),
           booking' = Cancelled(b), Sync(Cancelled(b)), UNCHANGED <<tripVars, call>>,
           Release(b) \/ UNCHANGED codeVars
    PROVE  IInv'
  <1>1. /\ status' = status /\ stops' = stops /\ total' = total /\ call' = call
        /\ available' = Free(Cancelled(b))
    BY DEF tripVars, Sync
  <1>2. total \in Seats /\ total \in Nat /\ MaxSeats \in Nat /\ total <= MaxSeats
    BY SeatsAssumption DEF IInv, TypeOK, Seats
  <1>3. /\ available' \in 0..total
        /\ \A leg \in Legs : Cardinality(AboardIn(Cancelled(b), leg)) + available' <= total
        /\ \E leg \in Legs : Cardinality(AboardIn(Cancelled(b), leg)) + available' = total
    BY <1>1, <1>2, CancelledFrees, FreeIsExact
  <1>4. \A leg : Aboard(leg)' = AboardIn(Cancelled(b), leg)
    BY DEF Aboard, AboardIn
  <1>5. NeverOversold' /\ CounterIsExact'
    BY <1>1, <1>2, <1>3, <1>4, CancelledFrees DEF NeverOversold, CounterIsExact
  <1>s. \A d \in Bookings :
           /\ Cancelled(b)[d].client = booking[d].client
           /\ Cancelled(b)[d].status = "ABSENT" <=> booking[d].status = "ABSENT"
    BY CancelledFrees
  <1>6. CodeWithinLimits' /\ used' \in 0..CodeLimit /\ redeemed' \subseteq redeemed
    <2>1. \A d \in Bookings : booking'[d].client = booking[d].client
      BY <1>s
    <2>2. /\ TypeOK /\ CodeWithinLimits /\ used \in 0..CodeLimit
          /\ redeemed \subseteq redeemed /\ \A d \in redeemed : booking'[d].client = booking[d].client
      BY <2>1 DEF IInv, TypeOK
    <2>3. CASE Release(b)
      BY <2>1, <2>2, <2>3, ReleaseKeepsLimits
    <2>4. CASE UNCHANGED codeVars
      <3>1. used' = used /\ redeemed' = redeemed
        BY <2>4 DEF codeVars
      <3>2. CodeWithinLimits'
        BY <2>2, <2>4, SameCodeKeepsLimits
      <3> QED
        BY <2>2, <3>1, <3>2
    <2> QED
      BY <2>3, <2>4
  <1>7. TypeOK'
    BY <1>1, <1>2, <1>3, <1>6, CancelledFrees DEF IInv, TypeOK
  <1>8. Drafts' /\ Slots'
    <2>1. status # "DRAFT"
      BY DEF IInv, Drafts, Holds, Active
    <2>2. \A d \in Bookings : booking'[d].status = "ABSENT" <=> booking[d].status = "ABSENT"
      BY <1>s
    <2>3. redeemed' \subseteq redeemed /\ redeemed \subseteq Bookings
      BY <1>6 DEF IInv, TypeOK
    <2>4. Drafts'
      BY <1>1, <2>1, <2>2 DEF IInv, Drafts
    <2>5. Slots'
      BY <1>1, <2>2, <2>3 DEF IInv, Slots
    <2> QED
      BY <2>4, <2>5
  <1>9. OnTheRoute'
    BY <1>1, CancelledFrees DEF IInv, OnTheRoute
  <1> QED
    BY <1>5, <1>6, <1>7, <1>8, <1>9 DEF IInv

LEMMA BookingKeeps ==
    ASSUME IInv, NEW b \in Bookings,
           ExpireUnpaid(b) \/ CancelByArbiter(b) \/ \E fullRefund \in BOOLEAN : CancelByClient(b, fullRefund)
    PROVE  IInv'
  <1>1. /\ Holds(booking, b) /\ booking' = Cancelled(b) /\ Sync(Cancelled(b))
        /\ UNCHANGED <<tripVars, call>>
        /\ Release(b) \/ UNCHANGED codeVars
    BY DEF ExpireUnpaid, CancelByArbiter, CancelByClient, Holds, Active
  <1> QED
    BY <1>1, CancelKeeps

LEMMA ConfirmKeeps ==
    ASSUME IInv, NEW b \in Bookings, ConfirmPayment(b)
    PROVE  IInv'
  <1>1. /\ status' = status /\ stops' = stops /\ total' = total /\ available' = available
        /\ used' = used /\ redeemed' = redeemed /\ call' = call
        /\ booking' = [booking EXCEPT ![b].status = "CONFIRMED"]
        /\ booking[b].status = "PENDING_PAYMENT"
    BY DEF ConfirmPayment, tripVars, codeVars
  <1>2. booking \in [Bookings -> BookingState]
    BY DEF IInv, TypeOK
  <1>3. /\ booking' \in [Bookings -> BookingState]
        /\ \A d \in Bookings :
              /\ d # b => booking'[d] = booking[d]
              /\ booking'[d].client = booking[d].client /\ booking'[d].seats = booking[d].seats
              /\ booking'[d].from = booking[d].from /\ booking'[d].to = booking[d].to
              /\ booking'[d].status = "ABSENT" <=> booking[d].status = "ABSENT"
              /\ booking'[d].status \in Active <=> booking[d].status \in Active
    BY <1>1, <1>2 DEF BookingState, Active
  <1>4. \A leg : Aboard(leg)' = Aboard(leg)
    BY <1>3 DEF Aboard
  <1>5. TypeOK'
    BY <1>1, <1>3 DEF IInv, TypeOK
  <1>6. Drafts' /\ Slots' /\ OnTheRoute'
    BY <1>1, <1>3 DEF IInv, TypeOK, Drafts, Slots, OnTheRoute, Holds
  <1>7. NeverOversold' /\ CounterIsExact'
    BY <1>1, <1>4 DEF IInv, NeverOversold, CounterIsExact
  <1>8. CodeWithinLimits'
    BY <1>1, <1>3, SameCodeKeepsLimits DEF IInv, TypeOK, codeVars
  <1> QED
    BY <1>5, <1>6, <1>7, <1>8 DEF IInv

-----------------------------------------------------------------------------
(* A booking request                                                        *)

LEMMA BookKeeps ==
    ASSUME IInv, NEW c \in Calls, NEW b \in Bookings, NEW wish \in Wishes, NEW code \in BOOLEAN,
           Book(c, b, wish, code)
    PROVE  IInv'
  <1> DEFINE r == [Idle EXCEPT !.at = "book", !.b = b, !.wish = wish, !.route = stops, !.code = code]
  <1>1. /\ status = "PUBLISHED" /\ booking[b].status = "ABSENT" /\ \A w \in Workers : call[w].b # b
        /\ {wish.from, wish.to} \subseteq stops \cup {0, Last}
        /\ call' = [call EXCEPT ![c] = r]
        /\ status' = status /\ stops' = stops /\ total' = total /\ available' = available
        /\ booking' = booking /\ used' = used /\ redeemed' = redeemed
    BY DEF Book, Becomes, tripVars, codeVars
  <1>2. call \in [Workers -> CallState] /\ c \in Workers /\ stops \subseteq Between /\ wish \in BookingState
    BY IdleIsACall DEF IInv, TypeOK, Wishes
  <1>3. r \in CallState /\ r.at = "book" /\ r.b = b /\ r.wish = wish /\ r.route = stops
    BY <1>2, IdleIsACall DEF CallState, Idle
  <1> HIDE DEF r
  <1>4. /\ call' \in [Workers -> CallState] /\ call'[c] = r
        /\ \A w \in Workers : w # c => call'[w] = call[w]
    BY <1>1, <1>2, <1>3
  <1>5. TypeOK'
    BY <1>1, <1>4 DEF IInv, TypeOK
  <1>6. Drafts'
    BY <1>1, <1>3, <1>4, IdleIsACall DEF IInv, Drafts
  <1>7. Slots'
    BY <1>1, <1>3, <1>4, IdleIsACall DEF IInv, Slots
  <1>8. OnTheRoute'
    BY <1>1, <1>3, <1>4, IdleIsACall DEF IInv, OnTheRoute, Holds
  <1>9. NeverOversold' /\ CounterIsExact' /\ CodeWithinLimits'
    BY <1>1 DEF IInv, NeverOversold, CounterIsExact, Aboard, CodeWithinLimits, RedeemedBy
  <1> QED
    BY <1>5, <1>6, <1>7, <1>8, <1>9 DEF IInv

\* The redemption passes the limits of the code, checked again under the lock.
LEMMA RedeemKeepsLimits ==
    ASSUME TypeOK, CodeWithinLimits, NEW b \in Bookings, NEW wish \in Wishes, b \notin redeemed,
           booking' = [booking EXCEPT ![b] = wish], CodeGranted(wish.client),
           used' = used + 1, redeemed' = redeemed \cup {b}
    PROVE  CodeWithinLimits' /\ used' \in 0..CodeLimit
  <1>1. redeemed \in SUBSET Bookings /\ booking \in [Bookings -> BookingState]
    BY DEF TypeOK
  <1>2. IsFiniteSet(redeemed) /\ Cardinality(redeemed) \in Nat /\ CodeLimit \in Nat /\ ClientLimit \in Nat
    BY <1>1, RowsAreFinite, SeatsAssumption
  <1>3. Cardinality(redeemed') = Cardinality(redeemed) + 1
    BY <1>2, FS_AddElement
  <1>4. used' = Cardinality(redeemed') /\ used' \in 0..CodeLimit
    BY <1>2, <1>3 DEF CodeWithinLimits, CodeGranted
  <1>5. ASSUME NEW client \in Clients
        PROVE  Cardinality(RedeemedBy(client, redeemed)') <= ClientLimit
    <2>1. RedeemedBy(client, redeemed) \in SUBSET Bookings /\ b \notin RedeemedBy(client, redeemed)
      BY <1>1 DEF RedeemedBy
    <2>2. /\ IsFiniteSet(RedeemedBy(client, redeemed))
          /\ Cardinality(RedeemedBy(client, redeemed)) \in Nat
          /\ Cardinality(RedeemedBy(client, redeemed)) <= ClientLimit
      BY <2>1, RowsAreFinite DEF CodeWithinLimits
    <2>3. CASE client = wish.client
      <3>1. RedeemedBy(client, redeemed)' = RedeemedBy(client, redeemed) \cup {b}
        BY <1>1, <2>3 DEF RedeemedBy
      <3>2. Cardinality(RedeemedBy(client, redeemed)') = Cardinality(RedeemedBy(client, redeemed)) + 1
        BY <2>1, <2>2, <3>1, FS_AddElement
      <3> QED
        BY <2>3, <3>2 DEF CodeGranted
    <2>4. CASE client # wish.client
      <3>1. RedeemedBy(client, redeemed)' = RedeemedBy(client, redeemed)
        BY <1>1, <2>4 DEF RedeemedBy
      <3> QED
        BY <2>2, <3>1
    <2> QED
      BY <2>3, <2>4
  <1>6. used' <= CodeLimit
    BY <1>2, <1>4
  <1> QED
    BY <1>4, <1>5, <1>6 DEF CodeWithinLimits

\* On every leg of the wish the seats counted were free; on the others nothing changes.
LEMMA GrantedFits ==
    ASSUME IInv, NEW c \in Calls, call[c].at = "book", Granted(c), NEW leg \in Legs
    PROVE  Cardinality(AboardIn([booking EXCEPT ![call[c].b] = call[c].wish], leg)) <= total
  <1> DEFINE b == call[c].b
             wish == call[c].wish
             bs == [booking EXCEPT ![b] = wish]
  <1>1. /\ b \in Bookings /\ booking[b].status = "ABSENT" /\ wish \in Wishes
        /\ booking \in [Bookings -> BookingState] /\ total \in Nat
    BY SeatsAssumption DEF IInv, Slots, TypeOK, Seats
  <1>2. /\ wish.from \in Nat /\ wish.to \in Nat /\ wish.seats \in Seats /\ wish.seats \in Nat /\ leg \in Nat
    BY <1>1, SeatsAssumption DEF Wishes, BookingState, Points, Seats, Legs
  <1>3. /\ bs[b] = wish /\ \A d \in Bookings : d # b => bs[d] = booking[d]
    BY <1>1
  <1> HIDE DEF b, wish, bs
  <1>4. /\ Aboard(leg) \in SUBSET (Bookings \X Seats) /\ Cardinality(Aboard(leg)) \in Nat
        /\ AboardIn(bs, leg) \in SUBSET (Bookings \X Seats) /\ Cardinality(AboardIn(bs, leg)) \in Nat
    BY CountIsNat, AboardNow, PlacesAreFinite
  <1>5. CASE wish.from <= leg /\ leg < wish.to
    <2>1. Occupied(booking, call[c].route, leg) + wish.seats <= total
      BY <1>2, <1>5 DEF Granted, Fits, wish
    <2>2. AboardIn(bs, leg) \in SUBSET (Aboard(leg) \cup ({b} \X (1..wish.seats)))
      BY <1>1, <1>2, <1>3 DEF AboardIn, Aboard, Seats
    <2>3. Cardinality(AboardIn(bs, leg)) <= Cardinality(Aboard(leg)) + wish.seats
      BY <1>1, <1>2, <1>4, <2>2, OnePlaceMore
    <2>4. /\ Cardinality(Aboard(leg)) <= Occupied(booking, call[c].route, leg)
          /\ Occupied(booking, call[c].route, leg) \in Nat
      BY CountCovers, CountIsNat
    <2> QED
      BY <1>1, <1>2, <1>4, <2>1, <2>3, <2>4 DEF bs, b, wish
  <1>6. CASE ~(wish.from <= leg /\ leg < wish.to)
    <2>1. AboardIn(bs, leg) \in SUBSET Aboard(leg)
      BY <1>1, <1>3, <1>6 DEF AboardIn, Aboard
    <2>2. Cardinality(AboardIn(bs, leg)) <= Cardinality(Aboard(leg))
      BY <1>4, <2>1, FewerPlaces
    <2> QED
      BY <1>1, <1>4, <2>2 DEF IInv, NeverOversold, bs, b, wish
  <1> QED
    BY <1>5, <1>6

LEMMA BookUnderLockKeeps ==
    ASSUME IInv, NEW c \in Calls, BookUnderLock(c)
    PROVE  IInv'
  <1> DEFINE b == call[c].b
             wish == call[c].wish
             bs == [booking EXCEPT ![b] = wish]
  <1>1. /\ call[c].at = "book" /\ call' = [call EXCEPT ![c] = Idle]
        /\ status' = status /\ stops' = stops /\ total' = total
        /\ call \in [Workers -> CallState] /\ c \in Workers
    BY IdleIsACall DEF BookUnderLock, At, Return, Becomes, tripVars, IInv, TypeOK
  <1>2. /\ b \in Bookings /\ booking[b].status = "ABSENT" /\ wish \in Wishes /\ wish \in BookingState
        /\ wish.status = "PENDING_PAYMENT" /\ b \notin redeemed
        /\ {wish.from, wish.to} \subseteq stops \cup {0, Last}
        /\ \A d \in Calls : d # c /\ call[d].at = "book" => call[d].b # b
    BY <1>1 DEF IInv, Slots, OnTheRoute, Wishes
  <1>3. /\ call' \in [Workers -> CallState] /\ call'[c].at = "idle"
        /\ \A d \in Workers : d # c => call'[d] = call[d]
    BY <1>1, IdleIsACall
  <1>4. booking \in [Bookings -> BookingState] /\ total \in Seats /\ status # "DRAFT"
    BY <1>1 DEF IInv, TypeOK, Drafts
  <1>5. CASE ~Granted(c)
    <2>1. booking' = booking /\ used' = used /\ redeemed' = redeemed /\ available' = available
      BY <1>5 DEF BookUnderLock, codeVars
    <2>2. TypeOK'
      BY <1>1, <1>3, <2>1 DEF IInv, TypeOK
    <2>3. Drafts' /\ Slots' /\ OnTheRoute'
      BY <1>1, <1>3, <2>1, IdleIsACall DEF IInv, Drafts, Slots, OnTheRoute, Holds
    <2>4. NeverOversold' /\ CounterIsExact' /\ CodeWithinLimits'
      BY <1>1, <2>1 DEF IInv, NeverOversold, CounterIsExact, Aboard, CodeWithinLimits, RedeemedBy
    <2> QED
      BY <2>2, <2>3, <2>4 DEF IInv
  <1>6. CASE Granted(c)
    <2>1. booking' = bs /\ available' = Free(bs)
      BY <1>6 DEF BookUnderLock, Sync
    <2>2. /\ bs \in [Bookings -> BookingState] /\ bs[b] = wish
          /\ \A d \in Bookings : d # b => bs[d] = booking[d]
      BY <1>2, <1>4
    <2>3. \A leg \in Legs : Cardinality(AboardIn(bs, leg)) <= total
      BY <1>1, <1>6, GrantedFits
    <2> HIDE DEF bs
    <2>4. \A d \in Bookings : Holds(bs, d) => {bs[d].from, bs[d].to} \subseteq stops \cup {0, Last}
      BY <1>2, <2>2 DEF IInv, OnTheRoute, Holds
    <2>5. /\ Free(bs) \in 0..total
          /\ \A leg \in Legs : Cardinality(AboardIn(bs, leg)) + Free(bs) <= total
          /\ \E leg \in Legs : Cardinality(AboardIn(bs, leg)) + Free(bs) = total
      BY <1>4, <2>3, <2>4, FreeIsExact
    <2>6. \A leg : Aboard(leg)' = AboardIn(bs, leg)
      BY <2>1 DEF Aboard, AboardIn
    <2>7. total \in Nat /\ MaxSeats \in Nat /\ total <= MaxSeats
      BY <1>4, SeatsAssumption DEF Seats
    <2>8. NeverOversold' /\ CounterIsExact' /\ available' \in 0..MaxSeats
      BY <1>1, <2>1, <2>3, <2>5, <2>6, <2>7 DEF NeverOversold, CounterIsExact
    <2>9. CodeWithinLimits' /\ used' \in 0..CodeLimit /\ redeemed' \subseteq redeemed \cup {b}
      <3>1. TypeOK /\ CodeWithinLimits /\ booking' = [booking EXCEPT ![b] = wish]
        BY <2>1 DEF IInv, bs
      <3>2. CASE call[c].code
        <4>1. used' = used + 1 /\ redeemed' = redeemed \cup {b} /\ CodeGranted(wish.client)
          BY <1>6, <3>2 DEF BookUnderLock, Granted
        <4> QED
          BY <1>2, <3>1, <4>1, RedeemKeepsLimits
      <3>3. CASE ~call[c].code
        <4>1. UNCHANGED codeVars /\ used' = used /\ redeemed' = redeemed
          BY <1>6, <3>3 DEF BookUnderLock, codeVars
        <4>2. \A d \in redeemed : booking'[d].client = booking[d].client
          BY <1>2, <2>1, <2>2 DEF IInv, TypeOK
        <4>3. CodeWithinLimits'
          BY <3>1, <4>1, <4>2, SameCodeKeepsLimits
        <4> QED
          BY <4>1, <4>3 DEF IInv, TypeOK
      <3> QED
        BY <3>2, <3>3
    <2>10. TypeOK'
      BY <1>1, <1>2, <1>3, <2>1, <2>2, <2>8, <2>9 DEF IInv, TypeOK
    <2> HIDE DEF b, wish
    <2>11. Drafts'
      BY <1>1, <1>3, <1>4, IdleIsACall DEF IInv, Drafts
    <2>12. Slots'
      <3>1. \A d \in Calls : call'[d].at = "book" =>
               /\ d # c /\ call'[d] = call[d] /\ call[d].b \in Bookings
               /\ call[d].b # b /\ booking[call[d].b].status = "ABSENT" /\ call[d].wish \in Wishes
        BY <1>2, <1>3, IdleIsACall DEF IInv, Slots
      <3>2. \A d \in redeemed' : booking'[d].status # "ABSENT"
        BY <1>2, <2>1, <2>2, <2>9 DEF IInv, Slots, TypeOK
      <3>3. \A d \in DriverCalls : call'[d] = call[d]
        BY <1>3, IdleIsACall
      <3> QED
        BY <2>1, <2>2, <3>1, <3>2, <3>3 DEF IInv, Slots
    <2>13. OnTheRoute'
      BY <1>1, <1>3, <2>1, <2>4, IdleIsACall DEF IInv, OnTheRoute
    <2> QED
      BY <2>8, <2>9, <2>10, <2>11, <2>12, <2>13 DEF IInv
  <1> QED
    BY <1>5, <1>6

-----------------------------------------------------------------------------
(* The trip leaves or is cancelled                                          *)

LEMMA DepartKeeps ==
    ASSUME IInv, Depart
    PROVE  IInv'
  <1>1. /\ status = "PUBLISHED" /\ status' = "DEPARTED" /\ stops' = stops /\ total' = total
        /\ available' = available /\ booking' = booking /\ used' = used /\ redeemed' = redeemed
        /\ call' = call
    BY DEF Depart, codeVars
  <1>2. TypeOK'
    BY <1>1 DEF IInv, TypeOK, TripStatus
  <1>3. Drafts' /\ Slots' /\ OnTheRoute'
    BY <1>1 DEF IInv, Drafts, Slots, OnTheRoute, Holds
  <1>4. NeverOversold' /\ CounterIsExact' /\ CodeWithinLimits'
    BY <1>1 DEF IInv, NeverOversold, CounterIsExact, Aboard, CodeWithinLimits, RedeemedBy
  <1> QED
    BY <1>2, <1>3, <1>4 DEF IInv

\* A step of a request that cancels the trip: the trip is sold no more.
LEMMA WithdrawKeeps ==
    ASSUME IInv, OneDriverCall, NEW c \in DriverCalls, Withdraw(c)
    PROVE  IInv'
  <1>1. /\ status' = "CANCELLED" /\ stops' = stops /\ total' = total /\ available' = available
        /\ call \in [Workers -> CallState] /\ c \in Workers
    BY IdleIsACall
       DEF IInv, TypeOK, Drafts, Withdraw, CancelTrip, ListBookings, CancelOne, ReleaseCode, AllCancelled, At, tripVars
  <1>2. \A d \in DriverCalls : d = c
    BY DEF OneDriverCall
  <1>3. PICK r \in CallState :
           /\ call' = [call EXCEPT ![c] = r]
           /\ r.at \in {"idle", "list", "cancel", "release"}
           /\ r.at = "release" => r.b \in Bookings
    <2>1. CASE CancelTrip(c)
      <3>1. [Idle EXCEPT !.at = "list"] \in CallState /\ [Idle EXCEPT !.at = "list"].at = "list"
        BY IdleIsACall DEF CallState
      <3> QED
        BY <2>1, <3>1 DEF CancelTrip, Becomes
    <2>2. CASE ListBookings(c)
      <3> DEFINE q == [Idle EXCEPT !.at = "cancel", !.todo = {b \in Bookings : Holds(booking, b)}]
      <3>1. q \in CallState /\ q.at = "cancel"
        BY IdleIsACall DEF CallState
      <3> QED
        BY <2>2, <3>1 DEF ListBookings, Becomes
    <2>3. CASE \E b \in Bookings : CancelOne(c, b)
      <3>1. PICK b \in Bookings : CancelOne(c, b)
        BY <2>3
      <3> DEFINE rest == [call[c] EXCEPT !.todo = @ \ {b}]
                 held == [rest EXCEPT !.at = "release", !.b = b]
      <3>2. call[c] \in CallState /\ call[c].at = "cancel"
        BY <1>1, <3>1 DEF CancelOne, At
      <3>3. rest \in CallState /\ rest.at = "cancel" /\ held \in CallState /\ held.at = "release" /\ held.b = b
        BY <3>2 DEF CallState
      <3>4. call' = [call EXCEPT ![c] = rest] \/ call' = [call EXCEPT ![c] = held]
        BY <3>1 DEF CancelOne, Becomes
      <3> HIDE DEF rest, held
      <3> QED
        BY <3>3, <3>4
    <2>4. CASE ReleaseCode(c)
      <3> DEFINE q == [call[c] EXCEPT !.at = "cancel", !.b = NoBooking]
      <3>1. call[c] \in CallState
        BY <1>1
      <3>2. q \in CallState /\ q.at = "cancel"
        BY <3>1 DEF CallState
      <3> QED
        BY <2>4, <3>2 DEF ReleaseCode, Becomes
    <2>5. CASE AllCancelled(c)
      BY <2>5, IdleIsACall DEF AllCancelled, Return, Becomes
    <2> QED
      BY <2>1, <2>2, <2>3, <2>4, <2>5 DEF Withdraw
  <1>4. /\ call' \in [Workers -> CallState] /\ call'[c] = r
        /\ \A d \in Calls : call'[d] = call[d]
    BY <1>1, <1>3, IdleIsACall
  <1>5. /\ booking' \in [Bookings -> BookingState]
        /\ \A d \in Bookings :
              /\ booking'[d].client = booking[d].client
              /\ booking'[d].status = "ABSENT" <=> booking[d].status = "ABSENT"
        /\ \A d \in Bookings : Holds(booking', d) =>
              {booking'[d].from, booking'[d].to} \subseteq stops \cup {0, Last}
        /\ \A leg \in Legs : Cardinality(AboardIn(booking', leg)) <= total
    <2>1. CASE booking' = booking
      BY <2>1, AboardNow DEF IInv, TypeOK, OnTheRoute, NeverOversold
    <2>2. CASE \E b \in Bookings : Holds(booking, b) /\ booking' = Cancelled(b)
      <3>1. PICK b \in Bookings : Holds(booking, b) /\ booking' = Cancelled(b)
        BY <2>2
      <3> QED
        BY <3>1, CancelledFrees
    <2> QED
      BY <2>1, <2>2 DEF Withdraw, CancelTrip, ListBookings, CancelOne, ReleaseCode, AllCancelled
  <1>6. CodeWithinLimits' /\ used' \in 0..CodeLimit /\ redeemed' \subseteq redeemed
    <2>1. TypeOK /\ CodeWithinLimits /\ \A d \in Bookings : booking'[d].client = booking[d].client
      BY <1>5 DEF IInv
    <2>2. CASE ReleaseCode(c)
      <3>1. call[c].b \in Bookings /\ Release(call[c].b)
        BY <2>2 DEF IInv, Slots, ReleaseCode, At
      <3> QED
        BY <2>1, <3>1, ReleaseKeepsLimits
    <2>3. CASE ~ReleaseCode(c)
      <3>1. UNCHANGED codeVars /\ used' = used /\ redeemed' = redeemed
        BY <2>3 DEF Withdraw, CancelTrip, ListBookings, CancelOne, AllCancelled, codeVars
      <3>2. \A d \in redeemed : booking'[d].client = booking[d].client
        BY <2>1 DEF TypeOK
      <3>3. CodeWithinLimits'
        BY <2>1, <3>1, <3>2, SameCodeKeepsLimits
      <3> QED
        BY <2>1, <3>1, <3>3 DEF TypeOK
    <2> QED
      BY <2>2, <2>3
  <1>7. TypeOK'
    BY <1>1, <1>4, <1>5, <1>6 DEF IInv, TypeOK, TripStatus
  <1>8. Drafts'
    BY <1>1, <1>2, <1>3, <1>4, IdleIsACall DEF IInv, Drafts
  <1>9. Slots'
    <2>1. \A d \in redeemed' : booking'[d].status # "ABSENT"
      BY <1>5, <1>6 DEF IInv, Slots, TypeOK
    <2>2. \A d \in DriverCalls : call'[d].at = "release" => call'[d].b \in Bookings
      BY <1>2, <1>3, <1>4
    <2> QED
      BY <1>4, <1>5, <2>1, <2>2 DEF IInv, Slots
  <1>10. OnTheRoute'
    BY <1>1, <1>4, <1>5 DEF IInv, OnTheRoute
  <1>11. \A leg : Aboard(leg)' = AboardIn(booking', leg)
    BY DEF Aboard, AboardIn
  <1>12. NeverOversold' /\ CounterIsExact'
    BY <1>1, <1>5, <1>11 DEF NeverOversold, CounterIsExact
  <1> QED
    BY <1>6, <1>7, <1>8, <1>9, <1>10, <1>12 DEF IInv

-----------------------------------------------------------------------------
LEMMA StepKeeps == OneDriverCall /\ IInv /\ [Next]_vars => IInv'
  <1> SUFFICES ASSUME OneDriverCall, IInv, [Next]_vars PROVE IInv'
    OBVIOUS
  <1>1. CASE \E c \in DriverCalls : Draw(c)
    BY <1>1, DrawKeeps
  <1>2. CASE \E c \in DriverCalls : Withdraw(c)
    BY <1>2, WithdrawKeeps
  <1>3. CASE \E c \in Calls : BookUnderLock(c)
    BY <1>3, BookUnderLockKeeps
  <1>4. CASE \E c \in Calls : \E b \in Bookings, wish \in Wishes, code \in BOOLEAN : Book(c, b, wish, code)
    BY <1>4, BookKeeps
  <1>5. CASE \E b \in Bookings : ConfirmPayment(b)
    BY <1>5, ConfirmKeeps
  <1>6. CASE \E b \in Bookings :
                \/ ExpireUnpaid(b) \/ CancelByArbiter(b)
                \/ \E fullRefund \in BOOLEAN : CancelByClient(b, fullRefund)
    BY <1>6, BookingKeeps
  <1>7. CASE Depart
    BY <1>7, DepartKeeps
  <1>8. CASE UNCHANGED vars
    <2>1. /\ status' = status /\ stops' = stops /\ total' = total /\ available' = available
          /\ booking' = booking /\ used' = used /\ redeemed' = redeemed /\ call' = call
      BY <1>8 DEF vars, tripVars, codeVars
    <2>2. TypeOK' /\ Drafts' /\ Slots' /\ OnTheRoute'
      BY <2>1 DEF IInv, TypeOK, Drafts, Slots, OnTheRoute, Holds
    <2>3. NeverOversold' /\ CounterIsExact' /\ CodeWithinLimits'
      BY <2>1 DEF IInv, NeverOversold, CounterIsExact, Aboard, CodeWithinLimits, RedeemedBy
    <2> QED
      BY <2>2, <2>3 DEF IInv
  <1> QED
    BY <1>1, <1>2, <1>3, <1>4, <1>5, <1>6, <1>7, <1>8 DEF Next

LEMMA Inductive == OneDriverCall => (Spec => []IInv)
  <1> SUFFICES ASSUME OneDriverCall PROVE Spec => []IInv
    OBVIOUS
  <1>1. IInv /\ [Next]_vars => IInv'
    BY StepKeeps
  <1> QED
    BY <1>1, InitKeeps, PTL DEF Spec

\* Every variable keeps its type: a request of the driver's at a time (TripsService).
THEOREM TypeCorrect == OneDriverCall => (Spec => []TypeOK)
  <1>1. IInv => TypeOK
    BY DEF IInv
  <1> QED
    BY <1>1, Inductive, PTL

\* Whoever books, cancels or pays at the same time, and whatever stops each request read
\* before it had the lock, no leg carries more clients than the trip has seats
\* (BookingsService.create under lockTrip).
THEOREM LegsNeverOversold == OneDriverCall => (Spec => []NeverOversold)
  <1>1. IInv => NeverOversold
    BY DEF IInv
  <1> QED
    BY <1>1, Inductive, PTL

\* What syncTripSeats leaves in trips.availableSeats is exact while the trip is sold.
THEOREM SearchShowsWhatIsLeft == OneDriverCall => (Spec => []CounterIsExact)
  <1>1. IInv => CounterIsExact
    BY DEF IInv
  <1> QED
    BY <1>1, Inductive, PTL

\* A promo code keeps its limits, in all and by client, and its counter says how many
\* bookings hold it (PromoCodesService.redeem and release).
THEOREM CodeKeepsItsLimits == OneDriverCall => (Spec => []CodeWithinLimits)
  <1>1. IInv => CodeWithinLimits
    BY DEF IInv
  <1> QED
    BY <1>1, Inductive, PTL
=============================================================================
