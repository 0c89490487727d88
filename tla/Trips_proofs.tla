---------------------------- MODULE Trips_proofs ----------------------------
(***************************************************************************)
(* For any number of bookings, parcels and concurrent calls: nobody is     *)
(* left on a cancelled trip, a completed trip is settled, and a booking    *)
(* ends once.                                                              *)
(*                                                                         *)
(* A trip is closed to bookings once it has left PUBLISHED, to which       *)
(* nothing leads back, or hours after its departure.  From then on its     *)
(* active bookings only get fewer, so that a call that saw none left may   *)
(* complete or cancel the trip whatever happens before it writes.          *)
(***************************************************************************)
EXTENDS Trips, TLAPS

ClosedTrip(t, l) == l \/ t # "PUBLISHED"

\* What a call may count on when the trip is t, its lateness l and its active
\* bookings are A.
CallOK(r, t, l, A) ==
    /\ r.at = "update" => r.next \notin {"PUBLISHED", "COMPLETED", "CANCELLED"}
    /\ r.at = "book" => ~l
    /\ r.at \in {"noShow", "lookEmpty", "closing", "lookSettled"} => ClosedTrip(t, l)
    /\ r.at = "claim" =>
        /\ r.next \in {"COMPLETED", "CANCELLED"}
        /\ r.then = "list" => r.next = "CANCELLED"
        /\ r.then = "idle" => ClosedTrip(t, l) /\ A = {}

DataOK ==
    /\ trip \in TripStatus /\ late \in BOOLEAN
    /\ reached \in BOOLEAN /\ atPickup \in BOOLEAN
    /\ booking \in [Bookings -> BookingStatus]
    /\ place \in [Bookings -> Place]
    /\ boarded \in [Bookings -> BOOLEAN]
    /\ parcel \in [Parcels -> ParcelState]
    /\ failures \in 0..MaxFailures

CallsOK ==
    /\ call \in [Workers -> CallState]
    /\ \A w \in Workers : CallOK(call[w], trip, late, Active)

IInv == DataOK /\ CallsOK /\ CompletedIsSettled /\ NobodyLeftBehind

-----------------------------------------------------------------------------
LEMMA IdleIsCall ==
    /\ Idle \in CallState /\ Idle.at = "idle"
    /\ \A t, l, A : CallOK(Idle, t, l, A)
  BY DEF Idle, CallState, Location, TripStatus, CallOK

LEMMA InitIInv == Init => IInv
  <1> SUFFICES ASSUME Init PROVE IInv
    OBVIOUS
  <1>1. DataOK
    <2>1. late \in BOOLEAN /\ reached \in BOOLEAN /\ atPickup \in BOOLEAN
      BY Zenon DEF Init
    <2>2. boarded \in [Bookings -> BOOLEAN]
      BY Zenon DEF Init
    <2> QED
      BY <2>1, <2>2, TripsAssumption
         DEF Init, DataOK, TripStatus, BookingStatus, Place, ParcelState
  <1>2. CallsOK
    BY IdleIsCall DEF Init, CallsOK
  <1> QED
    BY <1>1, <1>2 DEF Init, IInv, CompletedIsSettled, NobodyLeftBehind

\* What the other calls count on survives whatever one call does to a closed trip.
LEMMA OthersStayOK ==
    ASSUME IInv, late' = late,
           NEW c \in Workers, NEW r \in CallState, Becomes(c, r),
           ClosedTrip(trip, late) => ClosedTrip(trip', late') /\ Active' \subseteq Active,
           CallOK(r, trip', late', Active')
    PROVE  CallsOK'
  <1>1. call' \in [Workers -> CallState]
    BY DEF IInv, CallsOK, Becomes
  <1>2. ASSUME NEW w \in Workers PROVE CallOK(call'[w], trip', late', Active')
    <2>1. CASE w = c
      BY <2>1 DEF IInv, CallsOK, Becomes
    <2>2. CASE w # c
      BY <2>2 DEF IInv, CallsOK, Becomes, CallOK
    <2> QED
      BY <2>1, <2>2
  <1> QED
    BY <1>1, <1>2 DEF CallsOK

\* The steps that leave the trip's status alone: nothing is lost if the call
\* was not cancelling bookings and no booking becomes active on a closed trip.
LEMMA SameTrip ==
    ASSUME IInv, DataOK', UNCHANGED <<trip, late, failures>>,
           NEW c \in Workers, NEW r \in CallState, Becomes(c, r),
           ~At(c, "list"), ~At(c, "cancelling"),
           ClosedTrip(trip, late) => Active' \subseteq Active,
           CallOK(r, trip, late, Active')
    PROVE  IInv'
  <1>1. CallsOK'
    BY OthersStayOK DEF ClosedTrip
  <1>2. CompletedIsSettled'
    BY DEF IInv, CompletedIsSettled, Settled, ClosedTrip
  <1>3. NobodyLeftBehind'
    <2> SUFFICES ASSUME trip = "CANCELLED", failures = 0, NEW b \in Active'
                 PROVE  \E w \in Workers :
                           (At(w, "list") \/ (At(w, "cancelling") /\ b \in call[w].todo))'
      BY DEF NobodyLeftBehind
    <2>1. b \in Active
      BY DEF ClosedTrip
    <2>2. PICK w \in Workers : At(w, "list") \/ (At(w, "cancelling") /\ b \in call[w].todo)
      BY <2>1 DEF IInv, NobodyLeftBehind
    <2>3. call'[w] = call[w]
      BY <2>2 DEF IInv, CallsOK, Becomes, At
    <2> QED
      BY <2>2, <2>3 DEF At
  <1> QED
    BY <1>1, <1>2, <1>3 DEF IInv

\* Likewise for a step that is no call's.
LEMMA NoCall ==
    ASSUME IInv, DataOK', UNCHANGED <<trip, late, failures, call>>, Active' \subseteq Active
    PROVE  IInv'
  BY DEF IInv, CallsOK, CallOK, CompletedIsSettled, NobodyLeftBehind, Settled, At

-----------------------------------------------------------------------------
(* The calls that read: the data stay as they are.                          *)

dataVars == <<trip, late, stopVars, bookingVars, parcel, failures>>

LEMMA Reads ==
    ASSUME IInv, UNCHANGED dataVars,
           NEW c \in Workers, NEW r \in CallState, Becomes(c, r),
           ~At(c, "list"), ~At(c, "cancelling"),
           CallOK(r, trip, late, Active)
    PROVE  IInv'
  <1>1. DataOK'
    BY DEF IInv, DataOK, dataVars, stopVars, bookingVars
  <1>2. Active' = Active
    BY DEF Active, dataVars, bookingVars
  <1> QED
    BY <1>1, <1>2, SameTrip DEF dataVars

LEMMA Begins ==
    ASSUME IInv, UNCHANGED dataVars,
           NEW c \in Workers, NEW where \in Location \ {"update", "claim"},
           NEW item \in Bookings \cup Parcels \cup {Nothing}, Begin(c, where, item),
           where = "book" => ~late,
           where \in {"noShow", "lookEmpty", "closing", "lookSettled"} => ClosedTrip(trip, late)
    PROVE  IInv'
  <1> DEFINE r == [Idle EXCEPT !.at = where, !.item = item]
  <1>1. r \in CallState /\ r.at = where
    BY DEF Idle, CallState, TripStatus
  <1>2. Becomes(c, r) /\ At(c, "idle")
    BY DEF Begin
  <1> HIDE DEF r
  <1>3. CallOK(r, trip, late, Active)
    BY <1>1 DEF CallOK
  <1> QED
    BY <1>1, <1>2, <1>3, Reads DEF At

LEMMA UpdatesNext ==
    ASSUME IInv, UNCHANGED dataVars,
           NEW c \in Workers, NEW next \in TripStatus \ {"PUBLISHED", "COMPLETED", "CANCELLED"},
           At(c, "idle"), UpdateNext(c, next)
    PROVE  IInv'
  <1> DEFINE r == [Idle EXCEPT !.at = "update", !.next = next]
  <1>1. r \in CallState /\ r.at = "update" /\ r.next = next
    BY DEF Idle, CallState, Location
  <1>2. Becomes(c, r)
    BY DEF UpdateNext
  <1> HIDE DEF r
  <1>3. CallOK(r, trip, late, Active)
    BY <1>1 DEF CallOK
  <1> QED
    BY <1>1, <1>2, <1>3, Reads DEF At

LEMMA ClaimsNext ==
    ASSUME IInv, UNCHANGED dataVars,
           NEW c \in Workers, NEW from \in SUBSET TripStatus,
           NEW next \in {"COMPLETED", "CANCELLED"}, NEW then \in {"idle", "list"},
           ~At(c, "list"), ~At(c, "cancelling"), ClaimNext(c, from, next, then),
           then = "list" => next = "CANCELLED",
           then = "idle" => ClosedTrip(trip, late) /\ Active = {}
    PROVE  IInv'
  <1> DEFINE r == [Idle EXCEPT !.at = "claim", !.from = from, !.next = next, !.then = then]
  <1>1. r \in CallState /\ r.at = "claim" /\ r.next = next /\ r.then = then
    BY DEF Idle, CallState, Location, TripStatus
  <1>2. Becomes(c, r)
    BY DEF ClaimNext
  <1> HIDE DEF r
  <1>3. CallOK(r, trip, late, Active)
    BY <1>1 DEF CallOK
  <1> QED
    BY <1>1, <1>2, <1>3, Reads

LEMMA DriverStartsIInv ==
    ASSUME IInv, NEW c \in Workers, DriverStarts(c)
    PROVE  IInv'
  <1>1. CASE MarkDriverArrived(c)
    BY <1>1, UpdatesNext DEF MarkDriverArrived, dataVars, TripStatus
  <1>2. CASE StartTrip(c)
    BY <1>2, UpdatesNext DEF StartTrip, dataVars, TripStatus
  <1>3. CASE MarkArrived(c)
    BY <1>3, UpdatesNext DEF MarkArrived, dataVars, TripStatus
  <1>4. CASE CompleteTrip(c)
    <2>1. {"ARRIVED"} \in SUBSET TripStatus
      BY DEF TripStatus
    <2> QED
      BY <1>4, <2>1, ClaimsNext DEF CompleteTrip, dataVars, Settled, ClosedTrip, At
  <1>5. CASE CancelTrip(c)
    <2>1. NotStarted \in SUBSET TripStatus
      BY DEF TripStatus, NotStarted
    <2> QED
      BY <1>5, <2>1, ClaimsNext DEF CancelTrip, dataVars, At
  <1>6. ASSUME NEW b \in Bookings, DeclareNoShow(c, b) PROVE IInv'
    BY <1>6, Begins DEF DeclareNoShow, dataVars, Location, ClosedTrip
  <1>7. ASSUME NEW b \in Bookings, NEW bySupport \in BOOLEAN, PickUp(c, b, bySupport)
        PROVE  IInv'
    <2> DEFINE r == [Idle EXCEPT !.at = "pickup", !.item = b, !.next = trip]
    <2>1. r \in CallState /\ r.at = "pickup"
      BY DEF Idle, CallState, Location, IInv, DataOK
    <2>2. Becomes(c, r) /\ At(c, "idle")
      BY <1>7 DEF PickUp
    <2> HIDE DEF r
    <2>3. CallOK(r, trip, late, Active)
      BY <2>1 DEF CallOK
    <2> QED
      BY <1>7, <2>1, <2>2, <2>3, Reads DEF PickUp, dataVars, At
  <1>8. ASSUME NEW b \in Bookings, NEW bySupport \in BOOLEAN, DropOff(c, b, bySupport)
        PROVE  IInv'
    BY <1>8, Begins DEF DropOff, dataVars, Location
  <1>9. ASSUME NEW s \in Parcels, Accept(c, s) PROVE IInv'
    BY <1>9, Begins DEF Accept, dataVars, Location
  <1> QED
    BY <1>1, <1>2, <1>3, <1>4, <1>5, <1>6, <1>7, <1>8, <1>9 DEF DriverStarts

LEMMA ClientStartsIInv ==
    ASSUME IInv, NEW c \in Workers, ClientStarts(c)
    PROVE  IInv'
  <1>1. CASE Book(c)
    BY <1>1, Begins DEF Book, dataVars, Location
  <1>2. ASSUME NEW b \in Bookings, CancelByClient(c, b) PROVE IInv'
    BY <1>2, Begins DEF CancelByClient, dataVars, Location
  <1>3. ASSUME NEW s \in Parcels, Order(c, s) PROVE IInv'
    BY <1>3, Begins DEF Order, dataVars, Location
  <1> QED
    BY <1>1, <1>2, <1>3 DEF ClientStarts

-----------------------------------------------------------------------------
(* The calls that write.                                                    *)

LEMMA UpdateTripIInv ==
    ASSUME IInv, NEW c \in Workers, UpdateTrip(c)
    PROVE  IInv'
  <1>1. trip' \in TripStatus \ {"PUBLISHED", "COMPLETED", "CANCELLED"}
    BY DEF UpdateTrip, At, IInv, CallsOK, CallOK, CallState
  <1>2. DataOK'
    BY <1>1 DEF UpdateTrip, IInv, DataOK, stopVars, bookingVars
  <1>3. Active' = Active
    BY DEF UpdateTrip, Active, bookingVars
  <1>4. CallsOK'
    BY <1>1, <1>3, IdleIsCall, OthersStayOK DEF UpdateTrip, Return, ClosedTrip
  <1> QED
    BY <1>1, <1>2, <1>4 DEF IInv, CompletedIsSettled, NobodyLeftBehind

LEMMA ClaimTripIInv ==
    ASSUME IInv, NEW c \in Workers, ClaimTrip(c)
    PROVE  IInv'
  <1>1. Active' = Active
    BY DEF ClaimTrip, Active, bookingVars
  <1>2. CASE trip \notin call[c].from
    <2>1. DataOK'
      BY <1>2 DEF ClaimTrip, IInv, DataOK, stopVars, bookingVars
    <2> QED
      BY <1>1, <1>2, <2>1, IdleIsCall, SameTrip DEF ClaimTrip, Return, At
  <1>3. CASE trip \in call[c].from
    <2> DEFINE r == [Idle EXCEPT !.at = call[c].then]
    <2>1. /\ trip' = call[c].next /\ trip' \in {"COMPLETED", "CANCELLED"}
          /\ call[c].then \in {"idle", "list"}
          /\ call[c].then = "list" => trip' = "CANCELLED"
          /\ call[c].then = "idle" => Active = {}
      BY <1>3 DEF ClaimTrip, At, IInv, CallsOK, CallOK, CallState
    <2>2. r \in CallState /\ r.at = call[c].then
      BY <2>1 DEF Idle, CallState, Location, TripStatus
    <2>3. Becomes(c, r)
      BY <1>3 DEF ClaimTrip
    <2> HIDE DEF r
    <2>4. CallOK(r, trip', late', Active')
      BY <2>1, <2>2 DEF CallOK
    <2>5. CallsOK'
      BY <1>1, <2>1, <2>2, <2>3, <2>4, OthersStayOK DEF ClaimTrip, ClosedTrip
    <2>6. DataOK'
      BY <2>1 DEF ClaimTrip, IInv, DataOK, stopVars, bookingVars, TripStatus
    <2>7. CASE call[c].then = "idle"
      BY <1>1, <2>1, <2>5, <2>6, <2>7
         DEF IInv, CompletedIsSettled, NobodyLeftBehind, Settled
    <2>8. CASE call[c].then = "list"
      <3>1. At(c, "list")'
        BY <2>2, <2>3, <2>8 DEF At, Becomes, IInv, CallsOK
      <3> QED
        BY <2>1, <2>5, <2>6, <2>8, <3>1 DEF IInv, CompletedIsSettled, NobodyLeftBehind
    <2> QED
      BY <2>1, <2>7, <2>8
  <1> QED
    BY <1>2, <1>3

\* A cancelled trip's bookings go from the list to todo, and leave todo cancelled.
LEMMA CancellingIInv ==
    ASSUME IInv, NEW c \in Workers, NEW r \in CallState, Becomes(c, r), DataOK',
           UNCHANGED <<trip, late, failures>>,
           Active' \subseteq Active,
           CallOK(r, trip, late, Active'),
           At(c, "list") => r.at = "cancelling" /\ Active' \subseteq r.todo,
           At(c, "cancelling") => \/ call[c].todo \cap Active' = {}
                                  \/ /\ r.at = "cancelling"
                                     /\ call[c].todo \cap Active' \subseteq r.todo
    PROVE  IInv'
  <1>1. CallsOK'
    BY OthersStayOK DEF ClosedTrip
  <1>2. CompletedIsSettled'
    BY DEF IInv, CompletedIsSettled, Settled
  <1>3. NobodyLeftBehind'
    <2> SUFFICES ASSUME trip = "CANCELLED", failures = 0, NEW b \in Active'
                 PROVE  \E w \in Workers :
                           (At(w, "list") \/ (At(w, "cancelling") /\ b \in call[w].todo))'
      BY DEF NobodyLeftBehind
    <2>1. PICK w \in Workers : At(w, "list") \/ (At(w, "cancelling") /\ b \in call[w].todo)
      BY DEF IInv, NobodyLeftBehind
    <2>2. CASE w = c
      BY <2>1, <2>2 DEF IInv, CallsOK, Becomes, At
    <2>3. CASE w # c
      BY <2>1, <2>3 DEF IInv, CallsOK, Becomes, At
    <2> QED
      BY <2>2, <2>3
  <1> QED
    BY <1>1, <1>2, <1>3 DEF IInv

LEMMA ListBookingsIInv ==
    ASSUME IInv, NEW c \in Workers, ListBookings(c)
    PROVE  IInv'
  <1> DEFINE r == [Idle EXCEPT !.at = "cancelling", !.todo = Active]
  <1>1. r \in CallState /\ r.at = "cancelling" /\ r.todo = Active
    BY DEF Idle, CallState, Location, TripStatus, Active
  <1>2. Becomes(c, r) /\ At(c, "list")
    BY DEF ListBookings
  <1> HIDE DEF r
  <1>3. CallOK(r, trip, late, Active')
    BY <1>1 DEF CallOK
  <1>4. DataOK' /\ Active' = Active
    BY DEF ListBookings, IInv, DataOK, stopVars, bookingVars, Active
  <1> QED
    BY <1>1, <1>2, <1>3, <1>4, CancellingIInv DEF ListBookings, At

LEMMA CancelBookingsIInv ==
    ASSUME IInv, NEW c \in Workers, CancelBookings(c)
    PROVE  IInv'
  <1>1. CASE call[c].todo = {}
    <2>1. DataOK' /\ Active' = Active
      BY <1>1 DEF CancelBookings, IInv, DataOK, stopVars, bookingVars, Active
    <2> QED
      BY <1>1, <2>1, IdleIsCall, CancellingIInv DEF CancelBookings, Return, At
  <1>2. CASE call[c].todo # {}
    <2>1. PICK b \in call[c].todo :
            /\ booking' = [booking EXCEPT ![b] = IF b \in Active THEN "CANCELLED" ELSE @]
            /\ call' = [call EXCEPT ![c].todo = @ \ {b}]
      BY <1>2 DEF CancelBookings
    <2>2. b \in Bookings /\ call[c].todo \subseteq Bookings
      BY DEF IInv, CallsOK, CallState
    <2>3. Active' = Active \ {b}
      BY <2>1, <2>2 DEF Active, IInv, DataOK
    <2>4. DataOK'
      BY <2>1, <2>2 DEF CancelBookings, IInv, DataOK, BookingStatus, stopVars
    <2> DEFINE r == [call[c] EXCEPT !.todo = @ \ {b}]
    <2>5. r \in CallState /\ r.at = "cancelling" /\ r.todo = call[c].todo \ {b}
      BY DEF IInv, CallsOK, CallState, CancelBookings, At
    <2>6. Becomes(c, r)
      BY <2>1 DEF Becomes
    <2> HIDE DEF r
    <2>7. CallOK(r, trip, late, Active')
      BY <2>5 DEF CallOK
    <2> QED
      BY <2>3, <2>4, <2>5, <2>6, <2>7, CancellingIInv DEF CancelBookings, At
  <1> QED
    BY <1>1, <1>2

LEMMA BookIInv ==
    ASSUME IInv, NEW c \in Workers, BookUnderLock(c)
    PROVE  IInv'
  <1>1. CASE UNCHANGED <<booking, place>>
    <2>1. DataOK' /\ Active' = Active
      BY <1>1 DEF BookUnderLock, IInv, DataOK, stopVars, Active
    <2> QED
      BY <2>1, IdleIsCall, SameTrip DEF BookUnderLock, Return, At
  <1>2. CASE trip = "PUBLISHED" /\ ~UNCHANGED <<booking, place>>
    <2>1. PICK b \in Bookings, p \in Place :
            /\ booking' = [booking EXCEPT ![b] = "PENDING_PAYMENT"]
            /\ place' = [place EXCEPT ![b] = p]
      BY <1>2 DEF BookUnderLock
    <2>2. DataOK'
      BY <2>1 DEF BookUnderLock, IInv, DataOK, BookingStatus, stopVars
    <2>3. ~ClosedTrip(trip, late)
      BY <1>2 DEF BookUnderLock, IInv, CallsOK, CallOK, At, ClosedTrip
    <2> QED
      BY <2>2, <2>3, IdleIsCall, SameTrip DEF BookUnderLock, Return, At
  <1> QED
    BY <1>1, <1>2 DEF BookUnderLock

\* The four ways a call closes a booking that is still open.
LEMMA ClosingIInv ==
    ASSUME IInv, NEW c \in Workers,
           \/ ClaimToLeave(c) \/ MarkDroppedOff(c) \/ CloseAsNoShow(c) \/ CloseBookings(c)
    PROVE  IInv'
  <1>1. CASE ClaimToLeave(c)
    <2>1. DataOK' /\ Active' \subseteq Active
      BY <1>1 DEF ClaimToLeave, IInv, DataOK, BookingStatus, Active, stopVars
    <2> QED
      BY <1>1, <2>1, IdleIsCall, SameTrip DEF ClaimToLeave, Return, At
  <1>2. CASE MarkDroppedOff(c)
    <2>1. DataOK' /\ Active' \subseteq Active
      BY <1>2 DEF MarkDroppedOff, IInv, DataOK, BookingStatus, Active, stopVars
    <2> QED
      BY <1>2, <2>1, IdleIsCall, SameTrip DEF MarkDroppedOff, Return, At
  <1>3. CASE CloseAsNoShow(c)
    <2>1. DataOK' /\ Active' \subseteq Active
      BY <1>3 DEF CloseAsNoShow, IInv, DataOK, BookingStatus, Active, stopVars
    <2>2. CASE Return(c)
      BY <1>3, <2>1, <2>2, IdleIsCall, SameTrip DEF CloseAsNoShow, Return, At
    <2>3. CASE Becomes(c, [Idle EXCEPT !.at = "lookEmpty"])
      <3> DEFINE r == [Idle EXCEPT !.at = "lookEmpty"]
      <3>1. r \in CallState /\ r.at = "lookEmpty"
        BY DEF Idle, CallState, Location, TripStatus
      <3>2. Becomes(c, r)
        BY <2>3
      <3> HIDE DEF r
      <3>3. ClosedTrip(trip, late)
        BY <1>3 DEF CloseAsNoShow, At, IInv, CallsOK, CallOK
      <3>4. CallOK(r, trip, late, Active')
        BY <3>1, <3>3 DEF CallOK
      <3> QED
        BY <1>3, <2>1, <3>1, <3>2, <3>4, SameTrip DEF CloseAsNoShow, At
    <2> QED
      BY <1>3, <2>2, <2>3 DEF CloseAsNoShow
  <1>4. CASE CloseBookings(c)
    <2>1. ClosedTrip(trip, late)
      BY <1>4 DEF CloseBookings, At, IInv, CallsOK, CallOK
    <2>2. PICK r \in CallState : Becomes(c, r) /\ r.at \in {"closing", "lookSettled"}
      <3>1. CASE call[c].todo = {}
        <4> DEFINE r == [Idle EXCEPT !.at = "lookSettled", !.from = call[c].from]
        <4>1. r \in CallState /\ r.at = "lookSettled"
          BY DEF Idle, CallState, Location, TripStatus, IInv, CallsOK
        <4>2. Becomes(c, r)
          BY <1>4, <3>1 DEF CloseBookings
        <4> HIDE DEF r
        <4> QED
          BY <4>1, <4>2
      <3>2. CASE call[c].todo # {}
        <4>1. PICK b \in call[c].todo :
                call' = [call EXCEPT ![c].todo = @ \ {b}, ![c].aboard = @ \ {b}]
          BY <1>4, <3>2 DEF CloseBookings
        <4> DEFINE r == [call[c] EXCEPT !.todo = @ \ {b}, !.aboard = @ \ {b}]
        <4>2. r \in CallState /\ r.at = "closing"
          <5>1. call[c] \in CallState /\ call[c].at = "closing"
            BY <1>4 DEF IInv, CallsOK, CloseBookings, At
          <5>2. call[c].todo \ {b} \in SUBSET Bookings
                /\ call[c].aboard \ {b} \in SUBSET Bookings
            BY <5>1 DEF CallState
          <5>3. \A k \in CallState, A, B \in SUBSET Bookings :
                  /\ [k EXCEPT !.todo = A, !.aboard = B] \in CallState
                  /\ [k EXCEPT !.todo = A, !.aboard = B].at = k.at
            BY DEF CallState
          <5> QED
            BY <5>1, <5>2, <5>3
        <4>3. Becomes(c, r)
          BY <4>1 DEF Becomes
        <4> HIDE DEF r
        <4> QED
          BY <4>2, <4>3
      <3> QED
        BY <3>1, <3>2
    <2>3. CallOK(r, trip, late, Active')
      BY <2>1, <2>2 DEF CallOK
    <2>4. DataOK' /\ Active' \subseteq Active
      BY <1>4 DEF CloseBookings, IInv, DataOK, BookingStatus, Active, Confirmed, stopVars
    <2> QED
      BY <1>4, <2>2, <2>3, <2>4, SameTrip DEF CloseBookings, At
  <1> QED
    BY <1>1, <1>2, <1>3, <1>4

LEMMA PickupIInv ==
    ASSUME IInv, NEW c \in Workers, MarkPickedUp(c)
    PROVE  IInv'
  <1>1. DataOK' /\ Active' = Active
    <2>1. boarded' \in [Bookings -> BOOLEAN]
      BY DEF MarkPickedUp, IInv, DataOK
    <2> QED
      BY <2>1 DEF MarkPickedUp, IInv, DataOK, Active, stopVars
  <1>2. CASE Return(c)
    BY <1>1, <1>2, IdleIsCall, SameTrip DEF MarkPickedUp, Return, At
  <1>3. CASE UpdateNext(c, "PASSENGER_PICKED_UP")
    <2> DEFINE r == [Idle EXCEPT !.at = "update", !.next = "PASSENGER_PICKED_UP"]
    <2>1. r \in CallState /\ r.at = "update" /\ r.next = "PASSENGER_PICKED_UP"
      BY DEF Idle, CallState, Location, TripStatus
    <2>2. Becomes(c, r)
      BY <1>3 DEF UpdateNext
    <2> HIDE DEF r
    <2>3. CallOK(r, trip, late, Active)
      BY <2>1 DEF CallOK
    <2> QED
      BY <1>1, <2>1, <2>2, <2>3, SameTrip DEF MarkPickedUp, At
  <1> QED
    BY <1>2, <1>3 DEF MarkPickedUp

LEMMA ParcelIInv ==
    ASSUME IInv, NEW c \in Workers, TakeParcel(c)
    PROVE  IInv'
  <1>1. DataOK' /\ Active' = Active
    BY DEF TakeParcel, IInv, DataOK, ParcelState, Active, stopVars, bookingVars
  <1> QED
    BY <1>1, IdleIsCall, SameTrip DEF TakeParcel, Return, At

\* A call that looked and found nothing left claims the trip, or gives up.
LEMMA LookingIInv ==
    ASSUME IInv, NEW c \in Workers, CloseIfNobodyBoarded(c) \/ CompleteIfSettled(c)
    PROVE  IInv'
  <1>1. ClosedTrip(trip, late) /\ ~At(c, "list") /\ ~At(c, "cancelling")
    BY DEF CloseIfNobodyBoarded, CompleteIfSettled, At, IInv, CallsOK, CallOK
  <1>2. UNCHANGED dataVars
    BY DEF CloseIfNobodyBoarded, CompleteIfSettled, dataVars
  <1>3. CASE Return(c)
    BY <1>1, <1>2, <1>3, IdleIsCall, Reads DEF Return
  <1>4. CASE CloseIfNobodyBoarded(c) /\ ~Return(c)
    <2>1. Active = {} /\ ClaimNext(c, {"DRIVER_ARRIVED"}, "CANCELLED", "idle")
      BY <1>4 DEF CloseIfNobodyBoarded, Active
    <2>2. {"DRIVER_ARRIVED"} \in SUBSET TripStatus
      BY DEF TripStatus
    <2> QED
      BY <1>1, <1>2, <2>1, <2>2, ClaimsNext
  <1>5. CASE CompleteIfSettled(c) /\ ~Return(c)
    <2>1. Active = {} /\ ClaimNext(c, call[c].from, "COMPLETED", "idle")
      BY <1>5 DEF CompleteIfSettled, Settled
    <2>2. call[c].from \in SUBSET TripStatus
      BY DEF IInv, CallsOK, CallState
    <2> QED
      BY <1>1, <1>2, <2>1, <2>2, ClaimsNext
  <1> QED
    BY <1>3, <1>4, <1>5

LEMMA ContinueIInv ==
    ASSUME IInv, NEW c \in Workers, Continue(c)
    PROVE  IInv'
  BY UpdateTripIInv, ClaimTripIInv, ListBookingsIInv, CancelBookingsIInv, BookIInv,
     ClosingIInv, PickupIInv, ParcelIInv, LookingIInv
     DEF Continue

\* A call that stops halfway may leave bookings behind: from then on
\* NobodyLeftBehind says nothing.
LEMMA StopIInv ==
    ASSUME IInv, NEW c \in Workers, StopHalfway(c)
    PROVE  IInv'
  <1>1. DataOK' /\ failures' # 0
    BY TripsAssumption DEF StopHalfway, IInv, DataOK, stopVars, bookingVars
  <1>2. Active' = Active /\ UNCHANGED <<trip, late>>
    BY DEF StopHalfway, Active, bookingVars
  <1>3. CallsOK'
    BY <1>2, IdleIsCall, OthersStayOK DEF StopHalfway, Return
  <1> QED
    BY <1>1, <1>2, <1>3 DEF IInv, CompletedIsSettled, NobodyLeftBehind, Settled

-----------------------------------------------------------------------------
(* The jobs' reads, and the steps that are no call's.                       *)

LEMMA JobsIInv ==
    ASSUME IInv, ExpireStale \/ CancelAbandoned \/ CloseStuckTrip
    PROVE  IInv'
  <1>1. ExpiryJob \in Workers /\ CompletionJob \in Workers
    BY DEF Workers
  <1>2. NotStarted \in SUBSET TripStatus
    BY DEF NotStarted, TripStatus
  <1>3. CASE ExpireStale
    BY <1>1, <1>2, <1>3, ClaimsNext DEF ExpireStale, dataVars, ClosedTrip, At
  <1>4. CASE CancelAbandoned
    BY <1>1, <1>2, <1>4, ClaimsNext DEF CancelAbandoned, dataVars, At
  <1>5. CASE CloseStuckTrip
    <2>1. PICK from \in {{"ARRIVED"}, OnTheRoad} :
            /\ trip \in from
            /\ Becomes(CompletionJob,
                       [Idle EXCEPT !.at = "closing", !.from = from, !.todo = Confirmed,
                                    !.aboard = {b \in Confirmed : boarded[b]}])
      BY <1>5 DEF CloseStuckTrip
    <2> DEFINE r == [Idle EXCEPT !.at = "closing", !.from = from, !.todo = Confirmed,
                                 !.aboard = {b \in Confirmed : boarded[b]}]
    <2>2. Confirmed \subseteq Bookings /\ {b \in Confirmed : boarded[b]} \subseteq Bookings
      BY DEF Confirmed
    <2>3. from \in SUBSET TripStatus /\ trip # "PUBLISHED"
      BY <2>1 DEF OnTheRoad, TripStatus
    <2>4. r \in CallState /\ r.at = "closing"
      BY <2>2, <2>3 DEF Idle, CallState, Location, TripStatus
    <2>5. Becomes(CompletionJob, r)
      BY <2>1
    <2> HIDE DEF r
    <2>6. CallOK(r, trip, late, Active)
      BY <2>3, <2>4 DEF CallOK, ClosedTrip
    <2> QED
      BY <1>1, <1>5, <2>4, <2>5, <2>6, Reads DEF CloseStuckTrip, dataVars, At
  <1> QED
    BY <1>3, <1>4, <1>5

LEMMA OthersIInv ==
    ASSUME IInv,
           \/ \E b \in Bookings : ConfirmPayment(b) \/ ExpireUnpaid(b) \/ CancelByArbiter(b)
           \/ \E s \in Parcels : ConfirmParcelPayment(s) \/ ParcelLeaves(s)
           \/ MarkArrivedAtStop \/ MarkArrivedAtPickup
    PROVE  IInv'
  <1>1. ASSUME NEW b \in Bookings,
               ConfirmPayment(b) \/ ExpireUnpaid(b) \/ CancelByArbiter(b)
        PROVE  IInv'
    <2>1. DataOK' /\ Active' \subseteq Active
      BY <1>1 DEF ConfirmPayment, ExpireUnpaid, CancelByArbiter, IInv, DataOK, BookingStatus,
                  Active, stopVars
    <2> QED
      BY <1>1, <2>1, NoCall DEF ConfirmPayment, ExpireUnpaid, CancelByArbiter
  <1>2. ASSUME NEW s \in Parcels, ConfirmParcelPayment(s) \/ ParcelLeaves(s) PROVE IInv'
    <2>1. DataOK' /\ Active' = Active
      BY <1>2 DEF ConfirmParcelPayment, ParcelLeaves, IInv, DataOK, ParcelState,
                  Active, stopVars, bookingVars
    <2> QED
      BY <1>2, <2>1, NoCall DEF ConfirmParcelPayment, ParcelLeaves
  <1>3. CASE MarkArrivedAtStop
    <2>1. reached' \in BOOLEAN /\ atPickup' \in BOOLEAN
      BY <1>3, Zenon DEF MarkArrivedAtStop, IInv, DataOK
    <2>2. DataOK' /\ Active' = Active
      BY <1>3, <2>1 DEF MarkArrivedAtStop, IInv, DataOK, Active, bookingVars
    <2> QED
      BY <1>3, <2>2, NoCall DEF MarkArrivedAtStop
  <1>4. CASE MarkArrivedAtPickup
    <2>1. DataOK' /\ Active' = Active
      BY <1>4 DEF MarkArrivedAtPickup, IInv, DataOK, Active, bookingVars
    <2> QED
      BY <1>4, <2>1, NoCall DEF MarkArrivedAtPickup
  <1> QED
    BY <1>1, <1>2, <1>3, <1>4

LEMMA TimeIInv ==
    ASSUME IInv, TimePasses
    PROVE  IInv'
  <1>1. DataOK' /\ Active' = Active
    BY DEF TimePasses, IInv, DataOK, Active, stopVars, bookingVars
  <1>2. CallsOK'
    BY <1>1 DEF TimePasses, IInv, CallsOK, CallOK, ClosedTrip, At
  <1> QED
    BY <1>1, <1>2 DEF TimePasses, IInv, CompletedIsSettled, NobodyLeftBehind, Settled, At

LEMMA NextIInv == IInv /\ [Next]_vars => IInv'
  <1> SUFFICES ASSUME IInv, [Next]_vars PROVE IInv'
    OBVIOUS
  <1>1. ASSUME NEW c \in DriverCalls, DriverStarts(c) PROVE IInv'
    BY <1>1, DriverStartsIInv DEF Workers
  <1>2. ASSUME NEW c \in ClientCalls, ClientStarts(c) PROVE IInv'
    BY <1>2, ClientStartsIInv DEF Workers
  <1>3. ASSUME NEW c \in Workers, Continue(c) \/ StopHalfway(c) PROVE IInv'
    BY <1>3, ContinueIInv, StopIInv
  <1>4. CASE UNCHANGED vars
    <2>1. DataOK' /\ Active' = Active
      BY <1>4 DEF vars, stopVars, bookingVars, IInv, DataOK, Active
    <2> QED
      BY <1>4, <2>1, NoCall DEF vars
  <1> QED
    BY <1>1, <1>2, <1>3, <1>4, OthersIInv, JobsIInv, TimeIInv DEF Next

-----------------------------------------------------------------------------
\* The inductive invariant holds in every state the trip can reach.
THEOREM Invariance == Spec => []IInv
  BY InitIInv, NextIInv, PTL DEF Spec

\* Every variable keeps its type.
THEOREM TypeCorrect == Spec => []TypeOK
  <1>1. IInv => TypeOK
    BY DEF IInv, DataOK, CallsOK, TypeOK
  <1> QED
    BY <1>1, Invariance, PTL

\* Whoever cancels the trip, no client keeps a place on it, unless the call
\* that cancelled it stopped halfway.
THEOREM NobodyIsLeftBehind == Spec => []NobodyLeftBehind
  <1>1. IInv => NobodyLeftBehind
    BY DEF IInv
  <1> QED
    BY <1>1, Invariance, PTL

\* By hand or automatically, only a trip without open bookings is completed.
THEOREM CompletedTripIsSettled == Spec => []CompletedIsSettled
  <1>1. IInv => CompletedIsSettled
    BY DEF IInv
  <1> QED
    BY <1>1, Invariance, PTL

\* Every write of a booking's status looks at the status it replaces.
THEOREM BookingsEndOnce == Spec => BookingEndsOnce
  <1> DEFINE EndsOnce ==
        \A b \in Bookings :
          booking[b] \in {"COMPLETED", "CANCELLED"} =>
             booking'[b] = booking[b] \/ CancelByArbiter(b)
  <1>1. IInv /\ [Next]_vars => [EndsOnce]_vars
    <2> SUFFICES ASSUME IInv, Next, NEW b \in Bookings,
                        booking[b] \in {"COMPLETED", "CANCELLED"}
                 PROVE  booking'[b] = booking[b] \/ CancelByArbiter(b)
      BY DEF vars, bookingVars
    <2>1. booking \in [Bookings -> BookingStatus] /\ b \notin Active /\ b \notin Confirmed
      BY DEF IInv, DataOK, Active, Confirmed
    <2>2. ASSUME NEW c \in DriverCalls, DriverStarts(c) PROVE booking' = booking
      BY <2>2 DEF DriverStarts, MarkDriverArrived, StartTrip, MarkArrived, CompleteTrip,
                  CancelTrip, DeclareNoShow, PickUp, DropOff, Accept, bookingVars
    <2>3. ASSUME NEW c \in ClientCalls, ClientStarts(c) PROVE booking' = booking
      BY <2>3 DEF ClientStarts, Book, CancelByClient, Order, bookingVars
    <2>4. ASSUME NEW c \in Workers, Continue(c) PROVE booking'[b] = booking[b]
      <3>1. CASE CancelBookings(c)
        BY <2>1, <3>1 DEF CancelBookings
      <3>2. CASE BookUnderLock(c)
        BY <2>1, <3>2 DEF BookUnderLock
      <3>3. CASE ClaimToLeave(c) \/ MarkDroppedOff(c) \/ CloseAsNoShow(c)
        BY <2>1, <3>3 DEF ClaimToLeave, MarkDroppedOff, CloseAsNoShow
      <3>4. CASE CloseBookings(c)
        BY <2>1, <3>4 DEF CloseBookings
      <3>5. CASE UNCHANGED booking
        BY <3>5
      <3>6. \/ UpdateTrip(c) \/ ClaimTrip(c) \/ ListBookings(c) \/ MarkPickedUp(c)
            \/ CloseIfNobodyBoarded(c) \/ TakeParcel(c) \/ CompleteIfSettled(c)
            => UNCHANGED booking
        BY DEF UpdateTrip, ClaimTrip, ListBookings, MarkPickedUp, CloseIfNobodyBoarded,
               TakeParcel, CompleteIfSettled, bookingVars
      <3> QED
        BY <2>4, <3>1, <3>2, <3>3, <3>4, <3>5, <3>6 DEF Continue
    <2>5. ASSUME NEW c \in Workers, StopHalfway(c) PROVE booking' = booking
      BY <2>5 DEF StopHalfway, bookingVars
    <2>6. ASSUME NEW a \in Bookings, ConfirmPayment(a) \/ ExpireUnpaid(a) \/ CancelByArbiter(a)
          PROVE  booking'[b] = booking[b] \/ CancelByArbiter(b)
      BY <2>1, <2>6 DEF ConfirmPayment, ExpireUnpaid, CancelByArbiter
    <2>7. ASSUME \/ \E s \in Parcels : ConfirmParcelPayment(s) \/ ParcelLeaves(s)
                 \/ MarkArrivedAtStop \/ MarkArrivedAtPickup
                 \/ ExpireStale \/ CancelAbandoned \/ CloseStuckTrip \/ TimePasses
          PROVE  booking' = booking
      BY <2>7 DEF ConfirmParcelPayment, ParcelLeaves, MarkArrivedAtStop,
                  MarkArrivedAtPickup, ExpireStale, CancelAbandoned, CloseStuckTrip,
                  TimePasses, bookingVars
    <2> QED
      BY <2>2, <2>3, <2>4, <2>5, <2>6, <2>7 DEF Next
  <1> QED
    BY <1>1, Invariance, PTL DEF Spec, BookingEndsOnce
=============================================================================
