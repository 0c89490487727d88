-------------------------------- MODULE Trips --------------------------------
(***************************************************************************)
(* One published trip with its bookings and the parcels it carries:        *)
(* TripsService (trips/trips.service.ts), the pickup and drop-off of       *)
(* TripOtpService, the no-show and the automatic closing of                *)
(* TripCompletionService, TripExpiryService, and what BookingsService and  *)
(* ShipmentsService do to them.  Money is in Payments.tla.                 *)
(*                                                                         *)
(* A call reads in one step and writes in the next.  An update by id       *)
(* ("update") looks at nothing; a conditional one ("claim") looks at the   *)
(* trip's own status again, but at bookings and parcels only as they were  *)
(* when its statement began: PostgreSQL re-evaluates a blocked UPDATE on   *)
(* the new version of its row, with the subqueries of its old snapshot.    *)
(***************************************************************************)
EXTENDS Naturals

CONSTANTS
    Bookings,       \* the bookings that may be made
    Parcels,        \* the parcels the trip may have at once
    DriverCalls,    \* concurrent routes of the driver, and of the support
    ClientCalls,    \* concurrent routes of the clients
    ExpiryJob,      \* TripExpiryService
    CompletionJob,  \* TripCompletionService
    Nothing,        \* "no booking or parcel" in a call's record
    MaxFailures     \* bound: how often a call stops halfway

ASSUME TripsAssumption ==
    /\ {ExpiryJob, CompletionJob} \cap (DriverCalls \cup ClientCalls) = {}
    /\ ExpiryJob # CompletionJob
    /\ Nothing \notin Bookings \cup Parcels
    /\ MaxFailures \in Nat

VARIABLES
    trip,       \* trips.status
    late,       \* it is hours after the departure
    reached,    \* the stop's arrivedAt is set
    atPickup,   \* the stop's pickupArrivedAt is set
    booking,    \* bookings.status ("ABSENT" before the row exists)
    place,      \* which legs of the route a booking takes
    boarded,    \* trip_passengers.pickedUpAt is set
    parcel,     \* what each parcel is to this trip
    call,       \* where each call stands
    failures

stopVars    == <<reached, atPickup>>
bookingVars == <<booking, place, boarded>>
vars == <<trip, late, stopVars, bookingVars, parcel, call, failures>>

-----------------------------------------------------------------------------
TripStatus == {"PUBLISHED", "DRIVER_ARRIVED", "PASSENGER_PICKED_UP", "IN_PROGRESS",
               "ARRIVED", "COMPLETED", "CANCELLED"}
NotStarted == {"PUBLISHED", "DRIVER_ARRIVED"}
OnTheRoad  == {"PASSENGER_PICKED_UP", "IN_PROGRESS"}
BookingStatus == {"ABSENT", "PENDING_PAYMENT", "CONFIRMED", "COMPLETED", "CANCELLED"}
Place == {"whole", "untilStop", "fromStop"}
ParcelState == {"ELSEWHERE", "ORDERED", "CARRIED"}
Location == {"idle", "update", "claim", "list", "cancelling", "book", "leave", "pickup",
             "dropoff", "noShow", "lookEmpty", "closing", "lookSettled", "accept", "order"}

Active    == {b \in Bookings : booking[b] \in {"PENDING_PAYMENT", "CONFIRMED"}}
Confirmed == {b \in Bookings : booking[b] = "CONFIRMED"}
Carried   == {s \in Parcels : parcel[s] = "CARRIED"}

Workers == DriverCalls \cup ClientCalls \cup {ExpiryJob, CompletionJob}
CallState == [at : Location, item : Bookings \cup Parcels \cup {Nothing},
              from : SUBSET TripStatus, next : TripStatus, then : {"idle", "list"},
              todo : SUBSET Bookings, aboard : SUBSET Bookings]
Idle == [at |-> "idle", item |-> Nothing, from |-> {}, next |-> "PUBLISHED",
         then |-> "idle", todo |-> {}, aboard |-> {}]

Init ==
    /\ trip = "PUBLISHED" /\ late = FALSE
    /\ reached = FALSE /\ atPickup = FALSE
    /\ booking = [b \in Bookings |-> "ABSENT"]
    /\ place = [b \in Bookings |-> "whole"]
    /\ boarded = [b \in Bookings |-> FALSE]
    /\ parcel = [s \in Parcels |-> "ELSEWHERE"]
    /\ call = [c \in Workers |-> Idle]
    /\ failures = 0

At(c, where) == call[c].at = where
Becomes(c, record) == call' = [call EXCEPT ![c] = record]
Return(c) == Becomes(c, Idle)
Begin(c, where, item) ==
    At(c, "idle") /\ Becomes(c, [Idle EXCEPT !.at = where, !.item = item])
UpdateNext(c, next) == Becomes(c, [Idle EXCEPT !.at = "update", !.next = next])
\* A conditional update of the trip; what follows it is in `then`.
ClaimNext(c, from, next, then) ==
    Becomes(c, [Idle EXCEPT !.at = "claim", !.from = from, !.next = next, !.then = then])

-----------------------------------------------------------------------------
(* The driver's routes on the trip                                          *)

MarkDriverArrived(c) ==
    /\ trip = "PUBLISHED" /\ Confirmed # {}
    /\ At(c, "idle") /\ UpdateNext(c, "DRIVER_ARRIVED")
    /\ UNCHANGED <<trip, late, stopVars, bookingVars, parcel, failures>>

\* With nobody aboard, only to clients who wait at the stop and none at the start.
StartTrip(c) ==
    /\ \/ trip = "PASSENGER_PICKED_UP"
       \/ /\ trip = "DRIVER_ARRIVED" /\ Confirmed # {}
          /\ \A b \in Confirmed : place[b] = "fromStop"
    /\ At(c, "idle") /\ UpdateNext(c, "IN_PROGRESS")
    /\ UNCHANGED <<trip, late, stopVars, bookingVars, parcel, failures>>

\* Not past a stop where somebody boards or alights (stopsStillToReach).
MarkArrived(c) ==
    /\ trip = "IN_PROGRESS"
    /\ reached \/ \A b \in Confirmed : place[b] = "whole"
    /\ At(c, "idle") /\ UpdateNext(c, "ARRIVED")
    /\ UNCHANGED <<trip, late, stopVars, bookingVars, parcel, failures>>

\* These two only ever set a date: their read and their write are one step.
MarkArrivedAtStop ==
    /\ trip = "IN_PROGRESS" /\ ~reached
    /\ reached' = TRUE
    /\ atPickup' = (atPickup \/ \A b \in Confirmed : place[b] # "untilStop")
    /\ UNCHANGED <<trip, late, bookingVars, parcel, call, failures>>

MarkArrivedAtPickup ==
    /\ trip = "IN_PROGRESS" /\ reached /\ ~atPickup
    /\ atPickup' = TRUE
    /\ UNCHANGED <<trip, late, reached, bookingVars, parcel, call, failures>>

\* The update by id that ends these routes, and a pickup at the start.
UpdateTrip(c) ==
    /\ At(c, "update")
    /\ trip' = call[c].next
    /\ Return(c)
    /\ UNCHANGED <<late, stopVars, bookingVars, parcel, failures>>

Settled == Active = {}

\* Mutant: whoever is still aboard.
CompleteAnyway(c) ==
    /\ At(c, "idle") /\ trip = "ARRIVED"
    /\ ClaimNext(c, {"ARRIVED"}, "COMPLETED", "idle")
    /\ UNCHANGED <<trip, late, stopVars, bookingVars, parcel, failures>>

CompleteTrip(c) ==
    /\ At(c, "idle")
    /\ trip = "ARRIVED" /\ Settled
    /\ ClaimNext(c, {"ARRIVED"}, "COMPLETED", "idle")
    /\ UNCHANGED <<trip, late, stopVars, bookingVars, parcel, failures>>

CancelTrip(c) ==
    /\ At(c, "idle")
    /\ trip \in NotStarted /\ Carried = {}
    /\ ClaimNext(c, NotStarted, "CANCELLED", "list")
    /\ UNCHANGED <<trip, late, stopVars, bookingVars, parcel, failures>>

ClaimTrip(c) ==
    /\ At(c, "claim")
    /\ IF trip \in call[c].from
       THEN /\ trip' = call[c].next
            /\ Becomes(c, [Idle EXCEPT !.at = call[c].then])
       ELSE Return(c) /\ UNCHANGED trip
    /\ UNCHANGED <<late, stopVars, bookingVars, parcel, failures>>

\* cancelAllForTrip: lists the active bookings, then claims them one by one.
ListBookings(c) ==
    /\ At(c, "list")
    /\ Becomes(c, [Idle EXCEPT !.at = "cancelling", !.todo = Active])
    /\ UNCHANGED <<trip, late, stopVars, bookingVars, parcel, failures>>

CancelBookings(c) ==
    /\ At(c, "cancelling")
    /\ IF call[c].todo = {} THEN Return(c) /\ UNCHANGED booking
       ELSE \E b \in call[c].todo :
              /\ booking' = [booking EXCEPT ![b] = IF b \in Active THEN "CANCELLED" ELSE @]
              /\ call' = [call EXCEPT ![c].todo = @ \ {b}]
    /\ UNCHANGED <<trip, late, stopVars, place, boarded, parcel, failures>>

-----------------------------------------------------------------------------
(* Clients                                                                  *)

Book(c) ==
    /\ ~late /\ trip = "PUBLISHED"
    /\ Begin(c, "book", Nothing)
    /\ UNCHANGED <<trip, late, stopVars, bookingVars, parcel, failures>>

\* Mutant: trusts the status read before the transaction.
BookWithoutLock(c) ==
    /\ At(c, "book")
    /\ \E b \in Bookings, p \in Place :
        /\ booking[b] = "ABSENT"
        /\ booking' = [booking EXCEPT ![b] = "PENDING_PAYMENT"]
        /\ place' = [place EXCEPT ![b] = p]
    /\ Return(c)
    /\ UNCHANGED <<trip, late, stopVars, boarded, parcel, failures>>

\* One transaction under the trip's lock, whose status is read again.  The
\* seats are not counted here: they may refuse.
BookUnderLock(c) ==
    /\ At(c, "book")
    /\ \/ /\ trip = "PUBLISHED"
          /\ \E b \in Bookings, p \in Place :
              /\ booking[b] = "ABSENT"
              /\ booking' = [booking EXCEPT ![b] = "PENDING_PAYMENT"]
              /\ place' = [place EXCEPT ![b] = p]
       \/ UNCHANGED <<booking, place>>
    /\ Return(c)
    /\ UNCHANGED <<trip, late, stopVars, boarded, parcel, failures>>

ConfirmPayment(b) ==
    /\ booking[b] = "PENDING_PAYMENT"
    /\ booking' = [booking EXCEPT ![b] = "CONFIRMED"]
    /\ UNCHANGED <<trip, late, stopVars, place, boarded, parcel, call, failures>>

ExpireUnpaid(b) ==
    /\ booking[b] = "PENDING_PAYMENT"
    /\ booking' = [booking EXCEPT ![b] = "CANCELLED"]
    /\ UNCHANGED <<trip, late, stopVars, place, boarded, parcel, call, failures>>

CancelByClient(c, b) ==
    /\ b \in Active /\ ~boarded[b]
    /\ Begin(c, "leave", b)
    /\ UNCHANGED <<trip, late, stopVars, bookingVars, parcel, failures>>

\* The claim of CancelByClient aims at the status the booking has by then.
ClaimToLeave(c) ==
    /\ At(c, "leave")
    /\ booking' = [booking EXCEPT ![call[c].item] =
                     IF call[c].item \in Active THEN "CANCELLED" ELSE @]
    /\ Return(c)
    /\ UNCHANGED <<trip, late, stopVars, place, boarded, parcel, failures>>

\* An arbiter's decision may cancel even a completed booking (one transaction).
CancelByArbiter(b) ==
    /\ booking[b] \notin {"ABSENT", "CANCELLED"}
    /\ booking' = [booking EXCEPT ![b] = "CANCELLED"]
    /\ UNCHANGED <<trip, late, stopVars, place, boarded, parcel, call, failures>>

-----------------------------------------------------------------------------
(* Pickup, drop-off, no-show                                                *)

PickupWindowOpen(b) ==
    IF place[b] = "fromStop" THEN trip = "IN_PROGRESS"
    ELSE trip \in {"DRIVER_ARRIVED", "PASSENGER_PICKED_UP"}

\* By code in the window, or by the support at any time; `next` is the trip's
\* status as it was read.
PickUp(c, b, bySupport) ==
    /\ At(c, "idle")
    /\ booking[b] = "CONFIRMED" /\ (bySupport \/ PickupWindowOpen(b))
    /\ Becomes(c, [Idle EXCEPT !.at = "pickup", !.item = b, !.next = trip])
    /\ UNCHANGED <<trip, late, stopVars, bookingVars, parcel, failures>>

MarkPickedUp(c) ==
    /\ At(c, "pickup")
    /\ boarded' = [boarded EXCEPT ![call[c].item] = TRUE]
    /\ IF call[c].next = "DRIVER_ARRIVED"
       THEN UpdateNext(c, "PASSENGER_PICKED_UP")
       ELSE Return(c)
    /\ UNCHANGED <<trip, late, stopVars, booking, place, parcel, failures>>

DropOff(c, b, bySupport) ==
    /\ booking[b] = "CONFIRMED" /\ (bySupport \/ boarded[b])
    /\ Begin(c, "dropoff", b)
    /\ UNCHANGED <<trip, late, stopVars, bookingVars, parcel, failures>>

\* Mutant: an update by id, without the status in its WHERE.
DropOffAnyStatus(c) ==
    /\ At(c, "dropoff")
    /\ booking' = [booking EXCEPT ![call[c].item] = "COMPLETED"]
    /\ Return(c)
    /\ UNCHANGED <<trip, late, stopVars, place, boarded, parcel, failures>>

MarkDroppedOff(c) ==
    /\ At(c, "dropoff")
    /\ booking' = [booking EXCEPT ![call[c].item] =
                     IF @ = "CONFIRMED" THEN "COMPLETED" ELSE @]
    /\ Return(c)
    /\ UNCHANGED <<trip, late, stopVars, place, boarded, parcel, failures>>

DeclareNoShow(c, b) ==
    /\ booking[b] = "CONFIRMED" /\ ~boarded[b]
    /\ IF place[b] = "fromStop" THEN trip = "IN_PROGRESS" /\ atPickup
       ELSE trip \in {"DRIVER_ARRIVED", "PASSENGER_PICKED_UP"}
    /\ Begin(c, "noShow", b)
    /\ UNCHANGED <<trip, late, stopVars, bookingVars, parcel, failures>>

CloseAsNoShow(c) ==
    /\ At(c, "noShow")
    /\ IF call[c].item \in Confirmed
       THEN /\ booking' = [booking EXCEPT ![call[c].item] = "CANCELLED"]
            /\ Becomes(c, [Idle EXCEPT !.at = "lookEmpty"])
       ELSE Return(c) /\ UNCHANGED booking
    /\ UNCHANGED <<trip, late, stopVars, place, boarded, parcel, failures>>

\* closeTripIfNobodyBoarded: nobody waits, was carried, or has a parcel aboard.
CloseIfNobodyBoarded(c) ==
    /\ At(c, "lookEmpty")
    /\ IF Carried = {} /\ \A b \in Bookings : booking[b] \in {"ABSENT", "CANCELLED"}
       THEN ClaimNext(c, {"DRIVER_ARRIVED"}, "CANCELLED", "idle")
       ELSE Return(c)
    /\ UNCHANGED <<trip, late, stopVars, bookingVars, parcel, failures>>

-----------------------------------------------------------------------------
(* Parcels                                                                  *)

\* By the driver, of a paid parcel; by a client, for this trip, before he pays.
Accept(c, s) ==
    /\ trip = "PUBLISHED" /\ parcel[s] = "ELSEWHERE"
    /\ Begin(c, "accept", s)
    /\ UNCHANGED <<trip, late, stopVars, bookingVars, parcel, failures>>

Order(c, s) ==
    /\ trip = "PUBLISHED" /\ parcel[s] = "ELSEWHERE"
    /\ Begin(c, "order", s)
    /\ UNCHANGED <<trip, late, stopVars, bookingVars, parcel, failures>>

\* One transaction; the trip is looked at again only if its capacity is limited.
TakeParcel(c) ==
    /\ call[c].at \in {"accept", "order"}
    /\ \/ /\ parcel[call[c].item] = "ELSEWHERE"
          /\ parcel' = [parcel EXCEPT ![call[c].item] =
                           IF At(c, "accept") THEN "CARRIED" ELSE "ORDERED"]
       \/ UNCHANGED parcel
    /\ Return(c)
    /\ UNCHANGED <<trip, late, stopVars, bookingVars, failures>>

\* Whatever has become of the trip.
ConfirmParcelPayment(s) ==
    /\ parcel[s] = "ORDERED"
    /\ parcel' = [parcel EXCEPT ![s] = "CARRIED"]
    /\ UNCHANGED <<trip, late, stopVars, bookingVars, call, failures>>

\* Delivered, cancelled, or never paid.
ParcelLeaves(s) ==
    /\ parcel[s] # "ELSEWHERE"
    /\ parcel' = [parcel EXCEPT ![s] = "ELSEWHERE"]
    /\ UNCHANGED <<trip, late, stopVars, bookingVars, call, failures>>

-----------------------------------------------------------------------------
(* The jobs                                                                 *)

ExpireStale ==
    /\ late /\ trip \in NotStarted
    /\ Active = {} /\ Carried = {}
    /\ At(ExpiryJob, "idle")
    /\ ClaimNext(ExpiryJob, NotStarted, "CANCELLED", "idle")
    /\ UNCHANGED <<trip, late, stopVars, bookingVars, parcel, failures>>

CancelAbandoned ==
    /\ late /\ trip \in NotStarted
    /\ Confirmed # {} /\ Carried = {}
    /\ At(ExpiryJob, "idle")
    /\ ClaimNext(ExpiryJob, NotStarted, "CANCELLED", "list")
    /\ UNCHANGED <<trip, late, stopVars, bookingVars, parcel, failures>>

\* Mutant: forgets the trips that never left after the first pickup.
CloseStuckInProgress ==
    /\ At(CompletionJob, "idle")
    /\ \E from \in {{"ARRIVED"}, {"IN_PROGRESS"}} :
        /\ trip \in from /\ (from # {"ARRIVED"} => late)
        /\ Becomes(CompletionJob,
                   [Idle EXCEPT !.at = "closing", !.from = from, !.todo = Confirmed,
                                !.aboard = {b \in Confirmed : boarded[b]}])
    /\ UNCHANGED <<trip, late, stopVars, bookingVars, parcel, failures>>

\* autoCloseStuckTrips and autoCloseAbandonedTrips, then closeStuckTrip.
CloseStuckTrip ==
    /\ At(CompletionJob, "idle")
    /\ \E from \in {{"ARRIVED"}, OnTheRoad} :
        /\ trip \in from /\ (from = OnTheRoad => late)
        /\ Becomes(CompletionJob,
                   [Idle EXCEPT !.at = "closing", !.from = from, !.todo = Confirmed,
                                !.aboard = {b \in Confirmed : boarded[b]}])
    /\ UNCHANGED <<trip, late, stopVars, bookingVars, parcel, failures>>

\* Who was aboard is taken as dropped off, the others as absent.
CloseBookings(c) ==
    /\ At(c, "closing")
    /\ IF call[c].todo = {}
       THEN /\ Becomes(c, [Idle EXCEPT !.at = "lookSettled", !.from = call[c].from])
            /\ UNCHANGED booking
       ELSE \E b \in call[c].todo :
              /\ booking' = [booking EXCEPT ![b] =
                               IF b \notin Confirmed THEN @
                               ELSE IF b \in call[c].aboard THEN "COMPLETED" ELSE "CANCELLED"]
              /\ call' = [call EXCEPT ![c].todo = @ \ {b}, ![c].aboard = @ \ {b}]
    /\ UNCHANGED <<trip, late, stopVars, place, boarded, parcel, failures>>

CompleteIfSettled(c) ==
    /\ At(c, "lookSettled")
    /\ IF Settled THEN ClaimNext(c, call[c].from, "COMPLETED", "idle") ELSE Return(c)
    /\ UNCHANGED <<trip, late, stopVars, bookingVars, parcel, failures>>

-----------------------------------------------------------------------------
\* Hours pass after the departure: no booking takes that long.
TimePasses ==
    /\ ~late /\ late' = TRUE
    /\ \A c \in Workers : ~At(c, "book")
    /\ UNCHANGED <<trip, stopVars, bookingVars, parcel, call, failures>>

\* The process stops, or a statement throws: of one booking the promo code, the
\* wallet, and the rest of the loop is not done.
StopHalfway(c) ==
    /\ ~At(c, "idle")
    /\ failures < MaxFailures
    /\ failures' = failures + 1
    /\ Return(c)
    /\ UNCHANGED <<trip, late, stopVars, bookingVars, parcel>>

DriverStarts(c) ==
    \/ MarkDriverArrived(c) \/ StartTrip(c) \/ MarkArrived(c)
    \/ CompleteTrip(c) \/ CancelTrip(c)
    \/ \E b \in Bookings :
        \/ DeclareNoShow(c, b)
        \/ \E bySupport \in BOOLEAN : PickUp(c, b, bySupport) \/ DropOff(c, b, bySupport)
    \/ \E s \in Parcels : Accept(c, s)

ClientStarts(c) ==
    \/ Book(c)
    \/ \E b \in Bookings : CancelByClient(c, b)
    \/ \E s \in Parcels : Order(c, s)

Continue(c) ==
    \/ UpdateTrip(c)
    \/ ClaimTrip(c)
    \/ ListBookings(c)
    \/ CancelBookings(c)
    \/ BookUnderLock(c)
    \/ ClaimToLeave(c)
    \/ MarkPickedUp(c)
    \/ MarkDroppedOff(c)
    \/ CloseAsNoShow(c)
    \/ CloseIfNobodyBoarded(c)
    \/ TakeParcel(c)
    \/ CloseBookings(c)
    \/ CompleteIfSettled(c)

Next ==
    \/ \E c \in DriverCalls : DriverStarts(c)
    \/ \E c \in ClientCalls : ClientStarts(c)
    \/ \E c \in Workers : Continue(c) \/ StopHalfway(c)
    \/ \E b \in Bookings : ConfirmPayment(b) \/ ExpireUnpaid(b) \/ CancelByArbiter(b)
    \/ \E s \in Parcels : ConfirmParcelPayment(s) \/ ParcelLeaves(s)
    \/ MarkArrivedAtStop \/ MarkArrivedAtPickup
    \/ ExpireStale \/ CancelAbandoned \/ CloseStuckTrip
    \/ TimePasses

Spec == Init /\ [][Next]_vars

\* A running call goes on, and the timers of the three jobs keep firing.
Fairness ==
    /\ \A c \in Workers : WF_vars(Continue(c))
    /\ \A b \in Bookings : WF_vars(ExpireUnpaid(b))
    /\ WF_vars(ExpireStale \/ CancelAbandoned)
    /\ WF_vars(CloseStuckTrip)

FairSpec == Spec /\ Fairness

-----------------------------------------------------------------------------
(* Properties                                                               *)

\* Every variable has its type.
TypeOK ==
    /\ trip \in TripStatus /\ late \in BOOLEAN
    /\ reached \in BOOLEAN /\ atPickup \in BOOLEAN
    /\ booking \in [Bookings -> BookingStatus]
    /\ place \in [Bookings -> Place]
    /\ boarded \in [Bookings -> BOOLEAN]
    /\ parcel \in [Parcels -> ParcelState]
    /\ call \in [Workers -> CallState]
    /\ failures \in 0..MaxFailures

\* Nobody keeps a place on a cancelled trip: whoever cancelled it (driver,
\* abandoned trip, no-show, expiry) is still to come to that booking, unless
\* the call stopped halfway.
NobodyLeftBehind ==
    trip = "CANCELLED" /\ failures = 0 =>
        \A b \in Active : \E c \in Workers :
            At(c, "list") \/ (At(c, "cancelling") /\ b \in call[c].todo)

\* A completed trip has nobody left to drop off, refund or pay for.
CompletedIsSettled == trip = "COMPLETED" => Settled

\* A booking ends once: drop-off, no-show, cancellation and automatic closing
\* never undo one another, so that its money goes one way; only an arbiter
\* reopens a completed one, to cancel it.
BookingEndsOnce ==
    [][\A b \in Bookings :
         booking[b] \in {"COMPLETED", "CANCELLED"} =>
            booking'[b] = booking[b] \/ CancelByArbiter(b)]_vars

\* "Des qu'un passager est monte", nobody but an arbiter cancels his booking.
BoardedIsNotCancelled ==
    [][\A b \in Bookings :
         boarded[b] /\ booking[b] = "CONFIRMED" =>
            booking'[b] # "CANCELLED" \/ CancelByArbiter(b)]_vars

\* Hours after its departure no trip is left as it was, however it was left:
\* expired, cancelled for being abandoned, or closed, unless it has a parcel.
EveryTripEnds ==
    late ~> trip \in {"COMPLETED", "CANCELLED"} \/ Carried # {}
=============================================================================
