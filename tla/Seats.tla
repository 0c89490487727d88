-------------------------------- MODULE Seats --------------------------------
(***************************************************************************)
(* The seats of a trip, leg by leg (trips/trip-seats.ts, trip-seats.db.ts),*)
(* sold by BookingsService, freed by cancellations and expiry, with the    *)
(* promo code redeemed in the same transaction                             *)
(* (promo-codes/promo-codes.service.ts), while the driver draws up the     *)
(* trip and its stops (trips/trips.service.ts).                            *)
(*                                                                         *)
(* The road goes through the points 0..Last; a trip stops at some of them. *)
(* A booking request reads the trip, its stops and the code first, and     *)
(* writes in a transaction under the trip's lock: one step each.           *)
(***************************************************************************)
EXTENDS Naturals, FiniteSets

CONSTANTS
    Bookings,
    Clients,
    Calls,        \* concurrent booking requests
    DriverCalls,  \* concurrent requests of the driver and of the support
    NoBooking,
    NoClient,
    Last,         \* the destination's point
    MaxSeats,     \* vehicle.totalSeats
    MaxPending,   \* bookings.max_pending_per_trip
    CodeLimit,    \* promoCode.usageLimit
    ClientLimit   \* promoCode.usageLimitPerUser

ASSUME SeatsAssumption ==
    /\ Calls \cap DriverCalls = {}
    /\ NoBooking \notin Bookings /\ NoClient \notin Clients
    /\ IsFiniteSet(Bookings)
    /\ Last \in Nat \ {0} /\ MaxSeats \in Nat \ {0}
    /\ MaxPending \in Nat /\ CodeLimit \in Nat /\ ClientLimit \in Nat

VARIABLES
    status,     \* trips.status
    stops,      \* the points of trips.stops
    total,      \* trips.totalSeats
    available,  \* trips.availableSeats
    booking,    \* the bookings of the trip
    used,       \* promo_codes.usedCount
    redeemed,   \* bookings with a row in promo_code_redemptions
    call        \* where each request stands

tripVars == <<status, stops, total>>
codeVars == <<used, redeemed>>
vars == <<tripVars, available, booking, codeVars, call>>

-----------------------------------------------------------------------------
Points  == 0..Last
Between == 1..(Last - 1)
Legs    == 0..(Last - 1)
Seats   == 1..MaxSeats
TripStatus == {"DRAFT", "PUBLISHED", "DEPARTED", "CANCELLED"}
Active == {"PENDING_PAYMENT", "CONFIRMED"}
BookingState == [status : Active \cup {"ABSENT", "CANCELLED"}, client : Clients \cup {NoClient},
                 from : Points, to : Points, seats : Seats]
NotBooked == [status |-> "ABSENT", client |-> NoClient, from |-> 0, to |-> Last, seats |-> 1]

Workers == Calls \cup DriverCalls
CallState == [at : {"idle", "book", "edit", "list", "cancel", "release"},
              b : Bookings \cup {NoBooking}, wish : BookingState,
              route : SUBSET Between, code : BOOLEAN, todo : SUBSET Bookings]
Idle == [at |-> "idle", b |-> NoBooking, wish |-> NotBooked, route |-> {}, code |-> FALSE, todo |-> {}]

Init ==
    /\ status = "DRAFT" /\ stops = {}
    /\ total = MaxSeats /\ available = MaxSeats
    /\ booking = [b \in Bookings |-> NotBooked]
    /\ used = 0 /\ redeemed = {}
    /\ call = [c \in Workers |-> Idle]

At(c, where) == call[c].at = where
Becomes(c, record) == call' = [call EXCEPT ![c] = record]
Return(c) == Becomes(c, Idle)

\* SEAT_HOLDING_STATUSES: all but the cancelled.
Holds(bs, b) == bs[b].status \in Active

\* seatsOccupiedByLeg, for one leg: a booking whose stop is not on the route counts
\* for the whole trip.
Crosses(hold, route, leg) ==
    {hold.from, hold.to} \subseteq route \cup {0, Last} => hold.from <= leg /\ leg < hold.to

Taken(bs, route, leg) ==
    {place \in Bookings \X Seats :
        /\ Holds(bs, place[1]) /\ place[2] <= bs[place[1]].seats
        /\ Crosses(bs[place[1]], route, leg)}
Occupied(bs, route, leg) == Cardinality(Taken(bs, route, leg))

\* Mutant: only the leg where the client boards is looked at.
FitsBoarding(bs, route, wish, seats) == Occupied(bs, route, wish.from) + wish.seats <= seats

\* freeSeatsOnSegment: the busiest leg decides.
Fits(bs, route, wish, seats) ==
    \A leg \in wish.from..(wish.to - 1) : Occupied(bs, route, leg) + wish.seats <= seats
Free(bs) ==
    CHOOSE n \in 0..total :
        /\ n > 0 => \A leg \in Legs : Occupied(bs, stops, leg) + n <= total
        /\ n < total => \E leg \in Legs : Occupied(bs, stops, leg) + n >= total

\* syncTripSeats: recomputed from the bookings, within the transaction.
Sync(bs) == available' = Free(bs)

Cancelled(b) == [booking EXCEPT ![b].status = "CANCELLED"]
RedeemedBy(client, rows) == {b \in rows : booking[b].client = client}

-----------------------------------------------------------------------------
(* The driver draws the trip up: each request reads that it is a draft and *)
(* then writes by id.                                                      *)

ReadDraft(c) ==
    /\ At(c, "idle") /\ status = "DRAFT"
    /\ Becomes(c, [Idle EXCEPT !.at = "edit"])
    /\ UNCHANGED <<tripVars, available, booking, codeVars>>

SetSeats(c, n) ==
    /\ At(c, "edit")
    /\ total' = n /\ available' = n
    /\ Return(c)
    /\ UNCHANGED <<status, stops, booking, codeVars>>

AddStop(c, p) ==
    /\ At(c, "edit") /\ p \notin stops
    /\ stops' = stops \cup {p}
    /\ Return(c)
    /\ UNCHANGED <<status, total, available, booking, codeVars>>

RemoveStop(c, p) ==
    /\ At(c, "edit") /\ p \in stops
    /\ stops' = stops \ {p}
    /\ Return(c)
    /\ UNCHANGED <<status, total, available, booking, codeVars>>

Publish(c) ==
    /\ At(c, "edit")
    /\ status' = "PUBLISHED"
    /\ Return(c)
    /\ UNCHANGED <<stops, total, available, booking, codeVars>>

Depart ==
    /\ status = "PUBLISHED"
    /\ status' = "DEPARTED"
    /\ UNCHANGED <<stops, total, available, booking, codeVars, call>>

\* The claim, then cancelAllForTrip: the list, and booking after booking.
CancelTrip(c) ==
    /\ At(c, "idle") /\ status \in {"DRAFT", "PUBLISHED"}
    /\ status' = "CANCELLED"
    /\ Becomes(c, [Idle EXCEPT !.at = "list"])
    /\ UNCHANGED <<stops, total, available, booking, codeVars>>

ListBookings(c) ==
    /\ At(c, "list")
    /\ Becomes(c, [Idle EXCEPT !.at = "cancel", !.todo = {b \in Bookings : Holds(booking, b)}])
    /\ UNCHANGED <<tripVars, available, booking, codeVars>>

\* The seats are not synchronised: the trip is no longer sold.
CancelOne(c, b) ==
    /\ At(c, "cancel") /\ b \in call[c].todo
    /\ LET rest == [call[c] EXCEPT !.todo = @ \ {b}] IN
       IF Holds(booking, b)
       THEN booking' = Cancelled(b) /\ Becomes(c, [rest EXCEPT !.at = "release", !.b = b])
       ELSE UNCHANGED booking /\ Becomes(c, rest)
    /\ UNCHANGED <<tripVars, available, codeVars>>

\* PromoCodesService.release: the row first, and the counter if there was one.
Release(b) ==
    /\ redeemed' = redeemed \ {b}
    /\ used' = IF b \in redeemed /\ used > 0 THEN used - 1 ELSE used

ReleaseCode(c) ==
    /\ At(c, "release")
    /\ Release(call[c].b)
    /\ Becomes(c, [call[c] EXCEPT !.at = "cancel", !.b = NoBooking])
    /\ UNCHANGED <<tripVars, available, booking>>

AllCancelled(c) ==
    /\ At(c, "cancel") /\ call[c].todo = {}
    /\ Return(c)
    /\ UNCHANGED <<tripVars, available, booking, codeVars>>

-----------------------------------------------------------------------------
(* Booking                                                                  *)

\* What is read before the transaction: the status, the stops and the code's limits.
Book(c, b, wish, code) ==
    /\ At(c, "idle") /\ status = "PUBLISHED"
    /\ booking[b].status = "ABSENT" /\ \A w \in Workers : call[w].b # b
    /\ {wish.from, wish.to} \subseteq stops \cup {0, Last} /\ wish.from < wish.to
    /\ code => used < CodeLimit /\ Cardinality(RedeemedBy(wish.client, redeemed)) < ClientLimit
    /\ Becomes(c, [Idle EXCEPT !.at = "book", !.b = b, !.wish = wish, !.route = stops, !.code = code])
    /\ UNCHANGED <<tripVars, available, booking, codeVars>>

\* redeem: the conditional increment, and the client's rows counted with the new one.
CodeGranted(client) ==
    /\ used < CodeLimit
    /\ Cardinality(RedeemedBy(client, redeemed)) + 1 <= ClientLimit

Pending(client) ==
    {b \in Bookings : booking[b].status = "PENDING_PAYMENT" /\ booking[b].client = client}

\* Mutant: the limits of the code are those seen before the transaction.
GrantedOnRead(c) ==
    /\ status = "PUBLISHED"
    /\ MaxPending > 0 => Cardinality(Pending(call[c].wish.client)) < MaxPending
    /\ Fits(booking, call[c].route, call[c].wish, total)

\* What decides under the lock: the route is the one that was read.
Granted(c) ==
    /\ status = "PUBLISHED"
    /\ MaxPending > 0 => Cardinality(Pending(call[c].wish.client)) < MaxPending
    /\ Fits(booking, call[c].route, call[c].wish, total)
    /\ call[c].code => CodeGranted(call[c].wish.client)

BookUnderLock(c) ==
    LET b == call[c].b
        bs == [booking EXCEPT ![b] = call[c].wish]
    IN
    /\ At(c, "book")
    /\ IF Granted(c)
       THEN /\ booking' = bs
            /\ IF call[c].code THEN used' = used + 1 /\ redeemed' = redeemed \cup {b}
               ELSE UNCHANGED codeVars
            /\ Sync(bs)
       ELSE UNCHANGED <<booking, codeVars, available>>
    /\ Return(c)
    /\ UNCHANGED tripVars

ConfirmPayment(b) ==
    /\ booking[b].status = "PENDING_PAYMENT"
    /\ booking' = [booking EXCEPT ![b].status = "CONFIRMED"]
    /\ UNCHANGED <<tripVars, available, codeVars, call>>

ExpireUnpaid(b) ==
    /\ booking[b].status = "PENDING_PAYMENT"
    /\ booking' = Cancelled(b) /\ Sync(Cancelled(b))
    /\ Release(b)
    /\ UNCHANGED <<tripVars, call>>

\* Mutant: the seats are given back as they were taken, whatever the legs.
CancelByIncrement(b, fullRefund) ==
    /\ Holds(booking, b)
    /\ booking' = Cancelled(b) /\ available' = available + booking[b].seats
    /\ IF booking[b].status = "PENDING_PAYMENT" \/ fullRefund THEN Release(b)
       ELSE UNCHANGED codeVars
    /\ UNCHANGED <<tripVars, call>>

\* The claim is made on the real status, which also decides whether the code comes back.
CancelByClient(b, fullRefund) ==
    /\ Holds(booking, b)
    /\ booking' = Cancelled(b) /\ Sync(Cancelled(b))
    /\ IF booking[b].status = "PENDING_PAYMENT" \/ fullRefund THEN Release(b)
       ELSE UNCHANGED codeVars
    /\ UNCHANGED <<tripVars, call>>

\* The arbiter's cancellation does not give the code back.
CancelByArbiter(b) ==
    /\ Holds(booking, b)
    /\ booking' = Cancelled(b) /\ Sync(Cancelled(b))
    /\ UNCHANGED <<tripVars, codeVars, call>>

-----------------------------------------------------------------------------
Wishes == {w \in BookingState : w.status = "PENDING_PAYMENT" /\ w.client \in Clients}

Draw(c) ==
    \/ ReadDraft(c) \/ Publish(c)
    \/ \E n \in Seats : SetSeats(c, n)
    \/ \E p \in Between : AddStop(c, p) \/ RemoveStop(c, p)

Withdraw(c) ==
    \/ CancelTrip(c) \/ ListBookings(c) \/ ReleaseCode(c) \/ AllCancelled(c)
    \/ \E b \in Bookings : CancelOne(c, b)

Next ==
    \/ \E c \in DriverCalls : Draw(c) \/ Withdraw(c)
    \/ \E c \in Calls :
          \/ BookUnderLock(c)
          \/ \E b \in Bookings, wish \in Wishes, code \in BOOLEAN : Book(c, b, wish, code)
    \/ \E b \in Bookings :
          \/ ConfirmPayment(b) \/ ExpireUnpaid(b) \/ CancelByArbiter(b)
          \/ \E fullRefund \in BOOLEAN : CancelByClient(b, fullRefund)
    \/ Depart

Spec == Init /\ [][Next]_vars

-----------------------------------------------------------------------------
\* Types: what is left to sell stays between nothing and what the vehicle has, and the
\* counter of the code between nothing and its limit, whoever gives seats and code back.
TypeOK ==
    /\ status \in TripStatus /\ stops \subseteq Between
    /\ total \in Seats /\ available \in 0..MaxSeats
    /\ booking \in [Bookings -> BookingState]
    /\ used \in 0..CodeLimit /\ redeemed \subseteq Bookings
    /\ call \in [Workers -> CallState]

\* On no leg do more clients travel than the trip has seats, although each request
\* counts the seats along the stops it read before it had the lock.
Aboard(leg) ==
    {place \in Bookings \X Seats :
        LET hold == booking[place[1]] IN
        /\ hold.status \in Active /\ place[2] <= hold.seats
        /\ hold.from <= leg /\ leg < hold.to}
NeverOversold == \A leg \in Legs : Cardinality(Aboard(leg)) <= total

\* What the search shows is what is left for the whole trip, as long as it is sold:
\* recomputing it in each transaction lets no drift in.
CounterIsExact ==
    status = "PUBLISHED" =>
        /\ available >= 0
        /\ \A leg \in Legs : Cardinality(Aboard(leg)) + available <= total
        /\ \E leg \in Legs : Cardinality(Aboard(leg)) + available = total

\* The code is never used more often than allowed, in all and by one client, and its
\* counter says how many bookings keep it, whoever reads it at the same time.
CodeWithinLimits ==
    /\ used = Cardinality(redeemed) /\ used <= CodeLimit
    /\ \A client \in Clients : Cardinality(RedeemedBy(client, redeemed)) <= ClientLimit
=============================================================================
