------------------------------ MODULE Shipments ------------------------------
(***************************************************************************)
(* The parcels: ShipmentsService (shipments/shipments.service.ts), the     *)
(* journey of ShipmentOtpService, ShipmentWindowService, and what          *)
(* PaymentsService and WalletsService do for a shipment, with the two      *)
(* recovery jobs.  One published trip has room for Capacity parcels;       *)
(* other drivers accept parcels without a trip.                            *)
(*                                                                         *)
(* A call reads in one step and writes, in one transaction, in the next.   *)
(* The codes the driver asks for are in HandoverOtp.tla; several attempts  *)
(* to pay, what is refunded in parts and the rows behind held revenue are  *)
(* in Payments.tla: here a parcel is paid by one attempt, in full.         *)
(***************************************************************************)
EXTENDS Naturals, FiniteSets

CONSTANTS
    Parcels,
    Drivers,        \* the drivers who look for parcels
    TripDriver,     \* the one who drives the trip
    Calls,          \* concurrent webhooks and routes
    WindowJob,      \* ShipmentWindowService
    HeldJob,        \* HeldFundsRecoveryService
    JobsOn,         \* the jobs the administration has switched on
    Nobody,
    NoParcel,
    Capacity,       \* trips.availableShipmentWeightKg, in parcels
    StaffDecides,   \* do the staff and the arbiter refund and cancel?
    Duplicates,     \* may the provider announce a capture it has no answer for yet again?
    MaxExtensions,  \* bound: how often clients prolong a window
    MaxFailures     \* bound: how often a call or a handler throws or dies

Jobs == {WindowJob, HeldJob}

ASSUME ShipmentsAssumption ==
    /\ TripDriver \in Drivers /\ Nobody \notin Drivers
    /\ Jobs \cap Calls = {} /\ JobsOn \subseteq {"window", "held", "refund"}
    /\ WindowJob # HeldJob
    /\ NoParcel \notin Parcels
    /\ IsFiniteSet(Parcels)
    /\ Capacity \in Nat /\ StaffDecides \in BOOLEAN /\ Duplicates \in BOOLEAN
    /\ MaxExtensions \in Nat /\ MaxFailures \in Nat

VARIABLES
    status,     \* shipments.status ("ABSENT" before the row exists)
    driver,     \* shipments.driverId
    onTrip,     \* shipments.tripId is the trip
    free,       \* the trip's availableShipmentWeightKg
    window,     \* is windowEnd past?
    asked,      \* extensionRequestedAt: never, within the grace, before it
    client,     \* history: what the provider did with the client's money
    attempt,    \* payment_transactions.status of the attempt to pay
    paid,       \* payments.status
    revenue,    \* status of the SHIPMENT_REVENUE row
    settling,   \* what handleShipmentCancelled and the like have left to do
    call,       \* where each call stands
    extensions, failures

searchVars == <<window, asked, extensions>>
moneyVars  == <<client, attempt, paid, revenue, settling>>
vars == <<status, driver, onTrip, free, searchVars, moneyVars, call, failures>>

-----------------------------------------------------------------------------
ByParties == {"CREATED", "SEARCHING_DRIVER", "DRIVER_ASSIGNED", "PICKUP_PENDING"}
Carried   == {"PICKED_UP", "IN_TRANSIT", "DELIVERY_PENDING"}
Delivered == {"DELIVERED", "COMPLETED"}
ShipmentStatus == ByParties \cup Carried \cup Delivered \cup {"ABSENT", "CANCELLED"}
WithDriver == {"DRIVER_ASSIGNED", "PICKUP_PENDING"} \cup Carried \cup Delivered

\* Mutant: the parties may cancel what they have not completed.
CancellableLate == [party   |-> ByParties \cup Carried \cup {"DELIVERED"},
                    arbiter |-> ByParties \cup Carried \cup Delivered]

\* From which statuses a party or an arbiter may cancel.
Cancellable == [party   |-> ByParties,
                arbiter |-> ByParties \cup Carried \cup Delivered]

Workers == Calls \cup Jobs
Captured  == {"confirm", "hold", "notify"}      \* handleCaptured, in its try block
Announced == Captured \cup {"claimAttempt", "claimPayment", "resetAttempt", "resetPayment"}
Location  == Announced \cup {"idle", "accept", "extend", "cancel", "complete", "release",
                             "ask", "expire", "unpaid", "late", "unheld"}
CallState == [at : Location, s : Parcels \cup {NoParcel}, d : Drivers \cup {Nobody},
              trip : BOOLEAN, by : DOMAIN Cancellable, todo : SUBSET Parcels]
Idle == [at |-> "idle", s |-> NoParcel, d |-> Nobody, trip |-> FALSE,
         by |-> "party", todo |-> {}]

Init ==
    /\ status = [s \in Parcels |-> "ABSENT"]
    /\ driver = [s \in Parcels |-> Nobody]
    /\ onTrip = [s \in Parcels |-> FALSE]
    /\ free = Capacity
    /\ window = [s \in Parcels |-> "open"]
    /\ asked = [s \in Parcels |-> "no"]
    /\ client = [s \in Parcels |-> "none"]
    /\ attempt = [s \in Parcels |-> "PENDING"]
    /\ paid = [s \in Parcels |-> "PENDING"]
    /\ revenue = [s \in Parcels |-> "NONE"]
    /\ settling = [s \in Parcels |-> {}]
    /\ call = [c \in Workers |-> Idle]
    /\ extensions = 0 /\ failures = 0

At(c, where) == call[c].at = where
Becomes(c, record) == call' = [call EXCEPT ![c] = record]
Return(c) == Becomes(c, Idle)
GoTo(c, where) == call' = [call EXCEPT ![c].at = where]
Begin(c, where, s, d) ==
    At(c, "idle") /\ Becomes(c, [Idle EXCEPT !.at = where, !.s = s, !.d = d])

SetStatus(s, to) == status' = [status EXCEPT ![s] = to]
Settle(s, what)  == settling' = [settling EXCEPT ![s] = @ \cup {what}]
\* holdShipmentRevenue: once, whatever became of the row.
Hold(s) == revenue' = [revenue EXCEPT ![s] = IF @ = "NONE" THEN "PENDING" ELSE @]
\* releaseHeldFunds and reverseHeldFunds claim a row that is still pending.
SettleRevenue(s, to) ==
    revenue' = [revenue EXCEPT ![s] = IF @ = "PENDING" THEN to ELSE @]

-----------------------------------------------------------------------------
(* Ordering and paying                                                      *)

\* With the trip chosen, its room is taken before anything is paid.
Create(s, chosen) ==
    /\ status[s] = "ABSENT"
    /\ chosen => free > 0
    /\ SetStatus(s, "CREATED")
    /\ onTrip' = [onTrip EXCEPT ![s] = chosen]
    /\ driver' = [driver EXCEPT ![s] = IF chosen THEN TripDriver ELSE Nobody]
    /\ free' = IF chosen THEN free - 1 ELSE free
    /\ UNCHANGED <<searchVars, moneyVars, call, failures>>

\* The client validates what initiate() asked of the provider while the parcel
\* was CREATED; it may have become anything since (external).
Pay(s) ==
    /\ status[s] # "ABSENT" /\ client[s] = "none"
    /\ client' = [client EXCEPT ![s] = "debited"]
    /\ UNCHANGED <<status, driver, onTrip, free, searchVars, attempt, paid, revenue,
                   settling, call, failures>>

\* settleTransaction(): the provider announces the capture, again after an error.
Webhook(c, s) ==
    /\ client[s] # "none" /\ attempt[s] # "CAPTURED"
    /\ Duplicates \/ \A w \in Calls : call[w].s = s => call[w].at \notin Announced
    /\ Begin(c, "claimAttempt", s, Nobody)
    /\ UNCHANGED <<status, driver, onTrip, free, searchVars, moneyVars, failures>>

ClaimAttempt(c) ==
    LET s == call[c].s IN
    /\ At(c, "claimAttempt")
    /\ attempt' = [attempt EXCEPT ![s] = "CAPTURED"]
    /\ IF attempt[s] = "CAPTURED" THEN Return(c) ELSE GoTo(c, "claimPayment")
    /\ UNCHANGED <<status, driver, onTrip, free, searchVars, client, paid, revenue,
                   settling, failures>>

\* A payment that is captured or refunded is left alone and the call ends;
\* otherwise handleCaptured begins, which reads the driver before it confirms.
ClaimPayment(c) ==
    LET s == call[c].s IN
    /\ At(c, "claimPayment")
    /\ IF paid[s] # "PENDING"
       THEN Return(c) /\ UNCHANGED paid
       ELSE /\ paid' = [paid EXCEPT ![s] = "CAPTURED"]
            /\ call' = [call EXCEPT ![c].at = "confirm", ![c].d = driver[s]]
    /\ UNCHANGED <<status, driver, onTrip, free, searchVars, client, attempt, revenue,
                   settling, failures>>

ToHold(c) == GoTo(c, IF call[c].d = Nobody THEN "notify" ELSE "hold")
Confirmed(s) == SetStatus(s, IF driver[s] = Nobody THEN "SEARCHING_DRIVER" ELSE "DRIVER_ASSIGNED")

\* Mutant: the shipment is confirmed whatever it has become.
ConfirmUnclaimed(c) ==
    /\ At(c, "confirm")
    /\ Confirmed(call[c].s) /\ ToHold(c)
    /\ UNCHANGED <<driver, onTrip, free, searchVars, moneyVars, failures>>

\* CONFIRMED, ALREADY_CONFIRMED (the capture was announced again) or NOT_PAYABLE:
\* then refundLatePayment gives everything back, and swallows its errors.
ConfirmPayment(c) ==
    LET s == call[c].s IN
    /\ At(c, "confirm")
    /\ \/ status[s] = "CREATED" /\ Confirmed(s) /\ ToHold(c) /\ UNCHANGED settling
       \/ /\ status[s] \notin {"CREATED", "CANCELLED"}
          /\ ToHold(c) /\ UNCHANGED <<status, settling>>
       \/ status[s] = "CANCELLED" /\ Settle(s, "repay") /\ Return(c) /\ UNCHANGED status
    /\ UNCHANGED <<driver, onTrip, free, searchVars, client, attempt, paid, revenue, failures>>

HoldRevenue(c) ==
    /\ At(c, "hold")
    /\ Hold(call[c].s)
    /\ GoTo(c, "notify")
    /\ UNCHANGED <<status, driver, onTrip, free, searchVars, client, attempt, paid,
                   settling, failures>>

Notified(c) ==
    /\ At(c, "notify")
    /\ Return(c)
    /\ UNCHANGED <<status, driver, onTrip, free, searchVars, moneyVars, failures>>

\* An error of handleCaptured, wherever it rises (the confirmation, the exchange
\* rate and the transaction of the revenue, the notification).
CaptureThrows(c) ==
    /\ call[c].at \in Captured
    /\ failures < MaxFailures /\ failures' = failures + 1
    /\ GoTo(c, "resetAttempt")
    /\ UNCHANGED <<status, driver, onTrip, free, searchVars, moneyVars>>

\* Mutant: only the payment is written back.
ResetPaymentOnly(c) ==
    /\ At(c, "resetAttempt")
    /\ GoTo(c, "resetPayment")
    /\ UNCHANGED <<status, driver, onTrip, free, searchVars, moneyVars, failures>>

\* The catch block: both rows are written by id, whatever they have become.
ResetAttempt(c) ==
    /\ At(c, "resetAttempt")
    /\ attempt' = [attempt EXCEPT ![call[c].s] = "PENDING"]
    /\ GoTo(c, "resetPayment")
    /\ UNCHANGED <<status, driver, onTrip, free, searchVars, client, paid, revenue,
                   settling, failures>>

ResetPayment(c) ==
    /\ At(c, "resetPayment")
    /\ paid' = [paid EXCEPT ![call[c].s] = "PENDING"]
    /\ Return(c)
    /\ UNCHANGED <<status, driver, onTrip, free, searchVars, client, attempt, revenue,
                   settling, failures>>

-----------------------------------------------------------------------------
(* Searching a driver                                                       *)

\* By the list, or by an invitation; with the trip or without.
Accept(c, s, d, withTrip) ==
    /\ status[s] = "SEARCHING_DRIVER" /\ window[s] = "open"
    /\ withTrip => d = TripDriver
    /\ At(c, "idle")
    /\ Becomes(c, [Idle EXCEPT !.at = "accept", !.s = s, !.d = d, !.trip = withTrip])
    /\ UNCHANGED <<status, driver, onTrip, free, searchVars, moneyVars, failures>>

\* Mutant: the parcel is given by id, as it was read.
AcceptUnclaimed(c) ==
    LET s == call[c].s IN
    /\ At(c, "accept")
    /\ IF call[c].trip => free > 0
       THEN /\ SetStatus(s, "DRIVER_ASSIGNED")
            /\ driver' = [driver EXCEPT ![s] = call[c].d]
            /\ onTrip' = [onTrip EXCEPT ![s] = call[c].trip]
            /\ free' = IF call[c].trip THEN free - 1 ELSE free
            /\ Hold(s)
       ELSE UNCHANGED <<status, driver, onTrip, free, revenue>>
    /\ Return(c)
    /\ UNCHANGED <<searchVars, client, attempt, paid, settling, failures>>

\* One transaction: the parcel, the room on the trip and the revenue, or nothing.
\* windowEnd is compared with the time of the read, which it cannot have fallen below.
AcceptClaim(c) ==
    LET s == call[c].s IN
    /\ At(c, "accept")
    /\ IF status[s] = "SEARCHING_DRIVER" /\ (call[c].trip => free > 0)
       THEN /\ SetStatus(s, "DRIVER_ASSIGNED")
            /\ driver' = [driver EXCEPT ![s] = call[c].d]
            /\ onTrip' = [onTrip EXCEPT ![s] = call[c].trip]
            /\ free' = IF call[c].trip THEN free - 1 ELSE free
            /\ Hold(s)
       ELSE UNCHANGED <<status, driver, onTrip, free, revenue>>
    /\ Return(c)
    /\ UNCHANGED <<searchVars, client, attempt, paid, settling, failures>>

ExtendWindow(c, s) ==
    /\ status[s] = "SEARCHING_DRIVER"
    /\ extensions < MaxExtensions /\ extensions' = extensions + 1
    /\ Begin(c, "extend", s, Nobody)
    /\ UNCHANGED <<status, driver, onTrip, free, window, asked, moneyVars, failures>>

\* An update by id: it looks at nothing.
ExtendUpdate(c) ==
    /\ At(c, "extend")
    /\ window' = [window EXCEPT ![call[c].s] = "open"]
    /\ asked' = [asked EXCEPT ![call[c].s] = "no"]
    /\ Return(c)
    /\ UNCHANGED <<status, driver, onTrip, free, extensions, moneyVars, failures>>

\* Time only matters until there is a driver.
WindowEnds(s) ==
    /\ status[s] \in {"CREATED", "SEARCHING_DRIVER"} /\ window[s] = "open"
    /\ window' = [window EXCEPT ![s] = "over"]
    /\ UNCHANGED <<status, driver, onTrip, free, asked, extensions, moneyVars, call, failures>>

GraceEnds(s) ==
    /\ status[s] = "SEARCHING_DRIVER" /\ asked[s] = "within"
    /\ asked' = [asked EXCEPT ![s] = "before"]
    /\ UNCHANGED <<status, driver, onTrip, free, window, extensions, moneyVars, call, failures>>

-----------------------------------------------------------------------------
(* Cancelling                                                               *)

Cancel(c, s, by) ==
    /\ by = "arbiter" => StaffDecides
    /\ status[s] \in Cancellable[by]
    /\ At(c, "idle")
    /\ Becomes(c, [Idle EXCEPT !.at = "cancel", !.s = s, !.by = by, !.trip = onTrip[s]])
    /\ UNCHANGED <<status, driver, onTrip, free, searchVars, moneyVars, failures>>

\* The claim looks at the status again; the room is given back to the trip that
\* was read.  Refund and revenue are settled afterwards, by the event's handler.
Withdraw(s, givesRoomBack) ==
    /\ SetStatus(s, "CANCELLED")
    /\ free' = IF givesRoomBack THEN free + 1 ELSE free
    /\ Settle(s, "refund")

\* Mutant: cancelled by id, after the read.
CancelUnclaimed(c) ==
    /\ At(c, "cancel")
    /\ Withdraw(call[c].s, call[c].trip)
    /\ Return(c)
    /\ UNCHANGED <<driver, onTrip, searchVars, client, attempt, paid, revenue, failures>>

CancelClaim(c) ==
    /\ At(c, "cancel")
    /\ IF status[call[c].s] \in Cancellable[call[c].by]
       THEN Withdraw(call[c].s, call[c].trip)
       ELSE UNCHANGED <<status, free, settling>>
    /\ Return(c)
    /\ UNCHANGED <<driver, onTrip, searchVars, client, attempt, paid, revenue, failures>>

\* A refund leaves the shipment's status alone.
StaffRefunds(s) ==
    /\ StaffDecides /\ paid[s] = "CAPTURED"
    /\ Settle(s, "repay")
    /\ UNCHANGED <<status, driver, onTrip, free, searchVars, client, attempt, paid, revenue,
                   call, failures>>

\* executeRefund() gives back what was captured and not given back before.
Refundable(s) == paid[s] = "CAPTURED" /\ attempt[s] = "CAPTURED" /\ client[s] = "debited"

\* refundShipment(), called alone ("repay") or by settleCancelledShipment() ("refund"),
\* which reverses the revenue whatever there was to refund.
Refund(s, what) ==
    /\ what \in settling[s]
    /\ IF Refundable(s)
       THEN /\ client' = [client EXCEPT ![s] = "refunded"]
            /\ paid' = [paid EXCEPT ![s] = "REFUNDED"]
       ELSE UNCHANGED <<client, paid>>
    /\ settling' = [settling EXCEPT ![s] =
          (@ \ {what}) \cup (IF what = "refund" \/ Refundable(s) THEN {"reverse"} ELSE {})]
    /\ UNCHANGED <<status, driver, onTrip, free, searchVars, attempt, revenue, call, failures>>

Reverse(s) ==
    /\ "reverse" \in settling[s]
    /\ SettleRevenue(s, "REVERSED")
    /\ settling' = [settling EXCEPT ![s] = @ \ {"reverse"}]
    /\ UNCHANGED <<status, driver, onTrip, free, searchVars, client, attempt, paid, call, failures>>

-----------------------------------------------------------------------------
(* The journey: each step is one conditional update                         *)

Advance(s, from, to) ==
    /\ status[s] = from
    /\ SetStatus(s, to)
    /\ UNCHANGED <<driver, onTrip, free, searchVars, moneyVars, failures>>

MarkPickupPending(s)   == Advance(s, "DRIVER_ASSIGNED", "PICKUP_PENDING") /\ UNCHANGED call
MarkPickedUp(s)        == Advance(s, "PICKUP_PENDING", "PICKED_UP") /\ UNCHANGED call
MarkInTransit(s)       == Advance(s, "PICKED_UP", "IN_TRANSIT") /\ UNCHANGED call
MarkDeliveryPending(s) == Advance(s, "IN_TRANSIT", "DELIVERY_PENDING") /\ UNCHANGED call

MarkDelivered(c, s) ==
    Advance(s, "DELIVERY_PENDING", "DELIVERED") /\ Begin(c, "complete", s, Nobody)

Complete(c) ==
    /\ At(c, "complete")
    /\ Advance(call[c].s, "DELIVERED", "COMPLETED")
    /\ GoTo(c, "release")

NotDeliveredAnyMore(c) ==
    /\ At(c, "complete") /\ status[call[c].s] # "DELIVERED"
    /\ Return(c)
    /\ UNCHANGED <<status, driver, onTrip, free, searchVars, moneyVars, failures>>

ReleaseFunds(c) ==
    /\ At(c, "release")
    /\ SettleRevenue(call[c].s, "RELEASED")
    /\ Return(c)
    /\ UNCHANGED <<status, driver, onTrip, free, searchVars, client, attempt, paid,
                   settling, failures>>

-----------------------------------------------------------------------------
(* The jobs: each reads a list, then treats its parcels one by one.  A pass  *)
(* reads its lists in a fixed order; an empty list changes nothing and is    *)
(* not begun, and which list comes next is left open.                        *)

List(c, where, listed) ==
    /\ listed # {}
    /\ At(c, "idle")
    /\ Becomes(c, [Idle EXCEPT !.at = where, !.todo = listed])
Takes(c, where, s) ==
    /\ At(c, where) /\ s \in call[c].todo
    /\ Becomes(c, IF call[c].todo = {s} THEN Idle ELSE [call[c] EXCEPT !.todo = @ \ {s}])

Searching == {s \in Parcels : status[s] = "SEARCHING_DRIVER"}

ListEnded ==
    /\ "window" \in JobsOn
    /\ List(WindowJob, "ask", {s \in Searching : window[s] = "over" /\ asked[s] = "no"})
    /\ UNCHANGED <<status, driver, onTrip, free, searchVars, moneyVars, failures>>

\* Mutant: the client is notified and nothing is written.
RequestUnmarked(s) ==
    /\ Takes(WindowJob, "ask", s)
    /\ UNCHANGED <<status, driver, onTrip, free, searchVars, moneyVars, failures>>

\* The claim does not look at the window again.
RequestExtension(s) ==
    /\ Takes(WindowJob, "ask", s)
    /\ asked' = [asked EXCEPT ![s] = IF s \in Searching /\ @ = "no" THEN "within" ELSE @]
    /\ UNCHANGED <<status, driver, onTrip, free, window, extensions, moneyVars, failures>>

ListUnextended ==
    /\ "window" \in JobsOn
    /\ List(WindowJob, "expire", {s \in Searching : asked[s] = "before"})
    /\ UNCHANGED <<status, driver, onTrip, free, searchVars, moneyVars, failures>>

\* Neither does this one, nor at the grace: a prolongation clears `asked`.
ExpireSearch(s) ==
    /\ Takes(WindowJob, "expire", s)
    /\ IF s \in Searching /\ asked[s] # "no" THEN Withdraw(s, FALSE)
       ELSE UNCHANGED <<status, free, settling>>
    /\ UNCHANGED <<driver, onTrip, searchVars, client, attempt, paid, revenue, failures>>

\* Which of the unpaid are a day old is the clock's choice.
ListUnpaid ==
    /\ "window" \in JobsOn
    /\ \E old \in SUBSET {s \in Parcels : status[s] = "CREATED"} : List(WindowJob, "unpaid", old)
    /\ UNCHANGED <<status, driver, onTrip, free, searchVars, moneyVars, failures>>

ExpireUnpaid(s) ==
    /\ Takes(WindowJob, "unpaid", s)
    /\ IF status[s] = "CREATED" THEN Withdraw(s, onTrip[s])
       ELSE UNCHANGED <<status, free, settling>>
    /\ UNCHANGED <<driver, onTrip, searchVars, client, attempt, paid, revenue, failures>>

WindowPass ==
    \/ ListEnded \/ ListUnextended \/ ListUnpaid
    \/ \E s \in Parcels : RequestExtension(s) \/ ExpireSearch(s) \/ ExpireUnpaid(s)

ListUnreleased ==
    /\ "held" \in JobsOn
    /\ List(HeldJob, "late", {s \in Parcels : status[s] \in Delivered /\ revenue[s] = "PENDING"})
    /\ UNCHANGED <<status, driver, onTrip, free, searchVars, moneyVars, failures>>

ReleaseLate(s) ==
    /\ Takes(HeldJob, "late", s)
    /\ SettleRevenue(s, "RELEASED")
    /\ UNCHANGED <<status, driver, onTrip, free, searchVars, client, attempt, paid,
                   settling, failures>>

ListUnheld ==
    /\ "held" \in JobsOn
    /\ List(HeldJob, "unheld", {s \in Parcels : /\ driver[s] # Nobody
                                                /\ status[s] \in WithDriver
                                                /\ paid[s] = "CAPTURED" /\ revenue[s] = "NONE"})
    /\ UNCHANGED <<status, driver, onTrip, free, searchVars, moneyVars, failures>>

\* Whatever has become of the shipment since.
HoldLate(s) ==
    /\ Takes(HeldJob, "unheld", s)
    /\ Hold(s)
    /\ UNCHANGED <<status, driver, onTrip, free, searchVars, client, attempt, paid,
                   settling, failures>>

HeldPass ==
    \/ ListUnreleased \/ ListUnheld
    \/ \E s \in Parcels : ReleaseLate(s) \/ HoldLate(s)

\* Mutant: only the missing refunds are looked for.
RecoverUnrefunded(s) ==
    /\ "refund" \in JobsOn
    /\ status[s] = "CANCELLED" /\ settling[s] = {}
    /\ paid[s] = "CAPTURED"
    /\ Settle(s, "refund")
    /\ UNCHANGED <<status, driver, onTrip, free, searchVars, client, attempt, paid, revenue,
                   call, failures>>

\* Cancelled and not refunded, or with revenue still held for the driver.  The
\* list is looked at again by the settlement itself: one step per shipment.
RecoverRefund(s) ==
    /\ "refund" \in JobsOn
    /\ status[s] = "CANCELLED" /\ settling[s] = {}
    /\ paid[s] = "CAPTURED" \/ revenue[s] = "PENDING"
    /\ Settle(s, IF paid[s] = "CAPTURED" THEN "refund" ELSE "reverse")
    /\ UNCHANGED <<status, driver, onTrip, free, searchVars, client, attempt, paid, revenue,
                   call, failures>>

-----------------------------------------------------------------------------
\* The process dies in the middle of a call, of a job's pass or of a handler.
Die(c) ==
    /\ ~At(c, "idle")
    /\ failures < MaxFailures /\ failures' = failures + 1
    /\ Return(c)
    /\ UNCHANGED <<status, driver, onTrip, free, searchVars, moneyVars>>

HandlerDies(s) ==
    /\ settling[s] # {}
    /\ failures < MaxFailures /\ failures' = failures + 1
    /\ settling' = [settling EXCEPT ![s] = {}]
    /\ UNCHANGED <<status, driver, onTrip, free, searchVars, client, attempt, paid, revenue, call>>

Continue(c) ==
    \/ ClaimAttempt(c) \/ ClaimPayment(c) \/ ConfirmPayment(c) \/ HoldRevenue(c)
    \/ Notified(c) \/ ResetAttempt(c) \/ ResetPayment(c)
    \/ AcceptClaim(c) \/ ExtendUpdate(c)
    \/ CancelClaim(c) \/ Complete(c) \/ NotDeliveredAnyMore(c) \/ ReleaseFunds(c)

Start(c, s) ==
    \/ Webhook(c, s) \/ ExtendWindow(c, s) \/ MarkDelivered(c, s)
    \/ \E by \in DOMAIN Cancellable : Cancel(c, s, by)
    \/ \E d \in Drivers, withTrip \in BOOLEAN : Accept(c, s, d, withTrip)

Journey(s) ==
    MarkPickupPending(s) \/ MarkPickedUp(s) \/ MarkInTransit(s) \/ MarkDeliveryPending(s)

Clock(s) == WindowEnds(s) \/ GraceEnds(s)

\* The handlers of a cancellation, then the recovery after them.
Settlement(s) ==
    Refund(s, "refund") \/ Refund(s, "repay") \/ Reverse(s) \/ RecoverRefund(s)

Next ==
    \/ \E c \in Calls : Continue(c) \/ CaptureThrows(c) \/ \E s \in Parcels : Start(c, s)
    \/ \E s \in Parcels :
          \/ \E chosen \in BOOLEAN : Create(s, chosen)
          \/ Pay(s) \/ Journey(s) \/ Clock(s)
          \/ StaffRefunds(s) \/ Settlement(s) \/ HandlerDies(s)
    \/ WindowPass \/ HeldPass
    \/ \E c \in Workers : Die(c)

Spec == Init /\ [][Next]_vars

\* The clock goes on, handlers that run end, the jobs' timers fire, and the
\* provider announces a capture until it is answered without an error.  Nobody
\* has to accept, prolong, pay or carry.
Fairness ==
    /\ WF_vars(WindowPass) /\ WF_vars(HeldPass)
    /\ \A c \in Calls : WF_vars(Continue(c))
    /\ \A s \in Parcels : /\ WF_vars(Clock(s)) /\ WF_vars(Settlement(s))
                          /\ WF_vars(\E c \in Calls : Webhook(c, s))

FairSpec == Spec /\ Fairness

-----------------------------------------------------------------------------
\* Types: above all, the room left on the trip stays between nothing and what was announced,
\* although acceptances take from it and cancellations give back to it by increments.
TypeOK ==
    /\ status \in [Parcels -> ShipmentStatus]
    /\ driver \in [Parcels -> Drivers \cup {Nobody}]
    /\ onTrip \in [Parcels -> BOOLEAN]
    /\ free \in 0..Capacity
    /\ window \in [Parcels -> {"open", "over"}]
    /\ asked \in [Parcels -> {"no", "within", "before"}]
    /\ client \in [Parcels -> {"none", "debited", "refunded"}]
    /\ attempt \in [Parcels -> {"PENDING", "CAPTURED"}]
    /\ paid \in [Parcels -> {"PENDING", "CAPTURED", "REFUNDED"}]
    /\ revenue \in [Parcels -> {"NONE", "PENDING", "RELEASED", "REVERSED"}]
    /\ settling \in [Parcels -> SUBSET {"refund", "repay", "reverse"}]
    /\ call \in [Workers -> CallState]
    /\ extensions \in 0..MaxExtensions /\ failures \in 0..MaxFailures

\* The parcels that count on the trip never outnumber the room it announced,
\* however orders, acceptances and cancellations that read the parcel before interleave (and the
\* expiries of the jobs, where there are jobs).
Aboard == {s \in Parcels : onTrip[s] /\ status[s] # "CANCELLED"}
NeverOverloaded == free + Cardinality(Aboard) <= Capacity

\* The first driver who accepts wins: once a parcel has a driver no other call
\* takes it from him ("deux conducteurs simultanes ne peuvent jamais tous les
\* deux reussir"), not even after its trip or its window changed.
FirstDriverWins ==
    [][\A s \in Parcels : driver[s] # Nobody => driver'[s] = driver[s]]_vars

\* A parcel whose driver holds the goods, or is on his way, is one whose client
\* was debited and has not got his money back, although the confirmation, the
\* cancellation, the refund and a replayed capture look at different rows.
\* payments.status itself may say PENDING meanwhile: see RecordedAsPaid.
EngagedIsPaid ==
    \A s \in Parcels : status[s] \in WithDriver => client[s] = "debited"

\* What the catch block makes false: the payment of a parcel that has a driver
\* is recorded as captured.
RecordedAsPaid ==
    \A s \in Parcels : status[s] \in WithDriver => paid[s] = "CAPTURED"

\* Parcel and money follow Delivery.tla: the driver earns only for a delivered
\* parcel, the client is refunded only for a withdrawn one, never both, and he
\* is refunded once although a reset makes the payment refundable again.
Goods(s) ==
    CASE status[s] \in Carried -> "driver"
      [] status[s] \in Delivered -> "recipient"
      [] status[s] = "CANCELLED" -> "withdrawn"
      [] OTHER -> "sender"
Money(s) ==
    CASE client[s] = "refunded" -> "returned"
      [] client[s] = "none" -> "unpaid"
      [] client[s] = "debited" /\ revenue[s] = "RELEASED" -> "earned"
      [] OTHER -> "kept"
D == INSTANCE Delivery WITH Items <- Parcels,
        goods <- [s \in Parcels |-> Goods(s)], money <- [s \in Parcels |-> Money(s)]
ImplementsDelivery == D!Spec

\* A search ends: accepted, cancelled, or expired by the job.
SearchEnds == \A s \in Parcels : status[s] = "SEARCHING_DRIVER" ~> status[s] # "SEARCHING_DRIVER"

\* Who delivered is paid, even if the process died between the delivery and the
\* release, or before his revenue was held, or the capture failed after the
\* confirmation and its payment went back to PENDING while the parcel moved on.
DeliveredIsPaid == \A s \in Parcels : status[s] \in Delivered ~> revenue[s] = "RELEASED"

\* A withdrawn parcel whose payment was once captured keeps neither the client's
\* money nor the driver's revenue, whatever failed, also when the catch block
\* forgets the capture, and when the revenue is held after the reversal.
WithdrawnIsSettled ==
    \A s \in Parcels : status[s] = "CANCELLED" /\ (paid[s] = "CAPTURED" \/ revenue[s] = "PENDING")
                           ~> client[s] # "debited" /\ revenue[s] # "PENDING"

\* A gain is only put aside for a driver while the client's payment is there.
HeldIsPaidFor ==
    [][\A s \in Parcels : driver[s] = Nobody /\ driver'[s] # Nobody => client[s] # "refunded"]_vars

\* A client is asked to prolong, and a day later refunded, only when his window is over.
AskedIsOver == \A s \in Parcels : asked[s] # "no" => window[s] = "over"
=============================================================================
