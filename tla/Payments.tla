------------------------------- MODULE Payments -------------------------------
(***************************************************************************)
(* The money of one booking: PaymentsService (payments/payments.service.ts)*)
(* with the calls it makes on the booking (trips/bookings.service.ts) and  *)
(* on the driver's held revenue (wallets/wallets.service.ts), and the two  *)
(* recovery jobs.  Bookings do not share rows, so one booking is modelled, *)
(* with every attempt made to pay it.                                      *)
(*                                                                         *)
(* As in Payouts.tla a "call" runs one statement or one transaction per    *)
(* step; `then` is what it does once its refund is over.  A transaction    *)
(* that reads rows and then claims them is two steps: under READ COMMITTED *)
(* others commit in between.  Amounts are parts of the price.              *)
(***************************************************************************)
EXTENDS Integers, Sequences, Functions

CONSTANTS
    Attempts,          \* payment_transactions that try to capture
    Calls,             \* concurrent webhooks, event handlers and routes
    RefundJob,         \* RefundRecoveryService
    HeldJob,           \* HeldFundsRecoveryService
    NoAttempt,
    Price,             \* booking.totalAmount
    Net,               \* what is held for the driver: the price less the commission
    Shares,            \* amounts the cancellation policy may give back
    StaffAmounts,      \* amounts the staff or an arbiter may refund ({}: none)
    JobsWait,          \* do the recovery delays outlast every running call?
    Faults,            \* the kinds of incident that may happen
    MaxFaults          \* bound: how many happen in all

ASSUME PaymentsAssumption ==
    /\ Price \in Nat \ {0} /\ Net \in 0..Price
    /\ Shares \subseteq 0..Price /\ StaffAmounts \subseteq 1..Price
    /\ JobsWait \in BOOLEAN
    /\ Faults \subseteq {"refusal", "lostAnswer", "failure", "crash", "dispute"}
    /\ MaxFaults \in Nat
    /\ {RefundJob, HeldJob} \cap Calls = {} /\ RefundJob # HeldJob
    /\ NoAttempt \notin Attempts

VARIABLES
    booking,    \* bookings.status
    share,      \* bookings.refundPercentage, as an amount
    noShow,     \* is NO_SHOW_REASON the cancellation reason?
    dispute,    \* is there an open dispute without a resolution?
    payment,    \* payments.status ("NONE" before the row exists)
    current,    \* the calls whose read of the payment has its latest updatedAt
    attempt,    \* payment_transactions.status of each attempt
    announced,  \* what the provider announces of each attempt
    refunded,   \* sum of the REFUNDED payment_transactions
    returned,   \* history: what the provider gave back to the client
    rows,       \* wallet_transactions of the booking, in order of creation
    pending,    \* their part of wallets.pendingBalance
    balance,    \* their part of wallets.balance
    call,       \* where each call stands
    faults      \* how many incidents happened

bookingVars == <<booking, share, noShow, dispute>>
paymentVars == <<payment, current, attempt, announced>>
refundVars  == <<refunded, returned>>
walletVars  == <<rows, pending, balance>>
vars == <<bookingVars, paymentVars, refundVars, walletVars, call, faults>>

-----------------------------------------------------------------------------
NoShare == -1
BookingStatus == {"PENDING_PAYMENT", "CONFIRMED", "COMPLETED", "CANCELLED", "REFUNDED"}
PaymentStatus == {"NONE", "PENDING", "FAILED", "CAPTURED", "PARTIALLY_REFUNDED", "REFUNDED"}
AttemptStatus == {"NONE", "PENDING", "FAILED", "CAPTURED"}
Announcement  == {"none", "FAILED", "MISMATCH", "CAPTURED"}
Taken == {"CAPTURED", "PARTIALLY_REFUNDED", "REFUNDED"}
Refundable == {"CAPTURED", "PARTIALLY_REFUNDED"}
Payable == {"PENDING_PAYMENT", "CONFIRMED"}

Capture == {"confirm", "note", "hold", "notify"}
Location == Capture \cup
    {"idle", "failAttempt", "failPayment", "claimAttempt", "claimPayment",
     "resetAttempt", "resetPayment", "refund", "claimRefund", "ask", "rollback",
     "markRefunded", "deduct", "deducting", "reverse", "reversing",
     "release", "releasing", "unresolve"}
Afterwards == {"idle", "failPayment", "reverse", "release"}

Happens(incident) ==
    incident \in Faults /\ faults < MaxFaults /\ faults' = faults + 1

Workers == Calls \cup {RefundJob, HeldJob}
Deciders == {"other", "arbiter", "arbiterAmount"}
Idle == [at |-> "idle", by |-> "other", a |-> NoAttempt, then |-> "idle", amount |-> 0,
         seen |-> "NONE", full |-> FALSE, read |-> {}]

At(c, place) == call[c].at = place
GoTo(c, place) == call' = [call EXCEPT ![c].at = place]
Return(c) == call' = [call EXCEPT ![c] = Idle]
BeginBy(c, by, place, a, then, amount) ==
    /\ At(c, "idle")
    /\ call' = [call EXCEPT ![c] = [Idle EXCEPT !.at = place, !.by = by, !.a = a,
                                                !.then = then, !.amount = amount]]
Begin(c, place, a, then, amount) == BeginBy(c, "other", place, a, then, amount)
\* The refund (or the wallet operation) is over: on with what comes after it.
Proceed(c) ==
    IF call[c].then = "idle" THEN Return(c)
    ELSE call' = [call EXCEPT ![c].at = call[c].then, ![c].then = "idle"]
\* An error rises: the handlers log it, resolve() takes its decision back.
Throw(c) == IF call[c].by = "other" THEN Return(c) ELSE GoTo(c, "unresolve")
\* Nothing to refund, which executeRefundByAmount() takes for an error.
NothingRefunded(c) == IF call[c].by = "arbiterAmount" THEN Throw(c) ELSE Proceed(c)

\* Any write of the payment changes its updatedAt.
WritePayment(s) == payment' = s /\ current' = {}

Revenue == 1    \* the gross and commission rows, written and settled together
Pending == {i \in DOMAIN rows : rows[i].status = "PENDING"}
Completed == {i \in DOMAIN rows : rows[i].status = "COMPLETED"}
Sum(ids) == SumFunctionOnSet([i \in DOMAIN rows |-> rows[i].amount], ids)
Settle(ids, status) ==
    rows' = [i \in DOMAIN rows |-> IF i \in ids THEN [rows[i] EXCEPT !.status = status]
                                   ELSE rows[i]]

Init ==
    /\ booking = "PENDING_PAYMENT" /\ share = NoShare /\ noShow = FALSE /\ dispute = FALSE
    /\ payment = "NONE" /\ current = {}
    /\ attempt = [a \in Attempts |-> "NONE"]
    /\ announced = [a \in Attempts |-> "none"]
    /\ refunded = 0 /\ returned = 0
    /\ rows = <<>> /\ pending = 0 /\ balance = 0
    /\ call = [c \in Workers |-> Idle]
    /\ faults = 0

-----------------------------------------------------------------------------
(* Paying: initiate() and the provider                                      *)

\* One step: the new row changes nothing until the provider answers for it.
Initiate(a) ==
    /\ attempt[a] = "NONE"
    /\ payment \notin Taken
    /\ booking = "PENDING_PAYMENT"
    /\ IF payment = "NONE" THEN WritePayment("PENDING") ELSE UNCHANGED <<payment, current>>
    /\ attempt' = [attempt EXCEPT ![a] = "PENDING"]
    /\ UNCHANGED <<bookingVars, announced, refundVars, walletVars, call, faults>>

\* The client accepts or not; another amount than asked is possible (external).
ProviderDecides(a) ==
    /\ attempt[a] = "PENDING" /\ announced[a] = "none"
    /\ \E o \in Announcement \ {"none"} : announced' = [announced EXCEPT ![a] = o]
    /\ UNCHANGED <<bookingVars, payment, current, attempt, refundVars, walletVars, call, faults>>

-----------------------------------------------------------------------------
(* settleTransaction(): a webhook, delivered any number of times            *)

Webhook(c, a) ==
    /\ attempt[a] # "CAPTURED"
    /\ \/ announced[a] = "CAPTURED" /\ Begin(c, "claimAttempt", a, "idle", 0)
       \/ announced[a] = "FAILED"   /\ Begin(c, "failAttempt", a, "failPayment", 0)
       \/ announced[a] = "MISMATCH" /\ Begin(c, "failAttempt", a, "idle", 0)
    /\ UNCHANGED <<bookingVars, paymentVars, refundVars, walletVars, faults>>

FailAttempt(c) ==
    /\ At(c, "failAttempt")
    /\ attempt' = [attempt EXCEPT ![call[c].a] = IF @ = "CAPTURED" THEN @ ELSE "FAILED"]
    /\ Proceed(c)
    /\ UNCHANGED <<bookingVars, payment, current, announced, refundVars, walletVars, faults>>

FailPayment(c) ==
    /\ At(c, "failPayment")
    /\ IF payment \in Taken THEN UNCHANGED <<payment, current>> ELSE WritePayment("FAILED")
    /\ Return(c)
    /\ UNCHANGED <<bookingVars, attempt, announced, refundVars, walletVars, faults>>

ClaimAttempt(c) ==
    /\ At(c, "claimAttempt")
    /\ attempt' = [attempt EXCEPT ![call[c].a] = "CAPTURED"]
    /\ IF attempt[call[c].a] = "CAPTURED" THEN Return(c) ELSE GoTo(c, "claimPayment")
    /\ UNCHANGED <<bookingVars, payment, current, announced, refundVars, walletVars, faults>>

\* A second captured attempt finds the payment taken and is only logged.
ClaimPayment(c) ==
    /\ At(c, "claimPayment")
    /\ IF payment \in Taken
       THEN Return(c) /\ UNCHANGED <<payment, current>>
       ELSE GoTo(c, "confirm") /\ WritePayment("CAPTURED")
    /\ UNCHANGED <<bookingVars, attempt, announced, refundVars, walletVars, faults>>

(* handleCaptured(): confirm the booking and hold the driver's revenue.     *)

\* Mutant: confirms whatever the status is.
ConfirmAnyStatus(c) ==
    /\ At(c, "confirm")
    /\ booking' = "CONFIRMED"
    /\ GoTo(c, "hold")
    /\ UNCHANGED <<share, noShow, dispute, paymentVars, refundVars, walletVars, faults>>

Confirm(c) ==
    /\ At(c, "confirm")
    /\ booking' = IF booking = "PENDING_PAYMENT" THEN "CONFIRMED" ELSE booking
    /\ GoTo(c, IF booking \in {"CANCELLED", "REFUNDED"} THEN "note" ELSE "hold")
    /\ UNCHANGED <<share, noShow, dispute, paymentVars, refundVars, walletVars, faults>>

\* Mutant: refunds without noting the decision for the recovery.
RefundUnnoted(c) ==
    /\ At(c, "note")
    /\ call' = [call EXCEPT ![c].at = "refund", ![c].amount = Price]
    /\ UNCHANGED <<bookingVars, paymentVars, refundVars, walletVars, faults>>

\* Paid too late: everything goes back to the client.
NoteFullRefund(c) ==
    /\ At(c, "note")
    /\ share' = IF booking = "CANCELLED" THEN Price ELSE share
    /\ call' = [call EXCEPT ![c].at = "refund", ![c].amount = Price]
    /\ UNCHANGED <<booking, noShow, dispute, paymentVars, refundVars, walletVars, faults>>

\* Mutant: holds again when the webhook is replayed.
HoldAgain(c) ==
    /\ At(c, "hold")
    /\ rows' = Append(rows, [amount |-> Net, status |-> "PENDING"])
    /\ pending' = pending + Net
    /\ GoTo(c, "notify")
    /\ UNCHANGED <<bookingVars, paymentVars, refundVars, balance, faults>>

\* holdRevenue: one transaction under the wallet's lock, once per booking.
HoldRevenue(c) ==
    /\ At(c, "hold")
    /\ IF rows = <<>>
       THEN /\ rows' = <<[amount |-> Net, status |-> "PENDING"]>>
            /\ pending' = pending + Net
       ELSE UNCHANGED <<rows, pending>>
    /\ GoTo(c, "notify")
    /\ UNCHANGED <<bookingVars, paymentVars, refundVars, balance, faults>>

Notified(c) ==
    /\ At(c, "notify")
    /\ Return(c)
    /\ UNCHANGED <<bookingVars, paymentVars, refundVars, walletVars, faults>>

\* The catch block of settleTransaction makes the attempt replayable.
CaptureThrows(c) ==
    /\ call[c].at \in Capture
    /\ Happens("failure")
    /\ GoTo(c, "resetAttempt")
    /\ UNCHANGED <<bookingVars, paymentVars, refundVars, walletVars>>

ResetAttempt(c) ==
    /\ At(c, "resetAttempt")
    /\ attempt' = [attempt EXCEPT ![call[c].a] = "PENDING"]
    /\ GoTo(c, "resetPayment")
    /\ UNCHANGED <<bookingVars, payment, current, announced, refundVars, walletVars, faults>>

ResetPayment(c) ==
    /\ At(c, "resetPayment")
    /\ WritePayment("PENDING")
    /\ Return(c)
    /\ UNCHANGED <<bookingVars, attempt, announced, refundVars, walletVars, faults>>

-----------------------------------------------------------------------------
(* What ends a booking.  Its event handler, or the recovery after it, runs   *)
(* settleCancelledBooking(): refund the share, then settle the held funds.   *)

\* Mutant: a full refund is taken for a partial one.
AfterRefundTooStrict(s) == IF s > Price THEN "reverse" ELSE "release"

AfterRefund(s) == IF s >= Price THEN "reverse" ELSE "release"

\* The client (by the policy), the driver (trip cancelled, all back) or the
\* arbiter of a dispute; each claims the booking once.
Cancel(c, s, from) ==
    /\ booking \in from
    /\ booking' = "CANCELLED" /\ share' = s
    /\ Begin(c, "refund", NoAttempt, AfterRefund(s), s)
    /\ UNCHANGED <<noShow, dispute, paymentVars, refundVars, walletVars, faults>>

CancelByClient(c)  == \E s \in Shares : Cancel(c, s, Payable)
CancelWithTrip(c)  == Cancel(c, Price, Payable)
ExpireUnpaid(c)    == Cancel(c, 0, {"PENDING_PAYMENT"})

\* markDroppedOff and closeAsNoShow: the driver is paid.
Complete(c) ==
    /\ booking = "CONFIRMED"
    /\ booking' = "COMPLETED"
    /\ Begin(c, "release", NoAttempt, "idle", 0)
    /\ UNCHANGED <<share, noShow, dispute, paymentVars, refundVars, walletVars, faults>>

DeclareNoShow(c) ==
    /\ booking = "CONFIRMED" \/ (booking = "CANCELLED" /\ noShow)
    /\ booking' = "CANCELLED" /\ noShow' = TRUE
    /\ Begin(c, "release", NoAttempt, "idle", 0)
    /\ UNCHANGED <<share, dispute, paymentVars, refundVars, walletVars, faults>>

StaffRefunds(c) ==
    /\ \E m \in StaffAmounts : Begin(c, "refund", NoAttempt, "idle", m)
    /\ UNCHANGED <<bookingVars, paymentVars, refundVars, walletVars, faults>>

OpenDispute ==
    /\ ~dispute /\ dispute' = TRUE
    /\ Happens("dispute")
    /\ UNCHANGED <<booking, share, noShow, paymentVars, refundVars, walletVars, call>>

\* The arbiter's cancellation is also taken up again after a failed attempt.
CancelByArbiter(c, s) ==
    /\ IF booking \in {"CANCELLED", "REFUNDED"}
       THEN booking = "CANCELLED" /\ share = s /\ UNCHANGED <<booking, share>>
       ELSE booking' = "CANCELLED" /\ share' = s
    /\ BeginBy(c, "arbiter", "refund", NoAttempt, AfterRefund(s), s)

\* The resolution is recorded, which ends the dispute, and its consequence runs:
\* none, DRIVER_PAYOUT, FULL_REFUND, a refund by amount or CANCELLATION.
ResolveDispute(c) ==
    /\ dispute /\ dispute' = FALSE
    /\ \/ UNCHANGED <<booking, share, call>>
       \/ /\ UNCHANGED <<booking, share>>
          /\ \/ BeginBy(c, "arbiter", "release", NoAttempt, "idle", 0)
             \/ BeginBy(c, "arbiter", "refund", NoAttempt, "idle", Price)
             \/ \E m \in StaffAmounts :
                  BeginBy(c, "arbiterAmount", "refund", NoAttempt, "idle", m)
       \/ \E s \in StaffAmounts : CancelByArbiter(c, s)
    /\ UNCHANGED <<noShow, paymentVars, refundVars, walletVars, faults>>

\* The consequence failed: the resolution is deleted, the dispute is open again.
TakeBackResolution(c) ==
    /\ At(c, "unresolve")
    /\ dispute' = TRUE
    /\ Return(c)
    /\ UNCHANGED <<booking, share, noShow, paymentVars, refundVars, walletVars, faults>>

-----------------------------------------------------------------------------
(* refundBooking() with executeRefund()                                     *)

\* Mutant: not capped to what is left to refund.
ReadToRefundUncapped(c) ==
    /\ At(c, "refund")
    /\ IF call[c].amount > 0 /\ payment \in Refundable
       THEN /\ call' = [call EXCEPT ![c].at = "claimRefund", ![c].seen = payment]
            /\ current' = current \cup {c}
       ELSE NothingRefunded(c) /\ UNCHANGED current
    /\ UNCHANGED <<bookingVars, payment, attempt, announced, refundVars, walletVars, faults>>

\* Reads the payment, what was refunded and the captured attempt.
ReadToRefund(c) ==
    /\ At(c, "refund")
    /\ IF /\ call[c].amount > 0 /\ refunded < Price
          /\ payment \in Refundable
          /\ \E a \in Attempts : attempt[a] = "CAPTURED"
       THEN LET left == Price - refunded
                amount == IF call[c].amount > left THEN left ELSE call[c].amount
            IN  /\ call' = [call EXCEPT ![c].at = "claimRefund", ![c].seen = payment,
                                        ![c].amount = amount,
                                        ![c].full = refunded + amount >= Price]
                /\ current' = current \cup {c}
       ELSE NothingRefunded(c) /\ UNCHANGED current
    /\ UNCHANGED <<bookingVars, payment, attempt, announced, refundVars, walletVars, faults>>

\* Mutant: claims the payment without its REFUNDED row.
ClaimWithoutRow(c) ==
    /\ At(c, "claimRefund")
    /\ IF c \in current
       THEN /\ WritePayment(IF call[c].full THEN "REFUNDED" ELSE "PARTIALLY_REFUNDED")
            /\ GoTo(c, "ask")
       ELSE NothingRefunded(c) /\ UNCHANGED <<payment, current>>
    /\ UNCHANGED <<bookingVars, attempt, announced, refundVars, walletVars, faults>>

\* One transaction: same status and same updatedAt as read, and the REFUNDED row.
ClaimRefund(c) ==
    /\ At(c, "claimRefund")
    /\ IF c \in current
       THEN /\ WritePayment(IF call[c].full THEN "REFUNDED" ELSE "PARTIALLY_REFUNDED")
            /\ refunded' = refunded + call[c].amount
            /\ GoTo(c, "ask")
       ELSE NothingRefunded(c) /\ UNCHANGED <<payment, current, refunded>>
    /\ UNCHANGED <<bookingVars, attempt, announced, returned, walletVars, faults>>

ProviderRefunds(c) ==
    /\ At(c, "ask")
    /\ returned' = returned + call[c].amount
    /\ GoTo(c, IF call[c].full THEN "markRefunded" ELSE "deduct")
    /\ UNCHANGED <<bookingVars, paymentVars, refunded, walletVars, faults>>

\* Mutant: the error is rethrown without undoing the claim.
RefusedNotUndone(c) ==
    /\ At(c, "ask")
    /\ Happens("refusal")
    /\ Throw(c)
    /\ UNCHANGED <<bookingVars, paymentVars, refundVars, walletVars>>

ProviderRefuses(c) ==
    /\ At(c, "ask")
    /\ Happens("refusal")
    /\ GoTo(c, "rollback")
    /\ UNCHANGED <<bookingVars, paymentVars, refundVars, walletVars>>

\* A time-out, or the error of the update that follows the answer.
AnswerLost(c) ==
    /\ At(c, "ask")
    /\ Happens("lostAnswer")
    /\ returned' = returned + call[c].amount
    /\ GoTo(c, "rollback")
    /\ UNCHANGED <<bookingVars, paymentVars, refunded, walletVars>>

\* Mutant: the row goes but the payment stays marked refunded.
RollbackRowOnly(c) ==
    /\ At(c, "rollback")
    /\ refunded' = refunded - call[c].amount
    /\ Throw(c)
    /\ UNCHANGED <<bookingVars, paymentVars, returned, walletVars, faults>>

\* The row goes, the status read comes back whatever it has become; rethrown.
Rollback(c) ==
    /\ At(c, "rollback")
    /\ refunded' = refunded - call[c].amount
    /\ WritePayment(call[c].seen)
    /\ Throw(c)
    /\ UNCHANGED <<bookingVars, attempt, announced, returned, walletVars, faults>>

MarkRefunded(c) ==
    /\ At(c, "markRefunded")
    /\ booking' = IF booking = "CANCELLED" THEN booking ELSE "REFUNDED"
    /\ GoTo(c, "reverse")
    /\ UNCHANGED <<share, noShow, dispute, paymentVars, refundVars, walletVars, faults>>

-----------------------------------------------------------------------------
(* The held funds: each operation reads the PENDING rows, then settles the  *)
(* ones it read that are still PENDING.                                     *)

ReadRows(c, from, to, allowed) ==
    /\ At(c, from)
    /\ IF allowed /\ Pending # {}
       THEN call' = [call EXCEPT ![c].at = to, ![c].read = Pending]
       ELSE Proceed(c)
    /\ UNCHANGED <<bookingVars, paymentVars, refundVars, walletVars, faults>>

ReadToRelease(c) == ReadRows(c, "release", "releasing", ~dispute)
ReadToReverse(c) == ReadRows(c, "reverse", "reversing", TRUE)
ReadToDeduct(c)  == ReadRows(c, "deduct", "deducting", TRUE)

\* Some rows were settled meanwhile and some not: rolled back, rethrown.
Conflict(c) ==
    /\ call[c].at \in {"releasing", "reversing"}
    /\ ~(call[c].read \subseteq Pending) /\ call[c].read \cap Pending # {}
    /\ Throw(c)
    /\ UNCHANGED <<bookingVars, paymentVars, refundVars, walletVars, faults>>

AlreadySettled(c) ==
    /\ call[c].at \in {"releasing", "reversing"}
    /\ call[c].read \cap Pending = {}
    /\ Proceed(c)
    /\ UNCHANGED <<bookingVars, paymentVars, refundVars, walletVars, faults>>

\* Mutant: pays the rows read, settled meanwhile or not.
ReleaseUnclaimed(c) ==
    /\ At(c, "releasing")
    /\ Settle(call[c].read, "COMPLETED")
    /\ pending' = pending - Sum(call[c].read)
    /\ balance' = balance + Sum(call[c].read)
    /\ Proceed(c)
    /\ UNCHANGED <<bookingVars, paymentVars, refundVars, faults>>

Release(c) ==
    /\ At(c, "releasing")
    /\ call[c].read \subseteq Pending
    /\ Settle(call[c].read, "COMPLETED")
    /\ pending' = pending - Sum(call[c].read)
    /\ balance' = balance + Sum(call[c].read)
    /\ Proceed(c)
    /\ UNCHANGED <<bookingVars, paymentVars, refundVars, faults>>

Reverse(c) ==
    /\ At(c, "reversing")
    /\ call[c].read \subseteq Pending
    /\ Settle(call[c].read, "REVERSED")
    /\ pending' = pending - Sum(call[c].read)
    /\ Proceed(c)
    /\ UNCHANGED <<bookingVars, paymentVars, refundVars, balance, faults>>

\* The driver bears his share of a partial refund: a PENDING row of its own,
\* computed from the rows as they were read.
Deduct(c) ==
    /\ At(c, "deducting")
    /\ LET net == Sum(call[c].read)
           deduction == (net * call[c].amount) \div Price
       IN  IF deduction > 0
           THEN /\ rows' = Append(rows, [amount |-> -deduction, status |-> "PENDING"])
                /\ pending' = pending - deduction
           ELSE UNCHANGED <<rows, pending>>
    /\ Proceed(c)
    /\ UNCHANGED <<bookingVars, paymentVars, refundVars, balance, faults>>

-----------------------------------------------------------------------------
(* The recovery jobs: one pass at a time, over what they find.              *)

\* RECOVERY_DELAY_MS and HELD_FUNDS_GRACE_MS leave the normal path its chance.
DelayIsOver == JobsWait => \A c \in Calls : At(c, "idle")

NeedsRefund == payment = "CAPTURED" /\ share > 0

\* Mutant: looks for unrefunded payments only.
RecoverUnrefundedOnly ==
    /\ DelayIsOver
    /\ booking = "CANCELLED" /\ NeedsRefund
    /\ Begin(RefundJob, "refund", NoAttempt, AfterRefund(share), share)
    /\ UNCHANGED <<bookingVars, paymentVars, refundVars, walletVars, faults>>

RecoverRefund ==
    /\ DelayIsOver
    /\ booking = "CANCELLED" /\ share # NoShare
    /\ NeedsRefund \/ Pending # {}
    /\ IF NeedsRefund
       THEN Begin(RefundJob, "refund", NoAttempt, AfterRefund(share), share)
       ELSE Begin(RefundJob, AfterRefund(share), NoAttempt, "idle", 0)
    /\ UNCHANGED <<bookingVars, paymentVars, refundVars, walletVars, faults>>

RecoverHeldFunds ==
    /\ DelayIsOver
    /\ Revenue \in Pending
    /\ booking = "COMPLETED" \/ (booking = "CANCELLED" /\ noShow)
    /\ Begin(HeldJob, "release", NoAttempt, "idle", 0)
    /\ UNCHANGED <<bookingVars, paymentVars, refundVars, walletVars, faults>>

Die(c) ==
    /\ ~At(c, "idle")
    /\ Happens("crash")
    /\ Return(c)
    /\ UNCHANGED <<bookingVars, paymentVars, refundVars, walletVars>>

-----------------------------------------------------------------------------
Start(c) ==
    \/ \E a \in Attempts : Webhook(c, a)
    \/ CancelByClient(c)
    \/ CancelWithTrip(c)
    \/ ExpireUnpaid(c)
    \/ Complete(c)
    \/ DeclareNoShow(c)
    \/ StaffRefunds(c)
    \/ ResolveDispute(c)

Continue(c) ==
    \/ FailAttempt(c)
    \/ FailPayment(c)
    \/ ClaimAttempt(c)
    \/ ClaimPayment(c)
    \/ Confirm(c)
    \/ NoteFullRefund(c)
    \/ HoldRevenue(c)
    \/ Notified(c)
    \/ CaptureThrows(c)
    \/ ResetAttempt(c)
    \/ ResetPayment(c)
    \/ ReadToRefund(c)
    \/ ClaimRefund(c)
    \/ ProviderRefunds(c)
    \/ ProviderRefuses(c)
    \/ AnswerLost(c)
    \/ Rollback(c)
    \/ MarkRefunded(c)
    \/ ReadToRelease(c)
    \/ ReadToReverse(c)
    \/ ReadToDeduct(c)
    \/ Conflict(c)
    \/ AlreadySettled(c)
    \/ TakeBackResolution(c)
    \/ Release(c)
    \/ Reverse(c)
    \/ Deduct(c)

Next ==
    \/ \E a \in Attempts : Initiate(a) \/ ProviderDecides(a)
    \/ \E c \in Calls : Start(c)
    \/ \E c \in Workers : Continue(c) \/ Die(c)
    \/ OpenDispute
    \/ RecoverRefund
    \/ RecoverHeldFunds

Spec == Init /\ [][Next]_vars

\* A running call goes on; the provider delivers a capture until it is taken
\* in charge; the jobs' timers keep firing.
Fairness ==
    /\ \A c \in Workers : WF_vars(Continue(c))
    /\ \A a \in Attempts :
        SF_vars(announced[a] = "CAPTURED" /\ \E c \in Calls : Webhook(c, a))
    /\ WF_vars(RecoverRefund)
    /\ WF_vars(RecoverHeldFunds)

FairSpec == Spec /\ Fairness

-----------------------------------------------------------------------------
(* Properties                                                               *)

Row == [amount : -Price..Price, status : {"PENDING", "COMPLETED", "REVERSED"}]
CallState == [at : Location, by : Deciders, a : Attempts \cup {NoAttempt}, then : Afterwards,
              amount : 0..Price, seen : PaymentStatus, full : BOOLEAN,
              read : SUBSET Nat]

\* Every variable has its type.
TypeOK ==
    /\ booking \in BookingStatus /\ share \in {NoShare} \cup 0..Price
    /\ noShow \in BOOLEAN /\ dispute \in BOOLEAN
    /\ payment \in PaymentStatus /\ current \subseteq Workers
    /\ attempt \in [Attempts -> AttemptStatus]
    /\ announced \in [Attempts -> Announcement]
    /\ refunded \in Nat /\ returned \in Nat
    /\ rows \in Seq(Row)
    /\ pending \in Int /\ balance \in Int
    /\ call \in [Workers -> CallState]
    /\ \A c \in Workers : call[c].read \subseteq DOMAIN rows
    /\ faults \in 0..MaxFaults

\* Refunds add up to the price and never more, however many calls refund the
\* same payment at the same time ("50 % puis 50 % = 100 %, jamais plus").
RefundsWithinPrice == refunded <= Price

Refunding == {c \in Workers : call[c].at \in {"ask", "rollback"}}
InFlight == SumFunctionOnSet([c \in Workers |-> call[c].amount], Refunding)

\* An answer not lost: what the provider gave back is what the REFUNDED rows
\* say, but for the refunds that are being asked for or undone.
RowsTellRefunds == refunded = returned + InFlight

\* What the wallet holds and what it may pay out are what its rows say.
WalletMatchesRows == pending = Sum(Pending) /\ balance = Sum(Completed)

\* The driver never gets more than his part of the booking.
DriverGetsAtMostNet == balance + pending <= Net

\* A cancelled or expired booking is never brought back by a late payment.
CancelledIsFinal == [][booking = "CANCELLED" => booking' = "CANCELLED"]_vars

\* A client given everything back, by whichever refunds, leaves the driver
\* nothing ("Client rembourse en totalite : le conducteur ne doit plus toucher
\* cette course"), if nobody refunds what was already released.
FullyRefundedIsNotPaid == returned >= Price => balance <= 0

\* After a partial refund the driver would keep his part of the rest ("le
\* conducteur garde la part non remboursee").  The code does not keep this when
\* the cancellation runs before the revenue is held: it finds nothing to deduct.
DriverKeepsTheRest == balance * Price <= Net * (Price - returned)

\* A payment that the provider captured buys a seat or goes back in full,
\* whatever happens to the booking meanwhile.  (Two captures of one booking
\* are left to the staff: the code only logs the second one.)
ServedOrRefunded ==
    \A a \in Attempts :
        announced[a] = "CAPTURED" /\ attempt[a] = "PENDING"
            ~> \/ booking = "CONFIRMED"
               \/ returned = Price
               \/ \E b \in Attempts \ {a} : announced[b] = "CAPTURED"

\* The refund decided by a cancellation is made in the end, by its event or
\* by the recovery, whoever else refunds the same payment.
DecisionIsCarriedOut ==
    booking = "CANCELLED" /\ payment = "CAPTURED" /\ share > 0 ~> returned >= share

\* Once a booking is over its funds do not stay pending, unless a dispute
\* freezes them.
OverWithHeldFunds ==
    /\ Pending # {}
    /\ booking = "COMPLETED" \/ (booking = "CANCELLED" /\ (noShow \/ share # NoShare))
HeldFundsAreSettled == OverWithHeldFunds ~> Pending = {} \/ dispute
=============================================================================
