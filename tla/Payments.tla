------------------------------ MODULE Payments ------------------------------
(***************************************************************************)
(* The money of one booking (payments/service.py, and the two cancel       *)
(* handlers that call refund_booking): gateway orders, captures reported   *)
(* by the client and by webhooks, the expiry of the hold, cancellations    *)
(* and their refunds, all in flight at once.                               *)
(*                                                                         *)
(* A capture loads the payment and the booking, asks the gateway, and      *)
(* writes; a cancellation UPDATEs the booking first and so holds its row   *)
(* until it commits, and only then reads the payment and calls the         *)
(* gateway.  The gateway is outside the database: what it has done stays   *)
(* done when a transaction is rolled back, its answers can be lost, and    *)
(* its webhooks come late, more than once and in any order.                *)
(*                                                                         *)
(* The booking's other transitions (BookingLifecycle) do not read or write *)
(* payments; CONFIRMED stands here for CONFIRMED and ACTIVE.               *)
(***************************************************************************)
EXTENDS Integers

CONSTANTS
  Orders,       \* gateway orders that may be opened for the booking
  TopUps,       \* those of purpose OVERSTAY
  Total,        \* booking.total_amount
  TopUpAmount,  \* what an overstay order is for
  PartRefund,   \* what the cancellation policy gives back to a renter
  Kinds,        \* the webhook events the gateway sends about an order
  Sessions,     \* requests and webhook deliveries in flight at once
  MaxGiven,     \* bound: what the gateway is asked to give back of an order
  Nobody        \* nobody holds the booking's row

ASSUME OrderAssumption  == TopUps \subseteq Orders
ASSUME AmountAssumption ==
  Total \in Nat \ {0} /\ TopUpAmount \in Nat \ {0} /\ PartRefund \in 0 .. Total
ASSUME KindAssumption   == Kinds \subseteq {"failed", "captured", "paid"}
ASSUME BoundAssumption  == MaxGiven \in Nat
ASSUME SessionAssumption == Nobody \notin Sessions \cup Orders

(* A declined attempt is one event; a charge is reported by two that have  *)
(* ids of their own (Razorpay's payment.captured and order.paid).          *)
Events == [order : Orders, kind : Kinds]
NoEvent == [order |-> Nobody, kind |-> "none"]

Amount(o) == IF o \in TopUps THEN TopUpAmount ELSE Total

Captured == {"CAPTURED", "REFUNDED", "PARTIALLY_REFUNDED"}
PaymentStatuses == {"none", "CREATED", "FAILED"} \cup Captured
BookingStatuses == {"PENDING_PAYMENT", "CONFIRMED", "EXPIRED", "CANCELLED"}

VARIABLES
  booking,   \* Booking.status, committed
  topped,    \* Booking.overstay_paid_at is set
  payment,   \* Payment.status of each order, committed; "none" before the row
  refunds,   \* the PROCESSED Refund rows of each order, added up
  seen,      \* webhook_events, committed
  ses,       \* the transactions in flight
  rowLock,   \* the cancellation whose UPDATE locks the booking's row
  charged,   \* gateway: the customer completed the checkout of the order
  declined,  \* gateway: an attempt to pay the order failed
  given,     \* gateway: refunded so far
  lost       \* some refund happened at the gateway that no row records

vars == <<booking, topped, payment, refunds, seen, ses, rowLock, charged, declined, given, lost>>
gateway == <<charged, declined, given, lost>>
rows == <<booking, topped, payment, refunds, seen>>

Idle == [pc |-> "idle", order |-> Nobody, event |-> NoEvent,
         booking |-> "PENDING_PAYMENT", amount |-> 0, full |-> FALSE]

Init ==
  /\ booking = "PENDING_PAYMENT" /\ topped = FALSE
  /\ payment = [o \in Orders |-> "none"]
  /\ refunds = [o \in Orders |-> 0]
  /\ seen = {}
  /\ ses = [t \in Sessions |-> Idle]
  /\ rowLock = Nobody
  /\ charged = {} /\ declined = {}
  /\ given = [o \in Orders |-> 0]
  /\ lost = FALSE

-----------------------------------------------------------------------------
(* The customer at the gateway's checkout.  An order whose checkout is     *)
(* complete is authorized or captured there: _capture and the webhook take *)
(* the one for the other.                                                  *)
Charge(o) ==
  /\ payment[o] # "none" /\ o \notin charged
  /\ charged' = charged \cup {o}
  /\ UNCHANGED <<rows, ses, rowLock, declined, given, lost>>

Decline(o) ==
  /\ payment[o] # "none" /\ o \notin charged
  /\ declined' = declined \cup {o}
  /\ UNCHANGED <<rows, ses, rowLock, charged, given, lost>>

-----------------------------------------------------------------------------
Goto(t, s) == ses' = [ses EXCEPT ![t] = s]

(* start_payment: an order that is still open is reused, and nothing       *)
(* changes; otherwise a new one is asked for.  A hold that has run out is  *)
(* refused, which changes nothing either: the model keeps no clock, and    *)
(* the hold may run out right after the check.                             *)
StartPayment(t) ==
  /\ ses[t].pc = "idle"
  /\ booking = "PENDING_PAYMENT"
  /\ \A o \in Orders : payment[o] # "CREATED"
  /\ Goto(t, [Idle EXCEPT !.pc = "ordering"])
  /\ UNCHANGED <<rows, rowLock, gateway>>

(* start_overstay_payment looks at no status, only at overstay_paid_at; an *)
(* open order is left behind as soon as the meter has moved past it.       *)
StartTopUp(t) ==
  /\ ses[t].pc = "idle"
  /\ ~topped
  /\ Goto(t, [Idle EXCEPT !.pc = "topping up"])
  /\ UNCHANGED <<rows, rowLock, gateway>>

(* The gateway has made the order; the row is inserted and committed. *)
OpenOrder(t, o) ==
  /\ \/ ses[t].pc = "ordering" /\ o \notin TopUps
     \/ ses[t].pc = "topping up" /\ o \in TopUps
  /\ payment[o] = "none"
  /\ payment' = [payment EXCEPT ![o] = "CREATED"]
  /\ Goto(t, Idle)
  /\ UNCHANGED <<booking, topped, refunds, seen, rowLock, gateway>>

-----------------------------------------------------------------------------
(* confirm_payment: a payment already captured is an early return; the     *)
(* signature exists only if the customer paid.                             *)
Confirm(t, o) ==
  /\ ses[t].pc = "idle"
  /\ o \in charged
  /\ payment[o] # "CAPTURED"
  /\ Goto(t, [Idle EXCEPT !.pc = "capturing", !.order = o, !.booking = booking])
  /\ UNCHANGED <<rows, rowLock, gateway>>

Deliverable(e) == IF e.kind = "failed" THEN e.order \in declined ELSE e.order \in charged

(* handle_webhook: the event id is inserted first, in a SAVEPOINT.  A      *)
(* committed duplicate ends there; an uncommitted one is waited for.  Then *)
(* the rows are read and what the event asks for is decided.               *)
Webhook(t, e) ==
  LET o == e.order
      next == CASE e.kind # "failed" /\ payment[o] # "CAPTURED" -> "capturing"
                [] e.kind = "failed" /\ payment[o] = "CREATED"  -> "failing"
                [] OTHER                                        -> "ignoring"
  IN  /\ ses[t].pc = "idle"
      /\ Deliverable(e)
      /\ e \notin seen
      /\ \A u \in Sessions : ses[u].event # e
      /\ Goto(t, [Idle EXCEPT !.pc = next, !.order = o, !.event = e, !.booking = booking])
      /\ UNCHANGED <<rows, rowLock, gateway>>

Record(t) == seen' = IF ses[t].event = NoEvent THEN seen ELSE seen \cup {ses[t].event}

(* Mutant: every capture calls mark_paid, whatever the payment was for. *)
ConfirmsAnyPurpose(t) == ses[t].booking = "PENDING_PAYMENT"

(* mark_paid changes the booking only if it was loaded as PENDING_PAYMENT, *)
(* and an overstay payment never calls it.                                 *)
Confirms(t) == ses[t].booking = "PENDING_PAYMENT" /\ ses[t].order \notin TopUps

(* Mutant: the gateway's own word for the status is what is stored. *)
CaptureTheirStatus(t) ==
  /\ ses[t].pc = "capturing"
  /\ rowLock = Nobody
  /\ booking' = IF Confirms(t) THEN "CONFIRMED" ELSE booking
  /\ topped' = (topped \/ ses[t].order \in TopUps)
  /\ payment' = [payment EXCEPT ![ses[t].order] =
                   IF ses[t].event = NoEvent THEN "CAPTURED" ELSE ses[t].event.kind]
  /\ Record(t)
  /\ Goto(t, Idle)
  /\ UNCHANGED <<refunds, rowLock, gateway>>

(* _capture and the commit; an overstay payment stops the meter instead. *)
Capture(t) ==
  LET o == ses[t].order
  IN  /\ ses[t].pc = "capturing"
      /\ Confirms(t) \/ o \in TopUps => rowLock = Nobody
      /\ booking' = IF Confirms(t) THEN "CONFIRMED" ELSE booking
      /\ topped' = (topped \/ o \in TopUps)
      /\ payment' = [payment EXCEPT ![o] = "CAPTURED"]
      /\ Record(t)
      /\ Goto(t, Idle)
      /\ UNCHANGED <<refunds, rowLock, gateway>>

(* A failed attempt, or an event that asks for nothing. *)
CloseEvent(t) ==
  /\ ses[t].pc \in {"failing", "ignoring"}
  /\ payment' = IF ses[t].pc = "failing" THEN [payment EXCEPT ![ses[t].order] = "FAILED"]
                                         ELSE payment
  /\ Record(t)
  /\ Goto(t, Idle)
  /\ UNCHANGED <<booking, topped, refunds, rowLock, gateway>>

-----------------------------------------------------------------------------
(* service.cancel decides the refund from the booking it loaded: nothing   *)
(* for an unpaid one, everything if the provider or an admin cancels, and  *)
(* what the policy says otherwise.                                         *)
Cancel(t, full) ==
  /\ ses[t].pc = "idle"
  /\ booking \in {"PENDING_PAYMENT", "CONFIRMED"}
  /\ Goto(t, [Idle EXCEPT !.pc = "cancelling", !.full = full,
                          !.amount = IF booking = "PENDING_PAYMENT" THEN 0
                                     ELSE IF full THEN Total ELSE PartRefund])
  /\ UNCHANGED <<rows, rowLock, gateway>>

(* Mutant: the payment is read, and refunded, before the booking's row is written. *)
FlushUnlocked(t) ==
  /\ ses[t].pc = "cancelling"
  /\ rowLock' = t
  /\ Goto(t, [ses[t] EXCEPT !.pc = "reading"])
  /\ UNCHANGED <<rows, gateway>>

(* Its flush takes the row, and keeps it. *)
FlushCancel(t) ==
  /\ ses[t].pc = "cancelling"
  /\ rowLock = Nobody
  /\ rowLock' = t
  /\ Goto(t, [ses[t] EXCEPT !.pc = "reading"])
  /\ UNCHANGED <<rows, gateway>>

Lesser(a, b) == IF a < b THEN a ELSE b

(* refund_booking picks a captured payment of the booking, whichever the   *)
(* database returns first and whatever it was for, and refunds what is     *)
(* left of it at most.                                                     *)
PickPayment(t) ==
  /\ ses[t].pc = "reading"
  /\ LET candidates == {o \in Orders : payment[o] = "CAPTURED"}
         due(o) == Lesser(ses[t].amount, Amount(o) - refunds[o])
     IN  \/ \E o \in candidates :
              /\ due(o) > 0
              /\ Goto(t, [ses[t] EXCEPT !.pc = "refunding", !.order = o, !.amount = due(o)])
         \/ /\ candidates = {} \/ \E o \in candidates : due(o) <= 0
            /\ Goto(t, [ses[t] EXCEPT !.pc = "settled"])
  /\ UNCHANGED <<rows, rowLock, gateway>>

(* The gateway refunds and says so; or refuses; or refunds and its answer  *)
(* is lost, which the code takes for a refusal: a FAILED Refund row.       *)
CallGateway(t) ==
  LET back == given[ses[t].order] + ses[t].amount
      refund == back <= MaxGiven /\ given' = [given EXCEPT ![ses[t].order] = back]
  IN  /\ ses[t].pc = "refunding"
      /\ \/ refund /\ Goto(t, [ses[t] EXCEPT !.pc = "refunded"]) /\ UNCHANGED lost
         \/ Goto(t, [ses[t] EXCEPT !.pc = "settled"]) /\ UNCHANGED <<given, lost>>
         \/ refund /\ Goto(t, [ses[t] EXCEPT !.pc = "settled"]) /\ lost' = TRUE
      /\ UNCHANGED <<rows, rowLock, charged, declined>>

CommitCancel(t) ==
  LET o == ses[t].order
      refunded == refunds[o] + ses[t].amount
  IN  /\ ses[t].pc \in {"settled", "refunded"}
      /\ booking' = "CANCELLED"
      /\ \/ /\ ses[t].pc = "refunded"
            /\ refunds' = [refunds EXCEPT ![o] = refunded]
            /\ payment' = [payment EXCEPT ![o] =
                             IF refunded >= Amount(o) THEN "REFUNDED" ELSE "PARTIALLY_REFUNDED"]
         \/ ses[t].pc = "settled" /\ UNCHANGED <<payment, refunds>>
      /\ rowLock' = Nobody
      /\ Goto(t, Idle)
      /\ UNCHANGED <<topped, seen, gateway>>

-----------------------------------------------------------------------------
(* expire_holds, one atomic UPDATE that waits for the row. *)
Expire ==
  /\ booking = "PENDING_PAYMENT"
  /\ rowLock = Nobody
  /\ booking' = "EXPIRED"
  /\ UNCHANGED <<topped, payment, refunds, seen, ses, rowLock, gateway>>

(* Mutant: the webhook's event id is committed before the event is handled. *)
AbortKeepsEvent(t) ==
  /\ ses[t].pc # "idle"
  /\ Record(t)
  /\ lost' = (lost \/ ses[t].pc = "refunded")
  /\ rowLock' = IF rowLock = t THEN Nobody ELSE rowLock
  /\ Goto(t, Idle)
  /\ UNCHANGED <<booking, topped, payment, refunds, charged, declined, given>>

(* The handler raises, or its process dies: the transaction is rolled      *)
(* back, the gateway is not.                                               *)
Abort(t) ==
  /\ ses[t].pc # "idle"
  /\ lost' = (lost \/ ses[t].pc = "refunded")
  /\ rowLock' = IF rowLock = t THEN Nobody ELSE rowLock
  /\ Goto(t, Idle)
  /\ UNCHANGED <<rows, charged, declined, given>>

CancelSteps(t) == FlushCancel(t) \/ PickPayment(t) \/ CallGateway(t) \/ CommitCancel(t)

Next ==
  \/ Expire
  \/ \E o \in Orders : Charge(o) \/ Decline(o)
  \/ \E t \in Sessions :
       \/ StartPayment(t) \/ StartTopUp(t) \/ \E o \in Orders : OpenOrder(t, o) \/ Confirm(t, o)
       \/ \E e \in Events : Webhook(t, e)
       \/ Capture(t) \/ CloseEvent(t)
       \/ \E full \in BOOLEAN : Cancel(t, full)
       \/ CancelSteps(t) \/ Abort(t)

Spec == Init /\ [][Next]_vars

(***************************************************************************)
(* A gateway delivers an event again until it is acknowledged, and neither *)
(* every delivery nor every cancellation dies at the same step, however    *)
(* often it is tried; a transaction that was begun ends.  Customers owe    *)
(* nothing, and neither does the client's own confirmation.                *)
(***************************************************************************)
Fairness ==
  /\ \A e \in Events : SF_vars(\E t \in Sessions : Webhook(t, e))
  /\ \A t \in Sessions :
       /\ SF_vars(Capture(t)) /\ WF_vars(CloseEvent(t))
       /\ SF_vars(FlushCancel(t)) /\ SF_vars(PickPayment(t))
       /\ SF_vars(CallGateway(t)) /\ SF_vars(CommitCancel(t))
       /\ WF_vars(ses[t].pc \in {"ordering", "topping up"} /\ Abort(t))

FairSpec == Spec /\ Fairness

-----------------------------------------------------------------------------
SessionType ==
  [pc : {"idle", "ordering", "topping up", "capturing", "failing", "ignoring",
         "cancelling", "reading", "refunding", "refunded", "settled"},
   order : Orders \cup {Nobody}, event : Events \cup {NoEvent},
   booking : BookingStatuses, amount : Nat, full : BOOLEAN]

(* The shape of the state. *)
TypeOK ==
  /\ booking \in BookingStatuses /\ topped \in BOOLEAN
  /\ payment \in [Orders -> PaymentStatuses]
  /\ refunds \in [Orders -> Nat]
  /\ seen \subseteq Events
  /\ ses \in [Sessions -> SessionType]
  /\ rowLock \in Sessions \cup {Nobody}
  /\ charged \subseteq Orders /\ declined \subseteq Orders
  /\ given \in [Orders -> Nat]
  /\ lost \in BOOLEAN

(* However many cancellations race, and whatever captures come between     *)
(* them, the refunds on the books never exceed the payment, and neither    *)
(* does the money given back unless some of it is on no book: refund_      *)
(* booking reads the payment only under the row its caller has updated.    *)
RefundWithinPayment ==
  \A o \in Orders : /\ refunds[o] <= Amount(o)
                    /\ ~lost => given[o] <= Amount(o)

(* No interleaving of stale reads, late webhooks and overstay payments     *)
(* confirms a booking for whose own price nobody has completed a checkout  *)
(* (_capture).                                                             *)
ConfirmedWasCharged ==
  booking = "CONFIRMED" => \E o \in Orders \ TopUps : o \in charged

(* Money the customer pays is at some time recorded as captured, however   *)
(* many handlers die on the way: one that dies takes its webhook event id  *)
(* with it, so the gateway's next delivery is handled (handle_webhook).    *)
CaptureReachesTheBooks ==
  \A o \in Orders : <>(o \in charged) => <>(payment[o] \in Captured)

-----------------------------------------------------------------------------
(* What the repository says, and this code does not do. *)

(* bookings/router.py, cancel_booking: "so we never refund a booking that  *)
(* failed to cancel".                                                      *)
NeverRefundUncancelled ==
  (\E o \in Orders : given[o] > 0) /\ (\A t \in Sessions : ses[t].pc = "idle")
    => booking = "CANCELLED"
=============================================================================
