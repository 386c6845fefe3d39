--------------------------- MODULE PaymentsProofs ---------------------------
(***************************************************************************)
(* Proofs about Payments, for any number of orders and of requests in      *)
(* flight, and any amounts.                                                *)
(*                                                                         *)
(* RefundWithinPayment is not inductive: what a cancellation will write is *)
(* decided long before it is written.  The invariant says that only the    *)
(* holder of the booking's row has such a plan, that it fits into what is  *)
(* left of the payment, and that the gateway is ahead of the books by that *)
(* plan at most.                                                           *)
(***************************************************************************)
EXTENDS Payments, TLAPS

USE OrderAssumption, AmountAssumption, KindAssumption, BoundAssumption, SessionAssumption

LEMMA AmountTyped == \A o \in Orders : Amount(o) \in Nat \ {0}
BY DEF Amount

LEMMA IdleTyped == Idle \in SessionType
BY DEF Idle, SessionType, NoEvent, BookingStatuses

LEMMA TypeInit == Init => TypeOK
<1> SUFFICES ASSUME Init PROVE TypeOK
  OBVIOUS
<1>1. ses \in [Sessions -> SessionType]
  BY IdleTyped DEF Init
<1>2. booking \in BookingStatuses /\ payment \in [Orders -> PaymentStatuses]
  BY DEF Init, BookingStatuses, PaymentStatuses
<1>3. topped \in BOOLEAN /\ lost \in BOOLEAN
  BY DEF Init
<1> QED
  BY <1>1, <1>2, <1>3 DEF Init, TypeOK

(* A session moves to a typed state, the rest of the state to typed values. *)
LEMMA GotoTyped ==
  ASSUME TypeOK, NEW t \in Sessions, NEW s \in SessionType, Goto(t, s)
  PROVE  ses' \in [Sessions -> SessionType]
BY DEF TypeOK, Goto

LEMMA SessionTyped ==
  ASSUME TypeOK, NEW t \in Sessions
  PROVE  /\ ses[t] \in SessionType
         /\ ses[t].amount \in Nat
         /\ \A o \in Orders : refunds[o] \in Nat /\ given[o] \in Nat
<1>1. ses[t] \in SessionType
  BY DEF TypeOK
<1>2. ses[t].amount \in Nat
  BY <1>1 DEF SessionType
<1> QED
  BY <1>1, <1>2 DEF TypeOK

LEMMA TypeStep == TypeOK /\ [Next]_vars => TypeOK'
<1> SUFFICES ASSUME TypeOK, [Next]_vars PROVE TypeOK'
  OBVIOUS
<1> USE IdleTyped, AmountTyped
<1>1. ASSUME Expire PROVE TypeOK'
  BY <1>1 DEF Expire, TypeOK, gateway, BookingStatuses
<1>2. ASSUME NEW o \in Orders, Charge(o) \/ Decline(o) PROVE TypeOK'
  BY <1>2 DEF Charge, Decline, TypeOK, rows
<1>3. ASSUME NEW t \in Sessions, StartPayment(t) \/ StartTopUp(t) PROVE TypeOK'
  <2>1. /\ [Idle EXCEPT !.pc = "ordering"] \in SessionType
        /\ [Idle EXCEPT !.pc = "topping up"] \in SessionType
    BY DEF SessionType
  <2>2. ses' \in [Sessions -> SessionType]
    BY <1>3, <2>1, GotoTyped DEF StartPayment, StartTopUp
  <2> QED BY <1>3, <2>2 DEF StartPayment, StartTopUp, TypeOK, rows, gateway
<1>4. ASSUME NEW t \in Sessions, NEW o \in Orders, OpenOrder(t, o) PROVE TypeOK'
  <2>1. ses' \in [Sessions -> SessionType]
    BY <1>4, GotoTyped DEF OpenOrder
  <2> QED BY <1>4, <2>1 DEF OpenOrder, TypeOK, gateway, PaymentStatuses
<1>5. ASSUME NEW t \in Sessions, NEW o \in Orders, Confirm(t, o) PROVE TypeOK'
  <2>1. [Idle EXCEPT !.pc = "capturing", !.order = o, !.booking = booking] \in SessionType
    BY DEF SessionType, TypeOK
  <2>2. ses' \in [Sessions -> SessionType]
    BY <1>5, <2>1, GotoTyped DEF Confirm
  <2> QED BY <1>5, <2>2 DEF Confirm, TypeOK, rows, gateway
<1>6. ASSUME NEW t \in Sessions, NEW e \in Events, Webhook(t, e) PROVE TypeOK'
  <2>1. \A next \in {"capturing", "failing", "ignoring"} :
          [Idle EXCEPT !.pc = next, !.order = e.order, !.event = e, !.booking = booking]
            \in SessionType
    BY DEF SessionType, TypeOK, Events
  <2>2. ses' \in [Sessions -> SessionType]
    BY <1>6, <2>1, GotoTyped DEF Webhook
  <2> QED BY <1>6, <2>2 DEF Webhook, TypeOK, rows, gateway
<1>7. ASSUME NEW t \in Sessions, Record(t) PROVE seen' \subseteq Events
  BY <1>7 DEF Record, TypeOK, SessionType
<1>8. ASSUME NEW t \in Sessions, Capture(t) PROVE TypeOK'
  <2>1. ses' \in [Sessions -> SessionType] /\ seen' \subseteq Events
    BY <1>7, <1>8, GotoTyped DEF Capture
  <2>2. payment' \in [Orders -> PaymentStatuses]
    BY <1>8 DEF Capture, TypeOK, PaymentStatuses, Captured
  <2> QED BY <1>8, <2>1, <2>2 DEF Capture, TypeOK, gateway, BookingStatuses
<1>9. ASSUME NEW t \in Sessions, CloseEvent(t) PROVE TypeOK'
  <2>1. ses' \in [Sessions -> SessionType] /\ seen' \subseteq Events
    BY <1>7, <1>9, GotoTyped DEF CloseEvent
  <2>2. payment' \in [Orders -> PaymentStatuses]
    BY <1>9 DEF CloseEvent, TypeOK, PaymentStatuses
  <2> QED BY <1>9, <2>1, <2>2 DEF CloseEvent, TypeOK, gateway
<1>10. ASSUME NEW t \in Sessions, NEW full \in BOOLEAN, Cancel(t, full) PROVE TypeOK'
  <2>1. \A a \in Nat : [Idle EXCEPT !.pc = "cancelling", !.full = full, !.amount = a] \in SessionType
    BY DEF SessionType
  <2> DEFINE a == IF booking = "PENDING_PAYMENT" THEN 0 ELSE IF full THEN Total ELSE PartRefund
  <2>2. a \in Nat
    OBVIOUS
  <2>3. Goto(t, [Idle EXCEPT !.pc = "cancelling", !.full = full, !.amount = a])
    BY <1>10 DEF Cancel
  <2>4. ses' \in [Sessions -> SessionType]
    BY <2>1, <2>2, <2>3, GotoTyped
  <2> QED BY <1>10, <2>4 DEF Cancel, TypeOK, rows, gateway
<1>11. ASSUME NEW t \in Sessions, FlushCancel(t) PROVE TypeOK'
  <2>1. [ses[t] EXCEPT !.pc = "reading"] \in SessionType
    BY DEF SessionType, TypeOK
  <2>2. ses' \in [Sessions -> SessionType]
    BY <1>11, <2>1, GotoTyped DEF FlushCancel
  <2> QED BY <1>11, <2>2 DEF FlushCancel, TypeOK, rows, gateway
<1>12. ASSUME NEW t \in Sessions, PickPayment(t) PROVE TypeOK'
  <2>1. \A o \in Orders, a \in Nat :
          [ses[t] EXCEPT !.pc = "refunding", !.order = o, !.amount = a] \in SessionType
    BY DEF SessionType, TypeOK
  <2>2. [ses[t] EXCEPT !.pc = "settled"] \in SessionType
    BY DEF SessionType, TypeOK
  <2> DEFINE due(o) == Lesser(ses[t].amount, Amount(o) - refunds[o])
  <2>3. \A o \in Orders : due(o) \in Int
    <3>1. ses[t].amount \in Nat /\ \A o \in Orders : refunds[o] \in Nat
      BY SessionTyped
    <3> QED BY <3>1 DEF Lesser
  <2>4. ASSUME \E o \in Orders :
                 due(o) > 0 /\ Goto(t, [ses[t] EXCEPT !.pc = "refunding", !.order = o, !.amount = due(o)])
        PROVE  ses' \in [Sessions -> SessionType]
    <3>1. PICK o \in Orders :
            due(o) > 0 /\ Goto(t, [ses[t] EXCEPT !.pc = "refunding", !.order = o, !.amount = due(o)])
      BY <2>4
    <3> DEFINE s == [ses[t] EXCEPT !.pc = "refunding", !.order = o, !.amount = due(o)]
    <3>2. due(o) \in Nat
      BY <2>3, <3>1
    <3>3. s \in SessionType /\ ses' = [ses EXCEPT ![t] = s]
      BY <2>1, <3>1, <3>2 DEF Goto
    <3> HIDE DEF s
    <3> QED BY <3>3 DEF TypeOK
  <2>5. ASSUME Goto(t, [ses[t] EXCEPT !.pc = "settled"]) PROVE ses' \in [Sessions -> SessionType]
    <3> DEFINE s == [ses[t] EXCEPT !.pc = "settled"]
    <3>1. s \in SessionType /\ ses' = [ses EXCEPT ![t] = s]
      BY <2>2, <2>5 DEF Goto
    <3> HIDE DEF s
    <3> QED BY <3>1 DEF TypeOK
  <2>6. \/ \E o \in Orders :
               due(o) > 0 /\ Goto(t, [ses[t] EXCEPT !.pc = "refunding", !.order = o, !.amount = due(o)])
        \/ Goto(t, [ses[t] EXCEPT !.pc = "settled"])
    BY <1>12, Zenon DEF PickPayment
  <2>7. ses' \in [Sessions -> SessionType]
    BY <2>4, <2>5, <2>6
  <2> QED BY <1>12, <2>7 DEF PickPayment, TypeOK, rows, gateway
<1>13. ASSUME NEW t \in Sessions, CallGateway(t) PROVE TypeOK'
  <2>1. \A s \in {"refunded", "settled"} : [ses[t] EXCEPT !.pc = s] \in SessionType
    BY DEF SessionType, TypeOK
  <2>2. ses' \in [Sessions -> SessionType]
    BY <1>13, <2>1, GotoTyped DEF CallGateway
  <2>3. given' \in [Orders -> Nat]
    <3>1. ses[t].amount \in Nat /\ \A o \in Orders : given[o] + ses[t].amount \in Nat
      BY SessionTyped
    <3>2. \/ given' = given
          \/ given' = [given EXCEPT ![ses[t].order] = given[ses[t].order] + ses[t].amount]
      BY <1>13 DEF CallGateway
    <3> QED BY <3>1, <3>2 DEF TypeOK
  <2> QED BY <1>13, <2>2, <2>3 DEF CallGateway, TypeOK, rows
<1>14. ASSUME NEW t \in Sessions, CommitCancel(t) PROVE TypeOK'
  <2>1. ses' \in [Sessions -> SessionType]
    BY <1>14, GotoTyped DEF CommitCancel
  <2>2. refunds' \in [Orders -> Nat]
    <3>1. ses[t].amount \in Nat /\ \A o \in Orders : refunds[o] + ses[t].amount \in Nat
      BY SessionTyped
    <3>2. \/ refunds' = refunds
          \/ refunds' = [refunds EXCEPT ![ses[t].order] = refunds[ses[t].order] + ses[t].amount]
      BY <1>14 DEF CommitCancel
    <3> QED BY <3>1, <3>2 DEF TypeOK
  <2>3. payment' \in [Orders -> PaymentStatuses]
    <3>1. \/ payment' = payment
          \/ \E s \in {"REFUNDED", "PARTIALLY_REFUNDED"} :
               payment' = [payment EXCEPT ![ses[t].order] = s]
      BY <1>14 DEF CommitCancel
    <3> QED BY <3>1 DEF TypeOK, PaymentStatuses, Captured
  <2> QED BY <1>14, <2>1, <2>2, <2>3 DEF CommitCancel, TypeOK, gateway, BookingStatuses
<1>15. ASSUME NEW t \in Sessions, Abort(t) PROVE TypeOK'
  <2>1. ses' \in [Sessions -> SessionType]
    BY <1>15, GotoTyped DEF Abort
  <2> QED BY <1>15, <2>1 DEF Abort, TypeOK, rows
<1>16. CASE UNCHANGED vars
  BY <1>16 DEF vars, TypeOK
<1> QED
  BY <1>1, <1>2, <1>3, <1>4, <1>5, <1>6, <1>8, <1>9, <1>10, <1>11, <1>12, <1>13, <1>14,
     <1>15, <1>16 DEF Next, CancelSteps

(* Every reachable state has the shape TypeOK says. *)
THEOREM TypeCorrect == Spec => []TypeOK
BY TypeInit, TypeStep, PTL DEF Spec
-----------------------------------------------------------------------------
(* A cancellation that has flushed holds the booking's row. *)
Holding == {"reading", "refunding", "refunded", "settled"}
HoldersHold == \A t \in Sessions : ses[t].pc \in Holding => rowLock = t

(* What it is about to refund, or has just refunded, is left of the payment. *)
PlansFit ==
  \A t \in Sessions :
    ses[t].pc \in {"refunding", "refunded"} =>
      ses[t].order \in Orders /\ refunds[ses[t].order] + ses[t].amount <= Amount(ses[t].order)

(* A capture is under way only for an order the customer has paid. *)
CapturesArePaid == \A t \in Sessions : ses[t].pc = "capturing" => ses[t].order \in charged

(* Unless a refund was lost, the gateway is where the books are, or ahead  *)
(* by the one refund whose cancellation has not committed.                 *)
AheadByOne ==
  ~lost => \A t \in Sessions :
             ses[t].pc = "refunded" =>
               given[ses[t].order] = refunds[ses[t].order] + ses[t].amount
Level ==
  ~lost => \A o \in Orders :
             (\A t \in Sessions : ~(ses[t].pc = "refunded" /\ ses[t].order = o))
               => given[o] = refunds[o]

Books == AheadByOne /\ Level /\ \A o \in Orders : refunds[o] <= Amount(o)

IInv == TypeOK /\ HoldersHold /\ PlansFit /\ CapturesArePaid /\ Books /\ ConfirmedWasCharged

LEMMA InvInit == Init => IInv
<1> SUFFICES ASSUME Init PROVE IInv
  OBVIOUS
<1>1. TypeOK
  BY TypeInit
<1>2. \A t \in Sessions : ses[t].pc = "idle"
  BY DEF Init, Idle
<1>3. HoldersHold /\ PlansFit /\ CapturesArePaid /\ AheadByOne
  BY <1>2 DEF HoldersHold, PlansFit, CapturesArePaid, AheadByOne, Holding
<1>4. Level /\ \A o \in Orders : refunds[o] <= Amount(o)
  BY AmountTyped DEF Init, Level
<1>5. ConfirmedWasCharged
  BY DEF Init, ConfirmedWasCharged
<1> QED
  BY <1>1, <1>3, <1>4, <1>5 DEF IInv, Books

LEMMA IdleIs == Idle.pc = "idle"
BY DEF Idle

(* A step that refunds nothing and moves one session between states in     *)
(* which the gateway has refunded nothing either.                          *)
LEMMA BooksKept ==
  ASSUME Books, NEW t \in Sessions, ses[t].pc # "refunded", ses'[t].pc # "refunded",
         \A u \in Sessions \ {t} : ses'[u] = ses[u],
         UNCHANGED <<refunds, given, lost>>
  PROVE  Books'
<1>1. AheadByOne'
  BY DEF Books, AheadByOne
<1>2. Level'
  BY DEF Books, Level
<1> QED
  BY <1>1, <1>2 DEF Books, Amount

(* A step by which session t, holding nothing, comes to hold nothing, or   *)
(* just the row.                                                           *)
LEMMA QuietKeeps ==
  ASSUME IInv, TypeOK', NEW t \in Sessions,
         ses[t].pc \notin Holding,
         ses'[t].pc \notin Holding \/ (ses'[t].pc = "reading" /\ rowLock' = t),
         ses'[t].pc = "capturing" => ses'[t].order \in charged,
         \A u \in Sessions \ {t} : ses'[u] = ses[u],
         rowLock' = rowLock \/ rowLock = Nobody,
         UNCHANGED <<refunds, given, lost, charged>>,
         ConfirmedWasCharged'
  PROVE  IInv'
<1>1. HoldersHold'
  BY DEF IInv, HoldersHold, Holding
<1>2. PlansFit'
  BY DEF IInv, PlansFit, Holding, Amount
<1>3. CapturesArePaid'
  BY DEF IInv, CapturesArePaid
<1>4. Books'
  BY BooksKept DEF IInv, Holding
<1> QED
  BY <1>1, <1>2, <1>3, <1>4 DEF IInv

LEMMA GatewayKeeps ==
  ASSUME IInv, TypeOK', NEW o \in Orders, Charge(o) \/ Decline(o) PROVE IInv'
<1>1. charged \subseteq charged' /\ UNCHANGED <<rows, ses, rowLock, given, lost>>
  BY DEF Charge, Decline
<1> QED
  BY <1>1 DEF IInv, HoldersHold, PlansFit, CapturesArePaid, Books, AheadByOne, Level, Amount,
              ConfirmedWasCharged, rows

LEMMA ExpireKeeps == ASSUME IInv, TypeOK', Expire PROVE IInv'
BY DEF Expire, IInv, HoldersHold, PlansFit, CapturesArePaid, Books, AheadByOne, Level, Amount,
       ConfirmedWasCharged, gateway

(* Everything that happens before a cancellation takes the row. *)
LEMMA RequestKeeps ==
  ASSUME IInv, TypeOK', NEW t \in Sessions,
         \/ StartPayment(t) \/ StartTopUp(t) \/ CloseEvent(t)
         \/ \E o \in Orders : OpenOrder(t, o) \/ Confirm(t, o)
         \/ \E e \in Events : Webhook(t, e)
         \/ \E full \in BOOLEAN : Cancel(t, full)
  PROVE  IInv'
<1>1. ses \in [Sessions -> SessionType]
  BY DEF IInv, TypeOK
<1>2. ASSUME StartPayment(t) \/ StartTopUp(t) PROVE IInv'
  <2>1. \E s \in {"ordering", "topping up"} : ses'[t].pc = s
    BY <1>1, <1>2 DEF StartPayment, StartTopUp, Goto, Idle
  <2>2. UNCHANGED <<rows, rowLock, gateway>> /\ \A u \in Sessions \ {t} : ses'[u] = ses[u]
    BY <1>1, <1>2 DEF StartPayment, StartTopUp, Goto
  <2>3. ses[t].pc = "idle" /\ ConfirmedWasCharged'
    BY <1>2, <2>2 DEF StartPayment, StartTopUp, IInv, ConfirmedWasCharged, rows, gateway
  <2> QED BY <2>1, <2>2, <2>3, QuietKeeps DEF Holding, rows, gateway
<1>3. ASSUME NEW o \in Orders, OpenOrder(t, o) PROVE IInv'
  <2>1. ses'[t].pc = "idle" /\ \A u \in Sessions \ {t} : ses'[u] = ses[u]
    BY <1>1, <1>3, IdleIs DEF OpenOrder, Goto
  <2>2. ses[t].pc \in {"ordering", "topping up"} /\ UNCHANGED <<booking, refunds, rowLock, gateway>>
    BY <1>3 DEF OpenOrder
  <2>3. ConfirmedWasCharged'
    BY <2>2 DEF IInv, ConfirmedWasCharged, gateway
  <2> QED BY <2>1, <2>2, <2>3, QuietKeeps DEF Holding, gateway
<1>4. ASSUME NEW o \in Orders, Confirm(t, o) PROVE IInv'
  <2>1. /\ ses'[t].pc = "capturing" /\ ses'[t].order = o
        /\ \A u \in Sessions \ {t} : ses'[u] = ses[u]
    BY <1>1, <1>4 DEF Confirm, Goto, Idle
  <2>2. ses[t].pc = "idle" /\ o \in charged /\ UNCHANGED <<rows, rowLock, gateway>>
    BY <1>4 DEF Confirm
  <2>3. ConfirmedWasCharged'
    BY <2>2 DEF IInv, ConfirmedWasCharged, rows, gateway
  <2> QED BY <2>1, <2>2, <2>3, QuietKeeps DEF Holding, rows, gateway
<1>5. ASSUME NEW e \in Events, Webhook(t, e) PROVE IInv'
  <2>1. /\ ses'[t].pc \in {"capturing", "failing", "ignoring"}
        /\ ses'[t].order = e.order
        /\ \A u \in Sessions \ {t} : ses'[u] = ses[u]
    BY <1>1, <1>5 DEF Webhook, Goto, Idle
  <2>2. ses'[t].pc = "capturing" => e.kind # "failed"
    BY <1>1, <1>5 DEF Webhook, Goto, Idle
  <2>3. /\ ses[t].pc = "idle" /\ UNCHANGED <<rows, rowLock, gateway>>
        /\ e.kind # "failed" => e.order \in charged
    BY <1>5 DEF Webhook, Deliverable
  <2>4. ConfirmedWasCharged'
    BY <2>3 DEF IInv, ConfirmedWasCharged, rows, gateway
  <2> QED BY <2>1, <2>2, <2>3, <2>4, QuietKeeps DEF Holding, rows, gateway
<1>6. ASSUME CloseEvent(t) PROVE IInv'
  <2>1. ses'[t].pc = "idle" /\ \A u \in Sessions \ {t} : ses'[u] = ses[u]
    BY <1>1, <1>6, IdleIs DEF CloseEvent, Goto
  <2>2. ses[t].pc \in {"failing", "ignoring"} /\ UNCHANGED <<booking, refunds, rowLock, gateway>>
    BY <1>6 DEF CloseEvent
  <2>3. ConfirmedWasCharged'
    BY <2>2 DEF IInv, ConfirmedWasCharged, gateway
  <2> QED BY <2>1, <2>2, <2>3, QuietKeeps DEF Holding, gateway
<1>7. ASSUME NEW full \in BOOLEAN, Cancel(t, full) PROVE IInv'
  <2>1. ses'[t].pc = "cancelling" /\ \A u \in Sessions \ {t} : ses'[u] = ses[u]
    BY <1>1, <1>7 DEF Cancel, Goto, Idle
  <2>2. ses[t].pc = "idle" /\ UNCHANGED <<rows, rowLock, gateway>>
    BY <1>7 DEF Cancel
  <2>3. ConfirmedWasCharged'
    BY <2>2 DEF IInv, ConfirmedWasCharged, rows, gateway
  <2> QED BY <2>1, <2>2, <2>3, QuietKeeps DEF Holding, rows, gateway
<1> QED
  BY <1>2, <1>3, <1>4, <1>5, <1>6, <1>7
(* The capture confirms a booking only for its own price, which is paid. *)
LEMMA CaptureKeeps ==
  ASSUME IInv, TypeOK', NEW t \in Sessions, Capture(t) PROVE IInv'
<1>1. ses[t].pc = "capturing" /\ UNCHANGED <<refunds, rowLock, gateway>>
  BY DEF Capture
<1>2. ses'[t].pc = "idle" /\ \A u \in Sessions \ {t} : ses'[u] = ses[u]
  BY IdleIs DEF Capture, Goto, IInv, TypeOK
<1>3. ConfirmedWasCharged'
  <2>1. CASE Confirms(t)
    <3>1. ses[t].order \in charged /\ ses[t].order \notin TopUps
      BY <1>1, <2>1 DEF IInv, CapturesArePaid, Confirms
    <3>2. ses[t].order \in Orders \ TopUps /\ charged' = charged
      BY <1>1, <3>1 DEF IInv, TypeOK, gateway
    <3> QED BY <3>1, <3>2 DEF ConfirmedWasCharged
  <2>2. CASE ~Confirms(t)
    BY <1>1, <2>2 DEF Capture, IInv, ConfirmedWasCharged, gateway
  <2> QED BY <2>1, <2>2
<1> QED
  BY <1>1, <1>2, <1>3, QuietKeeps DEF Holding, gateway

(* A step that moves only the transaction's program counter. *)
LEMMA PcMoves ==
  ASSUME IInv, NEW t \in Sessions, NEW p, Goto(t, [ses[t] EXCEPT !.pc = p])
  PROVE  /\ ses'[t].pc = p /\ ses'[t].order = ses[t].order /\ ses'[t].amount = ses[t].amount
         /\ \A u \in Sessions \ {t} : ses'[u] = ses[u]
<1>1. ses \in [Sessions -> SessionType]
  BY DEF IInv, TypeOK
<1> QED BY <1>1 DEF Goto, SessionType

LEMMA FlushCancelKeeps ==
  ASSUME IInv, TypeOK', NEW t \in Sessions, FlushCancel(t) PROVE IInv'
<1>1. /\ ses[t].pc = "cancelling" /\ rowLock = Nobody /\ rowLock' = t
      /\ UNCHANGED <<rows, gateway>>
  BY DEF FlushCancel
<1>2. ses'[t].pc = "reading" /\ \A u \in Sessions \ {t} : ses'[u] = ses[u]
  BY PcMoves DEF FlushCancel
<1>3. ConfirmedWasCharged'
  BY <1>1 DEF IInv, ConfirmedWasCharged, rows, gateway
<1> QED
  BY <1>1, <1>2, <1>3, QuietKeeps DEF Holding, rows, gateway

(* While one cancellation holds the row no other has a refund in flight. *)
LEMMA OthersHoldNothing ==
  ASSUME IInv, NEW t \in Sessions, ses[t].pc \in Holding
  PROVE  rowLock = t /\ \A u \in Sessions \ {t} : ses[u].pc \notin Holding
BY DEF IInv, HoldersHold

(* A plan never exceeds what the books leave of the payment, and the books *)
(* cannot move before it is carried out: the row is held.                  *)
LEMMA PickPaymentKeeps ==
  ASSUME IInv, TypeOK', NEW t \in Sessions, PickPayment(t) PROVE IInv'
<1> DEFINE due(o) == Lesser(ses[t].amount, Amount(o) - refunds[o])
<1>1. ses[t].pc = "reading" /\ UNCHANGED <<rows, rowLock, gateway>>
  BY DEF PickPayment
<1>2. \/ /\ ses'[t].pc = "refunding" /\ ses'[t].order \in Orders
         /\ ses'[t].amount = due(ses'[t].order)
      \/ ses'[t].pc = "settled"
  <2>1. \/ \E o \in Orders :
             Goto(t, [ses[t] EXCEPT !.pc = "refunding", !.order = o, !.amount = due(o)])
        \/ Goto(t, [ses[t] EXCEPT !.pc = "settled"])
    BY Zenon DEF PickPayment
  <2>2. ses \in [Sessions -> SessionType]
    BY DEF IInv, TypeOK
  <2> HIDE DEF due
  <2>3. ASSUME NEW o \in Orders,
               Goto(t, [ses[t] EXCEPT !.pc = "refunding", !.order = o, !.amount = due(o)])
        PROVE  ses'[t].pc = "refunding" /\ ses'[t].order = o /\ ses'[t].amount = due(o)
    BY <2>2, <2>3 DEF Goto, SessionType
  <2>4. ASSUME Goto(t, [ses[t] EXCEPT !.pc = "settled"]) PROVE ses'[t].pc = "settled"
    BY <2>2, <2>4 DEF Goto, SessionType
  <2> QED BY <2>1, <2>3, <2>4
<1>3. \A u \in Sessions \ {t} : ses'[u] = ses[u]
  BY DEF PickPayment, Goto, IInv, TypeOK
<1>4. HoldersHold'
  BY <1>1, <1>2, <1>3 DEF IInv, HoldersHold, Holding
<1>5. PlansFit'
  <2>1. \A o \in Orders : refunds[o] + due(o) <= Amount(o)
    <3>1. ses[t].amount \in Nat /\ \A o \in Orders : refunds[o] \in Nat
      BY SessionTyped DEF IInv
    <3> QED BY <3>1, AmountTyped DEF Lesser
  <2> HIDE DEF due
  <2> QED BY <1>1, <1>2, <1>3, <2>1 DEF IInv, PlansFit, rows, Amount
<1>6. CapturesArePaid'
  BY <1>1, <1>2, <1>3 DEF IInv, CapturesArePaid, gateway
<1>7. Books'
  BY <1>1, <1>2, <1>3, BooksKept DEF IInv, rows, gateway
<1>8. ConfirmedWasCharged'
  BY <1>1 DEF IInv, ConfirmedWasCharged, rows, gateway
<1> QED
  BY <1>4, <1>5, <1>6, <1>7, <1>8 DEF IInv

LEMMA CallGatewayKeeps ==
  ASSUME IInv, TypeOK', NEW t \in Sessions, CallGateway(t) PROVE IInv'
<1> DEFINE o == ses[t].order
           refund == given' = [given EXCEPT ![o] = given[o] + ses[t].amount]
<1>1. ses[t].pc = "refunding" /\ UNCHANGED <<rows, rowLock, charged, declined>>
  BY DEF CallGateway
<1>2. /\ \A u \in Sessions \ {t} : ses'[u] = ses[u]
      /\ ses'[t].pc \in {"refunded", "settled"}
      /\ ses'[t].order = o /\ ses'[t].amount = ses[t].amount
  <2>1. \/ Goto(t, [ses[t] EXCEPT !.pc = "refunded"])
        \/ Goto(t, [ses[t] EXCEPT !.pc = "settled"])
    BY DEF CallGateway
  <2> QED BY <2>1, PcMoves
<1>3. o \in Orders
  BY <1>1 DEF IInv, PlansFit
<1>4. \/ ses'[t].pc = "refunded" /\ lost' = lost /\ refund
      \/ ses'[t].pc = "settled" /\ lost' = lost /\ given' = given
      \/ ses'[t].pc = "settled" /\ lost'
  <2>1. \/ Goto(t, [ses[t] EXCEPT !.pc = "refunded"]) /\ lost' = lost /\ refund
        \/ Goto(t, [ses[t] EXCEPT !.pc = "settled"]) /\ lost' = lost /\ given' = given
        \/ Goto(t, [ses[t] EXCEPT !.pc = "settled"]) /\ lost'
    BY DEF CallGateway
  <2> HIDE DEF refund
  <2> QED BY <2>1, PcMoves
<1>5. HoldersHold' /\ CapturesArePaid'
  BY <1>1, <1>2 DEF IInv, HoldersHold, CapturesArePaid, Holding
<1>6. PlansFit'
  BY <1>1, <1>2 DEF IInv, PlansFit, rows, Amount
<1>7. ConfirmedWasCharged'
  BY <1>1 DEF IInv, ConfirmedWasCharged, rows
<1>8. \A u \in Sessions \ {t} : ses[u].pc # "refunded"
  BY <1>1, OthersHoldNothing DEF Holding
<1>9. Books'
  <2>1. CASE ses'[t].pc = "refunded" /\ lost' = lost /\ refund
    <3>1. given \in [Orders -> Nat] /\ ses[t].amount \in Nat
      BY SessionTyped DEF IInv, TypeOK
    <3>2. given'[o] = given[o] + ses[t].amount /\ \A p \in Orders \ {o} : given'[p] = given[p]
      BY <1>3, <2>1, <3>1
    <3>3. ~lost => \A p \in Orders : given[p] = refunds[p]
      BY <1>1, <1>8 DEF IInv, Books, Level
    <3>4. refunds' = refunds
      BY <1>1 DEF rows
    <3>5. AheadByOne'
      BY <1>2, <1>3, <1>8, <2>1, <3>2, <3>3, <3>4 DEF AheadByOne
    <3>6. Level'
      BY <1>2, <1>3, <2>1, <3>2, <3>3, <3>4 DEF Level
    <3> QED BY <3>4, <3>5, <3>6 DEF IInv, Books, Amount
  <2>2. CASE ses'[t].pc = "settled" /\ lost' = lost /\ given' = given
    BY <1>1, <1>2, <2>2, BooksKept DEF IInv, rows
  <2>3. CASE lost'
    BY <1>1, <2>3 DEF IInv, Books, AheadByOne, Level, rows, Amount
  <2> QED BY <1>4, <2>1, <2>2, <2>3
<1> QED
  BY <1>5, <1>6, <1>7, <1>9 DEF IInv

LEMMA CommitCancelKeeps ==
  ASSUME IInv, TypeOK', NEW t \in Sessions, CommitCancel(t) PROVE IInv'
<1> DEFINE o == ses[t].order
<1>1. /\ ses[t].pc \in {"settled", "refunded"} /\ booking' = "CANCELLED" /\ rowLock' = Nobody
      /\ UNCHANGED gateway
  BY DEF CommitCancel
<1>2. ses'[t].pc = "idle" /\ \A u \in Sessions \ {t} : ses'[u] = ses[u]
  BY IdleIs DEF CommitCancel, Goto, IInv, TypeOK
<1>3. \A u \in Sessions \ {t} : ses[u].pc \notin Holding
  BY <1>1, OthersHoldNothing DEF Holding
<1>4. \A u \in Sessions : ses'[u].pc \notin Holding
  BY <1>2, <1>3 DEF Holding
<1>5. HoldersHold' /\ PlansFit'
  BY <1>4 DEF HoldersHold, PlansFit, Holding
<1>6. CapturesArePaid' /\ ConfirmedWasCharged'
  BY <1>1, <1>2 DEF IInv, CapturesArePaid, ConfirmedWasCharged, gateway
<1>7. Books'
  <2>1. CASE ses[t].pc = "refunded"
    <3>1. refunds \in [Orders -> Nat] /\ ses[t].amount \in Nat /\ o \in Orders
      BY <2>1, SessionTyped DEF IInv, TypeOK, PlansFit
    <3>2. refunds' = [refunds EXCEPT ![o] = refunds[o] + ses[t].amount]
      BY <2>1 DEF CommitCancel
    <3>3. refunds'[o] = refunds[o] + ses[t].amount /\ \A p \in Orders \ {o} : refunds'[p] = refunds[p]
      BY <3>1, <3>2
    <3>4. \A p \in Orders : refunds'[p] <= Amount(p)
      BY <2>1, <3>1, <3>3 DEF IInv, PlansFit, Books
    <3>5. AheadByOne'
      BY <1>4 DEF AheadByOne, Holding
    <3>6. ~lost => given[o] = refunds[o] + ses[t].amount
      BY <2>1 DEF IInv, Books, AheadByOne
    <3>7. ~lost => \A p \in Orders \ {o} : given[p] = refunds[p]
      BY <1>3, <2>1 DEF IInv, Books, Level, Holding
    <3>8. Level'
      BY <1>1, <3>1, <3>3, <3>6, <3>7 DEF Level, gateway
    <3> QED BY <3>4, <3>5, <3>8 DEF Books, Amount
  <2>2. CASE ses[t].pc = "settled"
    <3>1. refunds' = refunds
      BY <2>2 DEF CommitCancel
    <3> QED BY <1>1, <1>2, <2>2, <3>1, BooksKept DEF IInv, gateway
  <2> QED BY <1>1, <2>1, <2>2
<1> QED
  BY <1>5, <1>6, <1>7 DEF IInv

LEMMA AbortKeeps ==
  ASSUME IInv, TypeOK', NEW t \in Sessions, Abort(t) PROVE IInv'
<1>1. /\ lost' = (lost \/ ses[t].pc = "refunded")
      /\ rowLock' = IF rowLock = t THEN Nobody ELSE rowLock
      /\ UNCHANGED <<rows, charged, declined, given>>
  BY DEF Abort
<1>2. ses'[t].pc = "idle" /\ \A u \in Sessions \ {t} : ses'[u] = ses[u]
  BY IdleIs DEF Abort, Goto, IInv, TypeOK
<1>3. HoldersHold' /\ PlansFit' /\ CapturesArePaid'
  BY <1>1, <1>2 DEF IInv, HoldersHold, PlansFit, CapturesArePaid, Holding, Amount, rows
<1>4. Books'
  <2>1. CASE ses[t].pc = "refunded"
    BY <1>1, <2>1 DEF IInv, Books, AheadByOne, Level, Amount, rows
  <2>2. CASE ses[t].pc # "refunded"
    <3>1. lost' = lost
      BY <1>1, <2>2 DEF IInv, TypeOK
    <3> QED BY <1>1, <1>2, <2>2, <3>1, BooksKept DEF IInv, rows
  <2> QED BY <2>1, <2>2
<1>5. ConfirmedWasCharged'
  BY <1>1 DEF IInv, ConfirmedWasCharged, rows
<1> QED
  BY <1>3, <1>4, <1>5 DEF IInv

LEMMA InvStep == IInv /\ [Next]_vars => IInv'
<1> SUFFICES ASSUME IInv, [Next]_vars PROVE IInv'
  OBVIOUS
<1>1. TypeOK'
  BY TypeStep DEF IInv
<1>2. CASE UNCHANGED vars
  BY <1>1, <1>2 DEF vars, IInv, HoldersHold, PlansFit, CapturesArePaid, Books, AheadByOne, Level,
                    Amount, ConfirmedWasCharged
<1> QED
  BY <1>1, <1>2, GatewayKeeps, ExpireKeeps, RequestKeeps, CaptureKeeps, FlushCancelKeeps,
     PickPaymentKeeps, CallGatewayKeeps, CommitCancelKeeps, AbortKeeps DEF Next, CancelSteps

LEMMA Invariance == Spec => []IInv
BY InvInit, InvStep, PTL DEF Spec

(* However many cancellations, captures and crashes race, no payment is    *)
(* refunded beyond its amount; and unless a refund went on no book, the    *)
(* gateway has given back no more than it took.                            *)
THEOREM NeverRefundedTwice == Spec => []RefundWithinPayment
<1>1. IInv => RefundWithinPayment
  <2> SUFFICES ASSUME IInv, NEW o \in Orders
               PROVE  refunds[o] <= Amount(o) /\ (~lost => given[o] <= Amount(o))
    BY DEF RefundWithinPayment
  <2>1. refunds[o] <= Amount(o)
    BY DEF IInv, Books
  <2>2. CASE \E t \in Sessions : ses[t].pc = "refunded" /\ ses[t].order = o
    BY <2>1, <2>2 DEF IInv, Books, AheadByOne, PlansFit
  <2>3. CASE \A t \in Sessions : ~(ses[t].pc = "refunded" /\ ses[t].order = o)
    BY <2>1, <2>3 DEF IInv, Books, Level
  <2> QED BY <2>1, <2>2, <2>3
<1> QED
  BY <1>1, Invariance, PTL

(* A booking is confirmed only when the customer has paid its own price. *)
THEOREM ConfirmationNeedsMoney == Spec => []ConfirmedWasCharged
<1>1. IInv => ConfirmedWasCharged
  BY DEF IInv
<1> QED
  BY <1>1, Invariance, PTL
=============================================================================
