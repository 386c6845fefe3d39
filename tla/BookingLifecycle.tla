-------------------------- MODULE BookingLifecycle --------------------------
(***************************************************************************)
(* The life of one booking row, moved by requests and by the maintenance   *)
(* sweep at the same time (bookings/service.py, arrival.py, overstay.py,   *)
(* maintenance.py, and the two transitions of reports/service.py).         *)
(*                                                                         *)
(* Transactions run at PostgreSQL's READ COMMITTED and take no lock when   *)
(* they read.  A request loads the row, decides from what it loaded, and   *)
(* later UPDATEs, by primary key, only the columns it changed: whoever     *)
(* writes last wins, column by column.  The sweep's first two statements   *)
(* are bulk UPDATEs, whose WHERE is re-checked on the newest version; the  *)
(* other three SELECT rows and mutate what they selected.                  *)
(*                                                                         *)
(* A request's flush and commit are one step: in between the row is locked *)
(* and nobody sees the new values, so nothing can tell them apart.  The    *)
(* sweep's lock is kept, because its statements span its transaction.      *)
(* Losing a transaction (a crash, a 500, the exclusion constraint meeting  *)
(* a bay that was rebooked) is Abandon and AbortPass.                      *)
(***************************************************************************)
EXTENDS Integers

CONSTANTS
  Sessions,        \* requests in flight at once
  Sweepers,        \* processes running the maintenance loop
  Nobody,          \* nobody holds a lock
  MaxTime,         \* the clock stops here (a bound of the model)
  StartAt, EndAt,  \* the booked window
  HoldFor,         \* approval_window_hours and payment_hold_minutes
  Grace,           \* overstay_grace_minutes
  MaxOverstay,     \* overstay_max_hours
  Increment,       \* overstay_increment_minutes
  ReminderLead,    \* reminder_hours_before
  ArrivalEarly,    \* arrival_early_minutes
  Gated,           \* ParkingSpace.requires_arrival_code
  CancelStarted    \* cancellation_policy.allow_after_start

Time   == 0 .. MaxTime
NoTime == -1

ASSUME TimeAssumption ==
  MaxTime \in Nat /\ StartAt \in Time /\ EndAt \in Time /\ StartAt < EndAt
ASSUME MeterAssumption ==
  Grace \in Nat /\ MaxOverstay \in Nat \ {0} /\ Increment \in Nat \ {0}
ASSUME HoldAssumption ==
  HoldFor \in Nat \ {0} /\ ReminderLead \in Nat /\ ArrivalEarly \in Nat
ASSUME FlagAssumption == Gated \in BOOLEAN /\ CancelStarted \in BOOLEAN
ASSUME ActorAssumption ==
  Sessions \cap Sweepers = {} /\ Nobody \notin Sessions \cup Sweepers

Pending  == {"PENDING_PAYMENT", "PENDING_APPROVAL"}
Blocking == Pending \cup {"CONFIRMED", "ACTIVE", "OVERSTAYING", "DISPUTED"}
Closed   == {"COMPLETED", "CANCELLED", "EXPIRED", "REJECTED"}
Statuses == Blocking \cup Closed

Cancellable == Pending \cup {"CONFIRMED", "ACTIVE"}
Disputable  == {"CONFIRMED", "ACTIVE", "COMPLETED"}

(* The columns the transitions write.  `confirmed` and `ostPaid` stand for *)
(* confirmed_at and overstay_paid_at being set, `reminded` for             *)
(* reminder_sent_at, and `ost` for overstay_minutes with overstay_amount,  *)
(* which is proportional to it.                                            *)
Columns == {"status", "hold", "confirmed", "ost", "ostPaid", "reminded"}

Row == [status : Statuses, hold : Time \cup {NoTime}, confirmed : BOOLEAN,
        ost : Nat, ostPaid : BOOLEAN, reminded : BOOLEAN]

(* What a staged write is for, where its commit does more than UPDATE the  *)
(* row, or a property asks.                                                *)
Kinds == {"update", "end", "topup", "settle"}

VARIABLES
  now,        \* the clock
  row,        \* the committed row
  ses,        \* each request: what it loaded, then what it will write
  sweep,      \* each sweeper's transaction
  pass,       \* who holds the advisory lock of the maintenance pass
  writer,     \* the sweeper whose uncommitted UPDATE locks the row
  orders,     \* amounts of the overstay orders open at the gateway
  settled,    \* amounts of the overstay orders captured
  reminders   \* reminder notifications committed

vars == <<now, row, ses, sweep, pass, writer, orders, settled, reminders>>

-----------------------------------------------------------------------------
(* [Mutant of Overlay] the UPDATE writes every column of the loaded row. *)
OverlayWholeRow(cols, img, r) == IF cols = {} THEN r ELSE img

(* A transaction's UPDATE on top of what is committed: the columns it      *)
(* changed, and no others.                                                 *)
Overlay(cols, img, r) ==
  [status    |-> IF "status"    \in cols THEN img.status    ELSE r.status,
   hold      |-> IF "hold"      \in cols THEN img.hold      ELSE r.hold,
   confirmed |-> IF "confirmed" \in cols THEN img.confirmed ELSE r.confirmed,
   ost       |-> IF "ost"       \in cols THEN img.ost       ELSE r.ost,
   ostPaid   |-> IF "ostPaid"   \in cols THEN img.ostPaid   ELSE r.ostPaid,
   reminded  |-> IF "reminded"  \in cols THEN img.reminded  ELSE r.reminded]

(* The columns the ORM finds dirty. *)
Changed(old, new) == {c \in Columns : old[c] # new[c]}

Lesser(a, b) == IF a < b THEN a ELSE b

(* A fresh hold_expires_at; one past the end of the model's clock lapses   *)
(* with it.                                                                *)
HoldFrom(t) == Lesser(t + HoldFor, MaxTime)

GraceEnds  == EndAt + Grace
MeterStops == EndAt + MaxOverstay

(* billable_minutes: whole increments since the end of the booking, none   *)
(* within the grace period, and no more after the meter has stopped.       *)
Billable(t) ==
  LET over == Lesser(t, MeterStops) - EndAt
  IN  IF over <= Grace THEN 0 ELSE ((over + Increment - 1) \div Increment) * Increment

Freeze(r, t) == [r EXCEPT !.ost = Billable(t)]

-----------------------------------------------------------------------------
NoImage == [status |-> "PENDING_PAYMENT", hold |-> NoTime, confirmed |-> FALSE,
            ost |-> 0, ostPaid |-> FALSE, reminded |-> FALSE]

IdleSession == [pc |-> "idle", kind |-> "update", amount |-> 0, img |-> NoImage, cols |-> {}]
IdleSweep   == [pc |-> "idle", at |-> 0, img |-> NoImage, cols |-> {},
                loaded |-> FALSE, dirty |-> FALSE]

(* A row fresh from create: unpaid, or waiting for the provider. *)
Init ==
  /\ now = 0
  /\ \E s \in Pending : row = [NoImage EXCEPT !.status = s, !.hold = HoldFrom(0)]
  /\ ses = [t \in Sessions |-> IdleSession]
  /\ sweep = [w \in Sweepers |-> IdleSweep]
  /\ pass = Nobody /\ writer = Nobody
  /\ orders = {} /\ settled = {}
  /\ reminders = 0

Tick ==
  /\ now < MaxTime
  /\ now' = now + 1
  /\ UNCHANGED <<row, ses, sweep, pass, writer, orders, settled, reminders>>

-----------------------------------------------------------------------------
(* Requests.                                                               *)

(* The handler loads the booking. *)
Load(t) ==
  /\ ses[t].pc = "idle"
  /\ ses' = [ses EXCEPT ![t] = [IdleSession EXCEPT !.pc = "loaded", !.img = row]]
  /\ UNCHANGED <<now, row, sweep, pass, writer, orders, settled, reminders>>

Loaded(t) == ses[t].pc = "loaded"

(* The service function has assigned its attributes; `fresh` are columns   *)
(* given a new instant, dirty whatever they held.  Of the image only the   *)
(* dirty columns matter from here on.                                      *)
Stage(t, k, img, fresh, a) ==
  LET cols == Changed(ses[t].img, img) \cup fresh
  IN  /\ ses' = [ses EXCEPT ![t] = [pc |-> "staged", kind |-> k, amount |-> a, cols |-> cols,
                                    img |-> Overlay(cols, img, NoImage)]]
      /\ UNCHANGED <<now, row, sweep, pass, writer, orders, settled, reminders>>

(* mark_paid, called when a payment is captured. *)
MarkPaid(t) ==
  LET b == ses[t].img
  IN  /\ Loaded(t)
      /\ b.status = "PENDING_PAYMENT"
      /\ Stage(t, "update", [b EXCEPT !.status = "CONFIRMED", !.confirmed = TRUE, !.hold = NoTime],
               {"confirmed"}, 0)

Approve(t) ==
  LET b == ses[t].img
  IN  /\ Loaded(t)
      /\ b.status = "PENDING_APPROVAL"
      /\ Stage(t, "update", [b EXCEPT !.status = "PENDING_PAYMENT", !.hold = HoldFrom(now)], {"hold"}, 0)

Reject(t) ==
  LET b == ses[t].img
  IN  /\ Loaded(t)
      /\ b.status = "PENDING_APPROVAL"
      /\ Stage(t, "update", [b EXCEPT !.status = "REJECTED", !.hold = NoTime], {}, 0)

(* A renter may not cancel what has started, unless the policy says so;    *)
(* the provider and an admin may.                                          *)
Cancel(t, byProvider) ==
  LET b == ses[t].img
  IN  /\ Loaded(t)
      /\ byProvider \/ CancelStarted \/ now < StartAt
      /\ b.status \in Cancellable
      /\ Stage(t, "update", [b EXCEPT !.status = "CANCELLED", !.hold = NoTime], {}, 0)

(* [Mutant of Verify] any booking that is still open may be checked in. *)
VerifyAnyOpen(t) ==
  LET b == ses[t].img
  IN  /\ Loaded(t)
      /\ b.status \in Blocking
      /\ now >= StartAt - ArrivalEarly
      /\ Stage(t, "update", [b EXCEPT !.status = "ACTIVE"], {}, 0)

(* The renter types the right arrival code.  A code exists only from       *)
(* arrival_early_minutes before the start on.  verify commits its attempt  *)
(* counter half-way and goes on with the row it loaded before that.        *)
Verify(t) ==
  LET b == ses[t].img
  IN  /\ Loaded(t)
      /\ b.status = "CONFIRMED"
      /\ now >= StartAt - ArrivalEarly
      /\ Stage(t, "update", [b EXCEPT !.status = "ACTIVE"], {}, 0)

(* end_parking: refused, and rolled back, while the meter shows a debt. *)
EndParking(t) ==
  LET b == Freeze(ses[t].img, now)
  IN  /\ Loaded(t)
      /\ b.status \in {"ACTIVE", "OVERSTAYING"}
      /\ b.ost = 0 \/ b.ostPaid
      /\ Stage(t, "end", [b EXCEPT !.status = "COMPLETED"], {}, 0)

(* [Mutant of ReportIssue] the report's own status is written on the booking. *)
ReportIssueStatus(t) ==
  LET b == ses[t].img
  IN  /\ Loaded(t)
      /\ b.status \in Disputable
      /\ Stage(t, "update", [b EXCEPT !.status = "OPEN"], {}, 0)

(* A report of a serious kind flags the booking. *)
ReportIssue(t) ==
  LET b == ses[t].img
  IN  /\ Loaded(t)
      /\ b.status \in Disputable
      /\ Stage(t, "update", [b EXCEPT !.status = "DISPUTED"], {}, 0)

(* The last open report is closed. *)
Resolve(t) ==
  LET b == ses[t].img
  IN  /\ Loaded(t)
      /\ b.status = "DISPUTED"
      /\ Stage(t, "update", [b EXCEPT !.status = IF EndAt <= now THEN "COMPLETED" ELSE "CONFIRMED"], {}, 0)

(* start_overstay_payment: freeze the meter, and open an order for what it *)
(* shows.  Of the booking only overstay_paid_at is looked at.              *)
OpenTopUp(t) ==
  LET b == Freeze(ses[t].img, now)
  IN  /\ Loaded(t)
      /\ ~b.ostPaid
      /\ b.ost > 0
      /\ Stage(t, "topup", b, {}, b.ost)

(* _capture of an OVERSTAY payment of amount a, by confirm or by webhook. *)
CaptureTopUp(t, a) ==
  /\ Loaded(t)
  /\ Stage(t, "settle", [ses[t].img EXCEPT !.ostPaid = TRUE], {"ostPaid"}, a)

(* The flush, which waits for a sweep that holds the row, and the commit.  *)
Write(t) ==
  LET s == ses[t]
  IN  /\ s.pc = "staged"
      /\ writer = Nobody \/ s.cols = {}
      /\ row' = Overlay(s.cols, s.img, row)
      /\ ses' = [ses EXCEPT ![t] = IdleSession]
      /\ orders' = CASE s.kind = "topup"  -> orders \cup {s.amount}
                     [] s.kind = "settle" -> orders \ {s.amount}
                     [] OTHER             -> orders
      /\ settled' = IF s.kind = "settle" THEN settled \cup {s.amount} ELSE settled
      /\ UNCHANGED <<now, sweep, pass, writer, reminders>>

(* The handler raised, had nothing to do, or was rolled back. *)
Abandon(t) ==
  /\ ses[t].pc \in {"loaded", "staged"}
  /\ ses' = [ses EXCEPT ![t] = IdleSession]
  /\ UNCHANGED <<now, row, sweep, pass, writer, orders, settled, reminders>>

-----------------------------------------------------------------------------
(* The sweep: run_once, one transaction.                                   *)

(* What a statement of w's own transaction sees. *)
View(w) == Overlay(sweep[w].cols, sweep[w].img, row)

(* The object an ORM query hands back: a row already loaded in this        *)
(* session is not refreshed.                                               *)
Instance(w) == IF sweep[w].loaded THEN sweep[w].img ELSE View(w)

CanLock(w) == writer \in {Nobody, w}

(* A statement is due; what the last one left dirty is flushed before it,  *)
(* waiting for the row if need be.                                         *)
Statement(w, step) ==
  /\ sweep[w].pc = step
  /\ sweep[w].dirty => CanLock(w)
  /\ UNCHANGED <<now, row, ses, pass, orders, settled, reminders>>

(* Go on to step `next`, whose function starts by reading the clock. *)
Advance(w, next) ==
  sweep' = [sweep EXCEPT ![w] = [sweep[w] EXCEPT !.pc = next, !.at = now, !.dirty = FALSE]]

Flushed(w) == writer' = IF sweep[w].dirty THEN w ELSE writer

(* [Mutant of BulkUpdate] the sweep selects the row and mutates it later. *)
BulkUpdateUnlocked(w, img, next) ==
  /\ sweep' = [sweep EXCEPT ![w] =
                 [sweep[w] EXCEPT !.pc = next, !.at = now, !.img = img, !.loaded = TRUE,
                           !.cols = @ \cup Changed(View(w), img)]]
  /\ UNCHANGED writer

(* A bulk UPDATE hits the row: it is locked until the pass ends. *)
BulkUpdate(w, img, next) ==
  /\ CanLock(w)
  /\ writer' = w
  /\ sweep' = [sweep EXCEPT ![w] =
                 [sweep[w] EXCEPT !.pc = next, !.at = now, !.img = img,
                           !.cols = @ \cup Changed(View(w), img)]]

(* A SELECT returned the row and the code assigned its attributes. *)
Mutate(w, img, next) ==
  sweep' = [sweep EXCEPT ![w] =
              [sweep[w] EXCEPT !.pc = next, !.at = now, !.img = img, !.loaded = TRUE, !.dirty = TRUE,
                        !.cols = @ \cup Changed(Instance(w), img)]]

(* run_once starts, if no other process is mid-pass. *)
StartPass(w) ==
  /\ sweep[w].pc = "idle"
  /\ pass = Nobody
  /\ pass' = w
  /\ sweep' = [sweep EXCEPT ![w] = [IdleSweep EXCEPT !.pc = "expire", !.at = now]]
  /\ UNCHANGED <<now, row, ses, writer, orders, settled, reminders>>

(* [Mutant of HoldLapsed] requests the provider never answers are forgotten. *)
HoldLapsedUnpaid(r, t) == r.status = "PENDING_PAYMENT" /\ r.hold # NoTime /\ r.hold <= t

HoldLapsed(r, t) == r.status \in Pending /\ r.hold # NoTime /\ r.hold <= t

ExpireHolds(w) ==
  LET b == View(w)
      due == HoldLapsed(b, sweep[w].at)
  IN  /\ Statement(w, "expire")
      /\ \/ due /\ BulkUpdate(w, [b EXCEPT !.status = "EXPIRED", !.hold = NoTime], "activate")
         \/ ~due /\ Advance(w, "activate") /\ UNCHANGED writer

ActivateStarted(w) ==
  LET b == View(w)
      due == b.status = "CONFIRMED" /\ StartAt <= sweep[w].at /\ sweep[w].at < EndAt /\ ~Gated
  IN  /\ Statement(w, "activate")
      /\ \/ due /\ BulkUpdate(w, [b EXCEPT !.status = "ACTIVE"], "overstay")
         \/ ~due /\ Advance(w, "overstay") /\ UNCHANGED writer

RanOver(r, t) == r.status = "ACTIVE" /\ EndAt <= t - Grace

StartOverstays(w) ==
  LET b == Instance(w)
      due == RanOver(View(w), sweep[w].at)
  IN  /\ Statement(w, "overstay")
      /\ \/ due /\ Mutate(w, Freeze([b EXCEPT !.status = "OVERSTAYING"], sweep[w].at), "complete")
         \/ ~due /\ Advance(w, "complete")
      /\ UNCHANGED writer

(* [Mutant of Finished] nobody closes a booking that was never checked in. *)
FinishedOnMeter(r, t) == r.status = "OVERSTAYING" /\ EndAt <= t - MaxOverstay

Finished(r, t) ==
  \/ r.status = "CONFIRMED" /\ EndAt <= t
  \/ r.status = "OVERSTAYING" /\ EndAt <= t - MaxOverstay

(* [Mutant of CompleteFinished] what the last freeze showed is taken for the debt. *)
CompleteUnmetered(w) ==
  LET b == Instance(w)
      due == Finished(View(w), sweep[w].at)
  IN  /\ Statement(w, "complete")
      /\ Flushed(w)
      /\ \/ due /\ Mutate(w, [b EXCEPT !.status = "COMPLETED"], "remind")
         \/ ~due /\ Advance(w, "remind")

(* A CONFIRMED booking is closed for free; one on the meter keeps what it  *)
(* owes when the meter stops.                                              *)
CompleteFinished(w) ==
  LET b == Instance(w)
      due == Finished(View(w), sweep[w].at)
      metered == IF b.status = "OVERSTAYING" THEN Freeze(b, sweep[w].at) ELSE b
  IN  /\ Statement(w, "complete")
      /\ Flushed(w)
      /\ \/ due /\ Mutate(w, [metered EXCEPT !.status = "COMPLETED"], "remind")
         \/ ~due /\ Advance(w, "remind")

ReminderDue(r, t) ==
  r.status \in {"CONFIRMED", "ACTIVE"} /\ ~r.reminded /\ t < StartAt /\ StartAt <= t + ReminderLead

DueReminders(w) ==
  LET b == Instance(w)
      due == ReminderDue(View(w), sweep[w].at)
  IN  /\ Statement(w, "remind")
      /\ Flushed(w)
      /\ \/ due /\ Mutate(w, [b EXCEPT !.reminded = TRUE], "finish")
         \/ ~due /\ Advance(w, "finish")

(* The notifications are queued, which flushes the rest, and the pass      *)
(* commits; the advisory lock goes with the transaction.                   *)
FinishPass(w) ==
  /\ sweep[w].pc = "finish"
  /\ sweep[w].dirty => CanLock(w)
  /\ row' = View(w)
  /\ reminders' = IF "reminded" \in sweep[w].cols THEN reminders + 1 ELSE reminders
  /\ writer' = IF writer = w THEN Nobody ELSE writer
  /\ pass' = IF pass = w THEN Nobody ELSE pass
  /\ sweep' = [sweep EXCEPT ![w] = IdleSweep]
  /\ UNCHANGED <<now, ses, orders, settled>>

(* The pass raised, or its process died: PostgreSQL rolls it back, and the *)
(* loop tries again on the next tick.                                      *)
AbortPass(w) ==
  /\ sweep[w].pc # "idle"
  /\ writer' = IF writer = w THEN Nobody ELSE writer
  /\ pass' = IF pass = w THEN Nobody ELSE pass
  /\ sweep' = [sweep EXCEPT ![w] = IdleSweep]
  /\ UNCHANGED <<now, row, ses, orders, settled, reminders>>

-----------------------------------------------------------------------------
Decide(t) ==
  \/ MarkPaid(t) \/ Approve(t) \/ Reject(t) \/ Verify(t) \/ EndParking(t)
  \/ ReportIssue(t) \/ Resolve(t) \/ OpenTopUp(t)
  \/ \E byProvider \in BOOLEAN : Cancel(t, byProvider)
  \/ \E a \in orders : CaptureTopUp(t, a)

SweepStep(w) ==
  \/ StartPass(w) \/ ExpireHolds(w) \/ ActivateStarted(w) \/ StartOverstays(w)
  \/ CompleteFinished(w) \/ DueReminders(w) \/ FinishPass(w)

Next ==
  \/ Tick
  \/ \E t \in Sessions : Load(t) \/ Decide(t) \/ Write(t) \/ Abandon(t)
  \/ \E w \in Sweepers : SweepStep(w) \/ AbortPass(w)

Spec == Init /\ [][Next]_vars

(***************************************************************************)
(* maintenance_loop runs a pass every minute and retries after a failure,  *)
(* so the clock and every step of the pass are fair -- strongly, because a *)
(* pass may be killed half-way, as long as not every one is.  Requests owe *)
(* nothing.                                                                *)
(***************************************************************************)
Fairness ==
  /\ WF_vars(Tick)
  /\ \A w \in Sweepers :
       /\ WF_vars(StartPass(w))
       /\ SF_vars(ExpireHolds(w)) /\ SF_vars(ActivateStarted(w)) /\ SF_vars(StartOverstays(w))
       /\ SF_vars(CompleteFinished(w)) /\ SF_vars(DueReminders(w)) /\ SF_vars(FinishPass(w))

FairSpec == Spec /\ Fairness

-----------------------------------------------------------------------------
SessionState == [pc : {"idle", "loaded", "staged"}, kind : Kinds, amount : Nat,
                 img : Row, cols : SUBSET Columns]
SweepState   == [pc : {"idle", "expire", "activate", "overstay", "complete", "remind", "finish"},
                 at : Time, img : Row, cols : SUBSET Columns,
                 loaded : BOOLEAN, dirty : BOOLEAN]

TypeOK ==
  /\ now \in Time
  /\ row \in Row
  /\ ses \in [Sessions -> SessionState]
  /\ sweep \in [Sweepers -> SweepState]
  /\ pass \in Sweepers \cup {Nobody} /\ writer \in Sweepers \cup {Nobody}
  /\ orders \subseteq Nat /\ settled \subseteq Nat
  /\ reminders \in Nat

(* A booking is confirmed, used, finished or disputed only if mark_paid    *)
(* confirmed it, however stale the rows are that approvals, check-ins,     *)
(* resolutions and sweeps write from (service.py:296-303).                 *)
PaidBeforeUse ==
  row.status \in {"CONFIRMED", "ACTIVE", "OVERSTAYING", "DISPUTED", "COMPLETED"}
    => row.confirmed

(* expire_holds never takes a bay from somebody who has paid, approved or  *)
(* still has time (test_lifecycle: test_paid_booking_survives_the_hold_    *)
(* sweep), even if the payment commits while the sweep is running.         *)
ExpiryTakesOnlyLapsed ==
  [][row'.status = "EXPIRED" /\ row.status # "EXPIRED" => HoldLapsed(row, now)]_vars

(* A renter is reminded once, although several processes run the pass      *)
(* (maintenance.py:148-158), passes die, and requests write their copies   *)
(* of the row back after a reminder has gone out.                          *)
RemindedOnce == reminders <= 1

(* A payment the row has recorded, for the booking or for the extra time,  *)
(* stays recorded whatever an older copy of the row is written back for:   *)
(* each transaction writes only the columns it changed.                    *)
PaymentNeverForgotten ==
  [][(row.confirmed => row'.confirmed) /\ (row.ostPaid => row'.ostPaid)]_vars

(* "or a late renter would be closed out for free" (maintenance.py:175):   *)
(* the sweep closes a booking on the meter only with a debt on it,         *)
(* provided the meter outlasts the grace period.                           *)
LateNeverFree ==
  [][\A w \in Sweepers :
       FinishPass(w) /\ row.status = "OVERSTAYING" /\ row'.status = "COMPLETED"
         /\ Grace < MaxOverstay
         => row'.ost > 0]_vars

(* "Unpaid bookings stop blocking the slot" (models.py:148): every hold is *)
(* paid, turned down or swept away, approvals that renew it included.      *)
HoldsLapse == row.status \in Pending ~> row.status \notin Pending

(* No booking keeps its bay for good unless an admin has to look at it: an *)
(* unverified one on a gated space and an abandoned one included           *)
(* (maintenance.py:48-50, 92-95).                                          *)
BayReleased == row.status \in Blocking ~> row.status \in Closed \cup {"DISPUTED"}

-----------------------------------------------------------------------------
(* maintenance.py:7-8: "each pass only touches rows still in the state it  *)
(* is moving out of": only an ACTIVE booking goes on the meter.            *)
MeterOnlyFromActive ==
  [][row'.status = "OVERSTAYING" /\ row.status # "OVERSTAYING" => row.status = "ACTIVE"]_vars

(* bookings/router.py:246: ending a booking "Refuses while money is owed": *)
(* what the bill says when the renter leaves has been paid in full.        *)
EndsOnlySettled ==
  [][\A t \in Sessions :
       Write(t) /\ ses[t].kind = "end" /\ row'.ost > 0
         => \E a \in settled : a >= row'.ost]_vars
=============================================================================
