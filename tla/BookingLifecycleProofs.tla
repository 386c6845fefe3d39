----------------------- MODULE BookingLifecycleProofs -----------------------
(***************************************************************************)
(* Proofs about BookingLifecycle, for any number of requests and sweepers  *)
(* and any windows, grace periods and caps.                                *)
(***************************************************************************)
EXTENDS BookingLifecycle, TLAPS

-----------------------------------------------------------------------------
(* Types.                                                                  *)

(* The meter shows a natural number, whatever the settings. *)
LEMMA BillableIsNat == \A t \in Time : Billable(t) \in Nat
<1> SUFFICES ASSUME NEW t \in Time PROVE Billable(t) \in Nat
  OBVIOUS
<1> DEFINE over == Lesser(t, MeterStops) - EndAt
<1>1. over \in Int /\ Grace \in Nat /\ Increment \in Nat \ {0}
  BY TimeAssumption, MeterAssumption DEF Time, Lesser, MeterStops
<1>2. CASE over <= Grace
  BY <1>2 DEF Billable
<1>3. CASE ~(over <= Grace)
  <2>1. over + Increment - 1 \in Nat
    BY <1>1, <1>3
  <2>2. (over + Increment - 1) \div Increment \in Nat
    BY <1>1, <2>1
  <2>3. ((over + Increment - 1) \div Increment) * Increment \in Nat
    BY <1>1, <2>2
  <2> QED
    BY <1>3, <2>3 DEF Billable
<1> QED
  BY <1>2, <1>3

LEMMA QuotientGrows ==
  ASSUME NEW a \in Nat, NEW b \in Nat, a <= b, NEW d \in Nat \ {0}
  PROVE  a \div d \in Nat /\ b \div d \in Nat /\ a \div d <= b \div d
OBVIOUS

LEMMA ProductGrows ==
  ASSUME NEW p \in Nat, NEW q \in Nat, p <= q, NEW d \in Nat
  PROVE  p * d <= q * d
<1>1. (q - p) * d >= 0
  OBVIOUS
<1>2. q * d = p * d + (q - p) * d /\ p * d \in Int /\ q * d \in Int
  OBVIOUS
<1> QED
  BY <1>1, <1>2

(* The meter never runs backwards. *)
LEMMA BillableGrows ==
  ASSUME NEW t \in Time, NEW u \in Time, t <= u
  PROVE  Billable(t) <= Billable(u)
<1> DEFINE one == Lesser(t, MeterStops) - EndAt
           two == Lesser(u, MeterStops) - EndAt
<1>1. one \in Int /\ two \in Int /\ one <= two /\ Grace \in Nat /\ Increment \in Nat \ {0}
  BY TimeAssumption, MeterAssumption DEF Time, Lesser, MeterStops
<1>2. /\ Billable(t) = IF one <= Grace THEN 0 ELSE ((one + Increment - 1) \div Increment) * Increment
      /\ Billable(u) = IF two <= Grace THEN 0 ELSE ((two + Increment - 1) \div Increment) * Increment
  BY DEF Billable
<1>3. Billable(u) \in Nat
  BY BillableIsNat
<1> HIDE DEF one, two
<1>4. CASE one <= Grace
  BY <1>2, <1>3, <1>4
<1>5. CASE ~(one <= Grace)
  <2> DEFINE p == (one + Increment - 1) \div Increment
             q == (two + Increment - 1) \div Increment
  <2>1. one + Increment - 1 \in Nat /\ two + Increment - 1 \in Nat
        /\ one + Increment - 1 <= two + Increment - 1 /\ ~(two <= Grace)
    BY <1>1, <1>5
  <2>2. p \in Nat /\ q \in Nat /\ p <= q
    BY <1>1, <2>1, QuotientGrows
  <2>3. Billable(t) = p * Increment /\ Billable(u) = q * Increment
    BY <1>2, <1>5, <2>1
  <2> HIDE DEF p, q
  <2> QED BY <1>1, <2>2, <2>3, ProductGrows
<1> QED
  BY <1>4, <1>5

(* A meter that outlasts the grace period has stopped on a debt. *)
LEMMA StoppedOnADebt ==
  ASSUME NEW t \in Time, MeterStops <= t, Grace < MaxOverstay
  PROVE  Billable(t) > 0
<1>1. /\ Grace \in Nat /\ MaxOverstay \in Nat /\ Increment \in Nat \ {0}
      /\ Lesser(t, MeterStops) - EndAt = MaxOverstay
  BY TimeAssumption, MeterAssumption DEF Time, Lesser, MeterStops
<1> DEFINE over == Lesser(t, MeterStops) - EndAt
           p == (MaxOverstay + Increment - 1) \div Increment
<1>2. Billable(t) = p * Increment
  <2>1. Billable(t) = IF over <= Grace THEN 0 ELSE ((over + Increment - 1) \div Increment) * Increment
    BY DEF Billable
  <2> QED BY <1>1, <2>1
<1>3. p \in Nat /\ 1 <= p
  <2>1. MaxOverstay + Increment - 1 \in Nat /\ Increment <= MaxOverstay + Increment - 1
    BY <1>1
  <2>2. Increment \div Increment = 1
    BY <1>1
  <2> QED BY <1>1, <2>1, <2>2, QuotientGrows
<1> HIDE DEF p
<1>4. 1 * Increment <= p * Increment
  BY <1>1, <1>3, ProductGrows
<1> QED
  BY <1>1, <1>2, <1>3, <1>4

LEMMA FreezeTyped == ASSUME NEW r \in Row, NEW t \in Time PROVE Freeze(r, t) \in Row
BY BillableIsNat DEF Freeze, Row

LEMMA HoldFromTyped == ASSUME NEW t \in Time PROVE HoldFrom(t) \in Time
BY TimeAssumption, HoldAssumption DEF HoldFrom, Lesser, Time

LEMMA OverlayTyped == ASSUME NEW cols, NEW img \in Row, NEW r \in Row
                      PROVE Overlay(cols, img, r) \in Row
BY DEF Overlay, Row

LEMMA NothingToOverlay == ASSUME NEW img, NEW r \in Row PROVE Overlay({}, img, r) = r
BY DEF Overlay, Row

LEMMA NoImageTyped == NoImage \in Row
BY DEF NoImage, Row, Statuses, Blocking, Pending

(***************************************************************************)
(* What every request's decision has in common, whichever handler it is:   *)
(* the row it means to write (`new`, from the row `b` it loaded) forgets   *)
(* no payment, touches no reminder, expires nothing, puts a booking to use *)
(* only from a state of use or with confirmed_at, and leaves the meter to  *)
(* the sweep, except that it may read it.                                  *)
(***************************************************************************)
InUse == {"CONFIRMED", "ACTIVE", "OVERSTAYING", "DISPUTED", "COMPLETED"}

Benign(b, new, fresh) ==
  /\ fresh \subseteq {"hold", "confirmed", "ostPaid"}
  /\ new.reminded = b.reminded
  /\ new.ost \in {b.ost, Billable(now)}
  /\ "confirmed" \in fresh \/ new.confirmed # b.confirmed => new.confirmed
  /\ "ostPaid" \in fresh \/ new.ostPaid # b.ostPaid => new.ostPaid
  /\ new.status # b.status =>
       /\ new.status \notin {"EXPIRED", "OVERSTAYING"}
       /\ new.status \in InUse => b.status \in InUse \/ "confirmed" \in fresh

LEMMA DecideIsBenign ==
  ASSUME TypeOK, NEW t \in Sessions, Decide(t)
  PROVE  /\ Loaded(t)
         /\ \E new \in Row, k \in Kinds, a \in Nat, fresh \in SUBSET Columns :
              Benign(ses[t].img, new, fresh) /\ Stage(t, k, new, fresh, a)
<1> DEFINE b == ses[t].img
           Goal == \E new \in Row, k \in Kinds, a \in Nat, fresh \in SUBSET Columns :
                     Benign(b, new, fresh) /\ Stage(t, k, new, fresh, a)
<1>1. b \in Row /\ now \in Time /\ orders \subseteq Nat
  BY DEF TypeOK, SessionState
<1>2. Freeze(b, now) \in Row /\ Freeze(b, now).ost \in Nat
  BY <1>1, FreezeTyped DEF Row
<1>3. /\ {} \in SUBSET Columns /\ {"hold"} \in SUBSET Columns
      /\ {"confirmed"} \in SUBSET Columns /\ {"ostPaid"} \in SUBSET Columns
      /\ 0 \in Nat /\ \A k \in {"update", "end", "topup", "settle"} : k \in Kinds
  BY DEF Columns, Kinds
<1>4. ASSUME NEW new \in Row, NEW k \in Kinds, NEW a \in Nat, NEW fresh \in SUBSET Columns,
             Benign(b, new, fresh), Stage(t, k, new, fresh, a)
      PROVE  Goal
  BY <1>4
<1> HIDE DEF Goal
<1>5. ASSUME MarkPaid(t) PROVE Goal
  <2> DEFINE new == [b EXCEPT !.status = "CONFIRMED", !.confirmed = TRUE, !.hold = NoTime]
  <2>1. new \in Row /\ Benign(b, new, {"confirmed"})
    BY <1>1 DEF Row, Benign, Statuses, Blocking
  <2>2. Stage(t, "update", new, {"confirmed"}, 0)
    BY <1>5 DEF MarkPaid
  <2> QED BY <1>3, <1>4, <2>1, <2>2
<1>6. ASSUME Approve(t) PROVE Goal
  <2> DEFINE new == [b EXCEPT !.status = "PENDING_PAYMENT", !.hold = HoldFrom(now)]
  <2>1. new \in Row /\ Benign(b, new, {"hold"})
    BY <1>1, HoldFromTyped DEF Row, Benign, Statuses, Blocking, Pending, InUse
  <2>2. Stage(t, "update", new, {"hold"}, 0)
    BY <1>6 DEF Approve
  <2> QED BY <1>3, <1>4, <2>1, <2>2
<1>7. ASSUME Reject(t) PROVE Goal
  <2> DEFINE new == [b EXCEPT !.status = "REJECTED", !.hold = NoTime]
  <2>1. new \in Row /\ Benign(b, new, {})
    BY <1>1 DEF Row, Benign, Statuses, Closed, InUse
  <2>2. Stage(t, "update", new, {}, 0)
    BY <1>7 DEF Reject
  <2> QED BY <1>3, <1>4, <2>1, <2>2
<1>8. ASSUME NEW byProvider \in BOOLEAN, Cancel(t, byProvider) PROVE Goal
  <2> DEFINE new == [b EXCEPT !.status = "CANCELLED", !.hold = NoTime]
  <2>1. new \in Row /\ Benign(b, new, {})
    BY <1>1 DEF Row, Benign, Statuses, Closed, InUse
  <2>2. Stage(t, "update", new, {}, 0)
    BY <1>8 DEF Cancel
  <2> QED BY <1>3, <1>4, <2>1, <2>2
<1>9. ASSUME Verify(t) PROVE Goal
  <2> DEFINE new == [b EXCEPT !.status = "ACTIVE"]
  <2>1. new \in Row /\ Benign(b, new, {})
    BY <1>1, <1>9 DEF Row, Benign, Statuses, Blocking, InUse, Verify
  <2>2. Stage(t, "update", new, {}, 0)
    BY <1>9 DEF Verify
  <2> QED BY <1>3, <1>4, <2>1, <2>2
<1>10. ASSUME EndParking(t) PROVE Goal
  <2> DEFINE new == [Freeze(b, now) EXCEPT !.status = "COMPLETED"]
  <2>1. new \in Row /\ Benign(b, new, {})
    BY <1>1, <1>2, <1>10 DEF Row, Benign, Statuses, Closed, InUse, EndParking, Freeze
  <2>2. Stage(t, "end", new, {}, 0)
    BY <1>10 DEF EndParking
  <2> QED BY <1>3, <1>4, <2>1, <2>2
<1>11. ASSUME ReportIssue(t) PROVE Goal
  <2> DEFINE new == [b EXCEPT !.status = "DISPUTED"]
  <2>1. new \in Row /\ Benign(b, new, {})
    BY <1>1, <1>11 DEF Row, Benign, Statuses, Blocking, InUse, ReportIssue, Disputable
  <2>2. Stage(t, "update", new, {}, 0)
    BY <1>11 DEF ReportIssue
  <2> QED BY <1>3, <1>4, <2>1, <2>2
<1>12. ASSUME Resolve(t) PROVE Goal
  <2> DEFINE new == [b EXCEPT !.status = IF EndAt <= now THEN "COMPLETED" ELSE "CONFIRMED"]
  <2>1. new \in Row /\ Benign(b, new, {})
    BY <1>1, <1>12 DEF Row, Benign, Statuses, Blocking, Closed, InUse, Resolve
  <2>2. Stage(t, "update", new, {}, 0)
    BY <1>12 DEF Resolve
  <2> QED BY <1>3, <1>4, <2>1, <2>2
<1>13. ASSUME OpenTopUp(t) PROVE Goal
  <2>1. Benign(b, Freeze(b, now), {})
    BY <1>1 DEF Row, Benign, Freeze
  <2>2. Stage(t, "topup", Freeze(b, now), {}, Freeze(b, now).ost)
    BY <1>13 DEF OpenTopUp
  <2> QED BY <1>2, <1>3, <1>4, <2>1, <2>2
<1>14. ASSUME NEW a \in orders, CaptureTopUp(t, a) PROVE Goal
  <2> DEFINE new == [b EXCEPT !.ostPaid = TRUE]
  <2>1. new \in Row /\ Benign(b, new, {"ostPaid"})
    BY <1>1 DEF Row, Benign
  <2>2. Stage(t, "settle", new, {"ostPaid"}, a) /\ a \in Nat
    BY <1>1, <1>14 DEF CaptureTopUp
  <2> QED BY <1>3, <1>4, <2>1, <2>2
<1>15. Goal
  BY <1>5, <1>6, <1>7, <1>8, <1>9, <1>10, <1>11, <1>12, <1>13, <1>14 DEF Decide
<1>16. Loaded(t)
  BY DEF Decide, MarkPaid, Approve, Reject, Cancel, Verify, EndParking, ReportIssue,
         Resolve, OpenTopUp, CaptureTopUp
<1> QED
  BY <1>15, <1>16 DEF Goal
-----------------------------------------------------------------------------
(* Type correctness.                                                       *)

Steps == {"idle", "expire", "activate", "overstay", "complete", "remind", "finish"}

LEMMA ViewTyped ==
  ASSUME TypeOK, NEW w \in Sweepers PROVE View(w) \in Row /\ Instance(w) \in Row
BY OverlayTyped DEF TypeOK, SweepState, View, Instance

LEMMA SweepTyped ==
  ASSUME TypeOK, NEW w \in Sweepers, NEW img \in Row, NEW next \in Steps,
         BulkUpdate(w, img, next) \/ Mutate(w, img, next) \/ Advance(w, next)
  PROVE  sweep' \in [Sweepers -> SweepState]
<1>1. sweep[w] \in SweepState /\ now \in Time
  BY DEF TypeOK
<1>2. Changed(View(w), img) \subseteq Columns /\ Changed(Instance(w), img) \subseteq Columns
  BY DEF Changed
<1>3. CASE BulkUpdate(w, img, next)
  <2> DEFINE new == [sweep[w] EXCEPT !.pc = next, !.at = now, !.img = img,
                                     !.cols = @ \cup Changed(View(w), img)]
  <2>1. new \in SweepState
    BY <1>1, <1>2 DEF SweepState, Steps
  <2>2. sweep' = [sweep EXCEPT ![w] = new]
    BY <1>3 DEF BulkUpdate
  <2> QED BY <2>1, <2>2 DEF TypeOK
<1>4. CASE Mutate(w, img, next)
  <2> DEFINE new == [sweep[w] EXCEPT !.pc = next, !.at = now, !.img = img, !.loaded = TRUE,
                                     !.dirty = TRUE, !.cols = @ \cup Changed(Instance(w), img)]
  <2>1. new \in SweepState
    BY <1>1, <1>2 DEF SweepState, Steps
  <2>2. sweep' = [sweep EXCEPT ![w] = new]
    BY <1>4 DEF Mutate
  <2> QED BY <2>1, <2>2 DEF TypeOK
<1>5. CASE Advance(w, next)
  BY <1>1, <1>5 DEF Advance, TypeOK, SweepState, Steps
<1> QED
  BY <1>3, <1>4, <1>5

LEMMA TypeInit == Init => TypeOK
<1> SUFFICES ASSUME Init PROVE TypeOK
  OBVIOUS
<1>1. 0 \in Time /\ HoldFrom(0) \in Time
  BY TimeAssumption, HoldFromTyped DEF Time
<1>2. row \in Row
  BY <1>1, NoImageTyped DEF Init, Row, Statuses, Blocking
<1>3. IdleSession \in SessionState /\ IdleSweep \in SweepState
  BY <1>1, NoImageTyped DEF IdleSession, IdleSweep, SessionState, SweepState, Kinds
<1> QED
  BY <1>1, <1>2, <1>3 DEF Init, TypeOK

LEMMA TypeStep == TypeOK /\ [Next]_vars => TypeOK'
<1> SUFFICES ASSUME TypeOK, [Next]_vars PROVE TypeOK'
  OBVIOUS
<1>0. /\ IdleSession \in SessionState /\ IdleSweep \in SweepState
  BY TimeAssumption, NoImageTyped DEF IdleSession, IdleSweep, SessionState, SweepState, Kinds, Time
<1>1. ASSUME Tick PROVE TypeOK'
  BY <1>1, TimeAssumption DEF Tick, TypeOK, Time
<1>2. ASSUME NEW t \in Sessions, Load(t) PROVE TypeOK'
  <2>1. [IdleSession EXCEPT !.pc = "loaded", !.img = row] \in SessionState
    BY <1>0 DEF SessionState, TypeOK
  <2> QED BY <1>2, <2>1 DEF Load, TypeOK
<1>3. ASSUME NEW t \in Sessions, Decide(t) PROVE TypeOK'
  <2>1. PICK new \in Row, k \in Kinds, a \in Nat, fresh \in SUBSET Columns :
          Stage(t, k, new, fresh, a)
    BY <1>3, DecideIsBenign
  <2> DEFINE cols == Changed(ses[t].img, new) \cup fresh
  <2>2. cols \subseteq Columns /\ Overlay(cols, new, NoImage) \in Row
    BY OverlayTyped, NoImageTyped DEF Changed
  <2>3. [pc |-> "staged", kind |-> k, amount |-> a, cols |-> cols,
         img |-> Overlay(cols, new, NoImage)] \in SessionState
    BY <2>2 DEF SessionState
  <2> QED BY <2>1, <2>3 DEF Stage, TypeOK
<1>4. ASSUME NEW t \in Sessions, Write(t) PROVE TypeOK'
  <2>1. ses[t] \in SessionState
    BY DEF TypeOK
  <2>2. row' \in Row
    BY <1>4, <2>1, OverlayTyped DEF Write, TypeOK, SessionState
  <2>3. orders' \subseteq Nat /\ settled' \subseteq Nat
    BY <1>4, <2>1 DEF Write, TypeOK, SessionState
  <2> QED BY <1>0, <1>4, <2>2, <2>3 DEF Write, TypeOK
<1>5. ASSUME NEW t \in Sessions, Abandon(t) PROVE TypeOK'
  BY <1>0, <1>5 DEF Abandon, TypeOK
<1>6. ASSUME NEW w \in Sweepers, StartPass(w) PROVE TypeOK'
  <2>1. [IdleSweep EXCEPT !.pc = "expire", !.at = now] \in SweepState
    BY <1>0 DEF SweepState, TypeOK
  <2> QED BY <1>6, <2>1 DEF StartPass, TypeOK
<1>7. ASSUME NEW w \in Sweepers, ExpireHolds(w) PROVE TypeOK'
  <2>1. [View(w) EXCEPT !.status = "EXPIRED", !.hold = NoTime] \in Row
    BY ViewTyped DEF Row, Statuses, Closed
  <2>2. sweep' \in [Sweepers -> SweepState] /\ writer' \in Sweepers \cup {Nobody}
    BY <1>7, <2>1, ViewTyped, SweepTyped DEF ExpireHolds, BulkUpdate, Steps, TypeOK
  <2> QED BY <1>7, <2>2 DEF ExpireHolds, Statement, TypeOK
<1>8. ASSUME NEW w \in Sweepers, ActivateStarted(w) PROVE TypeOK'
  <2>1. [View(w) EXCEPT !.status = "ACTIVE"] \in Row
    BY ViewTyped DEF Row, Statuses, Blocking
  <2>2. sweep' \in [Sweepers -> SweepState] /\ writer' \in Sweepers \cup {Nobody}
    BY <1>8, <2>1, ViewTyped, SweepTyped DEF ActivateStarted, BulkUpdate, Steps, TypeOK
  <2> QED BY <1>8, <2>2 DEF ActivateStarted, Statement, TypeOK
<1>9. ASSUME NEW w \in Sweepers, StartOverstays(w) PROVE TypeOK'
  <2> DEFINE new == Freeze([Instance(w) EXCEPT !.status = "OVERSTAYING"], sweep[w].at)
  <2>1. [Instance(w) EXCEPT !.status = "OVERSTAYING"] \in Row /\ sweep[w].at \in Time
    BY ViewTyped DEF Row, Statuses, Blocking, TypeOK, SweepState
  <2>2. new \in Row
    BY <2>1, FreezeTyped
  <2>3. sweep' \in [Sweepers -> SweepState]
    BY <1>9, <2>2, ViewTyped, SweepTyped DEF StartOverstays, Steps
  <2> QED BY <1>9, <2>3 DEF StartOverstays, Statement, TypeOK
<1>10. ASSUME NEW w \in Sweepers, CompleteFinished(w) PROVE TypeOK'
  <2> DEFINE b == Instance(w)
             metered == IF b.status = "OVERSTAYING" THEN Freeze(b, sweep[w].at) ELSE b
             new == [metered EXCEPT !.status = "COMPLETED"]
  <2>1. b \in Row /\ sweep[w].at \in Time
    BY ViewTyped DEF TypeOK, SweepState
  <2>2. metered \in Row
    BY <2>1, FreezeTyped
  <2>3. new \in Row
    BY <2>2 DEF Row, Statuses, Closed
  <2>4. sweep' \in [Sweepers -> SweepState]
    BY <1>10, <2>1, <2>3, SweepTyped DEF CompleteFinished, Steps
  <2> QED BY <1>10, <2>4 DEF CompleteFinished, Statement, Flushed, TypeOK
<1>11. ASSUME NEW w \in Sweepers, DueReminders(w) PROVE TypeOK'
  <2>1. [Instance(w) EXCEPT !.reminded = TRUE] \in Row
    BY ViewTyped DEF Row
  <2>2. sweep' \in [Sweepers -> SweepState]
    BY <1>11, <2>1, ViewTyped, SweepTyped DEF DueReminders, Steps
  <2> QED BY <1>11, <2>2 DEF DueReminders, Statement, Flushed, TypeOK
<1>12. ASSUME NEW w \in Sweepers, FinishPass(w) PROVE TypeOK'
  BY <1>0, <1>12, ViewTyped DEF FinishPass, TypeOK
<1>13. ASSUME NEW w \in Sweepers, AbortPass(w) PROVE TypeOK'
  BY <1>0, <1>13 DEF AbortPass, TypeOK
<1>14. CASE UNCHANGED vars
  BY <1>14 DEF vars, TypeOK
<1> QED
  BY <1>1, <1>2, <1>3, <1>4, <1>5, <1>6, <1>7, <1>8, <1>9, <1>10, <1>11, <1>12, <1>13, <1>14
     DEF Next, SweepStep

(* Every reachable state has the shape TypeOK says, with a meter that      *)
(* never shows a negative debt and a hold that is a time or nothing.       *)
THEOREM TypeCorrect == Spec => []TypeOK
BY TypeInit, TypeStep, PTL DEF Spec
-----------------------------------------------------------------------------
(***************************************************************************)
(* The invariant.  PaidBeforeUse is not inductive: it says nothing of the  *)
(* stale copies that requests and sweeps hold, and one of those is what    *)
(* the next commit writes.  What makes the copies harmless is that they    *)
(* agree with the row about the one thing that never changes back: a copy  *)
(* in use was loaded when confirmed_at was set, and it still is.           *)
(***************************************************************************)
SessionHarmless(t) ==
  LET s == ses[t]
  IN  /\ s.pc = "loaded" /\ s.img.status \in InUse => row.confirmed
      /\ s.pc = "staged" =>
           /\ "reminded" \notin s.cols
           /\ "confirmed" \in s.cols => s.img.confirmed
           /\ "ostPaid" \in s.cols => s.img.ostPaid
           /\ "status" \in s.cols =>
                /\ s.img.status # "EXPIRED"
                /\ s.img.status \in InUse => row.confirmed \/ "confirmed" \in s.cols

(* A sweep in flight has expired nothing but the version of the row it has *)
(* locked, and reminds only whom nobody has reminded.                      *)
SweepHarmless(w) ==
  LET s == sweep[w]
  IN  /\ s.at <= now
      /\ s.pc \in {"idle", "expire"} => s.cols = {}
      /\ "confirmed" \notin s.cols /\ "ostPaid" \notin s.cols
      /\ "status" \in s.cols /\ s.img.status \in InUse => row.confirmed
      /\ "status" \in s.cols /\ s.img.status = "EXPIRED" => writer = w /\ HoldLapsed(row, now)
      /\ "reminded" \in s.cols => s.pc = "finish" /\ ~row.reminded /\ s.img.reminded

(* The advisory lock is held by whoever is mid-pass. *)
OnePass == \A w \in Sweepers : sweep[w].pc # "idle" => pass = w

RemindersCounted == reminders = IF row.reminded THEN 1 ELSE 0

IInv ==
  /\ TypeOK
  /\ PaidBeforeUse
  /\ \A t \in Sessions : SessionHarmless(t)
  /\ \A w \in Sweepers : SweepHarmless(w)
  /\ OnePass
  /\ RemindersCounted
-----------------------------------------------------------------------------
(* A step of the requests.                                                 *)

(* The four conjuncts a commit puts at risk, from what it does to the row. *)
LEMMA CommitKeeps ==
  ASSUME IInv,
         row.confirmed => row'.confirmed,
         PaidBeforeUse',
         now' = now
  PROVE  /\ \A t \in Sessions :
              ses'[t] = ses[t] \/ ses'[t] = IdleSession => SessionHarmless(t)'
         /\ \A w \in Sweepers :
              sweep'[w] = sweep[w] /\ writer' = writer /\ row'.reminded = row.reminded
                /\ (writer = w => row' = row)
                => SweepHarmless(w)'
<1>1. ASSUME NEW t \in Sessions, ses'[t] = ses[t] \/ ses'[t] = IdleSession
      PROVE  SessionHarmless(t)'
  BY <1>1 DEF IInv, SessionHarmless, IdleSession
<1>2. ASSUME NEW w \in Sweepers, sweep'[w] = sweep[w], writer' = writer,
             row'.reminded = row.reminded, writer = w => row' = row
      PROVE  SweepHarmless(w)'
  BY <1>2 DEF IInv, SweepHarmless, HoldLapsed
<1> QED
  BY <1>1, <1>2

LEMMA LoadKeeps ==
  ASSUME IInv, NEW t \in Sessions, Load(t), TypeOK' PROVE IInv'
<1>1. SessionHarmless(t)'
  <2>1. ses'[t].pc = "loaded" /\ ses'[t].img = row /\ row' = row
    BY DEF Load, IInv, TypeOK, IdleSession
  <2> QED BY <2>1 DEF SessionHarmless, IInv, PaidBeforeUse, InUse
<1>2. \A u \in Sessions \ {t} : SessionHarmless(u)'
  BY DEF Load, IInv, TypeOK, SessionHarmless
<1> QED
  BY <1>1, <1>2 DEF Load, IInv, PaidBeforeUse, SweepHarmless, OnePass, RemindersCounted

LEMMA DecideKeeps ==
  ASSUME IInv, NEW t \in Sessions, Decide(t), TypeOK' PROVE IInv'
<1> DEFINE b == ses[t].img
<1>1. PICK new \in Row, k \in Kinds, a \in Nat, fresh \in SUBSET Columns :
        Benign(b, new, fresh) /\ Stage(t, k, new, fresh, a)
  BY DecideIsBenign DEF IInv
<1>2. ses[t].pc = "loaded" /\ (b.status \in InUse => row.confirmed)
  BY DecideIsBenign DEF IInv, Loaded, SessionHarmless
<1> DEFINE cols == Changed(b, new) \cup fresh
           staged == [pc |-> "staged", kind |-> k, amount |-> a, cols |-> cols,
                      img |-> Overlay(cols, new, NoImage)]
<1>3. ses' = [ses EXCEPT ![t] = staged] /\ UNCHANGED <<now, row, sweep, pass, writer, reminders>>
  BY <1>1 DEF Stage
<1>4. SessionHarmless(t)'
  <2>1. "reminded" \notin cols
    BY <1>1 DEF Benign, Changed
  <2>2. "confirmed" \in cols => new.confirmed
    BY <1>1 DEF Benign, Changed
  <2>3. "ostPaid" \in cols => new.ostPaid
    BY <1>1 DEF Benign, Changed
  <2>4. "status" \in cols => /\ new.status # "EXPIRED"
                             /\ new.status \in InUse => row.confirmed \/ "confirmed" \in cols
    BY <1>1, <1>2 DEF Benign, Changed
  <2>5. ses'[t] = staged
    BY <1>3 DEF IInv, TypeOK
  <2> QED BY <1>3, <2>1, <2>2, <2>3, <2>4, <2>5 DEF SessionHarmless, Overlay
<1>5. \A u \in Sessions \ {t} : SessionHarmless(u)'
  BY <1>3 DEF IInv, TypeOK, SessionHarmless
<1> QED
  BY <1>3, <1>4, <1>5 DEF IInv, PaidBeforeUse, SweepHarmless, OnePass, RemindersCounted

(* What the commit of a request does to the row. *)
LEMMA WriteIsHarmless ==
  ASSUME IInv, NEW t \in Sessions, Write(t)
  PROVE  /\ row.confirmed => row'.confirmed
         /\ row.ostPaid => row'.ostPaid
         /\ row'.reminded = row.reminded
         /\ row'.status = "EXPIRED" => row.status = "EXPIRED"
         /\ writer # Nobody => row' = row
         /\ PaidBeforeUse'
<1> DEFINE s == ses[t]
<1>1. row' = Overlay(s.cols, s.img, row) /\ s.pc = "staged" /\ (writer = Nobody \/ s.cols = {})
  BY DEF Write
<1>2. row \in Row
  BY DEF IInv, TypeOK
<1>3. writer # Nobody => row' = row
  BY <1>1, <1>2, NothingToOverlay
<1>4. SessionHarmless(t)
  BY DEF IInv
<1>5. row.confirmed => row'.confirmed
  BY <1>1, <1>4 DEF Overlay, SessionHarmless
<1>6. row.ostPaid => row'.ostPaid
  BY <1>1, <1>4 DEF Overlay, SessionHarmless
<1>7. row'.reminded = row.reminded
  BY <1>1, <1>4 DEF Overlay, SessionHarmless
<1>8. row'.status = "EXPIRED" => row.status = "EXPIRED"
  BY <1>1, <1>4 DEF Overlay, SessionHarmless
<1>9. PaidBeforeUse'
  <2>1. CASE "status" \in s.cols
    BY <1>1, <1>4, <1>5, <2>1 DEF Overlay, SessionHarmless, PaidBeforeUse, InUse
  <2>2. CASE "status" \notin s.cols
    BY <1>1, <1>5, <2>2 DEF Overlay, PaidBeforeUse, IInv
  <2> QED BY <2>1, <2>2
<1> QED
  BY <1>3, <1>5, <1>6, <1>7, <1>8, <1>9

LEMMA WriteKeeps ==
  ASSUME IInv, NEW t \in Sessions, Write(t), TypeOK' PROVE IInv'
<1>1. UNCHANGED <<now, sweep, pass, writer, reminders>> /\ ses' = [ses EXCEPT ![t] = IdleSession]
  BY DEF Write
<1>2. \A u \in Sessions : ses'[u] = ses[u] \/ ses'[u] = IdleSession
  BY <1>1 DEF IInv, TypeOK
<1>3. \A w \in Sweepers : w # Nobody
  BY ActorAssumption
<1>4. \A u \in Sessions : SessionHarmless(u)'
  BY <1>1, <1>2, WriteIsHarmless, CommitKeeps
<1>5. \A w \in Sweepers : SweepHarmless(w)'
  BY <1>1, <1>3, WriteIsHarmless, CommitKeeps
<1>6. OnePass' /\ RemindersCounted'
  BY <1>1, WriteIsHarmless DEF IInv, OnePass, RemindersCounted
<1> QED
  BY <1>4, <1>5, <1>6, WriteIsHarmless DEF IInv

LEMMA AbandonKeeps ==
  ASSUME IInv, NEW t \in Sessions, Abandon(t), TypeOK' PROVE IInv'
<1>1. \A u \in Sessions : SessionHarmless(u)'
  BY DEF Abandon, IInv, TypeOK, SessionHarmless, IdleSession
<1> QED
  BY <1>1 DEF Abandon, IInv, PaidBeforeUse, SweepHarmless, OnePass, RemindersCounted
-----------------------------------------------------------------------------
(* A step of a sweep.                                                      *)

(* While one process is mid-pass every other is idle, with nothing to      *)
(* write: a statement is harmless if what its own process then holds is.   *)
LEMMA StatementKeeps ==
  ASSUME IInv, TypeOK', NEW w \in Sweepers,
         UNCHANGED <<now, row, ses, pass, reminders>>,
         sweep[w].pc # "idle",
         \A v \in Sweepers \ {w} : sweep'[v] = sweep[v],
         SweepHarmless(w)'
  PROVE  IInv'
<1>1. \A v \in Sweepers \ {w} : SweepHarmless(v)'
  <2> SUFFICES ASSUME NEW v \in Sweepers \ {w} PROVE SweepHarmless(v)'
    OBVIOUS
  <2>1. sweep[v].pc = "idle"
    BY DEF IInv, OnePass
  <2>2. sweep'[v].cols = {} /\ sweep'[v].at <= now /\ now' = now /\ sweep'[v].pc = "idle"
    BY <2>1 DEF IInv, SweepHarmless
  <2> QED BY <2>2 DEF SweepHarmless
<1>2. OnePass'
  BY DEF IInv, OnePass
<1> QED
  BY <1>1, <1>2 DEF IInv, PaidBeforeUse, SessionHarmless, RemindersCounted

(* What a sweep's process holds after each kind of statement. *)
LEMMA AdvanceHolds ==
  ASSUME IInv, NEW w \in Sweepers, NEW next, Advance(w, next)
  PROVE  /\ \A v \in Sweepers \ {w} : sweep'[v] = sweep[v]
         /\ sweep'[w].pc = next /\ sweep'[w].at = now
         /\ sweep'[w].img = sweep[w].img /\ sweep'[w].cols = sweep[w].cols
         /\ sweep'[w].loaded = sweep[w].loaded
BY DEF IInv, TypeOK, SweepState, Advance

LEMMA BulkUpdateHolds ==
  ASSUME IInv, NEW w \in Sweepers, NEW img, NEW next, BulkUpdate(w, img, next)
  PROVE  /\ \A v \in Sweepers \ {w} : sweep'[v] = sweep[v]
         /\ sweep'[w].pc = next /\ sweep'[w].at = now /\ writer' = w
         /\ sweep'[w].img = img
         /\ sweep'[w].cols = sweep[w].cols \cup Changed(View(w), img)
         /\ sweep'[w].loaded = sweep[w].loaded
BY DEF IInv, TypeOK, SweepState, BulkUpdate

LEMMA MutateHolds ==
  ASSUME IInv, NEW w \in Sweepers, NEW img, NEW next, Mutate(w, img, next)
  PROVE  /\ \A v \in Sweepers \ {w} : sweep'[v] = sweep[v]
         /\ sweep'[w].pc = next /\ sweep'[w].at = now
         /\ sweep'[w].img = img
         /\ sweep'[w].cols = sweep[w].cols \cup Changed(Instance(w), img)
BY DEF IInv, TypeOK, SweepState, Mutate

(* A status that a statement sees is the row's own, or the one its pass    *)
(* has already given it: either way confirmed_at vouches for it.           *)
LEMMA SeenIsConfirmed ==
  ASSUME IInv, NEW w \in Sweepers, View(w).status \in InUse PROVE row.confirmed
BY DEF IInv, SweepHarmless, PaidBeforeUse, View, Overlay, InUse

LEMMA StartPassKeeps ==
  ASSUME IInv, NEW w \in Sweepers, StartPass(w), TypeOK' PROVE IInv'
<1>1. UNCHANGED <<now, row, ses, writer, reminders>> /\ pass = Nobody /\ pass' = w
  BY DEF StartPass
<1>2. sweep' = [sweep EXCEPT ![w] = [IdleSweep EXCEPT !.pc = "expire", !.at = now]]
  BY DEF StartPass
<1>3. SweepHarmless(w)'
  <2>1. sweep'[w] = [IdleSweep EXCEPT !.pc = "expire", !.at = now] /\ now \in Int
    BY <1>2, TimeAssumption DEF IInv, TypeOK, Time
  <2>2. sweep'[w].cols = {} /\ sweep'[w].at = now /\ sweep'[w].pc = "expire"
    BY <2>1 DEF IdleSweep
  <2> QED BY <1>1, <2>1, <2>2 DEF SweepHarmless
<1>4. \A v \in Sweepers \ {w} : SweepHarmless(v)'
  BY <1>1, <1>2 DEF IInv, TypeOK, SweepHarmless, HoldLapsed
<1>5. \A v \in Sweepers \ {w} : sweep'[v].pc = "idle"
  BY <1>1, <1>2, ActorAssumption DEF IInv, TypeOK, OnePass
<1>6. OnePass'
  BY <1>1, <1>5 DEF OnePass
<1> QED
  BY <1>1, <1>3, <1>4, <1>6 DEF IInv, PaidBeforeUse, SessionHarmless, RemindersCounted

LEMMA ExpireHoldsKeeps ==
  ASSUME IInv, NEW w \in Sweepers, ExpireHolds(w), TypeOK' PROVE IInv'
<1> DEFINE new == [View(w) EXCEPT !.status = "EXPIRED", !.hold = NoTime]
<1>1. sweep[w].pc = "expire" /\ UNCHANGED <<now, row, ses, pass, reminders>>
  BY DEF ExpireHolds, Statement
<1>2. sweep[w].cols = {} /\ sweep[w].at <= now /\ View(w) = row /\ row \in Row
  BY <1>1, NothingToOverlay DEF IInv, SweepHarmless, View, TypeOK
<1>3. now \in Int /\ sweep[w].at \in Int /\ row.hold \in Int
  BY <1>2, TimeAssumption DEF IInv, TypeOK, SweepState, Time, NoTime, Row
<1>4. CASE HoldLapsed(View(w), sweep[w].at) /\ BulkUpdate(w, new, "activate")
  <2>0. /\ sweep'[w].pc = "activate" /\ sweep'[w].at = now /\ writer' = w
        /\ sweep'[w].img = new /\ sweep'[w].cols = sweep[w].cols \cup Changed(View(w), new)
        /\ \A v \in Sweepers \ {w} : sweep'[v] = sweep[v]
    <3> HIDE DEF new
    <3> QED BY <1>4, BulkUpdateHolds
  <2>1. sweep'[w].cols = Changed(row, new)
    <3> HIDE DEF new
    <3> QED BY <1>2, <2>0
  <2>2. new.status = "EXPIRED" /\ Changed(row, new) \subseteq {"status", "hold"}
    BY <1>2 DEF Changed, Row, Columns
  <2>3. HoldLapsed(row, now)
    BY <1>2, <1>3, <1>4 DEF HoldLapsed
  <2>4. SweepHarmless(w)'
    BY <1>1, <1>3, <2>0, <2>1, <2>2, <2>3 DEF SweepHarmless, InUse, HoldLapsed
  <2> QED BY <1>1, <2>0, <2>4, StatementKeeps
<1>5. CASE Advance(w, "activate") /\ UNCHANGED writer
  <2>1. SweepHarmless(w)'
    BY <1>1, <1>2, <1>3, <1>5, AdvanceHolds DEF SweepHarmless
  <2> QED BY <1>1, <1>5, <2>1, AdvanceHolds, StatementKeeps
<1> QED
  BY <1>4, <1>5 DEF ExpireHolds

(* The last alternative of every other statement: the row is not due. *)
LEMMA NotDueKeeps ==
  ASSUME IInv, TypeOK', NEW w \in Sweepers, NEW next \in Steps \ {"idle", "expire"},
         NEW step, Statement(w, step), step \notin {"idle", "finish"},
         writer' \in {writer, w}, Advance(w, next)
  PROVE  IInv'
<1>1. sweep[w].pc = step /\ UNCHANGED <<now, row, ses, pass, reminders>> /\ now \in Int
  BY TimeAssumption DEF Statement, IInv, TypeOK, Time
<1>2. SweepHarmless(w)'
  BY <1>1, AdvanceHolds DEF IInv, SweepHarmless, HoldLapsed
<1> QED
  BY <1>1, <1>2, AdvanceHolds, StatementKeeps
(* A statement that gives the row a status of use. *)
LEMMA MovedOnKeeps ==
  ASSUME IInv, TypeOK', NEW w \in Sweepers, NEW step, Statement(w, step),
         step \notin {"idle", "expire", "finish"},
         \A v \in Sweepers \ {w} : sweep'[v] = sweep[v],
         sweep'[w].pc \notin {"idle", "expire"}, sweep'[w].at = now,
         sweep'[w].cols \subseteq sweep[w].cols \cup {"status", "ost"},
         sweep'[w].img.status \in InUse,
         row.confirmed
  PROVE  IInv'
<1>1. sweep[w].pc = step /\ UNCHANGED <<now, row, ses, pass, reminders>> /\ now \in Int
  BY TimeAssumption DEF Statement, IInv, TypeOK, Time
<1>2. SweepHarmless(w)'
  BY <1>1 DEF IInv, SweepHarmless, InUse
<1> QED
  BY <1>1, <1>2, StatementKeeps

LEMMA ActivateStartedKeeps ==
  ASSUME IInv, NEW w \in Sweepers, ActivateStarted(w), TypeOK' PROVE IInv'
<1> DEFINE new == [View(w) EXCEPT !.status = "ACTIVE"]
<1>1. Statement(w, "activate") /\ View(w) \in Row
  BY ViewTyped DEF ActivateStarted, IInv
<1>2. CASE View(w).status = "CONFIRMED" /\ BulkUpdate(w, new, "overstay")
  <2>1. row.confirmed
    BY <1>2, SeenIsConfirmed DEF InUse
  <2>2. new.status = "ACTIVE" /\ Changed(View(w), new) \subseteq {"status"}
    BY <1>1 DEF Changed, Row, Columns
  <2>3. /\ sweep'[w].pc = "overstay" /\ sweep'[w].at = now
        /\ sweep'[w].img = new /\ sweep'[w].cols = sweep[w].cols \cup Changed(View(w), new)
        /\ \A v \in Sweepers \ {w} : sweep'[v] = sweep[v]
    BY <1>2, BulkUpdateHolds
  <2>4. sweep'[w].img.status \in InUse
    BY <2>2, <2>3 DEF InUse
  <2> QED BY <1>1, <2>1, <2>2, <2>3, <2>4, MovedOnKeeps
<1>3. CASE Advance(w, "overstay") /\ UNCHANGED writer
  BY <1>1, <1>3, NotDueKeeps DEF Steps
<1> QED
  BY <1>2, <1>3 DEF ActivateStarted

LEMMA StartOverstaysKeeps ==
  ASSUME IInv, NEW w \in Sweepers, StartOverstays(w), TypeOK' PROVE IInv'
<1> DEFINE new == Freeze([Instance(w) EXCEPT !.status = "OVERSTAYING"], sweep[w].at)
<1>1. Statement(w, "overstay") /\ Instance(w) \in Row /\ UNCHANGED writer
  BY ViewTyped DEF StartOverstays, IInv
<1>2. CASE RanOver(View(w), sweep[w].at) /\ Mutate(w, new, "complete")
  <2>1. row.confirmed
    BY <1>2, SeenIsConfirmed DEF InUse, RanOver
  <2>2. new.status = "OVERSTAYING" /\ Changed(Instance(w), new) \subseteq {"status", "ost"}
    BY <1>1 DEF Changed, Row, Columns, Freeze
  <2>3. /\ sweep'[w].pc = "complete" /\ sweep'[w].at = now
        /\ sweep'[w].img = new /\ sweep'[w].cols = sweep[w].cols \cup Changed(Instance(w), new)
        /\ \A v \in Sweepers \ {w} : sweep'[v] = sweep[v]
    BY <1>2, MutateHolds
  <2>4. sweep'[w].img.status \in InUse
    BY <2>2, <2>3 DEF InUse
  <2> QED BY <1>1, <2>1, <2>2, <2>3, <2>4, MovedOnKeeps
<1>3. CASE Advance(w, "complete")
  BY <1>1, <1>3, NotDueKeeps DEF Steps
<1> QED
  BY <1>2, <1>3 DEF StartOverstays

LEMMA CompleteFinishedKeeps ==
  ASSUME IInv, NEW w \in Sweepers, CompleteFinished(w), TypeOK' PROVE IInv'
<1> DEFINE b == Instance(w)
           metered == IF b.status = "OVERSTAYING" THEN Freeze(b, sweep[w].at) ELSE b
           new == [metered EXCEPT !.status = "COMPLETED"]
<1>1. Statement(w, "complete") /\ b \in Row /\ writer' \in {writer, w}
  BY ViewTyped DEF CompleteFinished, Flushed, IInv
<1>2. CASE Finished(View(w), sweep[w].at) /\ Mutate(w, new, "remind")
  <2>1. row.confirmed
    BY <1>2, SeenIsConfirmed DEF InUse, Finished
  <2>2. new.status = "COMPLETED" /\ Changed(b, new) \subseteq {"status", "ost"}
    BY <1>1 DEF Changed, Row, Columns, Freeze
  <2>3. /\ sweep'[w].pc = "remind" /\ sweep'[w].at = now
        /\ sweep'[w].img = new /\ sweep'[w].cols = sweep[w].cols \cup Changed(b, new)
        /\ \A v \in Sweepers \ {w} : sweep'[v] = sweep[v]
    BY <1>2, MutateHolds
  <2>4. sweep'[w].img.status \in InUse
    BY <2>2, <2>3 DEF InUse
  <2> QED BY <1>1, <2>1, <2>2, <2>3, <2>4, MovedOnKeeps
<1>3. CASE Advance(w, "remind")
  BY <1>1, <1>3, NotDueKeeps DEF Steps
<1> QED
  BY <1>2, <1>3 DEF CompleteFinished

LEMMA DueRemindersKeeps ==
  ASSUME IInv, NEW w \in Sweepers, DueReminders(w), TypeOK' PROVE IInv'
<1> DEFINE b == Instance(w)
           new == [b EXCEPT !.reminded = TRUE]
<1>1. Statement(w, "remind") /\ b \in Row /\ writer' \in {writer, w}
  BY ViewTyped DEF DueReminders, Flushed, IInv
<1>2. CASE ReminderDue(View(w), sweep[w].at) /\ Mutate(w, new, "finish")
  <2>1. sweep[w].pc = "remind" /\ UNCHANGED <<now, row, ses, pass, reminders>> /\ now \in Int
    BY <1>1, TimeAssumption DEF Statement, IInv, TypeOK, Time
  <2>2. new.reminded /\ new.status = b.status /\ Changed(b, new) \subseteq {"reminded"}
    BY <1>1 DEF Changed, Row, Columns
  <2>3. /\ sweep'[w].pc = "finish" /\ sweep'[w].at = now
        /\ sweep'[w].img = new /\ sweep'[w].cols = sweep[w].cols \cup Changed(b, new)
        /\ \A v \in Sweepers \ {w} : sweep'[v] = sweep[v]
    BY <1>2, MutateHolds
  <2>4. ~row.reminded
    BY <1>2, <2>1 DEF IInv, SweepHarmless, ReminderDue, View, Overlay
  <2>5. "status" \in sweep[w].cols => b.status = sweep[w].img.status
    BY DEF Instance, View, Overlay
  <2>6. SweepHarmless(w)'
    <3>1. SweepHarmless(w)
      BY DEF IInv
    <3>2. "status" \in sweep'[w].cols => "status" \in sweep[w].cols
      BY <2>2, <2>3
    <3>3. sweep'[w].img.status = b.status /\ sweep'[w].img.reminded
      BY <2>2, <2>3
    <3>4. "confirmed" \notin sweep'[w].cols /\ "ostPaid" \notin sweep'[w].cols
      BY <2>2, <2>3, <3>1 DEF SweepHarmless
    <3> QED
      BY <1>1, <2>1, <2>3, <2>4, <2>5, <3>1, <3>2, <3>3, <3>4 DEF SweepHarmless, HoldLapsed
  <2> QED BY <2>1, <2>3, <2>6, StatementKeeps
<1>3. CASE Advance(w, "finish")
  BY <1>1, <1>3, NotDueKeeps DEF Steps
<1> QED
  BY <1>2, <1>3 DEF DueReminders

(* What the commit of a pass does to the row. *)
LEMMA FinishIsHarmless ==
  ASSUME IInv, NEW w \in Sweepers, FinishPass(w)
  PROVE  /\ row'.confirmed = row.confirmed
         /\ row'.ostPaid = row.ostPaid
         /\ row'.status = "EXPIRED" => row.status = "EXPIRED" \/ HoldLapsed(row, now)
         /\ PaidBeforeUse'
         /\ RemindersCounted'
<1>1. row' = View(w) /\ SweepHarmless(w)
  BY DEF FinishPass, IInv
<1>2. row'.confirmed = row.confirmed /\ row'.ostPaid = row.ostPaid
  BY <1>1 DEF View, Overlay, SweepHarmless
<1>3. row'.status = "EXPIRED" => row.status = "EXPIRED" \/ HoldLapsed(row, now)
  BY <1>1 DEF View, Overlay, SweepHarmless
<1>4. PaidBeforeUse'
  BY <1>1, <1>2, SeenIsConfirmed DEF PaidBeforeUse, InUse
<1>5. RemindersCounted'
  BY <1>1 DEF FinishPass, IInv, RemindersCounted, View, Overlay, SweepHarmless
<1> QED
  BY <1>2, <1>3, <1>4, <1>5

LEMMA FinishPassKeeps ==
  ASSUME IInv, NEW w \in Sweepers, FinishPass(w), TypeOK' PROVE IInv'
<1>1. /\ UNCHANGED <<now, ses>> /\ sweep' = [sweep EXCEPT ![w] = IdleSweep]
      /\ sweep[w].pc = "finish"
  BY DEF FinishPass
<1>2. \A v \in Sweepers : sweep'[v].pc = "idle"
  BY <1>1 DEF IInv, TypeOK, OnePass, IdleSweep
<1>3. \A v \in Sweepers : sweep'[v].cols = {} /\ sweep'[v].at <= now
  BY <1>1, <1>2, TimeAssumption DEF IInv, TypeOK, SweepHarmless, IdleSweep, Time
<1>4. \A v \in Sweepers : SweepHarmless(v)'
  BY <1>1, <1>2, <1>3 DEF SweepHarmless
<1>5. \A t \in Sessions : SessionHarmless(t)'
  BY <1>1, FinishIsHarmless, CommitKeeps
<1>6. OnePass'
  BY <1>2 DEF OnePass
<1> QED
  BY <1>4, <1>5, <1>6, FinishIsHarmless DEF IInv

LEMMA AbortPassKeeps ==
  ASSUME IInv, NEW w \in Sweepers, AbortPass(w), TypeOK' PROVE IInv'
<1>1. /\ UNCHANGED <<now, row, ses, reminders>> /\ sweep' = [sweep EXCEPT ![w] = IdleSweep]
      /\ sweep[w].pc # "idle"
  BY DEF AbortPass
<1>2. \A v \in Sweepers : sweep'[v].pc = "idle"
  BY <1>1 DEF IInv, TypeOK, OnePass, IdleSweep
<1>3. \A v \in Sweepers : sweep'[v].cols = {} /\ sweep'[v].at <= now
  BY <1>1, <1>2, TimeAssumption DEF IInv, TypeOK, SweepHarmless, IdleSweep, Time
<1>4. \A v \in Sweepers : SweepHarmless(v)'
  BY <1>1, <1>2, <1>3 DEF SweepHarmless
<1>5. OnePass'
  BY <1>2 DEF OnePass
<1> QED
  BY <1>1, <1>4, <1>5 DEF IInv, PaidBeforeUse, SessionHarmless, RemindersCounted
-----------------------------------------------------------------------------
LEMMA InvInit == Init => IInv
<1> SUFFICES ASSUME Init PROVE IInv
  OBVIOUS
<1>1. TypeOK
  BY TypeInit
<1>2. row.status \in Pending /\ row.reminded = FALSE
  BY DEF Init, NoImage, Pending
<1>3. PaidBeforeUse /\ RemindersCounted
  BY <1>2 DEF Init, PaidBeforeUse, RemindersCounted, Pending
<1>4. \A t \in Sessions : SessionHarmless(t)
  BY DEF Init, SessionHarmless, IdleSession
<1>5. \A w \in Sweepers : SweepHarmless(w)
  BY DEF Init, SweepHarmless, IdleSweep
<1>6. OnePass
  BY DEF Init, OnePass, IdleSweep
<1> QED
  BY <1>1, <1>3, <1>4, <1>5, <1>6 DEF IInv

LEMMA InvStep == IInv /\ [Next]_vars => IInv'
<1> SUFFICES ASSUME IInv, [Next]_vars PROVE IInv'
  OBVIOUS
<1>0. TypeOK'
  BY TypeStep DEF IInv
<1>1. ASSUME Tick PROVE IInv'
  <2>1. now' = now + 1 /\ now \in Int /\ row.hold \in Int
    BY <1>1, TimeAssumption DEF Tick, IInv, TypeOK, Row, Time, NoTime
  <2>2. \A w \in Sweepers : sweep[w].at \in Int
    BY TimeAssumption DEF IInv, TypeOK, SweepState, Time
  <2>3. \A w \in Sweepers : SweepHarmless(w)'
    BY <1>1, <2>1, <2>2 DEF Tick, IInv, SweepHarmless, HoldLapsed
  <2> QED
    BY <1>0, <1>1, <2>3 DEF Tick, IInv, PaidBeforeUse, SessionHarmless, OnePass, RemindersCounted
<1>2. ASSUME NEW t \in Sessions, Load(t) \/ Decide(t) \/ Write(t) \/ Abandon(t) PROVE IInv'
  BY <1>0, <1>2, LoadKeeps, DecideKeeps, WriteKeeps, AbandonKeeps
<1>3. ASSUME NEW w \in Sweepers, SweepStep(w) \/ AbortPass(w) PROVE IInv'
  BY <1>0, <1>3, StartPassKeeps, ExpireHoldsKeeps, ActivateStartedKeeps, StartOverstaysKeeps,
     CompleteFinishedKeeps, DueRemindersKeeps, FinishPassKeeps, AbortPassKeeps DEF SweepStep
<1>4. CASE UNCHANGED vars
  BY <1>0, <1>4 DEF vars, IInv, PaidBeforeUse, SessionHarmless, SweepHarmless, HoldLapsed,
                    OnePass, RemindersCounted
<1> QED
  BY <1>1, <1>2, <1>3, <1>4 DEF Next

LEMMA Invariance == Spec => []IInv
BY InvInit, InvStep, PTL DEF Spec

(* Nobody uses, finishes or disputes a booking that was not confirmed by a *)
(* payment, whatever stale copies the requests and the sweeps write from.  *)
THEOREM NoUseWithoutPayment == Spec => []PaidBeforeUse
<1>1. IInv => PaidBeforeUse
  BY DEF IInv
<1> QED
  BY <1>1, Invariance, PTL

(* However many processes run the sweep, however often one dies mid-pass,  *)
(* a renter gets at most one reminder.                                     *)
THEOREM OneReminder == Spec => []RemindedOnce
<1>1. IInv => RemindedOnce
  BY DEF IInv, RemindersCounted, RemindedOnce
<1> QED
  BY <1>1, Invariance, PTL

(* Who may change what the two properties of steps below are about. *)
LEMMA RowSteps ==
  ASSUME IInv, [Next]_vars
  PROVE  \/ row' = row
         \/ \E t \in Sessions : Write(t)
         \/ \E w \in Sweepers : FinishPass(w)
<1>1. ASSUME NEW t \in Sessions, Decide(t) PROVE row' = row
  BY <1>1, DecideIsBenign DEF Stage, IInv
<1>2. ASSUME NEW w \in Sweepers, SweepStep(w) PROVE row' = row \/ FinishPass(w)
  BY <1>2 DEF SweepStep, StartPass, ExpireHolds, ActivateStarted, StartOverstays,
              CompleteFinished, DueReminders, Statement
<1>3. ASSUME NEW t \in Sessions, Load(t) \/ Abandon(t) PROVE row' = row
  BY <1>3 DEF Load, Abandon
<1>4. ASSUME NEW w \in Sweepers, AbortPass(w) PROVE row' = row
  BY <1>4 DEF AbortPass
<1>5. ASSUME Tick \/ UNCHANGED vars PROVE row' = row
  BY <1>5 DEF Tick, vars
<1> QED
  BY <1>1, <1>2, <1>3, <1>4, <1>5 DEF Next

(* No commit takes back that the booking, or its extra time, was paid. *)
THEOREM PaymentsRemembered == Spec => PaymentNeverForgotten
<1>1. IInv /\ [Next]_vars =>
        [(row.confirmed => row'.confirmed) /\ (row.ostPaid => row'.ostPaid)]_vars
  BY RowSteps, WriteIsHarmless, FinishIsHarmless
<1> QED
  BY <1>1, Invariance, PTL DEF Spec, PaymentNeverForgotten

(* The sweep expires only what has lapsed on the row as it is when the     *)
(* expiry commits: its bulk UPDATE re-checks the row, and keeps it.        *)
THEOREM OnlyLapsedExpire == Spec => ExpiryTakesOnlyLapsed
<1>1. IInv /\ [Next]_vars =>
        [row'.status = "EXPIRED" /\ row.status # "EXPIRED" => HoldLapsed(row, now)]_vars
  BY RowSteps, WriteIsHarmless, FinishIsHarmless
<1> QED
  BY <1>1, Invariance, PTL DEF Spec, ExpiryTakesOnlyLapsed
-----------------------------------------------------------------------------
(***************************************************************************)
(* The meter.  What a pass closes while the row is on the meter, it closed *)
(* from the meter's last reading, which is a debt.  That it still is one   *)
(* when the pass commits needs a second invariant on top of IInv: nothing  *)
(* that is recorded, loaded or about to be written shows more than the     *)
(* meter does now, so that a request which re-reads the meter only ever    *)
(* raises it; only StartOverstays puts a booking on the meter, so that a   *)
(* pass which had already moved it cannot find it there; and the sweep     *)
(* trusts its own copy of the row only once it has moved it.               *)
(***************************************************************************)
SessionMetered(t) ==
  LET s == ses[t]
  IN  /\ s.img.ost <= Billable(now)
      /\ s.pc = "staged" =>
           /\ "ost" \in s.cols => s.img.ost > 0
           /\ "status" \in s.cols => s.img.status # "OVERSTAYING"

SweepMetered(w) ==
  LET s == sweep[w]
  IN  /\ s.img.ost <= Billable(now)
      /\ s.loaded => s.pc \in {"complete", "remind", "finish"}
      /\ s.pc = "complete" /\ s.loaded => "status" \in s.cols
      /\ row.status = "OVERSTAYING" /\ "status" \in s.cols =>
           /\ s.pc \in {"remind", "finish"}
           /\ s.img.status = "COMPLETED"
           /\ Grace < MaxOverstay => s.img.ost > 0 /\ ("ost" \in s.cols \/ row.ost > 0)

Metered ==
  /\ row.ost <= Billable(now)
  /\ \A t \in Sessions : SessionMetered(t)
  /\ \A w \in Sweepers : SweepMetered(w)

LInv == IInv /\ Metered

(* What the invariants say of the values the steps below compare. *)
LEMMA Readings ==
  ASSUME IInv
  PROVE  /\ now \in Time /\ Billable(now) \in Nat /\ row \in Row /\ row.ost \in Nat
         /\ \A t \in Sessions : ses[t] \in SessionState /\ ses[t].img.ost \in Nat
         /\ \A w \in Sweepers : /\ sweep[w] \in SweepState /\ sweep[w].img.ost \in Nat
                                /\ sweep[w].at \in Time /\ sweep[w].at <= now
<1>1. now \in Time /\ row \in Row /\ Billable(now) \in Nat
  BY BillableIsNat DEF IInv, TypeOK
<1>2. \A t \in Sessions : ses[t] \in SessionState
  BY DEF IInv, TypeOK
<1>3. \A w \in Sweepers : sweep[w] \in SweepState /\ sweep[w].at <= now
  BY DEF IInv, TypeOK, SweepHarmless
<1> QED
  BY <1>1, <1>2, <1>3 DEF Row, SessionState, SweepState

(* The clock only moves the meter up. *)
LEMMA TickMeters ==
  ASSUME LInv, Tick, TypeOK' PROVE Metered'
<1>1. UNCHANGED <<row, ses, sweep>> /\ now' \in Time /\ now <= now'
  BY TimeAssumption DEF Tick, TypeOK, LInv, IInv, Time
<1>2. Billable(now) \in Nat /\ Billable(now)' \in Nat /\ Billable(now) <= Billable(now)'
  <2>1. Billable(now)' = Billable(now')
    BY DEF Billable, MeterStops
  <2> QED BY <1>1, <2>1, Readings, BillableGrows, BillableIsNat DEF LInv
<1>3. \A t \in Sessions : SessionMetered(t)'
  BY <1>1, <1>2, Readings DEF LInv, Metered, SessionMetered
<1>4. \A w \in Sweepers : SweepMetered(w)'
  BY <1>1, <1>2, Readings DEF LInv, Metered, SweepMetered
<1> QED
  BY <1>1, <1>2, <1>3, <1>4, Readings DEF LInv, Metered

(* A request that loads, decides or gives up. *)
LEMMA RequestMeters ==
  ASSUME LInv, NEW t \in Sessions, Load(t) \/ Decide(t) \/ Abandon(t) PROVE Metered'
<1>0. Metered /\ IInv
  BY DEF LInv
<1>1. UNCHANGED <<now, row, sweep>> /\ \A u \in Sessions \ {t} : ses'[u] = ses[u]
  <2>1. CASE Decide(t)
    BY <2>1, DecideIsBenign DEF Stage, LInv, IInv, TypeOK
  <2> QED BY <1>0, <2>1 DEF Load, Abandon, IInv, TypeOK
<1>2. SessionMetered(t)'
  <2>1. CASE Load(t)
    <3>1. ses'[t].pc = "loaded" /\ ses'[t].img = row
      BY <1>0, <2>1 DEF Load, IInv, TypeOK, IdleSession
    <3> QED BY <1>0, <1>1, <3>1 DEF SessionMetered, Metered, Billable, MeterStops
  <2>2. CASE Abandon(t)
    <3>1. ses'[t].pc = "idle" /\ ses'[t].img.ost = 0
      BY <1>0, <2>2 DEF Abandon, IInv, TypeOK, IdleSession, NoImage
    <3> QED BY <1>0, <1>1, <3>1, Readings DEF SessionMetered, Billable, MeterStops
  <2>3. CASE Decide(t)
    <3> DEFINE b == ses[t].img
    <3>1. PICK new \in Row, k \in Kinds, a \in Nat, fresh \in SUBSET Columns :
            Benign(b, new, fresh) /\ Stage(t, k, new, fresh, a)
      BY <1>0, <2>3, DecideIsBenign DEF IInv
    <3> DEFINE cols == Changed(b, new) \cup fresh
    <3>2. /\ ses'[t].pc = "staged" /\ ses'[t].cols = cols
          /\ ses'[t].img = Overlay(cols, new, NoImage)
      BY <1>0, <3>1 DEF Stage, IInv, TypeOK
    <3>3. /\ "ost" \in cols => new.ost # b.ost
          /\ "status" \in cols => new.status # b.status
          /\ new.ost \in {b.ost, Billable(now)}
          /\ new.status # b.status => new.status # "OVERSTAYING"
      BY <3>1 DEF Benign, Changed
    <3>4. b.ost <= Billable(now) /\ b.ost \in Nat /\ Billable(now) \in Nat
      BY <1>0, Readings DEF Metered, SessionMetered
    <3>5. Overlay(cols, new, NoImage).ost <= Billable(now)
      BY <3>3, <3>4 DEF Overlay, NoImage
    <3>6. "ost" \in cols => Overlay(cols, new, NoImage).ost > 0
      BY <3>3, <3>4 DEF Overlay
    <3>7. "status" \in cols => Overlay(cols, new, NoImage).status # "OVERSTAYING"
      BY <3>3 DEF Overlay
    <3> HIDE DEF cols
    <3>8. Billable(now)' = Billable(now)
      BY <1>1 DEF Billable, MeterStops
    <3> QED BY <3>2, <3>5, <3>6, <3>7, <3>8 DEF SessionMetered
  <2> QED BY <2>1, <2>2, <2>3
<1>3. \A u \in Sessions \ {t} : SessionMetered(u)'
  BY <1>0, <1>1 DEF Metered, SessionMetered, Billable, MeterStops
<1>4. \A w \in Sweepers : SweepMetered(w)'
  BY <1>0, <1>1 DEF Metered, SweepMetered, Billable, MeterStops
<1> QED
  BY <1>0, <1>1, <1>2, <1>3, <1>4 DEF Metered, Billable, MeterStops

(* The commit of a request puts nothing on the meter, and takes no debt    *)
(* off the row.                                                            *)
LEMMA WriteMeters ==
  ASSUME LInv, NEW t \in Sessions, Write(t) PROVE Metered'
<1> DEFINE s == ses[t]
<1>0. Metered /\ IInv /\ SessionMetered(t) /\ row.ost \in Nat /\ s.img.ost \in Nat
  BY Readings DEF LInv, Metered
<1>1. /\ UNCHANGED <<now, sweep>> /\ row' = Overlay(s.cols, s.img, row) /\ s.pc = "staged"
      /\ ses' = [ses EXCEPT ![t] = IdleSession]
  BY DEF Write
<1>2. /\ row'.ost \in {row.ost, s.img.ost}
      /\ row.ost > 0 => row'.ost > 0
      /\ row'.status = "OVERSTAYING" => row.status = "OVERSTAYING"
  BY <1>0, <1>1 DEF Overlay, SessionMetered
<1>3. Billable(now)' = Billable(now)
  BY <1>1 DEF Billable, MeterStops
<1>4. row'.ost <= Billable(now)
  BY <1>0, <1>2 DEF Metered, SessionMetered
<1>5. \A u \in Sessions : SessionMetered(u)'
  <2>1. IdleSession.img.ost = 0 /\ IdleSession.pc = "idle" /\ Billable(now) \in Nat
    BY <1>0, Readings DEF IdleSession, NoImage
  <2>2. \A u \in Sessions : ses'[u] = ses[u] \/ ses'[u] = IdleSession
    BY <1>0, <1>1 DEF IInv, TypeOK
  <2> QED BY <1>0, <1>3, <2>1, <2>2 DEF Metered, SessionMetered
<1>6. \A w \in Sweepers : SweepMetered(w)'
  BY <1>0, <1>1, <1>2, <1>3 DEF Metered, SweepMetered
<1> QED
  BY <1>3, <1>4, <1>5, <1>6 DEF Metered

(* A statement of a sweep leaves everything but its own process alone. *)
LEMMA StatementMeters ==
  ASSUME LInv, NEW w \in Sweepers, UNCHANGED <<now, row, ses>>,
         \A v \in Sweepers \ {w} : sweep'[v] = sweep[v],
         SweepMetered(w)'
  PROVE  Metered'
<1>1. Billable(now)' = Billable(now)
  BY DEF Billable, MeterStops
<1> QED
  BY <1>1 DEF LInv, Metered, SessionMetered, SweepMetered

LEMMA NotDueMeters ==
  ASSUME LInv, NEW w \in Sweepers, NEW step, Statement(w, step), NEW next, Advance(w, next),
         \/ step = "expire" /\ next = "activate"
         \/ step = "activate" /\ next = "overstay"
         \/ step = "overstay" /\ next = "complete"
         \/ step = "complete" /\ next = "remind"
         \/ step = "remind" /\ next = "finish"
  PROVE  Metered'
<1>1. sweep[w].pc = step /\ UNCHANGED <<now, row, ses>>
  BY DEF Statement
<1>2. Billable(now)' = Billable(now)
  BY <1>1 DEF Billable, MeterStops
<1>3. SweepMetered(w)'
  BY <1>1, <1>2, AdvanceHolds DEF LInv, Metered, SweepMetered
<1> QED
  BY <1>1, <1>3, AdvanceHolds, StatementMeters DEF LInv

(* A bulk UPDATE hits a row that is not on the meter, and loads nothing. *)
LEMMA BulkUpdateMeters ==
  ASSUME LInv, NEW w \in Sweepers, NEW step, Statement(w, step), NEW next, NEW img \in Row,
         BulkUpdate(w, img, next),
         \/ step = "expire" /\ next = "activate"
         \/ step = "activate" /\ next = "overstay",
         View(w).status # "OVERSTAYING", img.ost = View(w).ost
  PROVE  Metered'
<1>0. Metered /\ IInv /\ SweepMetered(w)
  BY DEF LInv, Metered
<1>1. sweep[w].pc = step /\ UNCHANGED <<now, row, ses>>
  BY DEF Statement
<1>2. Billable(now)' = Billable(now)
  BY <1>1 DEF Billable, MeterStops
<1>3. /\ \A v \in Sweepers \ {w} : sweep'[v] = sweep[v]
      /\ sweep'[w].pc = next /\ sweep'[w].img = img /\ sweep'[w].loaded = sweep[w].loaded
  BY <1>0, BulkUpdateHolds
<1>4. row.status # "OVERSTAYING"
  BY <1>0, <1>1 DEF SweepMetered, View, Overlay
<1>5. img.ost <= Billable(now)
  BY <1>0 DEF Metered, SweepMetered, View, Overlay
<1>6. SweepMetered(w)'
  BY <1>0, <1>1, <1>2, <1>3, <1>4, <1>5 DEF SweepMetered
<1> QED
  BY <1>1, <1>3, <1>6, StatementMeters

LEMMA ExpireMeters ==
  ASSUME LInv, NEW w \in Sweepers, ExpireHolds(w) PROVE Metered'
<1> DEFINE new == [View(w) EXCEPT !.status = "EXPIRED", !.hold = NoTime]
<1>1. Statement(w, "expire") /\ View(w) \in Row
  BY ViewTyped DEF ExpireHolds, LInv, IInv
<1>2. CASE HoldLapsed(View(w), sweep[w].at) /\ BulkUpdate(w, new, "activate")
  <2>1. new \in Row /\ new.ost = View(w).ost /\ View(w).status # "OVERSTAYING"
    BY <1>1, <1>2 DEF Row, Statuses, Closed, HoldLapsed, Pending
  <2> QED BY <1>1, <1>2, <2>1, BulkUpdateMeters
<1>3. CASE Advance(w, "activate")
  BY <1>1, <1>3, NotDueMeters
<1> QED
  BY <1>2, <1>3 DEF ExpireHolds

LEMMA ActivateMeters ==
  ASSUME LInv, NEW w \in Sweepers, ActivateStarted(w) PROVE Metered'
<1> DEFINE new == [View(w) EXCEPT !.status = "ACTIVE"]
<1>1. Statement(w, "activate") /\ View(w) \in Row
  BY ViewTyped DEF ActivateStarted, LInv, IInv
<1>2. CASE View(w).status = "CONFIRMED" /\ BulkUpdate(w, new, "overstay")
  <2>1. new \in Row /\ new.ost = View(w).ost
    BY <1>1 DEF Row, Statuses, Blocking
  <2> QED BY <1>1, <1>2, <2>1, BulkUpdateMeters
<1>3. CASE Advance(w, "overstay")
  BY <1>1, <1>3, NotDueMeters
<1> QED
  BY <1>2, <1>3 DEF ActivateStarted

(* What a statement that mutates the row it selected has to show. *)
LEMMA MutateMeters ==
  ASSUME LInv, NEW w \in Sweepers, NEW step, Statement(w, step), NEW next, NEW img,
         Mutate(w, img, next),
         next \in {"complete", "remind", "finish"},
         img.ost <= Billable(now),
         next = "complete" => "status" \in sweep[w].cols \cup Changed(Instance(w), img),
         row.status = "OVERSTAYING" /\ "status" \in sweep[w].cols \cup Changed(Instance(w), img) =>
           /\ next # "complete"
           /\ img.status = "COMPLETED"
           /\ Grace < MaxOverstay =>
                img.ost > 0 /\ ("ost" \in sweep[w].cols \cup Changed(Instance(w), img) \/ row.ost > 0)
  PROVE  Metered'
<1>1. UNCHANGED <<now, row, ses>>
  BY DEF Statement
<1>2. Billable(now)' = Billable(now)
  BY <1>1 DEF Billable, MeterStops
<1>3. /\ \A v \in Sweepers \ {w} : sweep'[v] = sweep[v]
      /\ sweep'[w].pc = next /\ sweep'[w].img = img
      /\ sweep'[w].cols = sweep[w].cols \cup Changed(Instance(w), img)
  BY MutateHolds DEF LInv
<1>4. SweepMetered(w)'
  BY <1>1, <1>2, <1>3 DEF SweepMetered
<1> QED
  BY <1>1, <1>3, <1>4, StatementMeters

(* A reading taken at the start of a statement. *)
LEMMA ReadingOf ==
  ASSUME LInv, NEW w \in Sweepers, NEW r \in Row
  PROVE  /\ Freeze(r, sweep[w].at).ost = Billable(sweep[w].at)
         /\ Freeze(r, sweep[w].at).status = r.status
         /\ Billable(sweep[w].at) \in Nat
         /\ Billable(sweep[w].at) <= Billable(now)
         /\ EndAt <= sweep[w].at - MaxOverstay /\ Grace < MaxOverstay => Billable(sweep[w].at) > 0
<1>1. sweep[w].at \in Time /\ now \in Time /\ sweep[w].at <= now
  BY Readings DEF LInv
<1>2. EndAt <= sweep[w].at - MaxOverstay => MeterStops <= sweep[w].at
  BY <1>1, TimeAssumption, MeterAssumption DEF Time, MeterStops
<1>3. Freeze(r, sweep[w].at).ost = Billable(sweep[w].at) /\ Freeze(r, sweep[w].at).status = r.status
  BY DEF Freeze, Row
<1> QED
  BY <1>1, <1>2, <1>3, BillableIsNat, BillableGrows, StoppedOnADebt

(* Only a row seen ACTIVE goes on the meter: it is not there already. *)
LEMMA StartMeters ==
  ASSUME LInv, NEW w \in Sweepers, StartOverstays(w) PROVE Metered'
<1> DEFINE moved == [Instance(w) EXCEPT !.status = "OVERSTAYING"]
           new == Freeze(moved, sweep[w].at)
<1>0. Metered /\ IInv /\ SweepMetered(w)
  BY DEF LInv, Metered
<1>1. Statement(w, "overstay") /\ Instance(w) \in Row /\ sweep[w].pc = "overstay"
  BY <1>0, ViewTyped DEF StartOverstays, Statement, IInv
<1>2. CASE RanOver(View(w), sweep[w].at) /\ Mutate(w, new, "complete")
  <2>1. moved \in Row /\ moved.status = "OVERSTAYING"
    BY <1>1 DEF Row, Statuses, Blocking
  <2>2. new.ost <= Billable(now) /\ new.status = "OVERSTAYING"
    BY <2>1, ReadingOf
  <2>3. Instance(w) = View(w) /\ View(w).status = "ACTIVE"
    BY <1>0, <1>1, <1>2 DEF Instance, SweepMetered, RanOver
  <2>4. "status" \in Changed(Instance(w), new)
    BY <2>2, <2>3 DEF Changed, Columns
  <2>5. row.status # "OVERSTAYING"
    BY <1>0, <1>1, <2>3 DEF SweepMetered, View, Overlay
  <2> QED BY <1>1, <1>2, <2>2, <2>4, <2>5, MutateMeters
<1>3. CASE Advance(w, "complete")
  BY <1>1, <1>3, NotDueMeters
<1> QED
  BY <1>2, <1>3 DEF StartOverstays

(* The row is closed from the meter's reading if it is on the meter. *)
LEMMA CompleteMeters ==
  ASSUME LInv, NEW w \in Sweepers, CompleteFinished(w) PROVE Metered'
<1> DEFINE b == Instance(w)
           metered == IF b.status = "OVERSTAYING" THEN Freeze(b, sweep[w].at) ELSE b
           new == [metered EXCEPT !.status = "COMPLETED"]
<1>0. Metered /\ IInv /\ SweepMetered(w)
  BY DEF LInv, Metered
<1>1. Statement(w, "complete") /\ b \in Row /\ sweep[w].pc = "complete"
  BY <1>0, ViewTyped DEF CompleteFinished, Statement, IInv
<1>2. CASE Finished(View(w), sweep[w].at) /\ Mutate(w, new, "remind")
  <2>1. /\ new.status = "COMPLETED"
        /\ new.ost = IF b.status = "OVERSTAYING" THEN Billable(sweep[w].at) ELSE b.ost
    BY <1>1, ReadingOf DEF Row, Freeze
  <2>2. b.ost <= Billable(now)
    BY <1>0 DEF Metered, SweepMetered, Instance, View, Overlay
  <2>3. new.ost <= Billable(now)
    BY <1>1, <2>1, <2>2, ReadingOf
  <2>4. ASSUME row.status = "OVERSTAYING", Grace < MaxOverstay
        PROVE  new.ost > 0 /\ ("ost" \in sweep[w].cols \cup Changed(b, new) \/ row.ost > 0)
    <3>1. "status" \notin sweep[w].cols
      BY <1>0, <1>1, <2>4 DEF SweepMetered
    <3>2. b = View(w) /\ b.status = "OVERSTAYING"
      BY <1>0, <1>1, <2>4, <3>1 DEF SweepMetered, Instance, View, Overlay
    <3>3. new.ost > 0
      BY <1>1, <1>2, <2>1, <2>4, <3>2, ReadingOf DEF Finished
    <3>4. CASE "ost" \in sweep[w].cols
      BY <3>3, <3>4
    <3>5. CASE "ost" \notin sweep[w].cols
      <4>1. b.ost = row.ost
        BY <3>2, <3>5 DEF View, Overlay
      <4>2. new.ost # b.ost => "ost" \in Changed(b, new)
        BY DEF Changed, Columns
      <4> QED BY <3>3, <4>1, <4>2
    <3> QED BY <3>4, <3>5
  <2> HIDE DEF new
  <2> QED BY <1>1, <1>2, <2>1, <2>3, <2>4, MutateMeters
<1>3. CASE Advance(w, "remind")
  BY <1>1, <1>3, NotDueMeters
<1> QED
  BY <1>2, <1>3 DEF CompleteFinished

(* A reminder touches neither the status nor the meter. *)
LEMMA RemindMeters ==
  ASSUME LInv, NEW w \in Sweepers, DueReminders(w) PROVE Metered'
<1> DEFINE b == Instance(w)
           new == [b EXCEPT !.reminded = TRUE]
<1>0. Metered /\ IInv /\ SweepMetered(w)
  BY DEF LInv, Metered
<1>1. Statement(w, "remind") /\ b \in Row /\ sweep[w].pc = "remind"
  BY <1>0, ViewTyped DEF DueReminders, Statement, IInv
<1>2. CASE Mutate(w, new, "finish")
  <2>1. new.status = b.status /\ new.ost = b.ost /\ Changed(b, new) \subseteq {"reminded"}
    BY <1>1 DEF Changed, Row, Columns
  <2>2. b.ost <= Billable(now)
    BY <1>0 DEF Metered, SweepMetered, Instance, View, Overlay
  <2>3. ASSUME row.status = "OVERSTAYING", "status" \in sweep[w].cols
        PROVE  /\ b.status = "COMPLETED"
               /\ Grace < MaxOverstay => b.ost > 0 /\ ("ost" \in sweep[w].cols \/ row.ost > 0)
    BY <1>0, <2>3 DEF SweepMetered, Instance, View, Overlay
  <2> HIDE DEF new
  <2> QED BY <1>1, <1>2, <2>1, <2>2, <2>3, MutateMeters
<1>3. CASE Advance(w, "finish")
  BY <1>1, <1>3, NotDueMeters
<1> QED
  BY <1>2, <1>3 DEF DueReminders

(* A pass that begins, or ends one way or the other, holds nothing. *)
LEMMA PassMeters ==
  ASSUME LInv, NEW w \in Sweepers, StartPass(w) \/ FinishPass(w) \/ AbortPass(w) PROVE Metered'
<1>0. Metered /\ IInv
  BY DEF LInv
<1>1. /\ UNCHANGED <<now, ses>>
      /\ \A v \in Sweepers \ {w} : sweep'[v] = sweep[v]
      /\ sweep'[w].img.ost = 0 /\ sweep'[w].cols = {} /\ sweep'[w].loaded = FALSE
  <2>1. CASE StartPass(w)
    <3>1. sweep'[w] = [IdleSweep EXCEPT !.pc = "expire", !.at = now]
      BY <1>0, <2>1 DEF StartPass, IInv, TypeOK
    <3>2. sweep'[w].img = NoImage /\ sweep'[w].cols = {} /\ sweep'[w].loaded = FALSE
      BY <3>1 DEF IdleSweep
    <3> QED BY <1>0, <2>1, <3>2 DEF StartPass, IInv, TypeOK, NoImage
  <2>2. CASE FinishPass(w) \/ AbortPass(w)
    BY <1>0, <2>2 DEF FinishPass, AbortPass, IInv, TypeOK, IdleSweep, NoImage
  <2> QED BY <2>1, <2>2
<1>2. Billable(now)' = Billable(now) /\ Billable(now) \in Nat
  BY <1>0, <1>1, Readings DEF Billable, MeterStops
<1>3. row'.ost <= Billable(now)
  BY <1>0 DEF StartPass, FinishPass, AbortPass, View, Overlay, Metered, SweepMetered
<1>4. SweepMetered(w)'
  BY <1>1, <1>2 DEF SweepMetered
<1>5. \A v \in Sweepers \ {w} : SweepMetered(v)'
  <2>1. CASE FinishPass(w)
    <3> SUFFICES ASSUME NEW v \in Sweepers \ {w} PROVE SweepMetered(v)'
      OBVIOUS
    <3>1. sweep[v].cols = {}
      BY <1>0, <2>1 DEF FinishPass, IInv, OnePass, SweepHarmless
    <3> QED BY <1>0, <1>1, <1>2, <3>1 DEF Metered, SweepMetered
  <2>2. CASE StartPass(w) \/ AbortPass(w)
    BY <1>0, <1>1, <1>2, <2>2 DEF StartPass, AbortPass, Metered, SweepMetered
  <2> QED BY <2>1, <2>2
<1>6. \A t \in Sessions : SessionMetered(t)'
  BY <1>0, <1>1, <1>2 DEF Metered, SessionMetered
<1> QED
  BY <1>2, <1>3, <1>4, <1>5, <1>6 DEF Metered

LEMMA MeteredInit == Init => Metered
<1> SUFFICES ASSUME Init PROVE Metered
  OBVIOUS
<1>1. Billable(now) \in Nat
  BY TypeInit, BillableIsNat DEF TypeOK
<1>2. row.ost = 0
  BY DEF Init, NoImage
<1> QED
  BY <1>1, <1>2 DEF Init, Metered, SessionMetered, SweepMetered, IdleSession, IdleSweep, NoImage

LEMMA MeteredStep == LInv /\ [Next]_vars => LInv'
<1> SUFFICES ASSUME LInv, [Next]_vars PROVE LInv'
  OBVIOUS
<1>0. IInv' /\ TypeOK'
  BY InvStep DEF LInv, IInv
<1>1. CASE Tick
  BY <1>0, <1>1, TickMeters DEF LInv
<1>2. ASSUME NEW t \in Sessions, Load(t) \/ Decide(t) \/ Write(t) \/ Abandon(t) PROVE Metered'
  BY <1>2, RequestMeters, WriteMeters
<1>3. ASSUME NEW w \in Sweepers, SweepStep(w) \/ AbortPass(w) PROVE Metered'
  BY <1>3, PassMeters, ExpireMeters, ActivateMeters, StartMeters, CompleteMeters, RemindMeters
     DEF SweepStep
<1>4. CASE UNCHANGED vars
  <2>1. Billable(now)' = Billable(now)
    BY <1>4 DEF vars, Billable, MeterStops
  <2>2. UNCHANGED <<row, ses, sweep>>
    BY <1>4 DEF vars
  <2>3. \A t \in Sessions : SessionMetered(t)'
    BY <2>1, <2>2 DEF LInv, Metered, SessionMetered
  <2>4. \A w \in Sweepers : SweepMetered(w)'
    BY <2>1, <2>2 DEF LInv, Metered, SweepMetered
  <2>5. row'.ost <= Billable(now)
    BY <2>2 DEF LInv, Metered
  <2> QED BY <1>0, <2>1, <2>3, <2>4, <2>5 DEF LInv, Metered
<1> QED
  BY <1>0, <1>1, <1>2, <1>3, <1>4 DEF Next, LInv

(* A pass that commits a booking as finished while it is on the meter      *)
(* leaves a debt on it, whatever requests re-read the meter, recorded      *)
(* payments or moved the row between the pass's statements, as long as the *)
(* meter outlasts the grace period.                                        *)
THEOREM LateRentersOwe == Spec => LateNeverFree
<1>1. ASSUME LInv, NEW w \in Sweepers, FinishPass(w), row.status = "OVERSTAYING",
             row'.status = "COMPLETED", Grace < MaxOverstay
      PROVE  row'.ost > 0
  <2>1. row' = View(w) /\ SweepMetered(w)
    BY <1>1 DEF FinishPass, LInv, Metered
  <2> QED BY <1>1, <2>1 DEF SweepMetered, View, Overlay
<1>2. LInv /\ [Next]_vars =>
        [\A w \in Sweepers :
           FinishPass(w) /\ row.status = "OVERSTAYING" /\ row'.status = "COMPLETED"
             /\ Grace < MaxOverstay
             => row'.ost > 0]_vars
  BY <1>1
<1>3. Init => LInv
  BY InvInit, MeteredInit DEF LInv
<1> QED
  BY <1>2, <1>3, MeteredStep, PTL DEF Spec, LateNeverFree
=============================================================================
