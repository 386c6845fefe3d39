------------------------- MODULE BookingCreateProofs -------------------------
(***************************************************************************)
(* Theorems about BookingCreate, for any number of requests, bays, periods *)
(* and retries.                                                            *)
(*                                                                         *)
(* NoDoubleBooking is not inductive: it speaks of committed rows, and a    *)
(* commit adds one.  What is inductive is the exclusion among SETTLED rows *)
(* -- those whose constraint scan has passed, committed or not -- because  *)
(* a scan passes only when it meets no other tuple at all, and a tuple     *)
(* that settles later has been in the heap since before its own scan.      *)
(***************************************************************************)
EXTENDS BookingCreate, TLAPS

Settled == {"held", "booked", "releasing", "reheld"}

(* Rows that carry the bay create picked for them. *)
Assigned == InHeap \cup {"inserting", "released"}

SettledExclusive ==
  \A p, q \in Requests :
    p # q /\ phase[p] \in Settled /\ phase[q] \in Settled /\ slot[p] = slot[q]
      => ~Overlaps(ask[p].window, ask[q].window)

NamedBayKept ==
  \A r \in Requests :
    phase[r] \in Assigned /\ ask[r].bay # NoBay => slot[r] = ask[r].bay

SlotAssigned ==
  \A r \in Requests : phase[r] \in Assigned => slot[r] \in Slots

RoundsLeft ==
  \A r \in Requests :
    phase[r] \in {"new", "reading", "inserting", "placed"} => tries[r] < Attempts(r)

Typed == TypeOK /\ RoundsLeft
IInv  == Typed /\ SettledExclusive /\ NamedBayKept /\ SlotAssigned /\ RefusalHasWinner
-----------------------------------------------------------------------------
(* Type correctness, with the bound the retry loop keeps: a request still  *)
(* in the loop has rounds left (service.py:234-235).                       *)
LEMMA TypedInit == Init => Typed
BY SlotsAssumption, RetryAssumption DEF Init, Typed, TypeOK, RoundsLeft, Phases, Attempts

LEMMA TypedStep == Typed /\ [Next]_vars => Typed'
<1> SUFFICES ASSUME Typed, [Next]_vars PROVE Typed'
  OBVIOUS
<1> USE SlotsAssumption, AskedAssumption, RetryAssumption
<1>1. ASSUME NEW r \in Requests, Receive(r) PROVE Typed'
  BY <1>1 DEF Typed, TypeOK, RoundsLeft, Attempts, Phases, Receive, MoveTo
<1>2. ASSUME NEW r \in Requests, Read(r) PROVE Typed'
  <2>1. Offered(r) \subseteq Slots
    BY DEF Typed, TypeOK, Offered
  <2>2. QED
    BY <1>2, <2>1 DEF Typed, TypeOK, RoundsLeft, Attempts, Phases, Read, MoveTo
<1>3. ASSUME NEW r \in Requests, Insert(r) PROVE Typed'
  BY <1>3 DEF Typed, TypeOK, RoundsLeft, Attempts, Phases, Insert, MoveTo
<1>4. ASSUME NEW r \in Requests, tries[r] < Attempts(r), NextRound(r),
             UNCHANGED <<ask, slot, outOfService>>
      PROVE  Typed'
  <2>1. Attempts(r) \in 1 .. MaxSlotRetries /\ tries[r] + 1 \in 0 .. MaxSlotRetries
    BY <1>4 DEF Typed, TypeOK, Attempts
  <2>2. TypeOK'
    BY <1>4, <2>1 DEF Typed, TypeOK, NextRound, Phases
  <2>3. ASSUME NEW q \in Requests,
               phase'[q] \in {"new", "reading", "inserting", "placed"}
        PROVE  tries'[q] < Attempts(q)'
    BY <1>4, <2>1, <2>3 DEF Typed, TypeOK, RoundsLeft, NextRound, Attempts
  <2>4. QED
    BY <2>2, <2>3 DEF Typed, RoundsLeft
<1>5. ASSUME NEW r \in Requests, ReferenceClash(r) PROVE Typed'
  BY <1>4, <1>5 DEF Typed, RoundsLeft, ReferenceClash
<1>6. ASSUME NEW r \in Requests, Accept(r) PROVE Typed'
  BY <1>6 DEF Typed, TypeOK, RoundsLeft, Attempts, Phases, Accept, MoveTo
<1>7. ASSUME NEW r \in Requests, Lose(r) PROVE Typed'
  <2>1. CASE phase[r] = "placed"
    BY <1>4, <1>7, <2>1 DEF Typed, RoundsLeft, Lose
  <2>2. CASE phase[r] # "placed"
    BY <1>7, <2>2 DEF Typed, TypeOK, RoundsLeft, Attempts, Phases, Lose, MoveTo
  <2>3. QED
    BY <2>1, <2>2
<1>8. ASSUME NEW r \in Requests, DeadlockVictim(r) PROVE Typed'
  BY <1>8 DEF Typed, TypeOK, RoundsLeft, Attempts, Phases, DeadlockVictim, MoveTo
<1>9. ASSUME NEW r \in Requests,
             Commit(r) \/ Abort(r) \/ Release(r) \/ CommitRelease(r) \/ Dispute(r)
      PROVE  Typed'
  BY <1>9 DEF Typed, TypeOK, RoundsLeft, Attempts, Phases, Commit, Abort, Release,
              CommitRelease, Dispute, MoveTo
<1>10. ASSUME NEW s \in Slots, NEW active \in BOOLEAN, SetActive(s, active) PROVE Typed'
  BY <1>10 DEF Typed, TypeOK, RoundsLeft, Attempts, SetActive
<1>11. CASE UNCHANGED vars
  BY <1>11 DEF Typed, TypeOK, RoundsLeft, Attempts, vars
<1>12. QED
  BY <1>1, <1>2, <1>3, <1>5, <1>6, <1>7, <1>8, <1>9, <1>10, <1>11, SwitchAssumption DEF Next

(* Every reachable state is well typed, and the loop never runs past its   *)
(* last round.                                                             *)
THEOREM TypeCorrect == Spec => []TypeOK
<1>1. Spec => []Typed
  BY TypedInit, TypedStep, PTL DEF Spec
<1>2. Typed => TypeOK
  BY DEF Typed
<1>3. QED
  BY <1>1, <1>2, PTL
-----------------------------------------------------------------------------
(* What was asked for never changes, a row that carries a bay keeps it     *)
(* unless it is read anew, and only a passed scan makes a row settled.     *)
LEMMA RowSteps ==
  ASSUME Typed, [Next]_vars, NEW q \in Requests
  PROVE  /\ ask' = ask
         /\ phase'[q] \in Assigned => Read(q) \/ (phase[q] \in Assigned /\ slot'[q] = slot[q])
         /\ phase'[q] \in Settled => phase[q] \in Settled \/ Accept(q)
<1> DEFINE Goal == /\ ask' = ask
                   /\ phase'[q] \in Assigned => Read(q) \/ (phase[q] \in Assigned /\ slot'[q] = slot[q])
                   /\ phase'[q] \in Settled => phase[q] \in Settled \/ Accept(q)
<1> USE DEF Typed, TypeOK, Assigned, Settled, InHeap, Scanning, MoveTo
<1>1. ASSUME NEW r \in Requests, Receive(r) \/ Read(r) \/ Insert(r) \/ ReferenceClash(r)
      PROVE  Goal
  BY <1>1 DEF Receive, Read, Insert, ReferenceClash, NextRound
<1>2. ASSUME NEW r \in Requests, Accept(r) \/ Lose(r) \/ DeadlockVictim(r)
      PROVE  Goal
  BY <1>2 DEF Accept, Lose, DeadlockVictim, NextRound
<1>3. ASSUME NEW r \in Requests,
             Commit(r) \/ Abort(r) \/ Release(r) \/ CommitRelease(r) \/ Dispute(r)
      PROVE  Goal
  BY <1>3 DEF Commit, Abort, Release, CommitRelease, Dispute
<1>4. ASSUME UNCHANGED <<ask, phase, slot>> PROVE Goal
  BY <1>4
<1>5. QED
  BY <1>1, <1>2, <1>3, <1>4 DEF Next, SetActive, vars

(* A row that has just been given its bay was given one create may offer. *)
LEMMA ReadOffers ==
  ASSUME Typed, NEW r \in Requests, Read(r), phase'[r] \in Assigned
  PROVE  /\ slot'[r] \in Slots
         /\ ask[r].bay # NoBay => slot'[r] = ask[r].bay
<1>1. PICK s \in Offered(r) : slot' = [slot EXCEPT ![r] = s]
  BY DEF Read, MoveTo, Assigned, InHeap, Scanning, Typed, TypeOK
<1>2. s \in Slots /\ (ask[r].bay # NoBay => s = ask[r].bay)
  BY AskedAssumption DEF Offered, Typed, TypeOK
<1>3. slot'[r] = s
  BY <1>1 DEF Typed, TypeOK
<1>4. QED
  BY <1>2, <1>3

LEMMA BaysStep ==
  ASSUME Typed, NamedBayKept, SlotAssigned, [Next]_vars
  PROVE  NamedBayKept' /\ SlotAssigned'
<1>1. ASSUME NEW q \in Requests, phase'[q] \in Assigned
      PROVE  /\ slot'[q] \in Slots
             /\ ask'[q].bay # NoBay => slot'[q] = ask'[q].bay
  <2>1. CASE Read(q)
    BY <1>1, <2>1, RowSteps, ReadOffers
  <2>2. CASE ~Read(q)
    BY <1>1, <2>2, RowSteps DEF NamedBayKept, SlotAssigned
  <2>3. QED
    BY <2>1, <2>2
<1>2. QED
  BY <1>1 DEF NamedBayKept, SlotAssigned, Slots

(* The heart of the guarantee.  A newly settled row met no tuple of its    *)
(* bay and window in the heap, and every settled row is in the heap.       *)
LEMMA ExclusiveStep ==
  ASSUME Typed, SettledExclusive, [Next]_vars
  PROVE  SettledExclusive'
<1>1. ASSUME NEW p \in Requests, NEW q \in Requests, p # q, Accept(p),
             phase'[q] \in Settled, slot'[p] = slot'[q]
      PROVE  /\ ~Overlaps(ask[p].window, ask[q].window)
             /\ ~Overlaps(ask[q].window, ask[p].window)
  <2>1. phase[q] \in Settled /\ slot[p] = slot[q]
    BY <1>1 DEF Accept, MoveTo, Typed, TypeOK
  <2>2. q \notin Conflicts(p)
    BY <1>1 DEF Accept
  <2>3. QED
    BY <1>1, <2>1, <2>2 DEF Conflicts, Settled, InHeap, Overlaps
<1>2. ASSUME NEW p \in Requests, NEW q \in Requests, p # q,
             phase'[p] \in Settled, phase'[q] \in Settled, slot'[p] = slot'[q]
      PROVE  ~Overlaps(ask'[p].window, ask'[q].window)
  <2>1. ask' = ask
    BY RowSteps
  <2>2. CASE Accept(p) \/ Accept(q)
    BY <1>1, <1>2, <2>1, <2>2
  <2>3. CASE ~Accept(p) /\ ~Accept(q)
    <3>1. phase[p] \in Settled /\ phase[q] \in Settled
      BY <1>2, <2>3, RowSteps
    <3>2. slot'[p] = slot[p] /\ slot'[q] = slot[q]
      BY <1>2, <3>1, RowSteps DEF Settled, Assigned, InHeap, Read
    <3>3. QED
      BY <1>2, <2>1, <3>1, <3>2 DEF SettledExclusive
  <2>4. QED
    BY <2>2, <2>3
<1>3. QED
  BY <1>2 DEF SettledExclusive

(* Two committed rows never hold one bay at one time, for any number of    *)
(* racing requests: docs/PRD.md:408, bookings/models.py:70-73.             *)
THEOREM DoubleBookingImpossible == Spec => []NoDoubleBooking
<1>1. Init => Typed /\ SettledExclusive
  BY TypedInit DEF Init, SettledExclusive, Settled
<1>2. (Typed /\ SettledExclusive) /\ [Next]_vars => (Typed /\ SettledExclusive)'
  BY TypedStep, ExclusiveStep
<1>3. SettledExclusive => NoDoubleBooking
  BY DEF SettledExclusive, NoDoubleBooking, Settled, Visible
<1>4. QED
  BY <1>1, <1>2, <1>3, PTL DEF Spec
-----------------------------------------------------------------------------
LEMMA BaysInit == Init => NamedBayKept /\ SlotAssigned
BY DEF Init, NamedBayKept, SlotAssigned, Assigned, InHeap, Scanning

(* A renter who named a bay has that bay or no row at all: service.py:224. *)
THEOREM NamedBayHonoured == Spec => []NamedBayOrNothing
<1>1. Init => Typed /\ NamedBayKept /\ SlotAssigned
  BY TypedInit, BaysInit
<1>2. (Typed /\ NamedBayKept /\ SlotAssigned) /\ [Next]_vars
        => (Typed /\ NamedBayKept /\ SlotAssigned)'
  BY TypedStep, BaysStep
<1>3. NamedBayKept => NamedBayOrNothing
  BY DEF NamedBayKept, NamedBayOrNothing, Assigned
<1>4. QED
  BY <1>1, <1>2, <1>3, PTL DEF Spec
-----------------------------------------------------------------------------
Committed == {"booked", "releasing", "released", "replaced", "reheld"}

(* A committed row stays a row of the table, on the bay it was given. *)
LEMMA CommittedStable ==
  ASSUME Typed, [Next]_vars, NEW q \in Requests, phase[q] \in Committed
  PROVE  ask' = ask /\ phase'[q] \in Committed /\ slot'[q] = slot[q]
<1> DEFINE Goal == ask' = ask /\ phase'[q] \in Committed /\ slot'[q] = slot[q]
<1> USE DEF Typed, TypeOK, Committed, Scanning, MoveTo
<1>1. ASSUME NEW r \in Requests, Receive(r) \/ Read(r) \/ Insert(r) \/ ReferenceClash(r)
      PROVE  Goal
  BY <1>1 DEF Receive, Read, Insert, ReferenceClash, NextRound
<1>2. ASSUME NEW r \in Requests, Accept(r) \/ Lose(r) \/ DeadlockVictim(r)
      PROVE  Goal
  BY <1>2 DEF Accept, Lose, DeadlockVictim, NextRound
<1>3. ASSUME NEW r \in Requests,
             Commit(r) \/ Abort(r) \/ Release(r) \/ CommitRelease(r) \/ Dispute(r)
      PROVE  Goal
  BY <1>3 DEF Commit, Abort, Release, CommitRelease, Dispute
<1>4. ASSUME UNCHANGED <<ask, phase, slot>> PROVE Goal
  BY <1>4
<1>5. QED
  BY <1>1, <1>2, <1>3, <1>4 DEF Next, SetActive, vars

(* Only a read that offers nothing, or a scan that meets a committed row,  *)
(* answers a request with 409.                                             *)
LEMMA OnlyTheseRefuse ==
  ASSUME Typed, [Next]_vars, ~ReferencesCollide, NEW r \in Requests,
         phase'[r] \in {"refused", "gaveup"}, phase[r] \notin {"refused", "gaveup"}
  PROVE  (Read(r) /\ Offered(r) = {}) \/ (Lose(r) /\ phase[r] = "placed")
<1> DEFINE Goal == (Read(r) /\ Offered(r) = {}) \/ (Lose(r) /\ phase[r] = "placed")
<1> USE DEF Typed, TypeOK, Scanning, MoveTo
<1>1. ASSUME NEW q \in Requests, Receive(q) \/ Read(q) \/ Insert(q) \/ ReferenceClash(q)
      PROVE  Goal
  BY <1>1 DEF Receive, Read, Insert, ReferenceClash
<1>2. ASSUME NEW q \in Requests, Accept(q) \/ Lose(q) \/ DeadlockVictim(q)
      PROVE  Goal
  BY <1>2 DEF Accept, Lose, DeadlockVictim, NextRound
<1>3. ASSUME NEW q \in Requests,
             Commit(q) \/ Abort(q) \/ Release(q) \/ CommitRelease(q) \/ Dispute(q)
      PROVE  Goal
  BY <1>3 DEF Commit, Abort, Release, CommitRelease, Dispute
<1>4. ASSUME UNCHANGED phase PROVE Goal
  BY <1>4
<1>5. QED
  BY <1>1, <1>2, <1>3, <1>4 DEF Next, SetActive, vars

LEMMA RefusalStep ==
  ASSUME Typed, NamedBayKept, RefusalHasWinner, [Next]_vars
  PROVE  RefusalHasWinner'
<1>1. ASSUME NEW r \in Requests, NEW q \in Requests, Winner(r, q)
      PROVE  Winner(r, q)'
  BY <1>1, CommittedStable DEF Winner, Committed
<1>2. ASSUME ~ReferencesCollide, NEW r \in Requests,
             phase'[r] \in {"refused", "gaveup"}, ask'[r].bay # NoBay
      PROVE  \E q \in Requests : Winner(r, q)
  <2>1. ask[r].bay # NoBay
    BY <1>2, RowSteps
  <2>2. CASE phase[r] \in {"refused", "gaveup"}
    BY <1>2, <2>1, <2>2 DEF RefusalHasWinner
  <2>3. CASE Read(r) /\ Offered(r) = {}
    <3>1. PICK q \in Requests : /\ Visible(q)
                                /\ slot[q] = ask[r].bay
                                /\ Overlaps(ask[q].window, ask[r].window)
      BY <2>1, <2>3 DEF Offered, TakenSlots
    <3>2. QED
      BY <2>3, <3>1 DEF Winner, Visible, Read
  <2>4. CASE Lose(r) /\ phase[r] = "placed"
    <3>1. PICK q \in Conflicts(r) : phase[q] = "booked"
      BY <2>4 DEF Lose
    <3>2. slot[r] = ask[r].bay
      BY <2>1, <2>4 DEF NamedBayKept, Assigned, InHeap, Scanning
    <3>3. QED
      BY <3>1, <3>2 DEF Winner, Conflicts
  <2>5. QED
    BY <1>2, <2>2, <2>3, <2>4, OnlyTheseRefuse
<1>3. QED
  BY <1>1, <1>2 DEF RefusalHasWinner

(* A 409 for a named bay always points at a row that was committed on it,  *)
(* however many undecided or rolled-back rivals raced: service.py:279-290. *)
THEOREM RefusalExplained == Spec => []RefusalHasWinner
<1> DEFINE I == Typed /\ NamedBayKept /\ SlotAssigned /\ RefusalHasWinner
<1>1. Init => I
  BY TypedInit, BaysInit DEF Init, RefusalHasWinner
<1>2. I /\ [Next]_vars => I'
  BY TypedStep, BaysStep, RefusalStep
<1>3. QED
  BY <1>1, <1>2, PTL DEF Spec
-----------------------------------------------------------------------------
ClaimOf(q) == [booking |-> q, slot |-> slot[q], window |-> ask[q].window]

LEMMA InvariantStep == IInv /\ [Next]_vars => IInv'
BY TypedStep, ExclusiveStep, BaysStep, RefusalStep DEF IInv

(* A commit claims the bay: no visible row clashes with a settled one. *)
LEMMA CommitClaims ==
  ASSUME IInv, NEW r \in Requests, Commit(r)
  PROVE  Calendar!Next
<1>1. ClaimOf(r) \in Calendar!Claims
  BY DEF ClaimOf, Calendar!Claims, IInv, Typed, TypeOK, SlotAssigned, Assigned, InHeap, Commit
<1>2. ASSUME NEW d \in claimsBar
      PROVE  d.booking # r /\ ~Calendar!Clash(ClaimOf(r), d)
  <2>1. PICK q \in Requests : Visible(q) /\ d = ClaimOf(q)
    BY <1>2 DEF claimsBar, ClaimOf
  <2>2. q # r
    BY <2>1 DEF Visible, Commit
  <2>3. slot[r] = slot[q] => ~Overlaps(ask[r].window, ask[q].window)
    BY <2>1, <2>2 DEF IInv, SettledExclusive, Settled, Visible, Commit
  <2>4. QED
    BY <2>1, <2>2, <2>3 DEF ClaimOf, Calendar!Clash, Calendar!Overlaps, Overlaps
<1>3. claimsBar' = claimsBar \cup {ClaimOf(r)}
  <2>1. /\ \A q \in Requests : Visible(q)' <=> (Visible(q) \/ q = r)
        /\ ask' = ask /\ slot' = slot
    BY DEF Commit, MoveTo, Visible, IInv, Typed, TypeOK
  <2>2. QED
    BY <2>1 DEF claimsBar, ClaimOf
<1>4. Calendar!Claim(ClaimOf(r))
  BY <1>2, <1>3 DEF Calendar!Claim, ClaimOf
<1>5. QED
  BY <1>1, <1>4 DEF Calendar!Next

(* A committed release gives the bay back. *)
LEMMA CommitReleases ==
  ASSUME IInv, NEW r \in Requests, CommitRelease(r)
  PROVE  Calendar!Next
<1>1. ClaimOf(r) \in Calendar!Claims /\ ClaimOf(r) \in claimsBar
  BY DEF ClaimOf, claimsBar, Visible, Calendar!Claims, IInv, Typed, TypeOK, SlotAssigned,
         Assigned, InHeap, CommitRelease
<1>2. claimsBar' = claimsBar \ {ClaimOf(r)}
  <2>1. /\ \A q \in Requests : Visible(q)' <=> (Visible(q) /\ q # r)
        /\ ask' = ask /\ slot' = slot
    BY DEF CommitRelease, MoveTo, Visible, IInv, Typed, TypeOK
  <2>2. \A q \in Requests : ClaimOf(q) = ClaimOf(r) => q = r
    BY DEF ClaimOf
  <2>3. QED
    BY <2>1, <2>2 DEF claimsBar, ClaimOf
<1>3. QED
  BY <1>1, <1>2 DEF Calendar!Next, Calendar!Release

(* Every other step leaves the committed blocking rows as they are. *)
LEMMA OthersStutter ==
  ASSUME IInv, [Next]_vars,
         \A r \in Requests : ~Commit(r) /\ ~CommitRelease(r)
  PROVE  claimsBar' = claimsBar
<1>1. ASSUME NEW q \in Requests
      PROVE  Visible(q)' <=> Visible(q)
  <2> DEFINE Goal == Visible(q)' <=> Visible(q)
  <2> USE DEF IInv, Typed, TypeOK, Visible, Scanning, MoveTo
  <2>1. ASSUME NEW r \in Requests, Receive(r) \/ Read(r) \/ Insert(r) \/ ReferenceClash(r)
        PROVE  Goal
    BY <2>1 DEF Receive, Read, Insert, ReferenceClash, NextRound
  <2>2. ASSUME NEW r \in Requests, Accept(r) \/ Lose(r) \/ DeadlockVictim(r)
        PROVE  Goal
    BY <2>2 DEF Accept, Lose, DeadlockVictim, NextRound
  <2>3. ASSUME NEW r \in Requests, Abort(r) \/ Release(r) \/ Dispute(r)
        PROVE  Goal
    BY <2>3 DEF Abort, Release, Dispute
  <2>4. ASSUME UNCHANGED phase PROVE Goal
    BY <2>4
  <2>5. QED
    BY <2>1, <2>2, <2>3, <2>4 DEF Next, SetActive, vars
<1>2. ASSUME NEW q \in Requests, Visible(q)
      PROVE  ask' = ask /\ slot'[q] = slot[q]
  BY <1>2, CommittedStable DEF IInv, Visible, Committed
<1>3. QED
  BY <1>1, <1>2 DEF claimsBar

(* The racing requests, with all their retries, waits and rollbacks, do    *)
(* what the abstract calendar does: SlotCalendar is the contract of        *)
(* bookings/models.py:70-73.                                               *)
THEOREM CreateImplementsCalendar == Spec => ImplementsCalendar
<1>1. Init => IInv /\ Calendar!Init
  BY TypedInit, BaysInit
  DEF Init, IInv, SettledExclusive, Settled, RefusalHasWinner, Calendar!Init, claimsBar, Visible
<1>2. IInv /\ [Next]_vars => [Calendar!Next]_claimsBar
  BY CommitClaims, CommitReleases, OthersStutter
<1>3. QED
  BY <1>1, <1>2, InvariantStep, PTL DEF Spec, ImplementsCalendar, Calendar!Spec
=============================================================================
