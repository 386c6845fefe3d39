---------------------------- MODULE BookingCreate ----------------------------
(***************************************************************************)
(* POST /bookings for one parking space, run by many requests at once.     *)
(*                                                                         *)
(* A request reads the taken bays, picks one, and inserts its row inside a *)
(* SAVEPOINT; only the exclusion constraint no_overlapping_bookings        *)
(* decides who wins.  A loser re-reads and tries again, five times at most *)
(* (bookings/service.py, create).  The row then lives on: the sweep, a     *)
(* cancellation or an early exit UPDATEs it out of the blocking statuses   *)
(* and releases the bay, and a serious report may UPDATE a finished row    *)
(* back into them (reports/service.py, create).                            *)
(*                                                                         *)
(* PostgreSQL evaluates an exclusion constraint after the new tuple is in  *)
(* the heap and the index: the writer scans for conflicting tuples, fails  *)
(* on a committed one, and WAITS for the transaction of an uncommitted     *)
(* one.  Two writers that see each other wait for each other, and the      *)
(* deadlock detector aborts one.  The model keeps these steps apart        *)
(* (Insert, Accept, Lose, DeadlockVictim) because the guarantee lives in   *)
(* their interleavings.                                                    *)
(***************************************************************************)
EXTENDS Periods

CONSTANTS
  Requests,          \* the create requests; a request is also its row's id
  NumSlots,          \* ParkingSpace.total_slots
  Windows,           \* periods that may be asked for, [start, end) records
  MaxSlotRetries,    \* MAX_SLOT_RETRIES (5 in the code)
  NoBay,             \* slot_index is None: no bay named / none assigned yet
  AskedBays,         \* what renters ask for: bays by number, or NoBay
  Disputable,        \* rows that leave by completion, so may be disputed
  SwitchedBays,      \* bays the provider switches off and on
  ReferencesCollide  \* may generate_reference draw a reference already used?

Slots == 0 .. NumSlots - 1

ASSUME SlotsAssumption  == NumSlots \in Nat \ {0} /\ NoBay \notin Slots
ASSUME AskedAssumption  == AskedBays \subseteq Slots \cup {NoBay}
ASSUME SwitchAssumption == SwitchedBays \subseteq Slots
ASSUME DisputeAssumption == Disputable \subseteq Requests
ASSUME RetryAssumption  == MaxSlotRetries \in Nat \ {0}
ASSUME WindowAssumption ==
  \A w \in Windows : w \in Period /\ w.start < w.end
ASSUME ReferenceAssumption == ReferencesCollide \in BOOLEAN

VARIABLES
  ask,           \* what each request asks for: its window and its named bay
  phase,         \* where each request, and then its row, stands
  slot,          \* the bay the request last picked: the row's slot_index
  tries,         \* completed rounds of the retry loop
  outOfService   \* the bays whose ParkingBay.is_active is false

vars == <<ask, phase, slot, tries, outOfService>>

(***************************************************************************)
(* Phases of a request (transaction of create) and of its row.             *)
(*   new, reading, inserting    no tuple yet                               *)
(*   placed                     tuple inserted, constraint scan pending    *)
(*   held                       scan passed, transaction not committed     *)
(*   booked                     committed in a blocking status             *)
(*   releasing, released        UPDATE to a non-blocking status: flushed,  *)
(*                              then committed                             *)
(*   replaced, reheld           UPDATE back to DISPUTED: scan pending,     *)
(*                              then passed, transaction not committed     *)
(*   refused, gaveup, failed    409 from a read, 409 after the loop, 500   *)
(*   declined                   the named bay was out of service           *)
(***************************************************************************)
Phases == {"new", "reading", "inserting", "placed", "held", "booked",
           "releasing", "released", "replaced", "reheld",
           "refused", "gaveup", "failed", "declined"}

Scanning == {"placed", "replaced"}
InHeap   == Scanning \cup {"held", "booked", "releasing", "reheld"}
Answered == {"booked", "releasing", "released", "replaced", "reheld",
             "refused", "gaveup", "failed", "declined"}

-----------------------------------------------------------------------------
(* Rows other transactions can see in a blocking status: an uncommitted    *)
(* release is still invisible, an uncommitted insert is not there yet.     *)
Visible(q) == phase[q] \in {"booked", "releasing"}

(* taken_slots(): bays held over the window in a READ COMMITTED snapshot. *)
TakenSlots(r) ==
  {slot[q] : q \in {p \in Requests : Visible(p) /\ Overlaps(ask[p].window, ask[r].window)}}

(* [Mutant of Offered] a named bay that is taken falls back to a free one. *)
OfferedElsewhere(r) ==
  LET free == Slots \ TakenSlots(r)
  IN  IF ask[r].bay \in free THEN {ask[r].bay} ELSE {s \in free : \A t \in free : s <= t}

(* [Mutant of Offered] the search for a free bay runs one past the last. *)
OfferedOnePast(r) ==
  LET free == (0 .. NumSlots) \ TakenSlots(r)
  IN  IF ask[r].bay # NoBay
      THEN {ask[r].bay} \ TakenSlots(r)
      ELSE {s \in free : \A t \in free : s <= t}

(* find_free_slot() and assert_available(want_slot=...): the bays create   *)
(* may be handed -- the named one or the lowest free one.                  *)
Offered(r) ==
  LET free == Slots \ TakenSlots(r)
  IN  IF ask[r].bay # NoBay
      THEN {ask[r].bay} \ TakenSlots(r)
      ELSE {s \in free : \A t \in free : s <= t}

(* [Mutant of Conflicts] the check is a query in the code instead of an    *)
(* exclusion constraint: it sees committed rows only.                      *)
ConflictsCommitted(r) ==
  {q \in Requests \ {r} : /\ Visible(q)
                          /\ slot[q] = slot[r]
                          /\ Overlaps(ask[q].window, ask[r].window)}

(* The other tuples that no_overlapping_bookings would reject r's over. *)
Conflicts(r) ==
  {q \in Requests \ {r} : /\ phase[q] \in InHeap
                          /\ slot[q] = slot[r]
                          /\ Overlaps(ask[q].window, ask[r].window)}

(* attempts = 1 if chosen is not None else MAX_SLOT_RETRIES *)
Attempts(r) == IF ask[r].bay # NoBay THEN 1 ELSE MaxSlotRetries

(* [Mutant of NextRound] `while True` instead of a bounded loop. *)
NextRoundForever(r) ==
  /\ phase' = [phase EXCEPT ![r] = "reading"]
  /\ UNCHANGED tries

(* `continue`: the next round of the loop, or the 409 that follows it. *)
NextRound(r) ==
  /\ tries' = [tries EXCEPT ![r] = @ + 1]
  /\ phase' = [phase EXCEPT ![r] = IF tries[r] + 1 = Attempts(r) THEN "gaveup" ELSE "reading"]

MoveTo(r, p) == phase' = [phase EXCEPT ![r] = p]

-----------------------------------------------------------------------------
Init ==
  /\ ask \in [Requests -> [window : Windows, bay : AskedBays]]
  /\ phase = [r \in Requests |-> "new"]
  /\ slot  = [r \in Requests |-> NoBay]
  /\ tries = [r \in Requests |-> 0]
  /\ outOfService = {}

(* The request passes its validation.  bays.assert_bookable runs once,     *)
(* before the loop, and only for a bay the renter named.                   *)
Receive(r) ==
  /\ phase[r] = "new"
  /\ MoveTo(r, IF ask[r].bay \in outOfService THEN "declined" ELSE "reading")
  /\ UNCHANGED <<ask, slot, tries, outOfService>>

(* assert_available: a fresh read of the taken bays picks one, or refuses. *)
Read(r) ==
  /\ phase[r] = "reading"
  /\ \/ \E s \in Offered(r) : /\ slot' = [slot EXCEPT ![r] = s]
                              /\ MoveTo(r, "inserting")
     \/ /\ Offered(r) = {}
        /\ MoveTo(r, "refused")
        /\ UNCHANGED slot
  /\ UNCHANGED <<ask, tries, outOfService>>

(* begin_nested, add, flush: the tuple enters the heap and its index. *)
Insert(r) ==
  /\ phase[r] = "inserting"
  /\ MoveTo(r, "placed")
  /\ UNCHANGED <<ask, slot, tries, outOfService>>

(* The drawn reference is in use: the insert fails, `continue`. *)
ReferenceClash(r) ==
  /\ ReferencesCollide
  /\ phase[r] = "inserting"
  /\ NextRound(r)
  /\ UNCHANGED <<ask, slot, outOfService>>

(* The constraint scan meets no other tuple: the flush returns. *)
Accept(r) ==
  /\ phase[r] \in Scanning
  /\ Conflicts(r) = {}
  /\ MoveTo(r, IF phase[r] = "placed" THEN "held" ELSE "reheld")
  /\ UNCHANGED <<ask, slot, tries, outOfService>>

(* [Mutant of Lose] a rival that has not committed is reason enough to     *)
(* lose, as it would be with a NOWAIT lock.                                *)
LoseEarly(r) ==
  /\ phase[r] = "placed"
  /\ Conflicts(r) # {}
  /\ NextRound(r)
  /\ UNCHANGED <<ask, slot, outOfService>>

(* The scan meets a committed tuple: exclusion violation.  create rolls    *)
(* its SAVEPOINT back and loops; the report's transaction is a 500.        *)
Lose(r) ==
  /\ phase[r] \in Scanning
  /\ \E q \in Conflicts(r) : phase[q] = "booked"
  /\ IF phase[r] = "placed"
     THEN NextRound(r)
     ELSE MoveTo(r, "released") /\ UNCHANGED tries
  /\ UNCHANGED <<ask, slot, outOfService>>

(* Two scans wait for each other's transaction; PostgreSQL aborts one.     *)
(* The error is no IntegrityError, so create does not catch it: a 500.     *)
DeadlockVictim(r) ==
  /\ phase[r] \in Scanning
  /\ \E q \in Conflicts(r) : phase[q] \in Scanning
  /\ MoveTo(r, IF phase[r] = "placed" THEN "failed" ELSE "released")
  /\ UNCHANGED <<ask, slot, tries, outOfService>>

(* The request's db.commit(). *)
Commit(r) ==
  /\ phase[r] \in {"held", "reheld"}
  /\ MoveTo(r, "booked")
  /\ UNCHANGED <<ask, slot, tries, outOfService>>

(* A later step of the request raises, or its worker or connection dies:   *)
(* PostgreSQL rolls the transaction back.                                  *)
Abort(r) ==
  /\ \/ phase[r] \in {"reading", "inserting", "placed", "held"} /\ MoveTo(r, "failed")
     \/ phase[r] \in {"replaced", "reheld"} /\ MoveTo(r, "released")
     \/ phase[r] = "releasing" /\ MoveTo(r, "booked")
  /\ UNCHANGED <<ask, slot, tries, outOfService>>

(* A transaction UPDATEs the row out of the blocking statuses (expiry,     *)
(* rejection, cancellation, completion) and later commits.                 *)
Release(r) ==
  /\ phase[r] = "booked"
  /\ MoveTo(r, "releasing")
  /\ UNCHANGED <<ask, slot, tries, outOfService>>

CommitRelease(r) ==
  /\ phase[r] = "releasing"
  /\ MoveTo(r, "released")
  /\ UNCHANGED <<ask, slot, tries, outOfService>>

(* A serious report flags a COMPLETED row DISPUTED: blocking again. *)
Dispute(r) ==
  /\ r \in Disputable
  /\ phase[r] = "released"
  /\ MoveTo(r, "replaced")
  /\ UNCHANGED <<ask, slot, tries, outOfService>>

(* The provider takes a bay out of service or puts it back. *)
SetActive(s, active) ==
  /\ outOfService' = IF active THEN outOfService \ {s} ELSE outOfService \cup {s}
  /\ UNCHANGED <<ask, phase, slot, tries>>

-----------------------------------------------------------------------------
Next ==
  \/ \E r \in Requests :
       \/ Receive(r) \/ Read(r) \/ Insert(r) \/ ReferenceClash(r)
       \/ Accept(r) \/ Lose(r) \/ DeadlockVictim(r)
       \/ Commit(r) \/ Abort(r)
       \/ Release(r) \/ CommitRelease(r) \/ Dispute(r)
  \/ \E s \in SwitchedBays, active \in BOOLEAN : SetActive(s, active)

Spec == Init /\ [][Next]_vars

(***************************************************************************)
(* What keeps moving by itself.  A request that was received runs to its   *)
(* commit (or is aborted); PostgreSQL ends every lock wait, so a scan that *)
(* keeps becoming possible is eventually made: strong fairness, because a  *)
(* conflicting row may start and abandon releases meanwhile.  Renters,     *)
(* providers and crashes owe nothing.                                      *)
(***************************************************************************)
Scan(r) == Accept(r) \/ Lose(r) \/ DeadlockVictim(r)

Fairness ==
  \A r \in Requests :
    /\ WF_vars(Read(r)) /\ WF_vars(Insert(r)) /\ WF_vars(Commit(r))
    /\ SF_vars(Scan(r))
    /\ WF_vars(CommitRelease(r))

FairSpec == Spec /\ Fairness

-----------------------------------------------------------------------------
TypeOK ==
  /\ ask   \in [Requests -> [window : Windows, bay : AskedBays]]
  /\ phase \in [Requests -> Phases]
  /\ slot  \in [Requests -> Slots \cup {NoBay}]
  /\ tries \in [Requests -> 0 .. MaxSlotRetries]
  /\ outOfService \subseteq Slots

(* "Two renters must NEVER be able to successfully book the same parking   *)
(* space for overlapping time periods" (docs/PRD.md:408): no two committed *)
(* rows in a blocking status share a bay for any instant, whatever the     *)
(* order in which reads, inserts, waits, commits and releases interleave.  *)
NoDoubleBooking ==
  \A p, q \in Requests :
    p # q /\ Visible(p) /\ Visible(q) /\ slot[p] = slot[q]
      => ~Overlaps(ask[p].window, ask[q].window)

(* "A renter who named a bay gets that bay or nothing" (service.py:224),   *)
(* across lost races, retries and reference collisions.                    *)
NamedBayOrNothing ==
  \A r \in Requests :
    phase[r] \in InHeap \cup {"released"} /\ ask[r].bay # NoBay => slot[r] = ask[r].bay

(* A row of another transaction that got as far as committing on the bay   *)
(* r named, over r's window.                                               *)
Winner(r, q) ==
  /\ q # r
  /\ phase[q] \in {"booked", "releasing", "released", "replaced", "reheld"}
  /\ slot[q] = ask[r].bay
  /\ Overlaps(ask[q].window, ask[r].window)

(* A renter refused a named bay really lost it to somebody: a rival whose  *)
(* transaction was still undecided, or was rolled back, is never a reason  *)
(* to answer 409 (test_bays: six racers for one bay, exactly one wins).    *)
RefusalHasWinner ==
  ~ReferencesCollide =>
    \A r \in Requests :
      phase[r] \in {"refused", "gaveup"} /\ ask[r].bay # NoBay
        => \E q \in Requests : Winner(r, q)

(* The committed rows in a blocking status, as claims of SlotCalendar. *)
claimsBar ==
  {[booking |-> q, slot |-> slot[q], window |-> ask[q].window] :
     q \in {p \in Requests : Visible(p)}}

Calendar == INSTANCE SlotCalendar
              WITH Bookings <- Requests, claims <- claimsBar

(* The whole protocol implements the abstract calendar: commits are        *)
(* claims, committed releases are releases, everything else is invisible.  *)
ImplementsCalendar == Calendar!Spec

(* Every request that was received is answered: the loop is bounded and no *)
(* wait on another transaction is forever.                                 *)
EveryRequestAnswered ==
  \A r \in Requests : phase[r] = "reading" ~> phase[r] \in Answered
=============================================================================
