---------------------------- MODULE Availability ----------------------------
(***************************************************************************)
(* When a space can be booked (availability/service.py), how the search    *)
(* filters by it (parking/service.py, _filter_by_availability) and what    *)
(* the provider's calendar shows (build_calendar).                         *)
(*                                                                         *)
(* Pure operators.  Instants are ticks of the local clock from a Monday    *)
(* midnight on; a tick is finer than the minute that rules are written in, *)
(* so that windows which start or end between minutes are there too.  A    *)
(* listing is what the queries read: its rules, blocks and blocking        *)
(* bookings, and its number of bays.                                       *)
(***************************************************************************)
EXTENDS Periods, Sequences, FiniteSets, SequencesExt

CONSTANTS
  DaysInWeek,      \* DAYS_IN_WEEK (7)
  MinutesPerDay,   \* MINUTES_PER_DAY (1440)
  TicksPerMinute   \* resolution of instants

ASSUME CalendarAssumption ==
  {DaysInWeek, MinutesPerDay, TicksPerMinute} \subseteq Nat \ {0}

Units == {"HOURLY", "DAILY", "MONTHLY"}

DayTicks == MinutesPerDay * TicksPerMinute

DateOf(t) == t \div DayTicks

(* The datetimes of local midnights. *)
Midnight(day) == day * DayTicks

(* Whole minutes since the midnight of `day`. *)
MinutesSince(day, t) == (t - Midnight(day)) \div TicksPerMinute

Weekday(day) == day % DaysInWeek

Larger(a, b)  == IF a > b THEN a ELSE b
Smaller(a, b) == IF a < b THEN a ELSE b

-----------------------------------------------------------------------------
(* Intervals, <<start, end>>, in the order of tuples. *)
Ordered(intervals) ==
  CHOOSE seq \in [1 .. Cardinality(intervals) -> intervals] :
    /\ intervals = {seq[k] : k \in DOMAIN seq}
    /\ \A k, l \in DOMAIN seq :
         k < l => seq[k][1] < seq[l][1] \/ (seq[k][1] = seq[l][1] /\ seq[k][2] <= seq[l][2])

(* Sort and coalesce overlapping or touching intervals. *)
MergeIntervals(intervals) ==
  LET ordered == Ordered(intervals)
      Join(merged, i) ==
        LET top == merged[Len(merged)]
        IN  IF merged # <<>> /\ i[1] <= top[2]
            THEN [merged EXCEPT ![Len(merged)] = <<top[1], Larger(top[2], i[2])>>]
            ELSE Append(merged, i)
      upTo[k \in 0 .. Len(ordered)] == IF k = 0 THEN <<>> ELSE Join(upTo[k - 1], ordered[k])
  IN  upTo[Len(ordered)]

(* Rules are [day, from, to, active] records, minutes of a weekday. *)
IntervalsForWeekday(rules, weekday) ==
  MergeIntervals({<<r.from, r.to>> : r \in {q \in rules : q.active /\ q.day = weekday}})

(* Whether minutes from .. to lie entirely within the (merged) intervals:  *)
(* the cursor moves right until a gap opens or the end is reached.         *)
Covers(intervals, from, to) ==
  LET Move(cursor, i) ==
        IF cursor.gap \/ cursor.at >= to THEN cursor
        ELSE IF i[1] > cursor.at THEN [at |-> cursor.at, gap |-> TRUE]
        ELSE [at |-> Larger(cursor.at, i[2]), gap |-> FALSE]
      walk[k \in 0 .. Len(intervals)] ==
        IF k = 0 THEN [at |-> from, gap |-> FALSE] ELSE Move(walk[k - 1], intervals[k])
      end == walk[Len(intervals)]
  IN  from >= to \/ (~end.gap /\ end.at >= to)

(* [Mutant of WeekdaysTouched] the run is taken to start on a Monday. *)
WeekdaysFromMonday(first, span) == {d % DaysInWeek : d \in 0 .. span - 1}

(* The weekdays a run of `span` days covers; a week or more covers all. *)
WeekdaysTouched(first, span) ==
  IF span >= DaysInWeek THEN 0 .. DaysInWeek - 1
  ELSE {Weekday(Weekday(first) + offset) : offset \in 0 .. span - 1}

(* rules_cover_window, decided from the set of weekdays. *)
RulesCoverWindow(rules, w, unit) ==
  LET firstDay    == DateOf(w.start)
      firstMinute == MinutesSince(firstDay, w.start)
      endDay      == DateOf(w.end - 1)
      \* the last day is clipped by less than a minute: it does not count
      clipped     == endDay > firstDay /\ MinutesSince(endDay, w.end) = 0
      lastDay     == IF clipped THEN endDay - 1 ELSE endDay
      lastMinute  == IF clipped THEN MinutesPerDay ELSE MinutesSince(endDay, w.end)
      span        == lastDay - firstDay + 1
      HoursOf(d)  == IntervalsForWeekday(rules, Weekday(d))
  IN  /\ w.start < w.end
      /\ span > 1 \/ lastMinute > firstMinute
      /\ CASE unit # "HOURLY" ->
                \A d \in WeekdaysTouched(firstDay, span) : IntervalsForWeekday(rules, d) # <<>>
           [] unit = "HOURLY" /\ span = 1 ->
                Covers(HoursOf(firstDay), firstMinute, lastMinute)
           [] OTHER ->
                /\ Covers(HoursOf(firstDay), firstMinute, MinutesPerDay)
                /\ Covers(HoursOf(lastDay), 0, lastMinute)
                /\ \A d \in WeekdaysTouched(firstDay + 1, span - 2) :
                     Covers(IntervalsForWeekday(rules, d), 0, MinutesPerDay)

(* daily_segments: the window split into [day, from, to] per calendar day. *)
DailySegments(w) ==
  LET Segment(d) == [day  |-> d,
                     from |-> MinutesSince(d, Larger(w.start, Midnight(d))),
                     to   |-> MinutesSince(d, Smaller(w.end, Midnight(d + 1)))]
  IN  {s \in {Segment(d) : d \in DateOf(w.start) .. DateOf(w.end - 1)} : s.to > s.from}

-----------------------------------------------------------------------------
(* A listing: [rules, blocks (periods), booked ([slot, window] records of  *)
(* bookings in a blocking status), total].                                 *)
Capacity(listing) == Larger(listing.total, 1)

Blocked(listing, w) == \E b \in listing.blocks : Overlaps(b, w)

SlotsTaken(listing, w) == {b.slot : b \in {c \in listing.booked : Overlaps(c.window, w)}}

(* assert_available without a bay named: the bay it returns, if any. *)
AssertAvailable(listing, w, unit) ==
  LET free == (0 .. Capacity(listing) - 1) \ SlotsTaken(listing, w)
  IN  IF /\ listing.rules # {}
         /\ RulesCoverWindow(listing.rules, w, unit)
         /\ ~Blocked(listing, w)
      THEN {s \in free : \A t \in free : s <= t}
      ELSE {}

(* get_bays: the bays the picker shows free, of a listing with some bays   *)
(* out of service.                                                         *)
FreeBays(listing, w, inactive) == (0 .. Capacity(listing) - 1) \ (SlotsTaken(listing, w) \cup inactive)

(* assert_bookable, and ... *)
BayExists(listing, slot, inactive) == slot \in 0 .. Capacity(listing) - 1 /\ slot \notin inactive

(* ... assert_available, for the bay a renter has named.                   *)
BayAvailable(listing, w, unit, slot) ==
  /\ listing.rules # {}
  /\ RulesCoverWindow(listing.rules, w, unit)
  /\ ~Blocked(listing, w)
  /\ slot \notin SlotsTaken(listing, w)

(* [Mutant of FullyBooked] off by one. *)
FullyBookedPast(listing, w) == Cardinality(SlotsTaken(listing, w)) > Capacity(listing)

(* _fully_booked_space_ids counts the distinct bays taken. *)
FullyBooked(listing, w) == Cardinality(SlotsTaken(listing, w)) >= Capacity(listing)

(* _filter_by_availability keeps the listing among the hits. *)
Shown(listing, w, unit) ==
  /\ ~Blocked(listing, w)
  /\ ~FullyBooked(listing, w)
  /\ listing.rules # {}
  /\ RulesCoverWindow(listing.rules, w, unit)

DayOf(day) == [start |-> Midnight(day), end |-> Midnight(day + 1)]

(* [Mutant of IsOpen] bookings are counted at the start of the day only. *)
IsOpenAtMidnight(listing, day) ==
  /\ IntervalsForWeekday(listing.rules, Weekday(day)) # <<>>
  /\ ~Blocked(listing, DayOf(day))
  /\ Cardinality(SlotsTaken(listing, [start |-> Midnight(day), end |-> Midnight(day) + 1])) < Capacity(listing)

(* DayAvailability.is_open, from what build_calendar collects for the day. *)
IsOpen(listing, day) ==
  /\ IntervalsForWeekday(listing.rules, Weekday(day)) # <<>>
  /\ ~Blocked(listing, DayOf(day))
  /\ Cardinality(SlotsTaken(listing, DayOf(day))) < Capacity(listing)
=============================================================================
