-------------------------------- MODULE Quotes --------------------------------
(***************************************************************************)
(* The requests that answer from pure calculation: the search for a        *)
(* window, the calendar, the price of a booking, its refund and the live   *)
(* overstay meter.                                                         *)
(*                                                                         *)
(* One request is answered at a time: `answer` is what it was asked and    *)
(* what it says.  The availability requests use a short week of short days *)
(* (Availability), the others the real calendar (Pricing).                 *)
(***************************************************************************)
EXTENDS Availability, Pricing

CONSTANTS
  WeekRules,   \* sets of rules of a listing
  Windows,     \* windows asked for, in ticks
  Listings,    \* listings asked about
  Starts,      \* starts of daily and monthly bookings, in local minutes
  HourStarts,  \* starts of hourly ones
  Quantities,  \* BookingCreate.quantity
  Zones,       \* the UTC offsets a client sends (0: local, UtcOffset: UTC)
  SlotMinutes, \* booking_slot_minutes
  WindowDays,  \* booking_max_window_days
  Amounts,     \* unit prices and totals, in paise
  Hundredths,  \* quantities priced, in hundredths of a unit
  Terms,       \* sets of a society's agreements (none for other providers)
  Days,        \* days on which a price is asked for
  Configs,     \* settings
  HoursLeft,   \* hours before the start, at a cancellation
  Bookings,    \* [base, booked (minutes)] of bookings with a meter
  MaxOver      \* minutes after the end that are looked at (a bound)

(* What the services, and the schemas of requests and settings, let        *)
(* through.  Windows are of instants; a listing has a number of slots, and *)
(* finitely many rules and bookings; a rule opens before it closes         *)
(* (end_after_start), blocks and bookings are of instants.                 *)
ASSUME SearchAssumption ==
  /\ \A w \in Windows : w.start \in Int /\ w.end \in Int
  /\ \A l \in Listings :
       /\ l.total \in Nat /\ IsFiniteSet(l.booked) /\ IsFiniteSet(l.rules)
       /\ \A r \in l.rules : {r.from, r.to} \subseteq 0 .. MinutesPerDay /\ r.from < r.to
       /\ \A b \in l.blocks \cup {c.window : c \in l.booked} : {b.start, b.end} \subseteq Int

(* A number of units is positive; days and months start at midnight; hours *)
(* are multiples of a slot; and the longest window is shorter than         *)
(* MaxMonths + 1 months.  The model's calendar is long enough.             *)
ASSUME LengthAssumption ==
  /\ Quantities \subseteq Nat \ {0} /\ HourStarts \subseteq Nat /\ Zones \subseteq Nat
  /\ SlotMinutes \in 1 .. 60 /\ 60 % SlotMinutes = 0
  /\ WindowDays \in Nat
  /\ WindowDays < 365 * ((MaxMonths + 1) \div 12) + 28 * ((MaxMonths + 1) % 12)
  /\ \A start \in Starts : start \in Nat /\ IsLocalMidnight(start)
  /\ \A start \in Starts, zone \in Zones, months \in Quantities \cup {MaxMonths} :
       start >= zone /\ MonthOf((start - zone) \div DayMinutes) + months < Horizon

(* Sums are whole paise, percentages at most 100. *)
ASSUME PriceAssumption ==
  /\ Amounts \subseteq Nat /\ Hundredths \subseteq Nat
  /\ \A terms \in Terms : \A a \in terms : a.share \in Percentages
  /\ \A c \in Configs :
       /\ c.commission \in Percentages /\ c.otherwise \in Percentages
       /\ IsFiniteSet(c.tiers)
       /\ \A t \in c.tiers : t.hours \in Nat /\ t.pct \in Percentages
  /\ HoursLeft \subseteq Nat

(* A booking has a length, and an increment is at least a minute. *)
ASSUME MeterAssumption ==
  /\ \A b \in Bookings : b.base \in Nat /\ b.booked \in Nat \ {0}
  /\ \A c \in Configs : /\ c.grace \in Nat /\ c.increment \in Nat \ {0}
                        /\ c.meter \in Nat /\ c.multiplier \in Nat
  /\ MaxOver \in Nat

VARIABLE answer

vars == <<answer>>

Idle == [ask |-> "none"]

Init == answer = Idle

(* GET /parking: is a listing with these rules open over the window. *)
AskCover(rules, w, unit) ==
  answer' = [ask |-> "cover", rules |-> rules, w |-> w, unit |-> unit,
              open |-> RulesCoverWindow(rules, w, unit)]

(* GET /parking, with a window: is the listing among the hits. *)
AskSearch(listing, w, unit) ==
  answer' = [ask |-> "search", listing |-> listing, w |-> w, unit |-> unit,
              shown |-> Shown(listing, w, unit)]

(* GET /parking/{id}/bays, with a window. *)
AskBays(listing, w, unit, inactive) ==
  answer' = [ask |-> "bays", listing |-> listing, w |-> w, unit |-> unit, inactive |-> inactive,
              free |-> FreeBays(listing, w, inactive)]

(* GET /parking/{id}/calendar, one day of it. *)
AskDay(listing, day) ==
  answer' = [ask |-> "day", listing |-> listing, day |-> day, open |-> IsOpen(listing, day)]

(* POST /bookings/quote, a start and a count of units: the window is       *)
(* resolved and bounded, its quantity is counted back.                     *)
AskEnd(unit, start, quantity, zone) ==
  LET end == EndFor(unit, start, quantity, zone)
  IN  /\ end - start <= WindowDays * DayMinutes
      /\ answer' = [ask |-> "end", unit |-> unit, start |-> start, quantity |-> quantity, end |-> end,
                    counted |-> QuantityFor(unit, start, end, SlotMinutes, zone)]

(* ... and priced. *)
AskPrice(unitPrice, quantity, agreements, on, config) ==
  \E share \in SharesOn(agreements, on) :
    answer' = [ask |-> "price", price |-> Calculate(unitPrice, quantity, share, config)]

(* The refund of a cancellation. *)
AskRefund(total, hours, config) ==
  answer' = [ask |-> "refund", total |-> total, hours |-> hours, config |-> config,
              refund |-> RefundFor(total, hours, config)]

MeterAt(b, over, paid, already, config) ==
  LET due == AmountFor(b.base, b.booked, over, config)
  IN  [ask |-> "meter", b |-> b, config |-> config, over |-> over, paid |-> paid, already |-> already,
       minutes |-> BillableMinutes(over, config), amount |-> due, due |-> AmountDue(due, paid, already)]

(* GET /bookings/{id}/overstay after the end of a booking, again a minute  *)
(* later, ...                                                              *)
AskMeter(b, over, config) ==
  answer' = MeterAt(b, over, FALSE, 0, config)

AskMeterLater ==
  /\ answer.ask = "meter"
  /\ answer.over < MaxOver
  /\ answer' = MeterAt(answer.b, answer.over + 1, answer.paid, answer.already, answer.config)

(* ... and after the frozen amount was paid (freeze, overstay_paid_at). *)
PayMeter ==
  /\ answer.ask = "meter"
  /\ answer.amount > 0
  /\ ~answer.paid
  /\ answer' = MeterAt(answer.b, answer.over, TRUE, answer.amount, answer.config)

(* The answer is sent. *)
Answered ==
  /\ answer # Idle
  /\ answer' = Idle

(* One of the requests comes in. *)
Ask ==
  /\ answer = Idle
  /\ \/ \E rules \in WeekRules, w \in Windows, unit \in Units \ {"MONTHLY"} : AskCover(rules, w, unit)
     \/ \E listing \in Listings, w \in Windows, unit \in Units \ {"MONTHLY"} : AskSearch(listing, w, unit)
     \/ \E listing \in Listings, w \in Windows, unit \in Units \ {"MONTHLY"}, inactive \in {{}, {0}} :
          AskBays(listing, w, unit, inactive)
     \/ \E listing \in Listings, day \in 0 .. DaysInWeek - 1 : AskDay(listing, day)
     \/ \E start \in Starts, q \in Quantities, zone \in Zones, unit \in {"DAILY", "MONTHLY"} :
          AskEnd(unit, start, q, zone)
     \/ \E start \in HourStarts, q \in Quantities, zone \in Zones : AskEnd("HOURLY", start, q, zone)
     \/ \E p \in Amounts, q \in Hundredths, a \in Terms, on \in Days, c \in Configs :
          AskPrice(p, q, a, on, c)
     \/ \E t \in Amounts, h \in HoursLeft, c \in Configs : AskRefund(t, h, c)
     \/ \E b \in Bookings, over \in 0 .. MaxOver, c \in Configs : AskMeter(b, over, c)

Next == Ask \/ AskMeterLater \/ PayMeter \/ Answered

Spec == Init /\ [][Next]_vars

-----------------------------------------------------------------------------
(* Every answer is one of these requests', with numbers of the right kind. *)
TypeOK ==
  /\ answer.ask \in {"none", "cover", "search", "bays", "day", "end", "price", "refund", "meter"}
  /\ answer.ask = "end" => answer.counted \in Nat \cup {NoQuantity}
  /\ answer.ask = "meter" => {answer.minutes, answer.amount, answer.due} \subseteq Nat

(* "The two agree exactly" (rules_cover_window): deciding from the set of  *)
(* weekdays says what walking the window day by day (daily_segments) says, *)
(* for windows of any length, starting and ending between minutes.  A      *)
(* window that no whole minute of any day is part of is not open.          *)
CoverAgreesWithWalk ==
  answer.ask = "cover" =>
    LET segments == DailySegments(answer.w)
        Open(s)  == LET intervals == IntervalsForWeekday(answer.rules, Weekday(s.day))
                    IN  IF answer.unit = "HOURLY" THEN Covers(intervals, s.from, s.to)
                        ELSE intervals # <<>>
    IN  answer.open <=> segments # {} /\ \A s \in segments : Open(s)

(* "Principle 4: never show unavailable parking as available" (search):    *)
(* what the search's own queries let through, a booking of the window      *)
(* would get a bay for, also when bookings hold bays above the present     *)
(* number (a listing whose capacity was cut); and a bay that the picker of *)
(* such a listing shows free is one that a renter may name, and no other.  *)
ShownIsAvailable ==
  /\ answer.ask = "search" =>
       (answer.shown => AssertAvailable(answer.listing, answer.w, answer.unit) # {})
  /\ answer.ask = "bays" /\ Shown(answer.listing, answer.w, answer.unit) =>
       \A slot \in 0 .. answer.listing.total :
         slot \in answer.free <=> /\ BayExists(answer.listing, slot, answer.inactive)
                                 /\ BayAvailable(answer.listing, answer.w, answer.unit, slot)

(* A day the provider's calendar shows as open can be booked as a day, and *)
(* by the hour in each of its windows.                                     *)
OpenDayHasRoom ==
  answer.ask = "day" /\ answer.open =>
    LET windows == IntervalsForWeekday(answer.listing.rules, Weekday(answer.day))
        At(i)   == [start |-> Midnight(answer.day) + TicksPerMinute * windows[i][1],
                    end   |-> Midnight(answer.day) + TicksPerMinute * windows[i][2]]
    IN  /\ AssertAvailable(answer.listing, DayOf(answer.day), "DAILY") # {}
        /\ \A i \in DOMAIN windows : AssertAvailable(answer.listing, At(i), "HOURLY") # {}

(* end_for is the "Inverse of quantity_for": a window resolved from a      *)
(* count of units is priced for that count, whatever the month lengths and *)
(* the offset the client sent, up to the longest window allowed.           *)
EndForInverse == answer.ask = "end" => answer.counted = 100 * answer.quantity

(* Months follow the calendar of the parking space: a monthly booking ends *)
(* on the local day add_months gives ("Monthly bookings must end on the    *)
(* same day of a later month", quantity_for).                              *)
MonthEndsOnSameLocalDay ==
  answer.ask = "end" /\ answer.unit = "MONTHLY" =>
    answer.end = AddMonths(answer.start, answer.quantity, 0)

(* Commission and earning share the base price out: no paisa is lost or    *)
(* made by the two roundings, whichever agreement of a society is in force *)
(* (calculate); and a cancellation gives back what the tightest tier it    *)
(* still meets says, in whatever order an admin listed the tiers, never    *)
(* more than the total (refund_for).                                       *)
MoneyConserved ==
  /\ answer.ask = "price" =>
       /\ answer.price.commission + answer.price.earning = answer.price.base
       /\ {answer.price.commission, answer.price.earning} \subseteq Nat
  /\ answer.ask = "refund" =>
       LET met == {t \in answer.config.tiers : t.hours <= answer.hours}
       IN  /\ answer.refund \in 0 .. answer.total
           /\ IF met = {} THEN answer.refund = Percent(answer.total, answer.config.otherwise)
              ELSE \E t \in met : /\ \A other \in met : other.hours <= t.hours
                                  /\ answer.refund = Percent(answer.total, t.pct)

(* The meter bills the time over in whole increments, from the end of the  *)
(* booking once the grace period is over and up to an increment past the   *)
(* time it may run; and what was paid and what it says is still due add up *)
(* to the whole: paying neither hides later minutes nor bills them twice.  *)
MeterChargesOnce ==
  answer.ask = "meter" =>
    LET shown == Smaller(answer.over, answer.config.meter)
    IN  /\ answer.minutes % answer.config.increment = 0
        /\ answer.minutes # 0 <=> shown > answer.config.grace
        /\ answer.minutes # 0 => answer.minutes - shown \in 0 .. answer.config.increment - 1
        /\ answer.paid => answer.already + answer.due = answer.amount
=============================================================================
