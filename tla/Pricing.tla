------------------------------- MODULE Pricing -------------------------------
(***************************************************************************)
(* Durations, prices, refunds and the overstay meter (bookings/pricing.py, *)
(* bookings/overstay.py).                                                  *)
(*                                                                         *)
(* Pure operators.  Instants are minutes of the local clock from 1 January *)
(* 2024 on.  A datetime also has a UTC offset, and its calendar fields are *)
(* those of that offset: `zone` is how far its wall clock is behind the    *)
(* local one (0 for local time, UtcOffset for UTC).  Money is in paise,    *)
(* quantities in hundredths of a unit, percentages in hundredths of a      *)
(* percent, the overstay multiplier in hundredths.                         *)
(***************************************************************************)
EXTENDS Integers, Sequences, FiniteSetsExt, SequencesExt

CONSTANTS
  DayMinutes,   \* minutes in a day (1440)
  UtcOffset,    \* settings.timezone against UTC (330)
  MaxMonths,    \* longest monthly booking counted (60)
  Horizon       \* last month of the model's calendar (a bound)

ASSUME DurationAssumption == {DayMinutes, MaxMonths, Horizon} \subseteq Nat \ {0} /\ UtcOffset \in Nat

NoQuantity == -1   \* InvalidDuration

(* What a setting or an agreement may say, in hundredths of a percent. *)
Percentages == 0 .. 10000

(* money: ROUND_HALF_UP of n / d, for amounts that are not negative. *)
RoundHalfUp(n, d) == (2 * n + d) \div (2 * d)

Percent(amount, pct) == RoundHalfUp(amount * pct, 10000)

-----------------------------------------------------------------------------
(* Months are numbered from January 2024. *)
DaysInMonth(m) ==
  LET month == (m % 12) + 1
      year  == 2024 + m \div 12
  IN  CASE month = 2 -> IF year % 4 = 0 THEN 29 ELSE 28
        [] month \in {4, 6, 9, 11} -> 30
        [] OTHER -> 31

FirstDay ==
  LET days[m \in 0 .. Horizon] == IF m = 0 THEN 0 ELSE days[m - 1] + DaysInMonth(m - 1)
  IN  [m \in 0 .. Horizon |-> days[m]]

MonthOf(day) == Max({m \in 0 .. Horizon : FirstDay[m] <= day})

(* add_months, clamping to the last valid day, in the datetime's own zone. *)
AddMonths(moment, months, zone) ==
  LET wall == moment - zone
      day  == wall \div DayMinutes
      from == MonthOf(day)
      into == from + months
      dom  == Min({day - FirstDay[from], DaysInMonth(into) - 1})
  IN  (FirstDay[into] + dom) * DayMinutes + (wall % DayMinutes) + zone

IsLocalMidnight(t) == t % DayMinutes = 0

(* [Mutant of Cursor] later months go on from the first one, clamped.      *)
CursorStepwise(start, months, zone) ==
  IF months = 0 THEN start ELSE AddMonths(AddMonths(start, 1, zone), months - 1, zone)

(* Where quantity_for looks for the end, a number of months on.            *)
Cursor(start, months, zone) == AddMonths(start, months, zone)

(* quantity_for: the billable units of a window, if it fits the unit.  The *)
(* loop over months stops at the first one not before the end.             *)
QuantityFor(unit, start, end, slotMinutes, zone) ==
  LET minutes   == end - start
      midnights == IsLocalMidnight(start) /\ IsLocalMidnight(end)
      reached   == {k \in 0 .. MaxMonths : Cursor(start, k, zone) >= end}
      months    == Min(reached \cup {MaxMonths})
  IN  CASE end > start /\ unit = "HOURLY" /\ minutes % slotMinutes = 0 -> RoundHalfUp(100 * minutes, 60)
        [] end > start /\ unit = "DAILY" /\ midnights -> 100 * (minutes \div DayMinutes)
        [] end > start /\ unit = "MONTHLY" /\ midnights /\ Cursor(start, months, zone) = end -> 100 * months
        [] OTHER -> NoQuantity

(* end_for *)
EndFor(unit, start, quantity, zone) ==
  CASE unit = "HOURLY" -> start + 60 * quantity
    [] unit = "DAILY"  -> start + DayMinutes * quantity
    [] OTHER           -> AddMonths(start, quantity, zone)

-----------------------------------------------------------------------------
(* A config has the rules of PlatformConfig: fee, tax, commission, tiers   *)
(* (a set of [hours, pct]), otherwise, grace, increment, meter (minutes)   *)
(* and multiplier.  NoShare: no society agreement applies.                 *)
NoShare == -1

(* active_agreement: ACTIVE, started and not ended on that day (a day or   *)
(* NoEnd); of several, the one that started last, any of them if they      *)
(* started together.                                                       *)
NoEnd == -1

ActiveAgreements(agreements, on) ==
  LET inForce == {a \in agreements : /\ a.status = "ACTIVE" /\ a.start <= on
                                     /\ a.end = NoEnd \/ a.end >= on}
  IN  {a \in inForce : \A b \in inForce : b.start <= a.start}

(* _provider_share_for: the shares that may be found.                      *)
SharesOn(agreements, on) ==
  LET found == ActiveAgreements(agreements, on)
  IN  IF found = {} THEN {NoShare} ELSE {a.share : a \in found}

(* [Mutant of Calculate] both sides of the split are rounded on their own. *)
CalculateBothSides(unitPrice, quantity, share, config) ==
  LET base       == RoundHalfUp(unitPrice * quantity, 100)
      fee        == Percent(base, config.fee)
      tax        == Percent(fee, config.tax)
      commission == IF share # NoShare THEN Percent(base, 10000 - share) ELSE Percent(base, config.commission)
      earning    == IF share # NoShare THEN Percent(base, share) ELSE Percent(base, 10000 - config.commission)
  IN  [base |-> base, fee |-> fee, tax |-> tax, total |-> base + fee + tax,
       commission |-> commission, earning |-> earning]

(* calculate: the price breakdown; a society's share overrides the commission. *)
Calculate(unitPrice, quantity, share, config) ==
  LET base       == RoundHalfUp(unitPrice * quantity, 100)
      fee        == Percent(base, config.fee)
      tax        == Percent(fee, config.tax)
      earning    == IF share # NoShare THEN Percent(base, share) ELSE base - Percent(base, config.commission)
      commission == IF share # NoShare THEN base - earning ELSE Percent(base, config.commission)
  IN  [base |-> base, fee |-> fee, tax |-> tax, total |-> base + fee + tax,
       commission |-> commission, earning |-> earning]

(* CancellationPolicy keeps its tiers sorted, the tightest first. *)
SortedTiers(config) ==
  CHOOSE seq \in [1 .. Cardinality(config.tiers) -> config.tiers] :
    /\ config.tiers = {seq[i] : i \in DOMAIN seq}
    /\ \A i, j \in DOMAIN seq : i < j => seq[i].hours >= seq[j].hours

(* refund_for: the first tier that matches. *)
RefundFor(total, hoursBefore, config) ==
  LET tiers == SortedTiers(config)
      first == SelectInSeq(tiers, LAMBDA t : hoursBefore >= t.hours)
  IN  Percent(total, IF first = 0 THEN config.otherwise ELSE tiers[first].pct)

-----------------------------------------------------------------------------
(* [Mutant of BillableMinutes] counted from the end of the grace period,   *)
(* without looking whether it is over.                                     *)
BillableUnguarded(over, config) ==
  LET shown == Min({over, config.meter}) - config.grace
  IN  ((shown + config.increment - 1) \div config.increment) * config.increment

(* billable_minutes, `over` minutes after the end of the booking. *)
BillableMinutes(over, config) ==
  LET shown == Min({over, config.meter})
  IN  IF shown <= config.grace THEN 0
      ELSE ((shown + config.increment - 1) \div config.increment) * config.increment

(* amount_for: hourly_rate spreads the base over the minutes booked. *)
AmountFor(base, booked, over, config) ==
  RoundHalfUp(base * config.multiplier * BillableMinutes(over, config), 100 * booked)

(* [Mutant of AmountDue] once something is paid, nothing is due. *)
AmountDueNone(due, paid, already) == IF paid THEN 0 ELSE due

(* quote: what the live meter says is due; `already` is overstay_amount as *)
(* last frozen.                                                            *)
AmountDue(due, paid, already) == IF paid THEN Max({due - already, 0}) ELSE due
=============================================================================
