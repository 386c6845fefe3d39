------------------------------- MODULE MCQuotes -------------------------------
(***************************************************************************)
(* Instances for TLC of the requests that calculate, and of the reports    *)
(* and payouts that work with what the calculation stored on a booking.    *)
(*                                                                         *)
(* The two share no variable: a behaviour is one of a single part.         *)
(***************************************************************************)
EXTENDS Quotes, Payouts

VARIABLE part   \* the part that moves

McInit == part \in {"quote", "payout"} /\ Init /\ PayoutInit

(* A bound: only one clerk resolves, except that two resolve reports of    *)
(* the same booking while nothing is paid out.                             *)
Resolving == {q \in Clerks : desk[q].at \in {"others", "resolve"}}

FewResolve ==
  \/ Resolving \subseteq {CHOOSE q \in Clerks : TRUE}
  \/ /\ Rows(payouts) = {} /\ \A q \in Requests : desk[q].at # "payout"
     /\ \A p, q \in Resolving : reports[desk[p].report].deal = reports[desk[q].report].deal

McNext ==
  /\ UNCHANGED part
  /\ \/ part = "quote" /\ Next /\ UNCHANGED payoutVars
     \/ part = "payout" /\ PayoutNext /\ FewResolve' /\ UNCHANGED vars

McSpec == McInit /\ [][McNext]_<<part, vars, payoutVars>>

(* Answers and rows are well-formed, and whoever is on the way holds what  *)
(* the next step needs.                                                    *)
McTypeOK == TypeOK /\ PayoutTypeOK

(* One weekday's rules: closed, part of the day, two windows with a gap,   *)
(* two that touch, the whole day, and one that is switched off.            *)
DayRules ==
  {{}, {<<0, 2, TRUE>>}, {<<1, 3, TRUE>>}, {<<0, 1, TRUE>>, <<2, 3, TRUE>>},
   {<<0, 1, TRUE>>, <<1, 3, TRUE>>}, {<<0, 3, FALSE>>}}

RulesOf(week) == UNION {{[day |-> d, from |-> r[1], to |-> r[2], active |-> r[3]] : r \in week[d]} : d \in DOMAIN week}

McWeekRules == {RulesOf(week) : week \in [0 .. 2 -> DayRules]}

(* Windows that start on the second day, at or between minutes. *)
McWindows == {w \in [start : 6 .. 11, end : 7 .. 33] : w.start < w.end}

OpenWeek == RulesOf([d \in 0 .. 2 |-> {<<0, 1, TRUE>>, <<1, 3, TRUE>>}])

McListings ==
  [rules  : {{}, OpenWeek, RulesOf([d \in 0 .. 2 |-> IF d = 1 THEN {<<0, 1, TRUE>>, <<2, 3, TRUE>>} ELSE {}])},
   blocks : {{}, {[start |-> 9, end |-> 12]}},
   booked : SUBSET {[slot |-> 0, window |-> [start |-> 6, end |-> 12]],
                    [slot |-> 1, window |-> [start |-> 10, end |-> 16]],
                    [slot |-> 2, window |-> [start |-> 0, end |-> 14]]},
   total  : 0 .. 2]

(* Local midnights around every end of a month of 2024, a leap year. *)
McStarts == {DayMinutes * d : d \in UNION {(FirstDay[m] - 3) .. (FirstDay[m] + 1) : m \in 1 .. 13}}

McHourStarts == {0, 30, 1410}

McQuantities == {1, 2, 3, 6, 11, 12, 13, 59, 60, 61}

(* An agreement and the one that follows it, one not yet signed, one that  *)
(* was ended, and two that start on the same day.                          *)
McTerms ==
  LET Agreement(start, end, status, share) ==
        [start |-> start, end |-> end, status |-> status, share |-> share]
      first == Agreement(1, NoEnd, "ACTIVE", 6667)
  IN  {{}, {first, Agreement(2, 2, "ACTIVE", 10000)}, {first, Agreement(1, 3, "ACTIVE", 0)},
       {Agreement(1, 3, "DRAFT", 0), Agreement(1, 3, "TERMINATED", 0), Agreement(1, 1, "ACTIVE", 0)}}

McConfigs ==
  [fee        : {500},
   tax        : {1800},
   commission : {0, 1500, 3333},
   tiers      : {{}, {[hours |-> 24, pct |-> 10000], [hours |-> 2, pct |-> 5000]},
                 {[hours |-> 6, pct |-> 0], [hours |-> 2, pct |-> 3333], [hours |-> 12, pct |-> 7500]}},
   otherwise  : {0, 1000},
   grace      : {0, 15},
   increment  : {15, 7},
   meter      : {60},
   multiplier : {150}]

(* What create stored on the bookings that payouts collect: different sums, *)
(* so that two payouts that mix bookings up pay different amounts.          *)
McEarning ==
  LET config == CHOOSE c \in McConfigs : c.commission = 3333
  IN  [d \in Deals |-> Calculate(5005, 50 * d, NoShare, config).earning]

McBookings == {[base |-> 10001, booked |-> 60], [base |-> 300, booked |-> 1440]}
=============================================================================
