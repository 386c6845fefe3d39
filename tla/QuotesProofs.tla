----------------------------- MODULE QuotesProofs -----------------------------
(***************************************************************************)
(* Theorems about the requests that calculate (Quotes), for any rules,     *)
(* windows, listings, prices and settings that the assumptions of Quotes   *)
(* admit, and about their composition with the payouts (MCQuotes).         *)
(*                                                                         *)
(* The invariant, Answer, says of every answer that it is what the service *)
(* computes for the question it carries; each theorem is then one about    *)
(* the operators:                                                          *)
(*   - the set of weekdays and the walk day by day see the same minutes,   *)
(*     because every day between the first and the last is whole;          *)
(*   - sorting and joining intervals keeps the minutes in them, and the    *)
(*     walk over them stops at the first minute that is in none;           *)
(*   - a bay is free when fewer slots are taken than there are, by         *)
(*     counting, whatever slots the bookings name;                         *)
(*   - the two sides of a price add up, because one is what the other      *)
(*     leaves; the first tier met of a sorted list is the tightest one;    *)
(*   - months later is later and a year has at least 365 days, so counting *)
(*     months stops at the end that was resolved, below MaxMonths;         *)
(*   - the amount due grows with the time over, so what was paid is never  *)
(*     more than what the meter shows.                                     *)
(***************************************************************************)
EXTENDS MCQuotes, PayoutsProofs, FiniteSetTheorems, SequenceTheorems, WellFoundedInduction

(* Every answer is what the service computes for the question it carries.  *)
CoverAnswer(a) ==
  /\ a.w \in Windows /\ a.unit \in {"HOURLY", "DAILY"}
  /\ a.open = RulesCoverWindow(a.rules, a.w, a.unit)

SearchAnswer(a) == a.listing \in Listings /\ a.shown = Shown(a.listing, a.w, a.unit)

BaysAnswer(a) == a.listing \in Listings /\ a.free = FreeBays(a.listing, a.w, a.inactive)

DayAnswer(a) ==
  a.listing \in Listings /\ a.day \in 0 .. DaysInWeek - 1 /\ a.open = IsOpen(a.listing, a.day)

Asks(unit, start) ==
  /\ unit \in Units
  /\ IF unit = "HOURLY" THEN start \in HourStarts ELSE start \in Starts

EndAnswer(a) ==
  /\ Asks(a.unit, a.start) /\ a.quantity \in Quantities
  /\ a.end - a.start <= WindowDays * DayMinutes
  /\ \E zone \in Zones : /\ a.end = EndFor(a.unit, a.start, a.quantity, zone)
                         /\ a.counted = QuantityFor(a.unit, a.start, a.end, SlotMinutes, zone)

PriceAnswer(a) ==
  \E unitPrice \in Amounts, quantity \in Hundredths, share \in {NoShare} \cup Percentages, config \in Configs :
    a.price = Calculate(unitPrice, quantity, share, config)

RefundAnswer(a) ==
  /\ a.total \in Amounts /\ a.hours \in HoursLeft /\ a.config \in Configs
  /\ a.refund = RefundFor(a.total, a.hours, a.config)

(* What was paid is what the meter said when it was, and what it said      *)
(* earlier is not more than what it says now.                              *)
MeterAnswer(a) ==
  /\ a.b \in Bookings /\ a.config \in Configs /\ a.over \in Nat
  /\ a.paid \in BOOLEAN /\ a.already \in Nat
  /\ a = MeterAt(a.b, a.over, a.paid, a.already, a.config)
  /\ a.paid => a.already <= a.amount

Answer ==
  /\ answer.ask \in {"none", "cover", "search", "bays", "day", "end", "price", "refund", "meter"}
  /\ answer.ask = "cover" => CoverAnswer(answer)
  /\ answer.ask = "search" => SearchAnswer(answer)
  /\ answer.ask = "bays" => BaysAnswer(answer)
  /\ answer.ask = "day" => DayAnswer(answer)
  /\ answer.ask = "end" => EndAnswer(answer)
  /\ answer.ask = "price" => PriceAnswer(answer)
  /\ answer.ask = "refund" => RefundAnswer(answer)
  /\ answer.ask = "meter" => MeterAnswer(answer)

LEMMA SharesAreShares ==
  ASSUME NEW terms \in Terms, NEW on, NEW share \in SharesOn(terms, on)
  PROVE  share \in {NoShare} \cup Percentages
<1> DEFINE found == ActiveAgreements(terms, on)
<1>1. found \subseteq terms
  BY DEF ActiveAgreements
<1>2. \A a \in terms : a.share \in Percentages
  BY PriceAssumption
<1>3. found = {} => share = NoShare
  BY DEF SharesOn
<1>4. found # {} => share \in {a.share : a \in found}
  BY DEF SharesOn
<1> HIDE DEF found
<1>5. QED
  BY <1>1, <1>2, <1>3, <1>4

LEMMA AnswerInit == Init => Answer
BY DEF Init, Idle, Answer

-----------------------------------------------------------------------------
(* Division. *)
LEMMA QuotientIs ==
  ASSUME NEW a \in Int, NEW d \in Nat \ {0}, NEW q \in Int, NEW r \in 0 .. d - 1, a = d * q + r
  PROVE  a \div d = q /\ a % d = r
OBVIOUS

LEMMA Quotient ==
  ASSUME NEW a \in Int, NEW d \in Nat \ {0}
  PROVE  /\ a \div d \in Int /\ a % d \in 0 .. d - 1
         /\ a = d * (a \div d) + (a % d)
<1>1. d * (a \div d) <= a /\ a < d * (a \div d) + d
  OBVIOUS
<1>2. PICK q \in Int, r \in 0 .. d - 1 : a = d * q + r
  BY <1>1, a - d * (a \div d) \in 0 .. d - 1
<1>3. QED
  BY <1>2, QuotientIs

LEMMA Multiples ==
  ASSUME NEW d \in Nat \ {0}, NEW q \in Int
  PROVE  /\ d * q \in Int /\ (d * q) % d = 0 /\ 0 % d = 0
         /\ q < 0 => d * q <= - d
         /\ q >= 0 => d * q >= 0
<1>1. d * q = d * q + 0 /\ 0 \in 0 .. d - 1
  OBVIOUS
<1>2. (d * q) % d = 0
  BY <1>1, QuotientIs
<1>3. 0 % d = 0
  OBVIOUS
<1>4. q < 0 => d * q <= - d
  OBVIOUS
<1>5. q >= 0 => d * q >= 0
  OBVIOUS
<1>6. QED
  BY <1>2, <1>3, <1>4, <1>5

LEMMA QuotientGrows ==
  ASSUME NEW a \in Int, NEW b \in Int, a <= b, NEW d \in Nat \ {0}
  PROVE  a \div d <= b \div d
OBVIOUS

LEMMA RoundGrows ==
  ASSUME NEW a \in Nat, NEW b \in Nat, a <= b, NEW d \in Nat \ {0}
  PROVE  /\ RoundHalfUp(a, d) \in Nat
         /\ RoundHalfUp(a, d) <= RoundHalfUp(b, d)
BY DEF RoundHalfUp

LEMMA LeastOfTwo ==
  ASSUME NEW a \in Int, NEW b \in Int
  PROVE  Min({a, b}) = Smaller(a, b)
BY DEF Min, Smaller

-----------------------------------------------------------------------------
(* Finite sets, lines of their elements, and runs of steps. *)
LEMMA LeastOf ==
  ASSUME NEW S, S \subseteq Nat, S # {}
  PROVE  \E m \in S : \A n \in S : m <= n
<1> DEFINE R == OpToRel(<, Nat)
<1>1. \A i, j \in Nat : i < j => <<i, j>> \in R
  BY DEF OpToRel
<1>2. IsWellFoundedOn(R, Nat)
  BY NatLessThanWellFounded
<1> HIDE DEF R
<1>3. PICK m \in S : \A n \in S : <<n, m>> \notin R
  BY <1>2, WFMin
<1>4. ASSUME NEW n \in S PROVE m <= n
  <2>1. ~(n < m)
    BY <1>1, <1>3
  <2>2. QED
    BY <2>1
<1>5. QED
  BY <1>3, <1>4

(* Numbers that start at zero and go on by one are all of them. *)
LEMMA Stepwise ==
  ASSUME NEW S, 0 \in S, \A n \in Nat : n \in S => n + 1 \in S
  PROVE  Nat \subseteq S
<1> SUFFICES ASSUME Nat \ S # {} PROVE FALSE
  OBVIOUS
<1>1. PICK n \in Nat \ S : \A m \in Nat \ S : n <= m
  BY LeastOf
<1>2. n # 0 /\ n - 1 \in Nat /\ n - 1 + 1 = n
  OBVIOUS
<1>3. n - 1 \in S
  BY <1>1, <1>2
<1>4. QED
  BY <1>2, <1>3

(* A finite set can be lined up along a relation, when each of its parts   *)
(* has a last element.                                                     *)
Line(T, R, seq) ==
  /\ seq \in [1 .. Cardinality(T) -> T]
  /\ T = {seq[i] : i \in DOMAIN seq}
  /\ \A i, j \in DOMAIN seq : i < j => <<seq[i], seq[j]>> \in R

(* The last element goes to the end of a line of the others. *)
LEMMA AddLast ==
  ASSUME NEW T, IsFiniteSet(T), NEW R, NEW x \in T, \A y \in T : <<y, x>> \in R,
         NEW s, Line(T \ {x}, R, s)
  PROVE  \E seq : Line(T, R, seq)
<1> DEFINE n == Cardinality(T)
           rest == T \ {x}
           seq == [i \in 1 .. n |-> IF i = n THEN x ELSE s[i]]
<1>1. IsFiniteSet(rest) /\ Cardinality(rest) = n - 1 /\ n \in Nat /\ Cardinality(rest) \in Nat
  BY FS_RemoveElement, FS_CardinalityType
<1>2. /\ s \in [1 .. n - 1 -> rest] /\ rest = {s[i] : i \in 1 .. n - 1}
      /\ \A i, j \in 1 .. n - 1 : i < j => <<s[i], s[j]>> \in R
  BY <1>1 DEF Line
<1>3. n \in 1 .. n /\ (\A i \in 1 .. n : i = n \/ i \in 1 .. n - 1) /\ \A i \in 1 .. n - 1 : i \in 1 .. n /\ i # n
  BY <1>1
<1> HIDE DEF n
<1>4. /\ \A i \in 1 .. n - 1 : seq[i] = s[i] /\ s[i] \in T
      /\ seq[n] = x /\ DOMAIN seq = 1 .. n
  BY <1>2, <1>3
<1>5. seq \in [1 .. n -> T]
  BY <1>2, <1>3
<1> HIDE DEF seq
<1>6. T = {seq[i] : i \in 1 .. n}
  <2>1. \A t \in T : t = x \/ t \in rest
    OBVIOUS
  <2>2. \A t \in rest : \E i \in 1 .. n - 1 : t = s[i]
    BY <1>2
  <2> HIDE DEF rest
  <2>3. \A t \in T : \E i \in 1 .. n : t = seq[i]
    BY <1>3, <1>4, <2>1, <2>2
  <2>4. \A i \in 1 .. n : seq[i] \in T
    BY <1>5
  <2>5. QED
    BY <2>3, <2>4
<1>7. \A i, j \in 1 .. n : i < j => <<seq[i], seq[j]>> \in R
  <2> SUFFICES ASSUME NEW i \in 1 .. n, NEW j \in 1 .. n, i < j PROVE <<seq[i], seq[j]>> \in R
    OBVIOUS
  <2>1. i \in 1 .. n - 1
    BY <1>1, <1>3
  <2>2. CASE j = n
    BY <1>4, <2>1, <2>2
  <2>3. CASE j # n
    BY <1>2, <1>3, <1>4, <2>1, <2>3
  <2>4. QED
    BY <2>2, <2>3
<1>8. Line(T, R, seq)
  BY <1>4, <1>5, <1>6, <1>7 DEF Line, n
<1>9. QED
  BY <1>8

(* No smallest part lacks a line. *)
LEMMA CanBeLinedUp ==
  ASSUME NEW S, IsFiniteSet(S), NEW R,
         \A U \in SUBSET S : U # {} => \E x \in U : \A y \in U : <<y, x>> \in R
  PROVE  \E seq : Line(S, R, seq)
<1> DEFINE Bad == {n \in Nat : \E T \in SUBSET S : Cardinality(T) = n /\ ~\E seq : Line(T, R, seq)}
<1>1. SUFFICES ASSUME Bad # {} PROVE FALSE
  <2>1. Cardinality(S) \in Nat
    BY FS_CardinalityType
  <2>2. QED
    BY <1>1, <2>1
<1>2. PICK n \in Bad : \A m \in Bad : n <= m
  BY <1>1, LeastOf
<1>3. PICK T \in SUBSET S : Cardinality(T) = n /\ ~\E seq : Line(T, R, seq)
  BY <1>2
<1>4. IsFiniteSet(T)
  BY FS_Subset
<1>5. CASE T = {}
  <2> DEFINE seq == [i \in 1 .. 0 |-> i]
  <2>1. Cardinality(T) = 0
    BY <1>5, FS_EmptySet
  <2>2. 1 .. 0 = {}
    OBVIOUS
  <2>3. Line(T, R, seq)
    BY <1>5, <2>1, <2>2 DEF Line
  <2>4. QED
    BY <1>3, <2>3
<1>6. CASE T # {}
  <2>1. PICK x \in T : \A y \in T : <<y, x>> \in R
    BY <1>6
  <2>2. ~\E s : Line(T \ {x}, R, s)
    BY <1>3, <1>4, <2>1, AddLast
  <2>3. Cardinality(T \ {x}) = n - 1 /\ Cardinality(T \ {x}) \in Nat
    BY <1>3, <1>4, FS_RemoveElement, FS_CardinalityType
  <2>4. T \ {x} \in SUBSET S
    OBVIOUS
  <2>5. Cardinality(T \ {x}) \in Bad
    BY <2>2, <2>3, <2>4
  <2> HIDE DEF Bad
  <2>6. n <= Cardinality(T \ {x})
    BY <1>2, <2>5
  <2>7. n \in Nat
    BY <1>3, <1>4, FS_CardinalityType
  <2>8. QED
    BY <2>3, <2>6, <2>7
<1>7. QED
  BY <1>5, <1>6

(* A run of steps over 1 .. n is a function. *)
Runs(f, base, step, n) ==
  f[0] = base /\ \A k \in 1 .. n : f[k] = step[<<k, f[k - 1]>>]

(* By induction on its length. *)
LEMMA RunExists ==
  ASSUME NEW n \in Nat, NEW V, NEW base \in V, NEW step \in [(1 .. n) \X V -> V]
  PROVE  \E f \in [0 .. n -> V] : Runs(f, base, step, n)
<1> DEFINE S == {k \in Nat : k <= n => \E f \in [0 .. k -> V] : Runs(f, base, step, k)}
<1>1. 0 \in S
  <2> DEFINE f == [k \in 0 .. 0 |-> base]
  <2>1. f \in [0 .. 0 -> V] /\ Runs(f, base, step, 0)
    BY DEF Runs
  <2>2. QED
    BY <2>1
<1>2. ASSUME NEW k \in Nat, k \in S PROVE k + 1 \in S
  <2> SUFFICES ASSUME k + 1 <= n PROVE \E f \in [0 .. k + 1 -> V] : Runs(f, base, step, k + 1)
    OBVIOUS
  <2>1. PICK f \in [0 .. k -> V] : Runs(f, base, step, k)
    BY <1>2
  <2> HIDE DEF S
  <2>2. PICK next \in V : next = step[<<k + 1, f[k]>>]
    <3>1. k \in 0 .. k /\ k + 1 \in 1 .. n
      OBVIOUS
    <3>2. <<k + 1, f[k]>> \in (1 .. n) \X V
      BY <2>1, <3>1
    <3>3. QED
      BY <3>2
  <2> DEFINE more == [i \in 0 .. k + 1 |-> IF i = k + 1 THEN next ELSE f[i]]
  <2>3. more \in [0 .. k + 1 -> V]
    OBVIOUS
  <2>4. more[k + 1] = next /\ \A i \in 0 .. k : more[i] = f[i]
    OBVIOUS
  <2> HIDE DEF more
  <2>5. ASSUME NEW i \in 1 .. k + 1 PROVE more[i] = step[<<i, more[i - 1]>>]
    <3>1. CASE i = k + 1
      <4>1. i - 1 = k /\ k \in 0 .. k
        BY <3>1
      <4>2. QED
        BY <2>2, <2>4, <3>1, <4>1
    <3>2. CASE i # k + 1
      <4>1. i \in 1 .. k /\ i \in 0 .. k /\ i - 1 \in 0 .. k
        BY <3>2
      <4>2. QED
        BY <2>1, <2>4, <4>1 DEF Runs
    <3>3. QED
      BY <3>1, <3>2
  <2>6. more[0] = base
    BY <2>1, <2>4 DEF Runs
  <2>7. QED
    BY <2>3, <2>5, <2>6 DEF Runs
<1> HIDE DEF S
<1>3. n \in S
  BY <1>1, <1>2, Stepwise
<1>4. QED
  BY <1>3 DEF S

-----------------------------------------------------------------------------
(* The meter. *)
LEMMA Bills ==
  ASSUME NEW past \in Nat, NEW c \in Configs
  PROVE  LET minutes == BillableMinutes(past, c)
             shown   == Smaller(past, c.meter)
         IN  /\ minutes \in Nat /\ minutes % c.increment = 0
             /\ minutes # 0 <=> shown > c.grace
             /\ minutes # 0 => minutes - shown \in 0 .. c.increment - 1
<1> DEFINE shown == Smaller(past, c.meter)
           step  == c.increment
           count == (shown + step - 1) \div step
<1>1. c.grace \in Nat /\ step \in Nat \ {0} /\ c.meter \in Nat
  BY MeterAssumption
<1>2. shown \in Nat /\ Min({past, c.meter}) = shown
  BY <1>1, LeastOfTwo DEF Smaller
<1>3. BillableMinutes(past, c) = IF shown <= c.grace THEN 0 ELSE count * step
  BY <1>2 DEF BillableMinutes
<1> HIDE DEF shown, step
<1>4. /\ count \in Int
      /\ (shown + step - 1) % step \in 0 .. step - 1
      /\ shown + step - 1 = step * count + ((shown + step - 1) % step)
  <2> DEFINE end == shown + step - 1
  <2>1. end \in Int
    BY <1>1, <1>2
  <2> HIDE DEF end
  <2>2. end \div step \in Int /\ end % step \in 0 .. step - 1 /\ end = step * (end \div step) + (end % step)
    BY <1>1, <2>1, Quotient
  <2>3. QED
    BY <2>2 DEF end
<1> HIDE DEF count
<1>5. count \in Nat
  <2>1. step * count > - step
    BY <1>1, <1>2, <1>4
  <2>2. QED
    BY <1>1, <1>4, <2>1, Multiples
<1>6. count * step \in Nat /\ count * step - shown \in 0 .. step - 1
  <2> DEFINE whole == step * count
             rest  == (shown + step - 1) % step
  <2>1. whole \in Int /\ whole >= 0
    BY <1>1, <1>5, Multiples
  <2>2. count * step = whole
    BY <1>1, <1>5
  <2>3. rest \in 0 .. step - 1 /\ shown + step - 1 = whole + rest
    BY <1>4
  <2> HIDE DEF whole, rest
  <2>4. QED
    BY <1>1, <1>2, <2>1, <2>2, <2>3
<1>7. (count * step) % step = 0 /\ 0 % step = 0
  <2>1. count * step = step * count
    BY <1>1, <1>5
  <2>2. QED
    BY <1>1, <1>5, <2>1, Multiples
<1>8. QED
  BY <1>1, <1>2, <1>3, <1>6, <1>7 DEF shown, step

LEMMA BillsGrow ==
  ASSUME NEW past \in Nat, NEW later \in Nat, past <= later, NEW c \in Configs
  PROVE  BillableMinutes(past, c) <= BillableMinutes(later, c)
<1> DEFINE step == c.increment
           one == Smaller(past, c.meter)
           two == Smaller(later, c.meter)
<1>1. c.grace \in Nat /\ step \in Nat \ {0} /\ c.meter \in Nat
  BY MeterAssumption
<1>2. one \in Nat /\ two \in Nat /\ one <= two /\ Min({past, c.meter}) = one /\ Min({later, c.meter}) = two
  BY <1>1, LeastOfTwo DEF Smaller
<1>3. /\ BillableMinutes(past, c) = IF one <= c.grace THEN 0 ELSE ((one + step - 1) \div step) * step
      /\ BillableMinutes(later, c) = IF two <= c.grace THEN 0 ELSE ((two + step - 1) \div step) * step
  BY <1>2 DEF BillableMinutes
<1>4. BillableMinutes(later, c) \in Nat
  BY Bills
<1> HIDE DEF one, two, step
<1> DEFINE p == (one + step - 1) \div step
           q == (two + step - 1) \div step
<1>5. p <= q /\ p \in Int /\ q \in Int
  <2>1. one + step - 1 \in Int /\ two + step - 1 \in Int /\ one + step - 1 <= two + step - 1
    BY <1>1, <1>2
  <2>2. p \in Int /\ q \in Int
    BY <1>1, <2>1, Quotient
  <2>3. p <= q
    BY <1>1, <2>1, QuotientGrows
  <2>4. QED
    BY <2>2, <2>3
<1> HIDE DEF p, q
<1>6. p * step <= q * step
  <2>1. \A k \in Nat, n \in Nat : k * n >= 0
    OBVIOUS
  <2>2. (q - p) * step >= 0
    BY <1>1, <1>5, <2>1
  <2>3. q * step = p * step + (q - p) * step
    BY <1>1, <1>5
  <2>4. p * step \in Int /\ q * step \in Int /\ (q - p) * step \in Int
    BY <1>1, <1>5
  <2>5. QED
    BY <2>2, <2>3, <2>4
<1>7. CASE one <= c.grace
  BY <1>3, <1>4, <1>7
<1>8. CASE ~(one <= c.grace)
  <2>1. ~(two <= c.grace)
    BY <1>1, <1>2, <1>8
  <2>2. QED
    BY <1>3, <1>6, <1>8, <2>1 DEF p, q
<1>9. QED
  BY <1>7, <1>8

LEMMA AmountsGrow ==
  ASSUME NEW b \in Bookings, NEW past \in Nat, NEW later \in Nat, past <= later, NEW c \in Configs
  PROVE  /\ AmountFor(b.base, b.booked, past, c) \in Nat
         /\ AmountFor(b.base, b.booked, past, c) <= AmountFor(b.base, b.booked, later, c)
<1> DEFINE rate == b.base * c.multiplier
           one  == BillableMinutes(past, c)
           two  == BillableMinutes(later, c)
           full == 100 * b.booked
<1>1. b.base \in Nat /\ b.booked \in Nat \ {0} /\ c.multiplier \in Nat
  BY MeterAssumption
<1>2. rate \in Nat /\ full \in Nat \ {0}
  BY <1>1
<1>3. one \in Nat /\ two \in Nat /\ one <= two
  BY Bills, BillsGrow
<1> HIDE DEF rate, one, two, full
<1>4. rate * one \in Nat /\ rate * two \in Nat /\ rate * one <= rate * two
  BY <1>2, <1>3
<1>5. RoundHalfUp(rate * one, full) \in Nat /\ RoundHalfUp(rate * one, full) <= RoundHalfUp(rate * two, full)
  BY <1>2, <1>4, RoundGrows
<1>6. QED
  BY <1>5 DEF AmountFor, rate, one, two, full

-----------------------------------------------------------------------------
(* Every step keeps the invariant. *)
LEMMA MeterShows ==
  ASSUME NEW b \in Bookings, NEW past \in Nat, NEW paid \in BOOLEAN, NEW already \in Nat, NEW c \in Configs,
         paid => already <= AmountFor(b.base, b.booked, past, c),
         answer' = MeterAt(b, past, paid, already, c)
  PROVE  Answer'
<1>1. /\ answer'.ask = "meter" /\ answer'.b = b /\ answer'.over = past /\ answer'.paid = paid
      /\ answer'.already = already /\ answer'.config = c
      /\ answer'.amount = AmountFor(b.base, b.booked, past, c)
  BY DEF MeterAt
<1>2. MeterAnswer(answer')
  BY <1>1 DEF MeterAnswer
<1>3. QED
  BY <1>1, <1>2 DEF Answer

LEMMA AnswerStep == Answer /\ [Next]_vars => Answer'
<1> SUFFICES ASSUME Answer, [Next]_vars PROVE Answer'
  OBVIOUS
<1>1. ASSUME NEW rules \in WeekRules, NEW w \in Windows, NEW unit \in Units \ {"MONTHLY"}, AskCover(rules, w, unit)
      PROVE  Answer'
  <2>1. CoverAnswer(answer')
    BY <1>1 DEF AskCover, CoverAnswer, Units
  <2>2. QED
    BY <1>1, <2>1 DEF AskCover, Answer
<1>2. ASSUME NEW listing \in Listings, NEW w \in Windows, NEW unit \in Units \ {"MONTHLY"}, AskSearch(listing, w, unit)
      PROVE  Answer'
  <2>1. SearchAnswer(answer')
    BY <1>2 DEF AskSearch, SearchAnswer
  <2>2. QED
    BY <1>2, <2>1 DEF AskSearch, Answer
<1>3. ASSUME NEW listing \in Listings, NEW w \in Windows, NEW unit \in Units \ {"MONTHLY"},
             NEW inactive \in {{}, {0}}, AskBays(listing, w, unit, inactive)
      PROVE  Answer'
  <2>1. BaysAnswer(answer')
    BY <1>3 DEF AskBays, BaysAnswer
  <2>2. QED
    BY <1>3, <2>1 DEF AskBays, Answer
<1>4. ASSUME NEW listing \in Listings, NEW day \in 0 .. DaysInWeek - 1, AskDay(listing, day)
      PROVE  Answer'
  <2>1. DayAnswer(answer')
    BY <1>4 DEF AskDay, DayAnswer
  <2>2. QED
    BY <1>4, <2>1 DEF AskDay, Answer
<1>5. ASSUME NEW unit, NEW start, NEW q \in Quantities, NEW zone \in Zones, AskEnd(unit, start, q, zone), Asks(unit, start)
      PROVE  Answer'
  <2> DEFINE end == EndFor(unit, start, q, zone)
             counted == QuantityFor(unit, start, end, SlotMinutes, zone)
  <2>1. end - start <= WindowDays * DayMinutes
        /\ answer' = [ask |-> "end", unit |-> unit, start |-> start, quantity |-> q, end |-> end, counted |-> counted]
    BY <1>5 DEF AskEnd
  <2>2. \E z \in Zones : end = EndFor(unit, start, q, z) /\ counted = QuantityFor(unit, start, end, SlotMinutes, z)
    OBVIOUS
  <2> HIDE DEF end, counted
  <2>3. /\ answer'.ask = "end" /\ answer'.unit = unit /\ answer'.start = start /\ answer'.quantity = q
        /\ answer'.end = end /\ answer'.counted = counted
    BY <2>1
  <2>4. EndAnswer(answer')
    BY <1>5, <2>1, <2>2, <2>3 DEF EndAnswer
  <2>5. QED
    BY <2>3, <2>4 DEF Answer
<1>6. ASSUME NEW p \in Amounts, NEW q \in Hundredths, NEW a \in Terms, NEW on \in Days, NEW c \in Configs,
             AskPrice(p, q, a, on, c)
      PROVE  Answer'
  <2>1. PICK share \in SharesOn(a, on) : answer' = [ask |-> "price", price |-> Calculate(p, q, share, c)]
    BY <1>6 DEF AskPrice
  <2>2. share \in {NoShare} \cup Percentages
    BY SharesAreShares
  <2>3. answer'.ask = "price" /\ answer'.price = Calculate(p, q, share, c)
    BY <2>1
  <2>4. PriceAnswer(answer')
    BY <2>2, <2>3 DEF PriceAnswer
  <2>5. QED
    BY <2>3, <2>4 DEF Answer
<1>7. ASSUME NEW t \in Amounts, NEW h \in HoursLeft, NEW c \in Configs, AskRefund(t, h, c)
      PROVE  Answer'
  <2>1. RefundAnswer(answer')
    BY <1>7 DEF AskRefund, RefundAnswer
  <2>2. QED
    BY <1>7, <2>1 DEF AskRefund, Answer
<1>8. ASSUME NEW b \in Bookings, NEW past \in 0 .. MaxOver, NEW c \in Configs, AskMeter(b, past, c)
      PROVE  Answer'
  <2>1. past \in Nat /\ 0 \in Nat
    BY MeterAssumption
  <2>2. FALSE => 0 <= AmountFor(b.base, b.booked, past, c)
    OBVIOUS
  <2>3. FALSE \in BOOLEAN /\ answer' = MeterAt(b, past, FALSE, 0, c)
    BY <1>8 DEF AskMeter
  <2>4. QED
    BY <2>1, <2>2, <2>3, MeterShows, Zenon
<1>9. CASE AskMeterLater
  <2>1. answer.ask = "meter" /\ MeterAnswer(answer)
    BY <1>9 DEF AskMeterLater, Answer
  <2>2. answer.amount = AmountFor(answer.b.base, answer.b.booked, answer.over, answer.config)
    BY <2>1 DEF MeterAnswer, MeterAt
  <2>3. answer.b \in Bookings /\ answer.config \in Configs /\ answer.over \in Nat /\ answer.over + 1 \in Nat
        /\ answer.over <= answer.over + 1 /\ answer.paid \in BOOLEAN /\ answer.already \in Nat
    BY <2>1 DEF MeterAnswer
  <2>4. /\ answer.amount \in Nat
        /\ answer.amount <= AmountFor(answer.b.base, answer.b.booked, answer.over + 1, answer.config)
        /\ AmountFor(answer.b.base, answer.b.booked, answer.over + 1, answer.config) \in Nat
    BY <2>2, <2>3, AmountsGrow
  <2>5. answer.paid => answer.already <= AmountFor(answer.b.base, answer.b.booked, answer.over + 1, answer.config)
    BY <2>1, <2>3, <2>4 DEF MeterAnswer
  <2>6. QED
    BY <1>9, <2>3, <2>5, MeterShows DEF AskMeterLater
<1>10. CASE PayMeter
  <2>1. answer.ask = "meter" /\ MeterAnswer(answer)
    BY <1>10 DEF PayMeter, Answer
  <2>2. answer.amount = AmountFor(answer.b.base, answer.b.booked, answer.over, answer.config)
    BY <2>1 DEF MeterAnswer, MeterAt
  <2>3. answer.b \in Bookings /\ answer.config \in Configs /\ answer.over \in Nat /\ answer.amount \in Nat
    BY <2>1, <2>2, AmountsGrow DEF MeterAnswer
  <2>4. QED
    <3>1. TRUE => answer.amount <= AmountFor(answer.b.base, answer.b.booked, answer.over, answer.config)
      BY <2>2, <2>3
    <3>2. TRUE \in BOOLEAN /\ answer' = MeterAt(answer.b, answer.over, TRUE, answer.amount, answer.config)
      BY <1>10 DEF PayMeter
    <3>3. QED
      BY <2>3, <3>1, <3>2, MeterShows, Zenon
<1>11. CASE Answered
  BY <1>11 DEF Answered, Idle, Answer
<1>12. CASE UNCHANGED vars
  BY <1>12 DEF vars, Answer
<1>13. CASE Ask
  <2>1. \A unit \in {"DAILY", "MONTHLY"}, start \in Starts : Asks(unit, start)
    BY DEF Asks, Units
  <2>2. \A start \in HourStarts : Asks("HOURLY", start)
    BY DEF Asks, Units
  <2>3. QED
    BY <1>1, <1>2, <1>3, <1>4, <1>5, <1>6, <1>7, <1>8, <1>13, <2>1, <2>2 DEF Ask
<1>14. QED
  BY <1>9, <1>10, <1>11, <1>12, <1>13 DEF Next

(* Answer is an invariant. *)
LEMMA AnswerAlways == Spec => []Answer
BY AnswerInit, AnswerStep, PTL DEF Spec

(* The meter bills whole increments, only once the grace period is over,   *)
(* never an increment more than the time over, and what was paid and what  *)
(* is still due add up to the whole (overstay.py, quote and freeze).       *)
THEOREM MeterNeverBillsTwice == Spec => []MeterChargesOnce
<1>1. Answer => MeterChargesOnce
  <2> SUFFICES ASSUME Answer, answer.ask = "meter"
               PROVE  LET shown == Smaller(answer.over, answer.config.meter)
                      IN  /\ answer.minutes % answer.config.increment = 0
                          /\ answer.minutes # 0 <=> shown > answer.config.grace
                          /\ answer.minutes # 0 => answer.minutes - shown \in 0 .. answer.config.increment - 1
                          /\ answer.paid => answer.already + answer.due = answer.amount
    BY DEF MeterChargesOnce
  <2>1. MeterAnswer(answer)
    BY DEF Answer
  <2> DEFINE due == AmountFor(answer.b.base, answer.b.booked, answer.over, answer.config)
  <2>2. /\ answer.minutes = BillableMinutes(answer.over, answer.config)
        /\ answer.amount = due /\ answer.due = AmountDue(due, answer.paid, answer.already)
    BY <2>1 DEF MeterAnswer, MeterAt
  <2>3. answer.b \in Bookings /\ answer.config \in Configs /\ answer.over \in Nat /\ answer.paid \in BOOLEAN
        /\ answer.already \in Nat /\ (answer.paid => answer.already <= answer.amount)
    BY <2>1 DEF MeterAnswer
  <2>4. due \in Nat
    BY <2>3, AmountsGrow
  <2>5. answer.paid => answer.already + answer.due = answer.amount
    <3>1. SUFFICES ASSUME answer.paid PROVE answer.already + answer.due = answer.amount
      OBVIOUS
    <3>2. answer.due = Max({due - answer.already, 0}) /\ due - answer.already >= 0 /\ due - answer.already \in Int
      BY <2>2, <2>3, <2>4, <3>1 DEF AmountDue
    <3> HIDE DEF due
    <3>3. Max({due - answer.already, 0}) = due - answer.already
      BY <3>2 DEF Max
    <3>4. QED
      BY <2>2, <2>3, <2>4, <3>2, <3>3
  <2>6. QED
    BY <2>2, <2>3, <2>5, Bills
<1>2. QED
  BY <1>1, AnswerAlways, PTL

-----------------------------------------------------------------------------
(* The search and the bay picker. *)
(* The slots taken are finitely many, ...                                 *)
LEMMA TakenSlots ==
  ASSUME NEW listing \in Listings, NEW w
  PROVE  IsFiniteSet(SlotsTaken(listing, w))
<1> DEFINE S == {c \in listing.booked : Overlaps(c.window, w)}
           T == {b.slot : b \in S}
           f == [b \in S |-> b.slot]
<1>1. IsFiniteSet(listing.booked) /\ S \in SUBSET listing.booked
  BY SearchAssumption
<1>2. IsFiniteSet(S)
  BY <1>1, FS_Subset
<1>3. f \in Surjection(S, T)
  <2> HIDE DEF S
  <2>1. QED
    BY DEF Surjection
<1> HIDE DEF S, f, T
<1>4. IsFiniteSet(T)
  BY <1>2, <1>3, FS_Surjection
<1>5. QED
  BY <1>4 DEF T, S, SlotsTaken

(* ... so a listing that is not fully booked has a free one.               *)
LEMMA SlotLeft ==
  ASSUME NEW listing \in Listings, NEW w, ~FullyBooked(listing, w)
  PROVE  (0 .. Capacity(listing) - 1) \ SlotsTaken(listing, w) # {}
<1> DEFINE cap == Capacity(listing)
           taken == SlotsTaken(listing, w)
<1>1. cap \in Nat \ {0}
  BY SearchAssumption DEF Capacity, Larger
<1>2. IsFiniteSet(taken) /\ Cardinality(taken) \in Nat /\ ~(Cardinality(taken) >= cap)
  BY TakenSlots, FS_CardinalityType DEF FullyBooked
<1> HIDE DEF cap, taken
<1>3. Cardinality(0 .. cap - 1) = cap
  BY <1>1, FS_Interval
<1>4. ASSUME 0 .. cap - 1 \subseteq taken PROVE FALSE
  <2>1. Cardinality(0 .. cap - 1) <= Cardinality(taken)
    BY <1>2, <1>4, FS_Subset
  <2>2. QED
    BY <1>1, <1>2, <1>3, <2>1
<1>5. QED
  BY <1>4 DEF cap, taken

(* What is open, not blocked and not full gets a bay.                      *)
LEMMA BayFound ==
  ASSUME NEW listing \in Listings, NEW w, NEW unit, listing.rules # {},
         RulesCoverWindow(listing.rules, w, unit), ~Blocked(listing, w), ~FullyBooked(listing, w)
  PROVE  AssertAvailable(listing, w, unit) # {}
<1> DEFINE free == (0 .. Capacity(listing) - 1) \ SlotsTaken(listing, w)
<1>1. free # {} /\ free \subseteq Nat
  BY SlotLeft
<1>2. AssertAvailable(listing, w, unit) = {s \in free : \A t \in free : s <= t}
  BY DEF AssertAvailable
<1> HIDE DEF free
<1>3. PICK m \in free : \A t \in free : m <= t
  BY <1>1, LeastOf
<1>4. QED
  BY <1>2, <1>3

(* A listing among the hits of the search can be booked, also when it has  *)
(* bookings above its number of bays; and the picker shows exactly the     *)
(* bays that may be named (_filter_by_availability, get_bays).             *)
THEOREM ShownCanBeBooked == Spec => []ShownIsAvailable
<1>1. Answer => ShownIsAvailable
  <2>1. ASSUME Answer, answer.ask = "search", answer.shown
        PROVE  AssertAvailable(answer.listing, answer.w, answer.unit) # {}
    <3>1. answer.listing \in Listings /\ Shown(answer.listing, answer.w, answer.unit)
      BY <2>1 DEF Answer, SearchAnswer
    <3>2. QED
      BY <3>1, BayFound DEF Shown
  <2>2. ASSUME Answer, answer.ask = "bays", Shown(answer.listing, answer.w, answer.unit),
               NEW slot \in 0 .. answer.listing.total
        PROVE  slot \in answer.free <=> /\ BayExists(answer.listing, slot, answer.inactive)
                                       /\ BayAvailable(answer.listing, answer.w, answer.unit, slot)
    <3>1. answer.free = FreeBays(answer.listing, answer.w, answer.inactive)
      BY <2>2 DEF Answer, BaysAnswer
    <3>2. QED
      BY <2>2, <3>1 DEF FreeBays, BayExists, BayAvailable, Shown
  <2>3. QED
    BY <2>1, <2>2 DEF ShownIsAvailable
<1>2. QED
  BY <1>1, AnswerAlways, PTL

-----------------------------------------------------------------------------
(* The days of a window. *)
LEMMA Floor ==
  ASSUME NEW a \in Int, NEW d \in Nat \ {0}, NEW q, q = a \div d
  PROVE  q \in Int /\ d * q \in Int /\ d * q <= a /\ a < d * q + d
OBVIOUS

(* Days follow each other in the week. *)
LEMMA WeekdaysRun ==
  ASSUME NEW first \in Int, NEW span \in Int
  PROVE  WeekdaysTouched(first, span) = {Weekday(d) : d \in first .. first + span - 1}
<1> DEFINE n == DaysInWeek
           f == first % n
           q == first \div n
<1>1. n \in Nat \ {0}
  BY CalendarAssumption
<1>2. q \in Int /\ f \in 0 .. n - 1 /\ first = n * q + f
  BY <1>1, Quotient
<1>3. ASSUME NEW k \in Int PROVE (f + k) % n = (first + k) % n
  <2> DEFINE p == (f + k) \div n
             r == (f + k) % n
  <2>1. p \in Int /\ r \in 0 .. n - 1 /\ f + k = n * p + r
    BY <1>1, <1>2, Quotient
  <2> HIDE DEF p, r
  <2> HIDE DEF n, f, q
  <2>2. PICK m \in Int : m = q + p
    BY <1>2, <2>1
  <2>3. first + k \in Int /\ first + k = n * m + r
    BY <1>1, <1>2, <2>1, <2>2
  <2>4. (first + k) % n = r
    BY <1>1, <2>1, <2>2, <2>3, QuotientIs
  <2>5. QED
    BY <2>4 DEF r
<1>4. ASSUME NEW d \in 0 .. n - 1, span >= n
      PROVE  \E e \in first .. first + span - 1 : e % n = d
  <2> DEFINE k == IF d >= f THEN d - f ELSE d - f + n
  <2>1. k \in 0 .. n - 1
    BY <1>1, <1>2
  <2>2. PICK m \in Int : m = IF d >= f THEN 0 ELSE 1
    OBVIOUS
  <2> HIDE DEF n, f, q
  <2>3. f + k = n * m + d /\ f + k \in Int
    BY <1>1, <1>2, <2>2
  <2> HIDE DEF k
  <2>4. (f + k) % n = d
    BY <1>1, <2>2, <2>3, QuotientIs
  <2>5. (first + k) % n = d /\ first + k \in first .. first + span - 1
    BY <1>1, <1>3, <1>4, <2>1, <2>4
  <2>6. QED
    BY <2>5
<1>5. \A e \in Int : e % n \in 0 .. n - 1
  BY <1>1, Quotient
<1>6. CASE span >= n
  <2>1. WeekdaysTouched(first, span) = 0 .. n - 1
    BY <1>6 DEF WeekdaysTouched
  <2> HIDE DEF n
  <2>2. {e % n : e \in first .. first + span - 1} = 0 .. n - 1
    BY <1>4, <1>5, <1>6
  <2>3. QED
    BY <2>1, <2>2 DEF Weekday, n
<1>7. CASE ~(span >= n)
  <2>1. WeekdaysTouched(first, span) = {(f + k) % n : k \in 0 .. span - 1}
    BY <1>7 DEF WeekdaysTouched, Weekday
  <2> HIDE DEF n, f, q
  <2>2. \A k \in 0 .. span - 1 : (f + k) % n = (first + k) % n
    BY <1>3
  <2>3. \A e \in first .. first + span - 1 : e - first \in 0 .. span - 1 /\ first + (e - first) = e
    OBVIOUS
  <2>4. \A k \in 0 .. span - 1 : first + k \in first .. first + span - 1
    OBVIOUS
  <2>5. {(f + k) % n : k \in 0 .. span - 1} = {e % n : e \in first .. first + span - 1}
    BY <2>2, <2>3, <2>4
  <2>6. QED
    BY <2>1, <2>5 DEF Weekday, n
<1>8. QED
  BY <1>6, <1>7

(* The days of a window, and what of each is inside. *)
LEMMA SegmentsAre ==
  ASSUME NEW w, w.start \in Int, w.end \in Int
  PROVE  LET first == DateOf(w.start)
             last  == DateOf(w.end - 1)
             begin == MinutesSince(first, w.start)
             end   == MinutesSince(last, w.end)
             From(d) == IF d = first THEN begin ELSE 0
             To(d)   == IF d = last THEN end ELSE MinutesPerDay
         IN  /\ {first, last, begin, end} \subseteq Int
             /\ begin \in 0 .. MinutesPerDay - 1
             /\ end \in 0 .. MinutesPerDay
             /\ w.start < w.end => first <= last
             /\ w.start >= w.end =>
                  first >= last /\ (first = last => begin >= end)
             /\ DailySegments(w) =
                  {s \in {[day |-> d, from |-> From(d), to |-> To(d)] : d \in first .. last} : s.to > s.from}
<1> DEFINE t == TicksPerMinute
           m == MinutesPerDay
           day == DayTicks
           first == DateOf(w.start)
           last  == DateOf(w.end - 1)
           begin == MinutesSince(first, w.start)
           end   == MinutesSince(last, w.end)
           From(d) == IF d = first THEN begin ELSE 0
           To(d)   == IF d = last THEN end ELSE MinutesPerDay
<1>1. t \in Nat \ {0} /\ m \in Nat \ {0} /\ day = m * t
  BY CalendarAssumption DEF DayTicks
<1>2. day \in Nat \ {0}
  BY <1>1
<1> HIDE DEF t, m, day
<1>3. /\ first \in Int /\ day * first \in Int /\ day * first <= w.start /\ w.start < day * first + day
      /\ first = w.start \div day
  <2>1. first = w.start \div day
    BY DEF DateOf, day
  <2> HIDE DEF first
  <2>2. QED
    BY <1>2, <2>1, Floor
<1>4. /\ last \in Int /\ day * last \in Int /\ day * last <= w.end - 1 /\ w.end - 1 < day * last + day
      /\ last = (w.end - 1) \div day
  <2>1. PICK x \in Int : x = w.end - 1
    OBVIOUS
  <2>2. last = x \div day
    BY <2>1 DEF DateOf, day
  <2> HIDE DEF last
  <2>3. last \in Int /\ day * last \in Int /\ day * last <= x /\ x < day * last + day
    BY <1>2, <2>1, <2>2, Floor
  <2>4. QED
    BY <2>1, <2>2, <2>3
<1> HIDE DEF first, last
<1>5. w.start < w.end => first <= last
  <2>1. PICK x \in Int : x = w.end - 1
    OBVIOUS
  <2>2. first = w.start \div day /\ last = x \div day /\ (w.start < w.end => w.start <= x)
    BY <1>3, <1>4, <2>1
  <2>3. QED
    BY <1>2, <2>2, QuotientGrows
<1>6. w.start >= w.end => first >= last
  <2>1. PICK x \in Int : x = w.end - 1
    OBVIOUS
  <2>2. first = w.start \div day /\ last = x \div day /\ (w.start >= w.end => x <= w.start)
    BY <1>3, <1>4, <2>1
  <2>3. QED
    BY <1>2, <2>2, QuotientGrows
<1>7. ASSUME NEW d \in Int, NEW x \in Int
      PROVE  /\ Midnight(d) \in Int /\ Midnight(d) = day * d /\ Midnight(d + 1) = day * d + day
             /\ MinutesSince(d, x) = (x - day * d) \div t
             /\ MinutesSince(d, x) \in Int
             /\ MinutesSince(d, Midnight(d)) = 0
             /\ MinutesSince(d, Midnight(d + 1)) = m
  <2>1. /\ day * d \in Int /\ Midnight(d) = day * d /\ Midnight(d + 1) = day * d + day
        /\ Midnight(d + 1) \in Int
    BY <1>2 DEF Midnight, day
  <2>2. \A y : MinutesSince(d, y) = (y - day * d) \div t
    BY <2>1 DEF MinutesSince, t
  <2>3. (x - day * d) \div t \in Int
    BY <1>1, <2>1
  <2>4. (day * d - day * d) \div t = 0
    BY <1>1, <2>1
  <2>5. PICK a \in Int : a = Midnight(d + 1) - day * d /\ a = t * m + 0
    BY <1>1, <1>2, <2>1
  <2>6. MinutesSince(d, Midnight(d)) = 0
    BY <2>1, <2>2, <2>4
  <2>7. MinutesSince(d, Midnight(d + 1)) = m
    <3>1. a \div t = m
      BY <1>1, <2>5, QuotientIs, 0 \in 0 .. t - 1
    <3>2. QED
      BY <2>2, <2>5, <3>1
  <2>8. MinutesSince(d, x) = (x - day * d) \div t /\ MinutesSince(d, x) \in Int
    BY <2>2, <2>3
  <2>9. QED
    BY <2>1, <2>6, <2>7, <2>8
<1>8. ASSUME NEW d \in Int, NEW x \in Int, NEW y \in Int, x <= y
      PROVE  MinutesSince(d, x) <= MinutesSince(d, y)
  <2>1. PICK a \in Int : a = x - day * d
    BY <1>2, <1>7
  <2>2. PICK b \in Int : b = y - day * d
    BY <1>2, <1>7
  <2>3. a <= b
    BY <1>2, <1>7, <1>8, <2>1, <2>2
  <2>4. MinutesSince(d, x) = a \div t /\ MinutesSince(d, y) = b \div t
    BY <1>7, <2>1, <2>2
  <2>5. QED
    BY <1>1, <2>3, <2>4, QuotientGrows
<1>9. begin \in 0 .. m - 1
  <2>1. PICK x \in Int : x = w.start - day * first
    BY <1>3
  <2>2. 0 <= x /\ x < t * m
    BY <1>1, <1>3, <2>1
  <2>3. begin = x \div t
    BY <1>3, <1>7, <2>1
  <2>4. t * begin <= x /\ x < t * begin + t /\ begin \in Int /\ t * begin \in Int
    BY <1>1, <2>3, Floor
  <2> HIDE DEF begin
  <2>5. begin >= 0
    BY <1>1, <2>2, <2>4, Multiples
  <2>6. begin < m
    <3>1. PICK k \in Int : k = m - begin
      BY <1>1, <2>4
    <3>2. t * k = t * m - t * begin
      BY <1>1, <2>4, <3>1
    <3>3. t * k > 0
      BY <1>1, <2>2, <2>4, <3>2
    <3>4. QED
      BY <1>1, <2>4, <3>1, <3>3, Multiples
  <2>7. QED
    BY <1>1, <2>4, <2>5, <2>6
<1>10. end \in 0 .. m
  <2>1. last \in Int /\ day * last <= w.end /\ w.end <= day * last + day
    BY <1>2, <1>4
  <2>2. PICK x \in Int, y \in Int : x = Midnight(last) /\ y = Midnight(last + 1) /\ x <= w.end /\ w.end <= y
    <3>1. /\ Midnight(last) \in Int /\ Midnight(last) = day * last /\ Midnight(last + 1) = day * last + day
          /\ last + 1 \in Int
      BY <1>7, <2>1
    <3>2. Midnight(last + 1) \in Int
      BY <1>7, <3>1
    <3>3. QED
      BY <2>1, <3>1, <3>2
  <2>3. MinutesSince(last, x) <= end /\ end <= MinutesSince(last, y)
    BY <1>8, <2>1, <2>2
  <2>4. end \in Int
    BY <1>7, <2>1
  <2>5. QED
    BY <1>1, <1>7, <2>1, <2>2, <2>3, <2>4
<1>11. w.start >= w.end /\ first = last => begin >= end
  BY <1>3, <1>8
<1>12. ASSUME NEW d \in first .. last
       PROVE  /\ MinutesSince(d, Larger(w.start, Midnight(d))) = From(d)
              /\ MinutesSince(d, Smaller(w.end, Midnight(d + 1))) = To(d)
  <2>1. d \in Int /\ Midnight(d) = day * d /\ Midnight(d + 1) = day * d + day /\ day * d \in Int
    BY <1>2, <1>3, <1>4, <1>7
  <2>2. d = first => Larger(w.start, Midnight(d)) = w.start
    BY <1>3, <2>1 DEF Larger
  <2>3. d # first => w.start < Midnight(d) /\ Larger(w.start, Midnight(d)) = Midnight(d)
    <3>1. SUFFICES ASSUME d # first PROVE w.start < Midnight(d)
      BY <2>1 DEF Larger
    <3>2. PICK k \in Nat : d = first + 1 + k
      BY <1>3, <1>4, <3>1, d - first - 1 \in Nat
    <3>3. day * k \in Nat /\ day * d = day * first + day + day * k
      BY <1>2, <1>3, <3>2
    <3>4. QED
      BY <1>2, <1>3, <2>1, <3>3
  <2>4. d = last => Smaller(w.end, Midnight(d + 1)) = w.end
    BY <1>2, <1>4, <2>1 DEF Smaller
  <2>5. d # last => Smaller(w.end, Midnight(d + 1)) = Midnight(d + 1)
    <3>1. SUFFICES ASSUME d # last PROVE Midnight(d + 1) < w.end
      BY <1>2, <2>1 DEF Smaller
    <3>2. PICK k \in Nat : last = d + 1 + k
      BY <1>3, <1>4, <3>1, last - d - 1 \in Nat
    <3>3. day * k \in Nat /\ day * last = day * d + day + day * k
      BY <1>2, <1>4, <2>1, <3>2
    <3>4. QED
      BY <1>2, <1>4, <2>1, <3>3
  <2>6. MinutesSince(d, Midnight(d)) = 0 /\ MinutesSince(d, Midnight(d + 1)) = m
    BY <1>7, <2>1
  <2>7. QED
    BY <2>2, <2>3, <2>4, <2>5, <2>6 DEF m
<1>13. QED
  <2>1. DailySegments(w) =
         {s \in {[day |-> d, from |-> From(d), to |-> To(d)] : d \in first .. last} : s.to > s.from}
    BY <1>12 DEF DailySegments, first, last
  <2>2. QED
    BY <1>3, <1>4, <1>5, <1>6, <1>9, <1>10, <1>11, <2>1 DEF m, first, last

(* How rules_cover_window reads a window: its first and last day, where it *)
(* begins and ends on them, and whether a minute of it is on some day.     *)
FirstDayIn(w) == DateOf(w.start)

BeginIn(w) == MinutesSince(FirstDayIn(w), w.start)

ClippedIn(w) ==
  /\ DateOf(w.end - 1) > FirstDayIn(w)
  /\ MinutesSince(DateOf(w.end - 1), w.end) = 0

LastDayIn(w) == IF ClippedIn(w) THEN DateOf(w.end - 1) - 1 ELSE DateOf(w.end - 1)

EndIn(w) == IF ClippedIn(w) THEN MinutesPerDay ELSE MinutesSince(DateOf(w.end - 1), w.end)

HasMinutes(w) == w.start < w.end /\ (LastDayIn(w) - FirstDayIn(w) + 1 > 1 \/ EndIn(w) > BeginIn(w))

SegmentIn(w, d) == [day  |-> d,
                    from |-> IF d = FirstDayIn(w) THEN BeginIn(w) ELSE 0,
                    to   |-> IF d = LastDayIn(w) THEN EndIn(w) ELSE MinutesPerDay]

(* The last day counts only if a minute of it is inside.                   *)
LEMMA SegmentsRun ==
  ASSUME NEW w, w.start \in Int, w.end \in Int
  PROVE  /\ FirstDayIn(w) \in Int /\ LastDayIn(w) \in Int
         /\ w.start < w.end => FirstDayIn(w) <= LastDayIn(w)
         /\ HasMinutes(w) => DailySegments(w) = {SegmentIn(w, d) : d \in FirstDayIn(w) .. LastDayIn(w)}
         /\ ~HasMinutes(w) => DailySegments(w) = {}
<1> DEFINE first   == DateOf(w.start)
           begin   == MinutesSince(first, w.start)
           endDay  == DateOf(w.end - 1)
           endMinute == MinutesSince(endDay, w.end)
           clipped == endDay > first /\ endMinute = 0
           last    == IF clipped THEN endDay - 1 ELSE endDay
           end     == IF clipped THEN MinutesPerDay ELSE endMinute
           m       == MinutesPerDay
           From(d) == IF d = first THEN begin ELSE 0
           Until(d) == IF d = endDay THEN endMinute ELSE m
           To(d)   == IF d = last THEN end ELSE m
           cut     == {[day |-> d, from |-> From(d), to |-> Until(d)] : d \in first .. endDay}
           whole   == {[day |-> d, from |-> From(d), to |-> To(d)] : d \in first .. last}
           segments == DailySegments(w)
<1>1. /\ {first, endDay, begin, endMinute} \subseteq Int
      /\ begin \in 0 .. m - 1 /\ endMinute \in 0 .. m
      /\ w.start < w.end => first <= endDay
      /\ w.start >= w.end => first >= endDay /\ (first = endDay => begin >= endMinute)
      /\ segments = {s \in cut : s.to > s.from}
  BY SegmentsAre
<1>2. m \in Nat \ {0}
  BY CalendarAssumption
<1> HIDE DEF first, begin, endDay, endMinute, m, segments
<1>3. last \in Int /\ (w.start < w.end => first <= last)
  BY <1>1
<1>4. clipped => last = endDay - 1 /\ end = m /\ first < endDay /\ endMinute = 0
  <2> SUFFICES ASSUME clipped PROVE last = endDay - 1 /\ end = m /\ first < endDay /\ endMinute = 0
    OBVIOUS
  <2>1. first < endDay /\ endMinute = 0
    BY <1>1
  <2>2. last = endDay - 1
    OBVIOUS
  <2>3. end = m
    BY DEF m
  <2>4. QED
    BY <2>1, <2>2, <2>3
<1>5. ~clipped => last = endDay /\ end = endMinute /\ (first < endDay => endMinute # 0)
  BY <1>1
<1> HIDE DEF clipped, last, end
<1>6. ASSUME w.start < w.end, last - first + 1 > 1 \/ end > begin
      PROVE  segments = whole
  <2>1. ASSUME NEW d \in first .. last
        PROVE  From(d) < Until(d) /\ Until(d) = To(d) /\ d \in first .. endDay
    <3>1. d \in Int /\ first <= d /\ d <= last
      BY <1>1, <1>3
    <3>2. CASE clipped
      <4>1. d # endDay /\ d \in first .. endDay
        BY <1>1, <1>4, <3>1, <3>2
      <4>2. Until(d) = m /\ To(d) = m
        BY <1>4, <3>2, <4>1
      <4>3. QED
        BY <1>1, <1>2, <4>1, <4>2
    <3>3. CASE ~clipped
      <4>1. d \in first .. endDay /\ Until(d) = To(d)
        BY <1>1, <1>5, <3>1, <3>3
      <4>2. first = endDay => begin < endMinute
        BY <1>1, <1>2, <1>5, <1>6, <3>3
      <4>3. QED
        BY <1>1, <1>2, <1>5, <3>1, <3>3, <4>1, <4>2
    <3>4. QED
      BY <3>2, <3>3
  <2>2. ASSUME NEW d \in first .. endDay, From(d) < Until(d) PROVE d \in first .. last
    <3>1. CASE clipped
      BY <1>1, <1>2, <1>4, <2>2, <3>1
    <3>2. CASE ~clipped
      BY <1>5, <3>2
    <3>3. QED
      BY <3>1, <3>2
  <2> HIDE DEF From, Until, To
  <2>3. segments = {[day |-> d, from |-> From(d), to |-> Until(d)] : d \in first .. last}
    BY <1>1, <2>1, <2>2
  <2>4. QED
    BY <2>1, <2>3
<1>7. ASSUME ~(w.start < w.end /\ (last - first + 1 > 1 \/ end > begin))
      PROVE  segments = {}
  <2>1. ASSUME NEW d \in first .. endDay PROVE ~(From(d) < Until(d))
    <3>1. d = first /\ d = endDay
      BY <1>1, <1>2, <1>3, <1>4, <1>5, <1>7
    <3>2. begin >= endMinute
      BY <1>1, <1>2, <1>4, <1>5, <1>7, <3>1
    <3>3. QED
      BY <1>1, <3>1, <3>2
  <2>2. \A d \in first .. endDay : From(d) \in Int /\ Until(d) \in Int
    BY <1>1, <1>2
  <2> HIDE DEF From, Until
  <2>3. QED
    BY <1>1, <2>1, <2>2
<1>8. /\ FirstDayIn(w) = first /\ BeginIn(w) = begin /\ LastDayIn(w) = last /\ EndIn(w) = end
      /\ DailySegments(w) = segments
  BY DEF FirstDayIn, BeginIn, LastDayIn, EndIn, ClippedIn, first, begin, endDay, endMinute, m, segments, clipped, last, end
<1>9. HasMinutes(w) <=> w.start < w.end /\ (last - first + 1 > 1 \/ end > begin)
  BY <1>8 DEF HasMinutes
<1>10. {SegmentIn(w, d) : d \in first .. last} = whole
  BY <1>8 DEF SegmentIn, m
<1>11. QED
  BY <1>1, <1>3, <1>6, <1>7, <1>8, <1>9, <1>10

(* The set of weekdays decides what the walk day by day does.              *)
LEMMA CoverIsWalk ==
  ASSUME NEW w, w.start \in Int, w.end \in Int, NEW rules, NEW unit \in {"HOURLY", "DAILY"}
  PROVE  LET segments == DailySegments(w)
             Open(s)  == LET intervals == IntervalsForWeekday(rules, Weekday(s.day))
                         IN  IF unit = "HOURLY" THEN Covers(intervals, s.from, s.to)
                             ELSE intervals # <<>>
         IN  RulesCoverWindow(rules, w, unit) <=> segments # {} /\ \A s \in segments : Open(s)
<1> DEFINE first    == FirstDayIn(w)
           last     == LastDayIn(w)
           span     == last - first + 1
           Hours(d) == IntervalsForWeekday(rules, Weekday(d))
           Open(s)  == IF unit = "HOURLY" THEN Covers(Hours(s.day), s.from, s.to) ELSE Hours(s.day) # <<>>
           all      == CASE unit # "HOURLY" -> \A d \in WeekdaysTouched(first, span) : IntervalsForWeekday(rules, d) # <<>>
                         [] unit = "HOURLY" /\ span = 1 -> Covers(Hours(first), BeginIn(w), EndIn(w))
                         [] OTHER ->
                              /\ Covers(Hours(first), BeginIn(w), MinutesPerDay)
                              /\ Covers(Hours(last), 0, EndIn(w))
                              /\ \A d \in WeekdaysTouched(first + 1, span - 2) :
                                   Covers(IntervalsForWeekday(rules, d), 0, MinutesPerDay)
<1>1. RulesCoverWindow(rules, w, unit) <=> HasMinutes(w) /\ all
  BY DEF RulesCoverWindow, HasMinutes, FirstDayIn, BeginIn, ClippedIn, LastDayIn, EndIn
<1>2. /\ first \in Int /\ last \in Int /\ (w.start < w.end => first <= last)
      /\ HasMinutes(w) => DailySegments(w) = {SegmentIn(w, d) : d \in first .. last}
      /\ ~HasMinutes(w) => DailySegments(w) = {}
  BY SegmentsRun
<1>3. ASSUME NEW d
      PROVE  Open(SegmentIn(w, d)) =
               IF unit = "HOURLY"
               THEN Covers(Hours(d), IF d = first THEN BeginIn(w) ELSE 0, IF d = last THEN EndIn(w) ELSE MinutesPerDay)
               ELSE Hours(d) # <<>>
  BY DEF SegmentIn
<1> HIDE DEF first, last
<1>4. /\ WeekdaysTouched(first, span) = {Weekday(d) : d \in first .. last}
      /\ WeekdaysTouched(first + 1, span - 2) = {Weekday(d) : d \in first + 1 .. last - 1}
  <2>1. /\ span \in Int /\ span - 2 \in Int /\ first + 1 \in Int /\ first + span - 1 = last
        /\ first + 1 + (span - 2) - 1 = last - 1
    BY <1>2
  <2> HIDE DEF span
  <2>2. QED
    BY <1>2, <2>1, WeekdaysRun
<1>5. CASE HasMinutes(w)
  <2>1. DailySegments(w) = {SegmentIn(w, d) : d \in first .. last} /\ first <= last /\ first \in first .. last
    BY <1>2, <1>5 DEF HasMinutes
  <2>2. all <=> \A d \in first .. last : Open(SegmentIn(w, d))
    <3>1. CASE unit = "DAILY"
      <4> HIDE DEF Hours, Open
      <4>1. \A d \in first .. last : Open(SegmentIn(w, d)) = (IntervalsForWeekday(rules, Weekday(d)) # <<>>)
        BY <1>3, <3>1 DEF Hours
      <4>2. all <=> \A d \in WeekdaysTouched(first, span) : IntervalsForWeekday(rules, d) # <<>>
        BY <3>1
      <4> HIDE DEF all
      <4>3. QED
        BY <1>4, <4>1, <4>2
    <3>2. CASE unit = "HOURLY" /\ span = 1
      <4>1. first = last /\ first .. last = {first}
        BY <1>2, <2>1, <3>2
      <4>2. all <=> Covers(Hours(first), BeginIn(w), EndIn(w))
        BY <3>2
      <4> HIDE DEF all, Hours, Open
      <4>3. Open(SegmentIn(w, first)) <=> Covers(Hours(first), BeginIn(w), EndIn(w))
        BY <1>3, <3>2, <4>1
      <4>4. QED
        BY <4>1, <4>2, <4>3
    <3>3. CASE unit = "HOURLY" /\ span # 1
      <4>1. first < last /\ first \in first .. last /\ last \in first .. last /\ first # last
        BY <1>2, <2>1, <3>3
      <4>2. /\ \A d \in first .. last : d = first \/ d = last \/ d \in first + 1 .. last - 1
            /\ \A d \in first + 1 .. last - 1 : d # first /\ d # last /\ d \in first .. last
        BY <1>2, <4>1
      <4>3. all <=> /\ Covers(Hours(first), BeginIn(w), MinutesPerDay)
                    /\ Covers(Hours(last), 0, EndIn(w))
                    /\ \A d \in WeekdaysTouched(first + 1, span - 2) :
                         Covers(IntervalsForWeekday(rules, d), 0, MinutesPerDay)
        BY <3>3
      <4> HIDE DEF all, Open
      <4>4. /\ Open(SegmentIn(w, first)) <=> Covers(Hours(first), BeginIn(w), MinutesPerDay)
            /\ Open(SegmentIn(w, last)) <=> Covers(Hours(last), 0, EndIn(w))
        BY <1>3, <3>3, <4>1
      <4>5. \A d \in first + 1 .. last - 1 :
              Open(SegmentIn(w, d)) <=> Covers(IntervalsForWeekday(rules, Weekday(d)), 0, MinutesPerDay)
        BY <1>3, <3>3, <4>2
      <4> HIDE DEF Hours
      <4>6. (\A d \in WeekdaysTouched(first + 1, span - 2) : Covers(IntervalsForWeekday(rules, d), 0, MinutesPerDay))
            <=> \A d \in first + 1 .. last - 1 : Open(SegmentIn(w, d))
        BY <1>4, <4>5
      <4>7. QED
        BY <4>1, <4>2, <4>3, <4>4, <4>6
    <3>4. QED
      BY <3>1, <3>2, <3>3
  <2> HIDE DEF all, Open
  <2>3. DailySegments(w) # {} /\ ((\A s \in DailySegments(w) : Open(s)) <=> \A d \in first .. last : Open(SegmentIn(w, d)))
    BY <2>1
  <2>4. RulesCoverWindow(rules, w, unit) <=> DailySegments(w) # {} /\ \A s \in DailySegments(w) : Open(s)
    BY <1>1, <1>5, <2>2, <2>3
  <2>5. QED
    BY <2>4 DEF Open
<1>6. CASE ~HasMinutes(w)
  BY <1>1, <1>2, <1>6
<1>7. QED
  BY <1>5, <1>6

(* Deciding from the set of weekdays is exact, for weeks, days and minutes *)
(* of any length and windows of any length (rules_cover_window).           *)
THEOREM CoverIsExact == Spec => []CoverAgreesWithWalk
<1>1. Answer => CoverAgreesWithWalk
  <2> SUFFICES ASSUME Answer, answer.ask = "cover" PROVE CoverAgreesWithWalk
    BY DEF CoverAgreesWithWalk
  <2>1. CoverAnswer(answer)
    BY DEF Answer
  <2>2. answer.w.start \in Int /\ answer.w.end \in Int /\ answer.unit \in {"HOURLY", "DAILY"}
    BY <2>1, SearchAssumption DEF CoverAnswer
  <2>3. answer.open = RulesCoverWindow(answer.rules, answer.w, answer.unit)
    BY <2>1 DEF CoverAnswer
  <2>4. QED
    BY <2>2, <2>3, CoverIsWalk DEF CoverAgreesWithWalk
<1>2. QED
  BY <1>1, AnswerAlways, PTL

-----------------------------------------------------------------------------
(* Merging and covering.  A span of a day, and the minutes in it. *)
Spans == {i \in (0 .. MinutesPerDay) \X (0 .. MinutesPerDay) : i[1] < i[2]}

Within(i, x) == i[1] <= x /\ x < i[2]

InTupleOrder(i, j) == i[1] < j[1] \/ (i[1] = j[1] /\ i[2] <= j[2])

LEMMA SpansAre ==
  ASSUME NEW i \in Spans
  PROVE  /\ i[1] \in Nat /\ i[2] \in Nat /\ i[1] < i[2] /\ i[2] <= MinutesPerDay
         /\ i = <<i[1], i[2]>>
BY CalendarAssumption DEF Spans

LEMMA SpanFrom ==
  ASSUME NEW a \in Nat, NEW b \in Nat, a < b, b <= MinutesPerDay
  PROVE  <<a, b>> \in Spans
BY CalendarAssumption DEF Spans

(* Of some intervals one is the last in the order of tuples, ...           *)
LEMMA LastInOrder ==
  ASSUME NEW U \in SUBSET Spans, U # {}
  PROVE  \E x \in U : \A y \in U : InTupleOrder(y, x)
<1> DEFINE m == MinutesPerDay
           Starts1 == {m - i[1] : i \in U}
<1>1. m \in Nat /\ \A i \in U : i[1] \in Nat /\ i[2] \in Nat /\ i[1] <= m /\ i[2] <= m
  <2>1. m \in Nat
    BY CalendarAssumption
  <2>2. \A i \in U : i[1] \in Nat /\ i[2] \in Nat /\ i[1] < i[2] /\ i[2] <= m
    BY SpansAre
  <2>3. QED
    BY <2>1, <2>2
<1> HIDE DEF m
<1>2. PICK a \in Starts1 : \A n \in Starts1 : a <= n
  <2>1. Starts1 \subseteq Nat /\ Starts1 # {}
    BY <1>1
  <2> HIDE DEF Starts1
  <2>2. QED
    BY <2>1, LeastOf
<1>3. PICK z \in U : a = m - z[1]
  BY <1>2
<1>4. \A y \in U : y[1] <= z[1]
  <2> SUFFICES ASSUME NEW y \in U PROVE y[1] <= z[1]
    OBVIOUS
  <2>1. a <= m - y[1]
    BY <1>2
  <2>2. QED
    BY <1>1, <1>3, <2>1
<1> DEFINE W == {y \in U : y[1] = z[1]}
           Ends == {m - i[2] : i \in W}
<1>5. PICK b \in Ends : \A n \in Ends : b <= n
  <2>1. Ends \subseteq Nat
    BY <1>1
  <2>2. m - z[2] \in Ends
    BY <1>3
  <2> HIDE DEF Ends
  <2>3. QED
    BY <2>1, <2>2, LeastOf
<1>6. PICK x \in W : b = m - x[2]
  BY <1>5
<1>7. ASSUME NEW y \in U PROVE InTupleOrder(y, x)
  <2>1. y[1] <= x[1] /\ x[1] = z[1] /\ x \in U /\ y[1] \in Nat /\ x[1] \in Nat
    BY <1>1, <1>4, <1>6
  <2>2. y[1] = x[1] => y[2] <= x[2]
    <3> SUFFICES ASSUME y[1] = x[1] PROVE y[2] <= x[2]
      OBVIOUS
    <3>1. y \in W
      BY <2>1
    <3>2. b <= m - y[2]
      BY <1>5, <3>1
    <3>3. QED
      BY <1>1, <1>6, <2>1, <3>2
  <2>3. QED
    BY <2>1, <2>2 DEF InTupleOrder
<1>8. QED
  BY <1>6, <1>7

(* ... so finitely many can be put in that order.                         *)
LEMMA OrderedIs ==
  ASSUME NEW S \in SUBSET Spans, IsFiniteSet(S)
  PROVE  LET seq == Ordered(S)
             n   == Cardinality(S)
         IN  /\ n \in Nat /\ seq \in [1 .. n -> S] /\ Len(seq) = n
             /\ S = {seq[k] : k \in 1 .. n}
             /\ \A k, l \in 1 .. n : k < l => seq[k][1] <= seq[l][1]
<1> DEFINE n == Cardinality(S)
           R == {p \in S \X S : InTupleOrder(p[1], p[2])}
           Good(seq) == /\ S = {seq[k] : k \in DOMAIN seq}
                        /\ \A k, l \in DOMAIN seq :
                             k < l => seq[k][1] < seq[l][1] \/ (seq[k][1] = seq[l][1] /\ seq[k][2] <= seq[l][2])
           seq == Ordered(S)
<1>1. n \in Nat
  BY FS_CardinalityType
<1>2. ASSUME NEW U \in SUBSET S, U # {} PROVE \E x \in U : \A y \in U : <<y, x>> \in R
  <2>1. PICK x \in U : \A y \in U : InTupleOrder(y, x)
    BY <1>2, LastInOrder
  <2>2. \A y \in U : <<y, x>> \in R
    BY <2>1
  <2>3. QED
    BY <2>2
<1>3. PICK line : Line(S, R, line)
  <2> HIDE DEF R
  <2>1. QED
    BY <1>2, CanBeLinedUp
<1>4. line \in [1 .. n -> S] /\ Good(line)
  <2>1. \A k, l \in DOMAIN line : k < l => InTupleOrder(line[k], line[l])
    BY <1>3 DEF Line
  <2>2. QED
    BY <1>3, <2>1 DEF Line, InTupleOrder
<1>5. seq = CHOOSE s \in [1 .. n -> S] : Good(s)
  BY DEF Ordered
<1>6. seq \in [1 .. n -> S] /\ Good(seq)
  <2> HIDE DEF Good, seq
  <2>1. QED
    BY <1>4, <1>5
<1> HIDE DEF seq, n
<1>7. DOMAIN seq = 1 .. n /\ Len(seq) = n
  BY <1>1, <1>6
<1>8. ASSUME NEW k \in 1 .. n, NEW l \in 1 .. n, k < l PROVE seq[k][1] <= seq[l][1]
  <2>1. seq[k] \in Spans /\ seq[l] \in Spans
    BY <1>6
  <2>2. seq[k][1] \in Nat /\ seq[l][1] \in Nat
    BY <2>1, SpansAre
  <2>3. seq[k][1] < seq[l][1] \/ seq[k][1] = seq[l][1]
    BY <1>6, <1>7, <1>8
  <2>4. QED
    BY <2>2, <2>3
<1>9. QED
  BY <1>1, <1>6, <1>7, <1>8 DEF seq, n

(* One interval more is joined with what was merged so far. *)
Joined(merged, i) ==
  LET top == merged[Len(merged)]
  IN  IF merged # <<>> /\ i[1] <= top[2]
      THEN [merged EXCEPT ![Len(merged)] = <<top[1], Larger(top[2], i[2])>>]
      ELSE Append(merged, i)

(* Intervals that start one after the other. *)
StartsRise(s) == \A k, l \in 1 .. Len(s) : k < l => s[k][1] <= s[l][1]

(* It joins the last one or follows it, and no minute is lost or added.    *)
LEMMA JoinedIs ==
  ASSUME NEW m \in Seq(Spans), NEW i \in Spans
  PROVE  /\ Joined(m, i) \in Seq(Spans)
         /\ StartsRise(m) /\ (\A k \in 1 .. Len(m) : m[k][1] <= i[1]) =>
              /\ StartsRise(Joined(m, i))
              /\ \A k \in 1 .. Len(Joined(m, i)) : Joined(m, i)[k][1] <= i[1]
              /\ \A x \in Int : (\E k \in 1 .. Len(Joined(m, i)) : Within(Joined(m, i)[k], x))
                                  <=> (\E k \in 1 .. Len(m) : Within(m[k], x)) \/ Within(i, x)
<1> DEFINE n == Len(m)
           top == m[n]
           new == Joined(m, i)
           low == StartsRise(m) /\ \A k \in 1 .. Len(m) : m[k][1] <= i[1]
<1>1. n \in Nat /\ m \in [1 .. n -> Spans] /\ (m # <<>> => n \in 1 .. n)
  BY LenProperties, EmptySeq
<1>2. /\ i[1] \in Nat /\ i[2] \in Nat /\ i[1] < i[2] /\ i[2] <= MinutesPerDay
      /\ \A k \in 1 .. n : m[k][1] \in Nat /\ m[k][2] \in Nat /\ m[k][1] < m[k][2] /\ m[k][2] <= MinutesPerDay
  BY <1>1, SpansAre
<1>3. CASE m # <<>> /\ i[1] <= top[2]
  <2> DEFINE e == <<top[1], Larger(top[2], i[2])>>
  <2>1. n \in 1 .. n /\ top \in Spans
    BY <1>1, <1>3
  <2>2. /\ top[1] \in Nat /\ top[2] \in Nat /\ top[1] < top[2] /\ top[2] <= MinutesPerDay
        /\ Larger(top[2], i[2]) \in Nat
    BY <1>2, <2>1 DEF Larger
  <2>3. e \in Spans /\ e[1] = top[1] /\ e[2] = Larger(top[2], i[2])
    <3>1. top[1] < Larger(top[2], i[2]) /\ Larger(top[2], i[2]) <= MinutesPerDay
      BY <1>2, <2>2 DEF Larger
    <3>2. QED
      BY <2>2, <3>1, SpanFrom
  <2>4. new = [m EXCEPT ![n] = e]
    BY <1>3 DEF Joined
  <2> HIDE DEF e, new
  <2>5. /\ new \in Seq(Spans) /\ Len(new) = n
        /\ \A k \in 1 .. n : new[k] = IF k = n THEN e ELSE m[k]
    <3> HIDE DEF n
    <3>1. n = Len(m)
      BY DEF n
    <3>2. QED
      BY <2>1, <2>3, <2>4, <3>1, ExceptSeq
  <2>6. \A k \in 1 .. n : new[k][1] = m[k][1]
    BY <2>3, <2>5
  <2>7. ASSUME low, NEW x \in Int
        PROVE  (\E k \in 1 .. n : Within(new[k], x)) <=> (\E k \in 1 .. n : Within(m[k], x)) \/ Within(i, x)
    <3>1. Within(e, x) <=> Within(top, x) \/ Within(i, x)
      <4>1. top[1] <= i[1]
        BY <2>1, <2>7
      <4>2. QED
        BY <1>2, <1>3, <2>2, <2>3, <4>1 DEF Within, Larger
    <3>2. \A k \in 1 .. n : k # n => (Within(new[k], x) <=> Within(m[k], x))
      BY <2>5
    <3>3. Within(new[n], x) <=> Within(top, x) \/ Within(i, x)
      BY <2>1, <2>5, <3>1
    <3> HIDE DEF n
    <3>4. m[n] = top
      OBVIOUS
    <3>5. QED
      BY <2>1, <3>2, <3>3, <3>4
  <2>8. low => StartsRise(new) /\ \A k \in 1 .. n : new[k][1] <= i[1]
    BY <2>5, <2>6 DEF StartsRise
  <2>9. QED
    BY <2>5, <2>7, <2>8 DEF new
<1>4. CASE ~(m # <<>> /\ i[1] <= top[2])
  <2>1. new = Append(m, i)
    BY <1>4 DEF Joined
  <2>2. /\ new \in Seq(Spans) /\ Len(new) = n + 1 /\ new[n + 1] = i
        /\ \A k \in 1 .. n : new[k] = m[k]
    BY <2>1
  <2> HIDE DEF new
  <2>3. \A k \in 1 .. n + 1 : k = n + 1 \/ k \in 1 .. n
    BY <1>1
  <2>4. n + 1 \in 1 .. n + 1 /\ (\A k \in 1 .. n : k \in 1 .. n + 1)
    BY <1>1
  <2>5. ASSUME NEW x \in Int
        PROVE  (\E k \in 1 .. n + 1 : Within(new[k], x)) <=> (\E k \in 1 .. n : Within(m[k], x)) \/ Within(i, x)
    BY <2>2, <2>3, <2>4
  <2>6. ASSUME low PROVE \A k \in 1 .. n + 1 : new[k][1] <= i[1]
    <3>1. i[1] <= i[1]
      BY <1>2
    <3>2. QED
      BY <2>2, <2>3, <2>6, <3>1
  <2>7. ASSUME low, NEW k \in 1 .. n + 1, NEW l \in 1 .. n + 1, k < l PROVE new[k][1] <= new[l][1]
    <3>1. k \in 1 .. n /\ (l = n + 1 \/ l \in 1 .. n)
      BY <1>1, <2>3, <2>7
    <3>2. new[k][1] <= i[1]
      BY <2>6, <2>7
    <3>3. QED
      BY <2>2, <2>7, <3>1, <3>2 DEF StartsRise
  <2>8. low => StartsRise(new)
    BY <2>2, <2>7 DEF StartsRise
  <2>9. QED
    BY <2>2, <2>5, <2>6, <2>8 DEF new
<1>5. QED
  BY <1>3, <1>4

(* merge_intervals: what it returns rises and has the same minutes. *)
LEMMA MergeIs ==
  ASSUME NEW S \in SUBSET Spans, IsFiniteSet(S)
  PROVE  LET merged == MergeIntervals(S)
         IN  /\ merged \in Seq(Spans) /\ StartsRise(merged)
             /\ \A x \in Int : (\E k \in 1 .. Len(merged) : Within(merged[k], x)) <=> \E i \in S : Within(i, x)
<1> DEFINE n      == Cardinality(S)
           seq    == Ordered(S)
           V      == Seq(Spans)
           step   == [p \in (1 .. n) \X V |-> Joined(p[2], seq[p[1]])]
           All(f) == [k \in 0 .. Len(seq) |-> IF k = 0 THEN <<>> ELSE Joined(f[k - 1], seq[k])]
           upTo   == CHOOSE f : f = All(f)
           merged == MergeIntervals(S)
<1>1. /\ n \in Nat /\ seq \in [1 .. n -> S] /\ Len(seq) = n
      /\ S = {seq[k] : k \in 1 .. n}
      /\ \A k, l \in 1 .. n : k < l => seq[k][1] <= seq[l][1]
  BY OrderedIs
<1>2. merged = upTo[Len(seq)]
  BY DEF MergeIntervals, Joined
<1> HIDE DEF seq, n, merged
<1>3. /\ <<>> \in V
      /\ \A k \in 1 .. n : seq[k] \in Spans /\ seq[k] \in S
      /\ \A m \in V, k \in 1 .. n : Joined(m, seq[k]) \in V
  <2>1. \A k \in 1 .. n : seq[k] \in Spans /\ seq[k] \in S
    BY <1>1
  <2>2. QED
    BY <2>1, JoinedIs
<1>4. step \in [(1 .. n) \X V -> V] /\ \A k \in 1 .. n, m \in V : step[<<k, m>>] = Joined(m, seq[k])
  <2> HIDE DEF V
  <2>1. QED
    BY <1>3
<1>5. PICK run \in [0 .. n -> V] : Runs(run, <<>>, step, n)
  <2> HIDE DEF V, step
  <2>1. QED
    BY <1>1, <1>3, <1>4, RunExists
<1>6. run = All(run)
  <2>1. ASSUME NEW k \in 0 .. n PROVE run[k] = IF k = 0 THEN <<>> ELSE Joined(run[k - 1], seq[k])
    <3>1. run[0] = <<>>
      BY <1>5 DEF Runs
    <3>2. ASSUME k # 0 PROVE run[k] = Joined(run[k - 1], seq[k])
      <4>1. k \in 1 .. n /\ k - 1 \in 0 .. n
        BY <1>1, <3>2
      <4>2. run[k] = step[<<k, run[k - 1]>>] /\ run[k - 1] \in V
        BY <1>5, <4>1 DEF Runs
      <4> HIDE DEF V, step
      <4>3. QED
        BY <1>4, <4>1, <4>2
    <3>3. QED
      BY <3>1, <3>2
  <2> HIDE DEF V
  <2>2. run = [k \in 0 .. n |-> run[k]]
    BY <1>5
  <2>3. QED
    BY <1>1, <2>1, <2>2
<1>7. upTo = All(upTo)
  BY <1>6
<1> HIDE DEF upTo, V, step
<1>8. upTo[0] = <<>> /\ \A k \in 0 .. n - 1 : upTo[k + 1] = Joined(upTo[k], seq[k + 1])
  <2>1. \A k \in 0 .. n : upTo[k] = IF k = 0 THEN <<>> ELSE Joined(upTo[k - 1], seq[k])
    BY <1>1, <1>7
  <2>2. ASSUME NEW k \in 0 .. n - 1 PROVE upTo[k + 1] = Joined(upTo[k], seq[k + 1])
    <3>1. k + 1 \in 0 .. n /\ k + 1 # 0 /\ k + 1 - 1 = k
      BY <1>1
    <3>2. QED
      BY <2>1, <3>1
  <2>3. QED
    BY <1>1, <2>1, <2>2
<1> DEFINE Good(k) ==
             /\ upTo[k] \in V /\ StartsRise(upTo[k])
             /\ \A j \in 1 .. Len(upTo[k]) : \A l \in k + 1 .. n : upTo[k][j][1] <= seq[l][1]
             /\ \A x \in Int : (\E j \in 1 .. Len(upTo[k]) : Within(upTo[k][j], x)) <=> \E l \in 1 .. k : Within(seq[l], x)
           T == {k \in Nat : k <= n => Good(k)}
<1>9. 0 \in T
  <2>1. Len(<<>>) = 0 /\ 1 .. 0 = {}
    OBVIOUS
  <2>2. Good(0)
    BY <1>3, <1>8, <2>1 DEF StartsRise
  <2>3. QED
    BY <2>2
<1>10. ASSUME NEW k \in Nat, k \in T PROVE k + 1 \in T
  <2> SUFFICES ASSUME k + 1 <= n PROVE Good(k + 1)
    OBVIOUS
  <2> DEFINE m   == upTo[k]
             i   == seq[k + 1]
             new == upTo[k + 1]
  <2>1. /\ k \in 0 .. n - 1 /\ k + 1 \in 1 .. n /\ k + 1 \in k + 1 .. n
        /\ \A l \in k + 2 .. n : l \in 1 .. n /\ k + 1 < l
        /\ \A l \in 1 .. k + 1 : l \in 1 .. k \/ l = k + 1
        /\ \A l \in 1 .. k : l \in 1 .. k + 1
        /\ k + 1 + 1 = k + 2 /\ k + 1 \in 1 .. k + 1
    BY <1>1
  <2>2. i \in Spans /\ new = Joined(m, i)
    BY <1>3, <1>8, <2>1
  <2> HIDE DEF Good
  <2>9. Good(k)
    <3>1. k <= n
      BY <1>1
    <3>2. QED
      BY <1>10, <3>1
  <2> USE DEF Good
  <2>3. m \in Seq(Spans) /\ StartsRise(m) /\ \A j \in 1 .. Len(m) : m[j][1] <= i[1]
    BY <2>1, <2>9 DEF V
  <2>4. \A x \in Int : (\E j \in 1 .. Len(m) : Within(m[j], x)) <=> \E l \in 1 .. k : Within(seq[l], x)
    BY <2>9
  <2> HIDE DEF m, i, new, T
  <2>5. /\ new \in Seq(Spans) /\ StartsRise(new)
        /\ \A j \in 1 .. Len(new) : new[j][1] <= i[1]
        /\ \A x \in Int : (\E j \in 1 .. Len(new) : Within(new[j], x)) <=> (\E j \in 1 .. Len(m) : Within(m[j], x)) \/ Within(i, x)
    <3>1. /\ Joined(m, i) \in Seq(Spans)
          /\ StartsRise(m) /\ (\A j \in 1 .. Len(m) : m[j][1] <= i[1]) =>
               /\ StartsRise(Joined(m, i))
               /\ \A j \in 1 .. Len(Joined(m, i)) : Joined(m, i)[j][1] <= i[1]
               /\ \A x \in Int : (\E j \in 1 .. Len(Joined(m, i)) : Within(Joined(m, i)[j], x))
                                   <=> (\E j \in 1 .. Len(m) : Within(m[j], x)) \/ Within(i, x)
      BY <2>2, <2>3, JoinedIs, Zenon
    <3>2. QED
      BY <2>2, <2>3, <3>1, Zenon
  <2>6. ASSUME NEW j \in 1 .. Len(new), NEW l \in k + 2 .. n PROVE new[j][1] <= seq[l][1]
    <3>1. new[j][1] <= i[1] /\ i[1] <= seq[l][1]
      BY <1>1, <2>1, <2>5 DEF i
    <3>2. new[j] \in Spans /\ i \in Spans /\ seq[l] \in Spans
      BY <1>3, <2>1, <2>2, <2>5, ElementOfSeq
    <3>3. new[j][1] \in Nat /\ i[1] \in Nat /\ seq[l][1] \in Nat
      BY <3>2, SpansAre
    <3>4. QED
      BY <3>1, <3>3
  <2>7. ASSUME NEW x \in Int
        PROVE  (\E j \in 1 .. Len(new) : Within(new[j], x)) <=> \E l \in 1 .. k + 1 : Within(seq[l], x)
    <3>1. (\E l \in 1 .. k + 1 : Within(seq[l], x)) <=> (\E l \in 1 .. k : Within(seq[l], x)) \/ Within(i, x)
      BY <2>1 DEF i
    <3>2. QED
      BY <2>4, <2>5, <3>1
  <2>8. QED
    BY <2>1, <2>5, <2>6, <2>7 DEF new, V
<1>11. Good(n)
  <2> HIDE DEF Good
  <2>1. n \in T
    <3> HIDE DEF T
    <3>1. QED
      BY <1>1, <1>9, <1>10, Stepwise
  <2>2. QED
    BY <1>1, <2>1
<1>12. merged = upTo[n]
  BY <1>1, <1>2
<1>13. \A x \in Int : (\E l \in 1 .. n : Within(seq[l], x)) <=> \E i \in S : Within(i, x)
  BY <1>1
<1>14. QED
  BY <1>11, <1>12, <1>13 DEF merged, V

(* covers: one step of the walk. *)
Moved(cursor, i, to) ==
  IF cursor.gap \/ cursor.at >= to THEN cursor
  ELSE IF i[1] > cursor.at THEN [at |-> cursor.at, gap |-> TRUE]
  ELSE [at |-> Larger(cursor.at, i[2]), gap |-> FALSE]

(* Where the walk is, and whether it has met a gap. *)
Cursors == [at : Int, gap : BOOLEAN]

Stuck(cursor) == cursor.gap

(* A step passes only minutes of the interval, and stops short only at a   *)
(* minute that is before it.                                               *)
LEMMA MovedIs ==
  ASSUME NEW cursor \in Cursors, NEW i \in Spans, NEW to \in Int, NEW next, next = Moved(cursor, i, to)
  PROVE  /\ next \in Cursors /\ next.at >= cursor.at
         /\ \A x \in cursor.at .. next.at - 1 : Within(i, x)
         /\ Stuck(next) \/ next.at >= to \/ (next.at >= i[2] /\ ~Stuck(cursor) /\ cursor.at < to)
         /\ Stuck(next) => next.at = cursor.at
         /\ Stuck(next) /\ ~Stuck(cursor) => next.at < to /\ next.at < i[1]
<1>1. cursor.at \in Int /\ cursor.gap \in BOOLEAN /\ cursor = [at |-> cursor.at, gap |-> cursor.gap]
  BY DEF Cursors
<1>2. i[1] \in Nat /\ i[2] \in Nat /\ i[1] < i[2]
  BY SpansAre
<1>3. CASE cursor.gap \/ cursor.at >= to
  BY <1>1, <1>3 DEF Moved, Cursors, Stuck
<1>4. CASE ~(cursor.gap \/ cursor.at >= to) /\ i[1] > cursor.at
  <2>1. Moved(cursor, i, to) = [at |-> cursor.at, gap |-> TRUE]
    BY <1>4 DEF Moved
  <2>2. QED
    BY <1>1, <1>2, <1>4, <2>1 DEF Cursors, Stuck
<1>5. CASE ~(cursor.gap \/ cursor.at >= to) /\ ~(i[1] > cursor.at)
  <2>1. Moved(cursor, i, to) = [at |-> Larger(cursor.at, i[2]), gap |-> FALSE]
    BY <1>5 DEF Moved
  <2>2. Larger(cursor.at, i[2]) \in Int /\ Larger(cursor.at, i[2]) >= cursor.at /\ Larger(cursor.at, i[2]) >= i[2]
    BY <1>1, <1>2 DEF Larger
  <2>3. \A x \in cursor.at .. Larger(cursor.at, i[2]) - 1 : Within(i, x)
    BY <1>1, <1>2, <1>5 DEF Larger, Within
  <2>4. QED
    BY <1>1, <1>2, <1>5, <2>1, <2>2, <2>3 DEF Cursors, Stuck
<1>6. QED
  BY <1>3, <1>4, <1>5

(* The walk reaches the end if and only if every minute is in an interval, *)
(* as those that come later start later still.                             *)
LEMMA CoversIs ==
  ASSUME NEW intervals \in Seq(Spans), StartsRise(intervals), NEW from \in Int, NEW to \in Int
  PROVE  Covers(intervals, from, to) <=>
           \A x \in from .. to - 1 : \E k \in 1 .. Len(intervals) : Within(intervals[k], x)
<1> DEFINE n      == Len(intervals)
           base   == [at |-> from, gap |-> FALSE]
           step   == [p \in (1 .. n) \X Cursors |-> Moved(p[2], intervals[p[1]], to)]
           All(f) == [k \in 0 .. n |-> IF k = 0 THEN base ELSE Moved(f[k - 1], intervals[k], to)]
           walk   == CHOOSE f : f = All(f)
           covered(x) == \E k \in 1 .. n : Within(intervals[k], x)
<1>1. n \in Nat /\ \A k \in 1 .. n : intervals[k] \in Spans
  BY LenProperties, ElementOfSeq
<1>2. Covers(intervals, from, to) <=> from >= to \/ (~Stuck(walk[n]) /\ walk[n].at >= to)
  BY DEF Covers, Moved, Stuck
<1> HIDE DEF n
<1>3. base \in Cursors
  BY DEF Cursors
<1> HIDE DEF base
<1>4. step \in [(1 .. n) \X Cursors -> Cursors]
      /\ \A k \in 1 .. n, c \in Cursors : step[<<k, c>>] = Moved(c, intervals[k], to)
  BY <1>1, MovedIs
<1> HIDE DEF step
<1>5. PICK run \in [0 .. n -> Cursors] : Runs(run, base, step, n)
  BY <1>1, <1>3, <1>4, RunExists
<1>6. run = All(run)
  <2>1. ASSUME NEW k \in 0 .. n PROVE run[k] = IF k = 0 THEN base ELSE Moved(run[k - 1], intervals[k], to)
    <3>1. run[0] = base
      BY <1>5 DEF Runs
    <3>2. ASSUME k # 0 PROVE run[k] = Moved(run[k - 1], intervals[k], to)
      <4>1. k \in 1 .. n /\ k - 1 \in 0 .. n
        BY <1>1, <3>2
      <4>2. run[k] = step[<<k, run[k - 1]>>] /\ run[k - 1] \in Cursors
        BY <1>5, <4>1 DEF Runs
      <4>3. QED
        BY <1>4, <4>1, <4>2
    <3>3. QED
      BY <3>1, <3>2
  <2>2. run = [k \in 0 .. n |-> run[k]]
    BY <1>5
  <2>3. QED
    BY <2>1, <2>2
<1>7. walk = All(walk)
  BY <1>6
<1> HIDE DEF walk
<1>8. walk[0] = base /\ \A k \in 0 .. n - 1 : walk[k + 1] = Moved(walk[k], intervals[k + 1], to)
  <2>1. \A k \in 0 .. n : walk[k] = IF k = 0 THEN base ELSE Moved(walk[k - 1], intervals[k], to)
    BY <1>7
  <2>2. ASSUME NEW k \in 0 .. n - 1 PROVE walk[k + 1] = Moved(walk[k], intervals[k + 1], to)
    <3>1. k + 1 \in 0 .. n /\ k + 1 # 0 /\ k + 1 - 1 = k
      BY <1>1
    <3>2. QED
      BY <2>1, <3>1
  <2>3. QED
    BY <1>1, <2>1, <2>2
<1> DEFINE Good(k) ==
             /\ walk[k] \in Cursors /\ walk[k].at >= from
             /\ \A x \in from .. walk[k].at - 1 : covered(x)
             /\ Stuck(walk[k]) \/ walk[k].at >= to \/ \A l \in 1 .. k : intervals[l][2] <= walk[k].at
             /\ Stuck(walk[k]) => walk[k].at < to /\ ~covered(walk[k].at)
           T == {k \in Nat : k <= n => Good(k)}
<1>9. Good(0)
  BY <1>3, <1>8 DEF base, Cursors, Stuck
<1>10. ASSUME NEW k \in Nat, k + 1 <= n, Good(k) PROVE Good(k + 1)
  <2> DEFINE one == walk[k]
             two == walk[k + 1]
             i   == intervals[k + 1]
  <2>1. k \in 0 .. n - 1 /\ k + 1 \in 1 .. n /\ (\A l \in 1 .. k + 1 : l = k + 1 \/ l \in 1 .. k)
    BY <1>1, <1>10
  <2>2. i \in Spans /\ two = Moved(one, i, to)
    BY <1>1, <1>8, <2>1
  <2>3. /\ one \in Cursors /\ one.at >= from
        /\ \A x \in from .. one.at - 1 : covered(x)
        /\ Stuck(one) \/ one.at >= to \/ \A l \in 1 .. k : intervals[l][2] <= one.at
        /\ Stuck(one) => one.at < to /\ ~covered(one.at)
    BY <1>10
  <2> HIDE DEF one, two, i, covered
  <2>11. one \in Cursors
    BY <2>3
  <2>4. /\ two \in Cursors /\ two.at >= one.at
        /\ \A x \in one.at .. two.at - 1 : Within(i, x)
        /\ Stuck(two) \/ two.at >= to \/ (two.at >= i[2] /\ ~Stuck(one) /\ one.at < to)
        /\ Stuck(two) => two.at = one.at
        /\ Stuck(two) /\ ~Stuck(one) => two.at < to /\ two.at < i[1]
    BY <2>2, <2>11, MovedIs, Zenon
  <2>5. one.at \in Int /\ two.at \in Int
    BY <2>3, <2>4 DEF Cursors
  <2>6. ASSUME NEW x \in from .. two.at - 1 PROVE covered(x)
    <3>1. x \in from .. one.at - 1 \/ x \in one.at .. two.at - 1
      BY <2>5
    <3>2. x \in one.at .. two.at - 1 => covered(x)
      BY <2>1, <2>4 DEF covered, i
    <3>3. QED
      BY <2>3, <3>1, <3>2
  <2>7. ASSUME ~Stuck(two), ~(two.at >= to), NEW l \in 1 .. k + 1 PROVE intervals[l][2] <= two.at
    <3>1. two.at >= i[2] /\ ~Stuck(one) /\ one.at < to
      BY <2>4, <2>7
    <3>2. l = k + 1 => intervals[l][2] <= two.at
      <4>1. i[2] \in Nat
        BY <2>2, SpansAre
      <4>2. QED
        BY <2>5, <3>1, <4>1 DEF i
    <3>3. l \in 1 .. k => intervals[l][2] <= two.at
      <4> SUFFICES ASSUME l \in 1 .. k PROVE intervals[l][2] <= two.at
        OBVIOUS
      <4>1. intervals[l][2] <= one.at
        BY <2>3, <2>5, <3>1
      <4>2. l \in 1 .. n
        BY <1>1, <1>10
      <4>3. intervals[l][2] \in Nat
        BY <1>1, <4>2, SpansAre
      <4>4. QED
        BY <2>4, <2>5, <4>1, <4>3
    <3>4. QED
      BY <2>1, <3>2, <3>3
  <2>8. ASSUME Stuck(two) PROVE two.at < to /\ ~covered(two.at)
    <3>3. two.at = one.at
      BY <2>4, <2>8
    <3>1. CASE Stuck(one)
      <4>1. one.at < to /\ ~covered(one.at)
        BY <2>3, <3>1, Zenon
      <4>2. QED
        BY <3>3, <4>1
    <3>2. CASE ~Stuck(one)
      <4>1. two.at = one.at /\ two.at < to /\ two.at < i[1]
        BY <2>4, <2>8, <3>2, <3>3
      <4>2. ASSUME NEW l \in 1 .. n PROVE ~Within(intervals[l], two.at)
        <5>1. l \in Int /\ n \in Int /\ (l \in 1 .. k \/ l = k + 1 \/ k + 1 < l)
          BY <1>1
        <5>2. intervals[l] \in Spans /\ intervals[l][1] \in Nat /\ intervals[l][2] \in Nat /\ i[1] \in Nat
          BY <1>1, <2>2, SpansAre
        <5>3. CASE l \in 1 .. k
          <6>1. intervals[l][2] <= one.at
            BY <2>3, <2>5, <3>2, <4>1, <5>3
          <6>2. QED
            BY <2>5, <4>1, <5>2, <6>1 DEF Within
        <5>4. CASE l = k + 1
          BY <2>5, <4>1, <5>2, <5>4 DEF Within, i
        <5>5. CASE k + 1 < l
          <6>1. i[1] <= intervals[l][1]
            BY <2>1, <5>5 DEF StartsRise, n, i
          <6>2. QED
            BY <2>5, <4>1, <5>2, <6>1 DEF Within
        <5>6. QED
          BY <5>1, <5>3, <5>4, <5>5
      <4>3. QED
        BY <4>1, <4>2 DEF covered
    <3>4. QED
      BY <3>1, <3>2
  <2>9. two.at >= from
    BY <2>3, <2>4, <2>5
  <2>10. QED
    BY <2>4, <2>6, <2>7, <2>8, <2>9 DEF two, covered
<1>11. Good(n)
  <2>1. 0 \in T
    BY <1>9
  <2>2. ASSUME NEW k \in Nat, k \in T PROVE k + 1 \in T
    <3> SUFFICES ASSUME k + 1 <= n PROVE Good(k + 1)
      OBVIOUS
    <3> HIDE DEF Good
    <3>1. k <= n
      BY <1>1
    <3>2. Good(k)
      BY <2>2, <3>1
    <3>3. QED
      BY <1>10, <3>2
  <2> HIDE DEF Good
  <2>3. n \in T
    <3> HIDE DEF T
    <3>1. QED
      BY <1>1, <2>1, <2>2, Stepwise
  <2>4. QED
    BY <1>1, <2>3
<1> DEFINE end == walk[n]
<1>12. /\ end.at \in Int /\ end.at >= from
       /\ \A x \in from .. end.at - 1 : covered(x)
       /\ Stuck(end) \/ end.at >= to \/ \A l \in 1 .. n : intervals[l][2] <= end.at
       /\ Stuck(end) => end.at < to /\ ~covered(end.at)
  BY <1>11 DEF Cursors
<1> HIDE DEF end, covered, Good
<1>13. CASE from >= to
  <2>1. from .. to - 1 = {}
    BY <1>13
  <2>2. QED
    BY <1>2, <1>13, <2>1
<1>14. CASE from < to
  <2>1. ASSUME ~Stuck(end), end.at >= to PROVE \A x \in from .. to - 1 : covered(x)
    BY <1>12, <2>1
  <2>2. ASSUME Stuck(end) \/ ~(end.at >= to) PROVE \E x \in from .. to - 1 : ~covered(x)
    <3>1. end.at < to /\ ~covered(end.at)
      <4>1. CASE Stuck(end)
        BY <1>12, <4>1
      <4>2. CASE ~Stuck(end)
        <5>1. end.at < to /\ \A l \in 1 .. n : intervals[l][2] <= end.at
          BY <1>12, <2>2, <4>2
        <5>2. ASSUME NEW l \in 1 .. n PROVE ~Within(intervals[l], end.at)
          <6>1. intervals[l][2] \in Nat
            BY <1>1, SpansAre
          <6>2. QED
            BY <1>12, <5>1, <6>1 DEF Within
        <5>3. QED
          BY <5>1, <5>2 DEF covered
      <4>3. QED
        BY <4>1, <4>2
    <3>2. end.at \in from .. to - 1
      BY <1>12, <3>1
    <3>3. QED
      BY <3>1, <3>2
  <2>3. Covers(intervals, from, to) <=> ~Stuck(end) /\ end.at >= to
    BY <1>2, <1>14 DEF end
  <2>4. QED
    BY <2>1, <2>2, <2>3 DEF covered, n
<1>15. QED
  BY <1>13, <1>14

(* The hours of a weekday are the minutes of its active rules.             *)
LEMMA HoursAre ==
  ASSUME NEW listing \in Listings, NEW d
  PROVE  LET hours == IntervalsForWeekday(listing.rules, d)
             rules == {r \in listing.rules : r.active /\ r.day = d}
         IN  /\ hours \in Seq(Spans) /\ StartsRise(hours)
             /\ \A x \in Int : (\E k \in 1 .. Len(hours) : Within(hours[k], x)) <=>
                                 \E r \in rules : r.from <= x /\ x < r.to
<1> DEFINE rules == {r \in listing.rules : r.active /\ r.day = d}
           S     == {<<r.from, r.to>> : r \in rules}
           f     == [r \in rules |-> <<r.from, r.to>>]
<1>1. IsFiniteSet(listing.rules) /\ rules \in SUBSET listing.rules
  BY SearchAssumption
<1>2. IsFiniteSet(rules)
  BY <1>1, FS_Subset
<1>3. \A r \in rules : r.from \in Nat /\ r.to \in Nat /\ r.from < r.to /\ r.to <= MinutesPerDay
  BY <1>1, SearchAssumption, CalendarAssumption
<1>4. IntervalsForWeekday(listing.rules, d) = MergeIntervals(S)
  BY DEF IntervalsForWeekday
<1> HIDE DEF rules
<1>5. f \in Surjection(rules, S)
  BY DEF Surjection
<1>6. IsFiniteSet(S)
  <2> HIDE DEF f, S
  <2>1. QED
    BY <1>2, <1>5, FS_Surjection
<1>7. S \in SUBSET Spans
  BY <1>3, SpanFrom
<1>8. ASSUME NEW x \in Int PROVE (\E i \in S : Within(i, x)) <=> \E r \in rules : r.from <= x /\ x < r.to
  <2>1. \A r \in rules : Within(<<r.from, r.to>>, x) <=> r.from <= x /\ x < r.to
    BY DEF Within
  <2>2. QED
    BY <2>1
<1> HIDE DEF S
<1>9. QED
  BY <1>4, <1>6, <1>7, <1>8, MergeIs DEF rules

(* Sorting, joining and walking the intervals of a weekday loses and adds  *)
(* nothing, whatever the rules, overlapping or touching: a listing has     *)
(* hours on a weekday when a rule of it is active, and they cover a range  *)
(* when each of its minutes is in an active rule (merge_intervals,         *)
(* intervals_for_weekday, covers).                                         *)
THEOREM HoursAreTheRules ==
  ASSUME NEW listing \in Listings, NEW d, NEW from \in Int, NEW to \in Int
  PROVE  LET hours == IntervalsForWeekday(listing.rules, d)
             rules == {r \in listing.rules : r.active /\ r.day = d}
         IN  /\ hours # <<>> <=> rules # {}
             /\ Covers(hours, from, to) <=> \A x \in from .. to - 1 : \E r \in rules : r.from <= x /\ x < r.to
<1> DEFINE hours == IntervalsForWeekday(listing.rules, d)
           rules == {r \in listing.rules : r.active /\ r.day = d}
<1>1. /\ hours \in Seq(Spans) /\ StartsRise(hours)
      /\ \A x \in Int : (\E k \in 1 .. Len(hours) : Within(hours[k], x)) <=>
                          \E r \in rules : r.from <= x /\ x < r.to
  BY HoursAre
<1>2. \A r \in rules : r.from \in Nat /\ r.to \in Nat /\ r.from < r.to
  BY SearchAssumption, CalendarAssumption
<1> HIDE DEF hours, rules
<1>3. Len(hours) \in Nat /\ (hours # <<>> <=> 1 \in 1 .. Len(hours))
  BY <1>1, LenProperties, EmptySeq
<1>4. ASSUME hours # <<>> PROVE rules # {}
  <2>1. hours[1] \in Spans /\ 1 \in 1 .. Len(hours)
    BY <1>1, <1>3, <1>4, ElementOfSeq
  <2>2. Within(hours[1], hours[1][1]) /\ hours[1][1] \in Int
    BY <2>1, SpansAre DEF Within
  <2>3. QED
    BY <1>1, <2>1, <2>2
<1>5. ASSUME rules # {} PROVE hours # <<>>
  <2>1. PICK r \in rules : r.from <= r.from /\ r.from < r.to /\ r.from \in Int
    BY <1>2, <1>5
  <2>2. PICK k \in 1 .. Len(hours) : Within(hours[k], r.from)
    BY <1>1, <2>1
  <2>3. 1 \in 1 .. Len(hours)
    BY <1>3
  <2>4. QED
    BY <1>3, <2>3
<1>6. Covers(hours, from, to) <=> \A x \in from .. to - 1 : \E k \in 1 .. Len(hours) : Within(hours[k], x)
  BY <1>1, CoversIs
<1>7. Covers(hours, from, to) <=> \A x \in from .. to - 1 : \E r \in rules : r.from <= x /\ x < r.to
  <2>1. \A x \in from .. to - 1 : x \in Int
    OBVIOUS
  <2>2. QED
    BY <1>1, <1>6, <2>1
<1>8. QED
  BY <1>4, <1>5, <1>7 DEF hours, rules

(* A window of one day has one segment. *)
LEMMA WithinDay ==
  ASSUME NEW day \in Int, NEW a \in Nat, NEW b \in Nat, a < b, b <= MinutesPerDay,
         NEW w, w.start = Midnight(day) + TicksPerMinute * a, w.end = Midnight(day) + TicksPerMinute * b
  PROVE  /\ w.start \in Int /\ w.end \in Int
         /\ Midnight(day) <= w.start /\ w.end <= Midnight(day + 1)
         /\ DailySegments(w) = {[day |-> day, from |-> a, to |-> b]}
<1> DEFINE t == TicksPerMinute
           m == MinutesPerDay
           night == Midnight(day)
           next == Midnight(day + 1)
<1>1. t \in Nat \ {0} /\ m \in Nat \ {0}
  BY CalendarAssumption
<1>2. PICK from \in Nat, to \in Nat, all \in Nat \ {0} : from = t * a /\ to = t * b /\ all = m * t
  BY <1>1
<1>3. from < to /\ to <= all
  <2>1. \A x \in Nat, y \in Nat : x < y => t * x < t * y
    BY <1>1
  <2>2. from < to
    BY <1>2, <2>1
  <2>3. t * m = all
    BY <1>1, <1>2
  <2>4. b < m => to < all
    BY <1>1, <1>2, <2>1, <2>3
  <2>5. b = m => to = all
    BY <1>2, <2>3
  <2>6. QED
    BY <1>1, <2>2, <2>4, <2>5
<1>4. DayTicks = all /\ night = day * all /\ next = (day + 1) * all
  BY <1>2 DEF DayTicks, Midnight
<1>5. night \in Int /\ next = night + all
  BY <1>4
<1>6. w.start = night + from /\ w.end = night + to
  BY <1>2
<1>7. DateOf(w.start) = day /\ DateOf(w.end - 1) = day
  <2>1. night = all * day
    BY <1>4
  <2>2. w.start = all * day + from /\ w.start \in Int /\ from \in 0 .. all - 1
    BY <1>3, <1>5, <1>6, <2>1
  <2>3. w.end - 1 = all * day + (to - 1) /\ w.end - 1 \in Int /\ to - 1 \in 0 .. all - 1
    BY <1>3, <1>5, <1>6, <2>1
  <2>4. w.start \div all = day
    BY <2>2, QuotientIs
  <2>5. (w.end - 1) \div all = day
    BY <2>3, QuotientIs
  <2>6. QED
    BY <1>4, <2>4, <2>5 DEF DateOf
<1>8. MinutesSince(day, w.start) = a /\ MinutesSince(day, w.end) = b
  <2>1. w.start - night = t * a + 0 /\ w.end - night = t * b + 0 /\ t * a + 0 \in Int /\ t * b + 0 \in Int
    BY <1>2, <1>5, <1>6
  <2>2. 0 \in 0 .. t - 1
    BY <1>1
  <2>3. (t * a + 0) \div t = a /\ (t * b + 0) \div t = b
    BY <1>1, <2>1, <2>2, QuotientIs
  <2>4. QED
    BY <2>1, <2>3 DEF MinutesSince
<1>9. Larger(w.start, night) = w.start /\ Smaller(w.end, next) = w.end
  BY <1>3, <1>5, <1>6 DEF Larger, Smaller
<1>10. day .. day = {day}
  OBVIOUS
<1> DEFINE segment(d) == [day  |-> d,
                          from |-> MinutesSince(d, Larger(w.start, Midnight(d))),
                          to   |-> MinutesSince(d, Smaller(w.end, Midnight(d + 1)))]
<1>11. DailySegments(w) = {s \in {segment(d) : d \in day .. day} : s.to > s.from}
  BY <1>7 DEF DailySegments
<1>12. segment(day) = [day |-> day, from |-> a, to |-> b]
  BY <1>8, <1>9
<1> HIDE DEF segment
<1>13. DailySegments(w) = {[day |-> day, from |-> a, to |-> b]}
  BY <1>10, <1>11, <1>12
<1>14. QED
  BY <1>3, <1>5, <1>6, <1>13

(* A listing that is free and open over a window is free over one inside.  *)
LEMMA InsideIsFree ==
  ASSUME NEW listing \in Listings, NEW v, NEW w,
         v.start \in Int, v.end \in Int, w.start \in Int, w.end \in Int,
         w.start <= v.start, v.end <= w.end, ~Blocked(listing, w), ~FullyBooked(listing, w)
  PROVE  ~Blocked(listing, v) /\ ~FullyBooked(listing, v)
<1>1. ASSUME NEW b, b.start \in Int, b.end \in Int, Overlaps(b, v) PROVE Overlaps(b, w)
  BY <1>1 DEF Overlaps
<1>2. ~Blocked(listing, v)
  <2>1. \A b \in listing.blocks : b.start \in Int /\ b.end \in Int
    BY SearchAssumption
  <2>2. QED
    BY <1>1, <2>1 DEF Blocked
<1>3. SlotsTaken(listing, v) \subseteq SlotsTaken(listing, w)
  <2>1. \A c \in listing.booked : c.window.start \in Int /\ c.window.end \in Int
    BY SearchAssumption
  <2>2. QED
    BY <1>1, <2>1 DEF SlotsTaken
<1>4. ~FullyBooked(listing, v)
  <2>1. /\ IsFiniteSet(SlotsTaken(listing, v)) /\ IsFiniteSet(SlotsTaken(listing, w))
        /\ Capacity(listing) \in Nat
    BY TakenSlots, SearchAssumption DEF Capacity, Larger
  <2>2. Cardinality(SlotsTaken(listing, v)) <= Cardinality(SlotsTaken(listing, w))
    BY <1>3, <2>1, FS_Subset
  <2>3. Cardinality(SlotsTaken(listing, v)) \in Nat /\ Cardinality(SlotsTaken(listing, w)) \in Nat
    BY <2>1, FS_CardinalityType
  <2>4. QED
    BY <2>1, <2>2, <2>3 DEF FullyBooked
<1>5. QED
  BY <1>2, <1>4

(* A day that the provider's calendar shows as open can be booked as a     *)
(* day, and by the hour in each of its windows (build_calendar,            *)
(* assert_available).                                                      *)
THEOREM OpenDaysHaveRoom == Spec => []OpenDayHasRoom
<1>1. ASSUME NEW listing \in Listings, NEW day \in Int, IsOpen(listing, day)
      PROVE  LET windows == IntervalsForWeekday(listing.rules, Weekday(day))
                 At(i)   == [start |-> Midnight(day) + TicksPerMinute * windows[i][1],
                             end   |-> Midnight(day) + TicksPerMinute * windows[i][2]]
             IN  /\ AssertAvailable(listing, DayOf(day), "DAILY") # {}
                 /\ \A i \in DOMAIN windows : AssertAvailable(listing, At(i), "HOURLY") # {}
  <2> DEFINE windows == IntervalsForWeekday(listing.rules, Weekday(day))
             all     == DayOf(day)
             At(i)   == [start |-> Midnight(day) + TicksPerMinute * windows[i][1],
                         end   |-> Midnight(day) + TicksPerMinute * windows[i][2]]
  <2>1. windows # <<>> /\ ~Blocked(listing, all)
    BY <1>1 DEF IsOpen
  <2>2. ~FullyBooked(listing, all)
    <3>1. Capacity(listing) \in Nat /\ Cardinality(SlotsTaken(listing, all)) \in Nat
      BY TakenSlots, FS_CardinalityType, SearchAssumption DEF Capacity, Larger
    <3>2. Cardinality(SlotsTaken(listing, all)) < Capacity(listing)
      BY <1>1 DEF IsOpen
    <3>3. QED
      BY <3>1, <3>2 DEF FullyBooked
  <2>3. /\ windows \in Seq(Spans) /\ StartsRise(windows)
        /\ \A x \in Int : (\E k \in 1 .. Len(windows) : Within(windows[k], x)) =>
                            \E r \in listing.rules : r.from <= x /\ x < r.to
    BY HoursAre
  <2>4. /\ all.start \in Int /\ all.end \in Int
        /\ all.start = Midnight(day) /\ all.end = Midnight(day + 1)
        /\ DailySegments(all) = {[day |-> day, from |-> 0, to |-> MinutesPerDay]}
    <3>1. all.start = Midnight(day) /\ all.end = Midnight(day + 1)
      BY DEF DayOf
    <3>2. /\ Midnight(day) = Midnight(day) + TicksPerMinute * 0
          /\ Midnight(day + 1) = Midnight(day) + TicksPerMinute * MinutesPerDay
      BY CalendarAssumption DEF Midnight, DayTicks
    <3>3. 0 \in Nat /\ MinutesPerDay \in Nat /\ 0 < MinutesPerDay /\ MinutesPerDay <= MinutesPerDay
      BY CalendarAssumption
    <3> HIDE DEF all
    <3>4. all.start = Midnight(day) + TicksPerMinute * 0 /\ all.end = Midnight(day) + TicksPerMinute * MinutesPerDay
      BY <3>1, <3>2
    <3>5. QED
      BY <3>1, <3>3, <3>4, WithinDay
  <2> HIDE DEF windows, all
  <2>5. ASSUME NEW k \in DOMAIN windows
        PROVE  /\ k \in 1 .. Len(windows) /\ windows[k] \in Spans /\ windows[k][1] \in Nat /\ windows[k][2] \in Nat
               /\ windows[k][1] < windows[k][2] /\ windows[k][2] <= MinutesPerDay
    <3>1. k \in 1 .. Len(windows)
      BY <2>3, LenProperties
    <3>2. windows[k] \in Spans
      BY <2>3, <3>1, ElementOfSeq
    <3>3. QED
      BY <3>1, <3>2, SpansAre
  <2>6. DOMAIN windows # {} /\ listing.rules # {}
    <3>1. Len(windows) \in Nat /\ Len(windows) # 0 /\ DOMAIN windows = 1 .. Len(windows)
      BY <2>1, <2>3, LenProperties, EmptySeq
    <3>2. 1 \in DOMAIN windows
      BY <3>1
    <3>3. Within(windows[1], windows[1][1]) /\ windows[1][1] \in Int /\ 1 \in 1 .. Len(windows)
      BY <2>5, <3>2 DEF Within
    <3>4. QED
      BY <2>3, <3>2, <3>3
  <2>7. AssertAvailable(listing, all, "DAILY") # {}
    <3>1. RulesCoverWindow(listing.rules, all, "DAILY") <=>
            /\ DailySegments(all) # {}
            /\ \A s \in DailySegments(all) : IntervalsForWeekday(listing.rules, Weekday(s.day)) # <<>>
      BY <2>4, CoverIsWalk
    <3>2. RulesCoverWindow(listing.rules, all, "DAILY")
      BY <2>1, <2>4, <3>1 DEF windows
    <3>3. QED
      BY <2>1, <2>2, <2>6, <3>2, BayFound
  <2>8. ASSUME NEW k \in DOMAIN windows PROVE AssertAvailable(listing, At(k), "HOURLY") # {}
    <3> DEFINE a == windows[k][1]
               b == windows[k][2]
               w == At(k)
    <3>1. w.start = Midnight(day) + TicksPerMinute * a /\ w.end = Midnight(day) + TicksPerMinute * b
      OBVIOUS
    <3>2. a \in Nat /\ b \in Nat /\ a < b /\ b <= MinutesPerDay /\ k \in 1 .. Len(windows)
      BY <2>5
    <3> HIDE DEF w, At
    <3>3. Covers(windows, a, b)
      <4>1. \A x \in a .. b - 1 : Within(windows[k], x)
        BY <3>2 DEF Within
      <4>2. a \in Int /\ b \in Int
        BY <3>2
      <4> HIDE DEF a, b
      <4>3. QED
        BY <2>3, <3>2, <4>1, <4>2, CoversIs
    <3> HIDE DEF a, b
    <3>4. /\ w.start \in Int /\ w.end \in Int
          /\ Midnight(day) <= w.start /\ w.end <= Midnight(day + 1)
          /\ DailySegments(w) = {[day |-> day, from |-> a, to |-> b]}
      BY <3>1, <3>2, WithinDay
    <3>5. RulesCoverWindow(listing.rules, w, "HOURLY") <=>
            /\ DailySegments(w) # {}
            /\ \A s \in DailySegments(w) : Covers(IntervalsForWeekday(listing.rules, Weekday(s.day)), s.from, s.to)
      BY <3>4, CoverIsWalk
    <3>6. RulesCoverWindow(listing.rules, w, "HOURLY")
      BY <3>3, <3>4, <3>5 DEF windows
    <3>7. ~Blocked(listing, w) /\ ~FullyBooked(listing, w)
      <4>1. all.start <= w.start /\ w.end <= all.end
        BY <2>4, <3>4
      <4>2. QED
        BY <2>1, <2>2, <2>4, <3>4, <4>1, InsideIsFree
    <3>8. AssertAvailable(listing, w, "HOURLY") # {}
      BY <2>6, <3>6, <3>7, BayFound
    <3>9. QED
      BY <3>8 DEF w
  <2>9. QED
    BY <2>7, <2>8 DEF windows, all
<1>2. Answer => OpenDayHasRoom
  <2> SUFFICES ASSUME Answer, answer.ask = "day", answer.open PROVE OpenDayHasRoom
    BY DEF OpenDayHasRoom
  <2>1. answer.listing \in Listings /\ answer.day \in 0 .. DaysInWeek - 1 /\ IsOpen(answer.listing, answer.day)
    BY DEF Answer, DayAnswer
  <2>2. answer.day \in Int
    BY <2>1, CalendarAssumption
  <2>3. QED
    BY <1>1, <2>1, <2>2 DEF OpenDayHasRoom
<1>3. QED
  BY <1>2, AnswerAlways, PTL

-----------------------------------------------------------------------------
(* Prices and refunds. *)
(* A part of a sum is not more than the sum. *)
LEMMA PercentOf ==
  ASSUME NEW a \in Nat, NEW pct \in Percentages
  PROVE  Percent(a, pct) \in 0 .. a
<1>1. pct \in Nat /\ pct <= 10000
  BY DEF Percentages
<1>2. a * pct \in Nat /\ a * 10000 \in Nat /\ a * pct <= a * 10000
  <2>1. PICK rest \in Nat : rest = 10000 - pct
    BY <1>1
  <2>2. a * rest \in Nat /\ a * pct \in Nat
    BY <1>1, <2>1
  <2>3. a * 10000 = a * pct + a * rest
    BY <1>1, <2>1
  <2>4. QED
    BY <2>2, <2>3
<1>3. RoundHalfUp(a * 10000, 10000) = a
  <2>1. 2 * (a * 10000) + 10000 = 20000 * a + 10000
    OBVIOUS
  <2>2. (2 * (a * 10000) + 10000) \div 20000 = a
    BY <2>1, QuotientIs, 10000 \in 0 .. 20000 - 1
  <2>3. QED
    BY <2>2 DEF RoundHalfUp
<1>4. RoundHalfUp(a * pct, 10000) \in Nat /\ RoundHalfUp(a * pct, 10000) <= a
  BY <1>2, <1>3, RoundGrows
<1>5. QED
  BY <1>4 DEF Percent

LEMMA PriceSplits ==
  ASSUME NEW unitPrice \in Nat, NEW quantity \in Nat, NEW share \in {NoShare} \cup Percentages, NEW config \in Configs
  PROVE  LET price == Calculate(unitPrice, quantity, share, config)
         IN  /\ price.commission + price.earning = price.base
             /\ {price.commission, price.earning} \subseteq Nat
<1> DEFINE base == RoundHalfUp(unitPrice * quantity, 100)
           price == Calculate(unitPrice, quantity, share, config)
<1>1. base \in Nat
  BY RoundGrows, unitPrice * quantity \in Nat
<1>2. config.commission \in Percentages
  BY PriceAssumption
<1>3. price.base = base
  BY DEF Calculate
<1>4. CASE share # NoShare
  <2>1. price.earning = Percent(base, share) /\ price.commission = base - Percent(base, share)
    BY <1>4 DEF Calculate
  <2>2. Percent(base, share) \in 0 .. base
    BY <1>1, <1>4, PercentOf
  <2> HIDE DEF base
  <2>3. QED
    BY <1>1, <1>3, <2>1, <2>2
<1>5. CASE share = NoShare
  <2>1. price.commission = Percent(base, config.commission) /\ price.earning = base - Percent(base, config.commission)
    BY <1>5 DEF Calculate
  <2>2. Percent(base, config.commission) \in 0 .. base
    BY <1>1, <1>2, PercentOf
  <2> HIDE DEF base
  <2>3. QED
    BY <1>1, <1>3, <2>1, <2>2
<1>6. QED
  BY <1>4, <1>5

(* Finitely many tiers can be lined up, the tightest first.                *)
TighterFirst(tiers) == {p \in tiers \X tiers : p[1].hours >= p[2].hours}

LEMMA TiersLineUp ==
  ASSUME NEW tiers, IsFiniteSet(tiers), \A t \in tiers : t.hours \in Nat
  PROVE  \E seq : Line(tiers, TighterFirst(tiers), seq)
<1>1. ASSUME NEW U \in SUBSET tiers, U # {}
      PROVE  \E x \in U : \A y \in U : <<y, x>> \in TighterFirst(tiers)
  <2> DEFINE H == {t.hours : t \in U}
  <2>1. PICK h \in H : \A g \in H : h <= g
    BY <1>1, LeastOf
  <2>2. PICK x \in U : \A y \in U : x.hours <= y.hours
    BY <2>1
  <2>3. \A y \in U : y.hours >= x.hours
    BY <2>2
  <2>4. QED
    BY <2>3 DEF TighterFirst
<1>2. QED
  BY <1>1, CanBeLinedUp

(* What a cancellation gives back. *)
FromTightestTier(total, hours, config, refund) ==
  LET met == {t \in config.tiers : t.hours <= hours}
  IN  /\ refund \in 0 .. total
      /\ IF met = {} THEN refund = Percent(total, config.otherwise)
         ELSE \E t \in met : /\ \A other \in met : other.hours <= t.hours
                             /\ refund = Percent(total, t.pct)

LEMMA RefundIs ==
  ASSUME NEW total \in Nat, NEW hours \in Nat, NEW config \in Configs
  PROVE  FromTightestTier(total, hours, config, RefundFor(total, hours, config))
<1> DEFINE tiers == config.tiers
           met   == {t \in tiers : t.hours <= hours}
           seq   == SortedTiers(config)
           n     == Cardinality(tiers)
           I     == {i \in 1 .. n : hours >= seq[i].hours}
           first == IF I # {} THEN Min(I) ELSE 0
           refund == RefundFor(total, hours, config)
<1>1. /\ config.otherwise \in Percentages /\ IsFiniteSet(tiers)
      /\ \A t \in tiers : t.hours \in Nat /\ t.pct \in Percentages
  BY PriceAssumption
<1>2. n \in Nat
  BY <1>1, FS_CardinalityType
<1>3. /\ seq \in [1 .. n -> tiers] /\ tiers = {seq[i] : i \in DOMAIN seq}
      /\ \A i, j \in DOMAIN seq : i < j => seq[i].hours >= seq[j].hours
  <2>1. PICK s : Line(tiers, TighterFirst(tiers), s)
    BY <1>1, TiersLineUp
  <2>2. s \in [1 .. n -> tiers] /\ tiers = {s[i] : i \in DOMAIN s}
    BY <2>1 DEF Line
  <2>3. \A i, j \in DOMAIN s : i < j => s[i].hours >= s[j].hours
    BY <2>1 DEF Line, TighterFirst
  <2>4. seq = CHOOSE r \in [1 .. n -> tiers] :
                 /\ tiers = {r[i] : i \in DOMAIN r}
                 /\ \A i, j \in DOMAIN r : i < j => r[i].hours >= r[j].hours
    BY DEF SortedTiers
  <2> HIDE DEF seq, n, tiers
  <2>5. QED
    BY <2>2, <2>3, <2>4
<1> HIDE DEF seq
<1>4. /\ seq \in [1 .. n -> tiers] /\ tiers = {seq[i] : i \in 1 .. n} /\ DOMAIN seq = 1 .. n
      /\ \A i, j \in 1 .. n : i < j => seq[i].hours >= seq[j].hours
  BY <1>3
<1>5. refund = Percent(total, IF first = 0 THEN config.otherwise ELSE seq[first].pct)
  <2>1. Len(seq) = n
    BY <1>2, <1>4
  <2>2. refund = Percent(total, IF SelectInSeq(seq, LAMBDA t : hours >= t.hours) = 0
                                THEN config.otherwise
                                ELSE seq[SelectInSeq(seq, LAMBDA t : hours >= t.hours)].pct)
    BY DEF RefundFor, seq
  <2>3. SelectInSeq(seq, LAMBDA t : hours >= t.hours) = first
    BY <2>1 DEF SelectInSeq
  <2>4. QED
    BY <2>2, <2>3
<1> HIDE DEF tiers, n, refund
<1>6. CASE I = {}
  <2>1. first = 0
    BY <1>6
  <2>2. met = {}
    BY <1>1, <1>4, <1>6
  <2>3. refund = Percent(total, config.otherwise)
    BY <1>5, <2>1
  <2>4. refund \in 0 .. total
    BY <1>1, <2>3, PercentOf
  <2>5. QED
    BY <2>2, <2>3, <2>4 DEF tiers, refund, FromTightestTier
<1>7. CASE I # {}
  <2>1. PICK i \in I : \A j \in I : i <= j
    <3>1. I \subseteq Nat
      BY <1>2
    <3> HIDE DEF I
    <3>2. QED
      BY <1>7, <3>1, LeastOf
  <2>2. Min(I) \in I /\ \A j \in I : Min(I) <= j
    BY <2>1 DEF Min
  <2>3. first \in I /\ first \in 1 .. n /\ \A j \in I : first <= j
    BY <1>7, <2>2
  <2> DEFINE best == seq[first]
  <2>4. best \in tiers /\ best \in met
    BY <1>1, <1>4, <2>3
  <2> HIDE DEF first
  <2>5. ASSUME NEW other \in met PROVE other.hours <= best.hours
    <3>1. PICK j \in 1 .. n : other = seq[j]
      BY <1>4
    <3>2. j \in I
      BY <1>1, <3>1
    <3>3. first <= j /\ first \in Int /\ j \in Int
      BY <1>2, <2>3, <3>2
    <3>4. best.hours \in Nat /\ other.hours \in Nat
      BY <1>1, <2>4
    <3>5. CASE first = j
      BY <3>1, <3>4, <3>5
    <3>6. CASE first # j
      <4>1. best.hours >= other.hours
        BY <1>4, <2>3, <3>1, <3>3, <3>6
      <4>2. QED
        BY <3>4, <4>1
    <3>7. QED
      BY <3>5, <3>6
  <2>6. refund = Percent(total, best.pct)
    BY <1>5, <1>2, <2>3
  <2>7. refund \in 0 .. total
    BY <1>1, <2>4, <2>6, PercentOf
  <2> HIDE DEF best, met
  <2>8. met # {}
    BY <2>4
  <2>9. QED
    BY <2>4, <2>5, <2>6, <2>7, <2>8 DEF tiers, refund, met, FromTightestTier
<1>8. QED
  BY <1>6, <1>7

(* Commission and earning add up to the base price and neither is negative *)
(* (calculate); a refund is what the tightest tier met says, in whatever   *)
(* order the tiers are listed, and never more than the total (refund_for). *)
THEOREM MoneyIsConserved == Spec => []MoneyConserved
<1>1. Answer => MoneyConserved
  <2> SUFFICES ASSUME Answer PROVE MoneyConserved
    OBVIOUS
  <2>1. ASSUME answer.ask = "price"
        PROVE  /\ answer.price.commission + answer.price.earning = answer.price.base
               /\ {answer.price.commission, answer.price.earning} \subseteq Nat
    <3>1. PriceAnswer(answer)
      BY <2>1 DEF Answer
    <3>2. PICK unitPrice \in Amounts, quantity \in Hundredths, share \in {NoShare} \cup Percentages, config \in Configs :
            answer.price = Calculate(unitPrice, quantity, share, config)
      BY <3>1 DEF PriceAnswer
    <3>3. unitPrice \in Nat /\ quantity \in Nat
      BY PriceAssumption
    <3>4. LET price == Calculate(unitPrice, quantity, share, config)
          IN  /\ price.commission + price.earning = price.base
              /\ {price.commission, price.earning} \subseteq Nat
      BY <3>3, PriceSplits
    <3>5. QED
      BY <3>2, <3>4
  <2>2. ASSUME answer.ask = "refund"
        PROVE  LET met == {t \in answer.config.tiers : t.hours <= answer.hours}
               IN  /\ answer.refund \in 0 .. answer.total
                   /\ IF met = {} THEN answer.refund = Percent(answer.total, answer.config.otherwise)
                      ELSE \E t \in met : /\ \A other \in met : other.hours <= t.hours
                                          /\ answer.refund = Percent(answer.total, t.pct)
    <3>1. RefundAnswer(answer)
      BY <2>2 DEF Answer
    <3>2. /\ answer.total \in Amounts /\ answer.hours \in HoursLeft /\ answer.config \in Configs
          /\ answer.refund = RefundFor(answer.total, answer.hours, answer.config)
      BY <3>1 DEF RefundAnswer
    <3>3. answer.total \in Nat /\ answer.hours \in Nat
      BY <3>2, PriceAssumption
    <3>4. FromTightestTier(answer.total, answer.hours, answer.config, answer.refund)
      BY <3>2, <3>3, RefundIs
    <3>5. QED
      BY <3>4 DEF FromTightestTier
  <2>3. QED
    BY <2>1, <2>2 DEF MoneyConserved
<1>2. QED
  BY <1>1, AnswerAlways, PTL

-----------------------------------------------------------------------------
(* The calendar. *)
Common(r) == IF r = 1 THEN 28 ELSE IF r \in {3, 5, 8, 10} THEN 30 ELSE 31

LEMMA MonthLength ==
  ASSUME NEW m \in Nat
  PROVE  DaysInMonth(m) \in 28 .. 31 /\ DaysInMonth(m) >= Common(m % 12)
<1>1. m % 12 \in 0 .. 11
  OBVIOUS
<1>2. PICK r \in 0 .. 11 : r = m % 12
  BY <1>1
<1>3. DaysInMonth(m) \in IF r = 1 THEN 28 .. 29 ELSE IF r \in {3, 5, 8, 10} THEN {30} ELSE {31}
  BY <1>2 DEF DaysInMonth
<1>4. QED
  BY <1>2, <1>3 DEF Common

Follows(days, n) ==
  \A m \in 0 .. n : days[m] = IF m = 0 THEN 0 ELSE days[m - 1] + DaysInMonth(m - 1)

LEMMA CalendarIs ==
  /\ FirstDay \in [0 .. Horizon -> Nat]
  /\ FirstDay[0] = 0
  /\ \A m \in 0 .. Horizon - 1 : FirstDay[m + 1] = FirstDay[m] + DaysInMonth(m)
<1> DEFINE S == {n \in Nat : \E days \in [0 .. n -> Nat] : Follows(days, n)}
<1>1. Horizon \in Nat \ {0}
  BY DurationAssumption
<1>2. 0 \in S
  <2> DEFINE days == [m \in 0 .. 0 |-> 0]
  <2>1. days \in [0 .. 0 -> Nat] /\ Follows(days, 0)
    BY DEF Follows
  <2>2. QED
    BY <2>1
<1>3. ASSUME NEW n \in Nat, n \in S PROVE n + 1 \in S
  <2>1. PICK days \in [0 .. n -> Nat] : Follows(days, n)
    BY <1>3
  <2>2. PICK next \in Nat : next = days[n] + DaysInMonth(n)
    <3>1. days[n] \in Nat
      BY <2>1, n \in 0 .. n
    <3>2. DaysInMonth(n) \in 28 .. 31
      BY MonthLength
    <3>3. QED
      BY <3>1, <3>2, days[n] + DaysInMonth(n) \in Nat
  <2> DEFINE more == [m \in 0 .. n + 1 |-> IF m = n + 1 THEN next ELSE days[m]]
  <2>3. more \in [0 .. n + 1 -> Nat]
    OBVIOUS
  <2>4. /\ more[n + 1] = next
        /\ \A m \in 0 .. n : more[m] = days[m]
    OBVIOUS
  <2> HIDE DEF more
  <2>5. ASSUME NEW m \in 0 .. n + 1
        PROVE  more[m] = IF m = 0 THEN 0 ELSE more[m - 1] + DaysInMonth(m - 1)
    <3>1. CASE m = n + 1
      <4>1. m # 0 /\ m - 1 = n /\ n \in 0 .. n
        BY <3>1
      <4>2. QED
        BY <2>2, <2>4, <3>1, <4>1
    <3>2. CASE m = 0
      BY <2>1, <2>4, <3>2 DEF Follows
    <3>3. CASE m # 0 /\ m # n + 1
      <4>1. m \in 0 .. n /\ m - 1 \in 0 .. n
        BY <3>3
      <4>2. QED
        BY <2>1, <2>4, <3>3, <4>1 DEF Follows
    <3>4. QED
      BY <3>1, <3>2, <3>3
  <2>6. Follows(more, n + 1)
    BY <2>5 DEF Follows
  <2>7. QED
    BY <2>3, <2>6
<1>4. Horizon \in S
  <2> HIDE DEF S
  <2>1. QED
    BY <1>1, <1>2, <1>3, Stepwise
<1>5. PICK found \in [0 .. Horizon -> Nat] : Follows(found, Horizon)
  BY <1>4
<1> DEFINE Calendar(days) == [m \in 0 .. Horizon |-> IF m = 0 THEN 0 ELSE days[m - 1] + DaysInMonth(m - 1)]
           days == CHOOSE days : days = Calendar(days)
<1>6. found = Calendar(found)
  BY <1>5 DEF Follows
<1>7. days = Calendar(days)
  BY <1>6
<1>8. FirstDay = [m \in 0 .. Horizon |-> days[m]]
  BY DEF FirstDay
<1> HIDE DEF days
<1>9. \A m \in 0 .. Horizon : FirstDay[m] = IF m = 0 THEN 0 ELSE FirstDay[m - 1] + DaysInMonth(m - 1)
  <2> SUFFICES ASSUME NEW m \in 0 .. Horizon
               PROVE  FirstDay[m] = IF m = 0 THEN 0 ELSE FirstDay[m - 1] + DaysInMonth(m - 1)
    OBVIOUS
  <2>1. days[m] = IF m = 0 THEN 0 ELSE days[m - 1] + DaysInMonth(m - 1)
    BY <1>7
  <2>2. m # 0 => m - 1 \in 0 .. Horizon
    BY <1>1
  <2>3. QED
    BY <1>8, <2>1, <2>2
<1>10. FirstDay[0] = 0
  BY <1>1, <1>9
<1>11. ASSUME NEW m \in 0 .. Horizon - 1 PROVE FirstDay[m + 1] = FirstDay[m] + DaysInMonth(m)
  <2>1. m + 1 \in 0 .. Horizon /\ m + 1 # 0 /\ m + 1 - 1 = m
    BY <1>1
  <2>2. QED
    BY <1>9, <2>1
<1>12. \A m \in 0 .. Horizon : FirstDay[m] \in Nat
  <2> DEFINE T == {n \in Nat : n <= Horizon => FirstDay[n] \in Nat}
  <2>1. 0 \in T
    BY <1>10
  <2>2. ASSUME NEW n \in Nat, n \in T PROVE n + 1 \in T
    <3>1. n + 1 <= Horizon => n \in 0 .. Horizon - 1 /\ n <= Horizon
      BY <1>1
    <3>2. DaysInMonth(n) \in Nat
      BY MonthLength
    <3>3. QED
      BY <1>11, <2>2, <3>1, <3>2
  <2> HIDE DEF T
  <2>3. Nat \subseteq T
    BY <2>1, <2>2, Stepwise
  <2>4. QED
    BY <1>1, <2>3 DEF T
<1>13. FirstDay \in [0 .. Horizon -> Nat]
  BY <1>8, <1>12
<1>14. QED
  BY <1>10, <1>11, <1>13

(* Months run on: of any length, at least 28 days each, and years 365.     *)
LEMMA MonthsRun ==
  ASSUME NEW m \in Nat, NEW k \in Nat, m + k <= Horizon
  PROVE  FirstDay[m] + 28 * k <= FirstDay[m + k]
<1> DEFINE T == {j \in Nat : m + j <= Horizon => FirstDay[m] + 28 * j <= FirstDay[m + j]}
<1>1. Horizon \in Nat \ {0} /\ \A i \in 0 .. Horizon : FirstDay[i] \in Nat
  BY CalendarIs, DurationAssumption
<1>2. 0 \in T
  <2>1. m + 0 = m /\ m \in 0 .. Horizon /\ 28 * 0 = 0
    BY <1>1
  <2>2. QED
    BY <1>1, <2>1
<1>3. ASSUME NEW j \in Nat, j \in T PROVE j + 1 \in T
  <2> SUFFICES ASSUME m + (j + 1) <= Horizon PROVE FirstDay[m] + 28 * (j + 1) <= FirstDay[m + (j + 1)]
    OBVIOUS
  <2>1. m + j \in 0 .. Horizon - 1 /\ m + (j + 1) = m + j + 1 /\ m + j <= Horizon /\ m \in 0 .. Horizon
    BY <1>1
  <2>2. FirstDay[m + (j + 1)] = FirstDay[m + j] + DaysInMonth(m + j)
    BY <2>1, CalendarIs
  <2>3. DaysInMonth(m + j) \in 28 .. 31
    BY MonthLength
  <2>4. FirstDay[m] + 28 * j <= FirstDay[m + j] /\ FirstDay[m] \in Nat /\ FirstDay[m + j] \in Nat
    BY <1>1, <1>3, <2>1
  <2>5. QED
    BY <2>2, <2>3, <2>4
<1> HIDE DEF T
<1>4. Nat \subseteq T
  BY <1>2, <1>3, Stepwise
<1>5. QED
  BY <1>4 DEF T

LEMMA YearRuns ==
  ASSUME NEW m \in Nat, m + 12 <= Horizon
  PROVE  FirstDay[m] + 365 <= FirstDay[m + 12]
<1>1. Horizon \in Nat
  BY DurationAssumption
<1>2. \A i \in 0 .. 11 : m + i \in 0 .. Horizon - 1
  BY <1>1
<1>3. ASSUME NEW i \in 0 .. 11
      PROVE  FirstDay[m + i] \in Nat /\ FirstDay[m + i] + Common((m + i) % 12) <= FirstDay[m + i + 1]
  <2>1. m + i \in Nat /\ m + i \in 0 .. Horizon - 1 /\ m + i \in 0 .. Horizon
    BY <1>1
  <2>2. FirstDay[m + i + 1] = FirstDay[m + i] + DaysInMonth(m + i) /\ FirstDay[m + i] \in Nat
    BY <2>1, CalendarIs
  <2>3. DaysInMonth(m + i) \in Nat /\ DaysInMonth(m + i) >= Common((m + i) % 12)
    BY <2>1, MonthLength
  <2>4. Common((m + i) % 12) \in Nat
    BY DEF Common
  <2>5. QED
    BY <2>2, <2>3, <2>4
<1>4. PICK r \in 0 .. 11, y \in Int : m = 12 * y + r
  <2>1. m % 12 \in 0 .. 11 /\ m \div 12 \in Int /\ m = 12 * (m \div 12) + (m % 12)
    OBVIOUS
  <2>2. QED
    BY <2>1
<1>5. \A i \in 0 .. 11 : (m + i) % 12 = IF r + i < 12 THEN r + i ELSE r + i - 12
  BY <1>4
<1> DEFINE Month(i) == Common(IF r + i < 12 THEN r + i ELSE r + i - 12)
<1>6. \A i \in 0 .. 11 : Month(i) \in Nat /\ FirstDay[m + i] \in Nat /\ FirstDay[m + i] + Month(i) <= FirstDay[m + i + 1]
  <2>1. \A i \in 0 .. 11 : Common((m + i) % 12) = Month(i)
    BY <1>5
  <2>2. \A i \in 0 .. 11 : Month(i) \in Nat
    BY DEF Common
  <2> HIDE DEF Month
  <2>3. QED
    BY <1>3, <2>1, <2>2
<1>7. Month(0) + Month(1) + Month(2) + Month(3) + Month(4) + Month(5) + Month(6) + Month(7) + Month(8)
      + Month(9) + Month(10) + Month(11) = 365
  BY DEF Common
<1> HIDE DEF Month
<1>8. FirstDay[m + 12] \in Nat
  BY <1>1, CalendarIs, m + 12 \in 0 .. Horizon
<1>9. \A i \in 0 .. 11 : FirstDay[m + i + 1] = FirstDay[m + (i + 1)]
  BY \A i \in 0 .. 11 : m + i + 1 = m + (i + 1)
<1> DEFINE Day(i) == FirstDay[m + i]
<1>10. /\ \A i \in 0 .. 11 : Month(i) \in Nat /\ Day(i) \in Nat /\ Day(i) + Month(i) <= Day(i + 1)
       /\ Day(12) \in Nat /\ Day(0) = FirstDay[m]
  BY <1>6, <1>8, <1>9, m + 0 = m
<1> HIDE DEF Day
<1>11. Day(0) + 365 <= Day(12)
  <2>1. \A i \in {0, 1, 2, 3, 4, 5, 6, 7, 8, 9, 10, 11} :
          Month(i) \in Nat /\ Day(i) \in Nat /\ Day(i) + Month(i) <= Day(i + 1)
    BY <1>10
  <2>2. /\ Day(0) + Month(0) <= Day(1) /\ Day(1) + Month(1) <= Day(2) /\ Day(2) + Month(2) <= Day(3)
        /\ Day(3) + Month(3) <= Day(4) /\ Day(4) + Month(4) <= Day(5) /\ Day(5) + Month(5) <= Day(6)
        /\ Day(6) + Month(6) <= Day(7) /\ Day(7) + Month(7) <= Day(8) /\ Day(8) + Month(8) <= Day(9)
        /\ Day(9) + Month(9) <= Day(10) /\ Day(10) + Month(10) <= Day(11) /\ Day(11) + Month(11) <= Day(12)
    BY <2>1
  <2>3. \A i \in {0, 1, 2, 3, 4, 5, 6, 7, 8, 9, 10, 11} : Month(i) \in Int /\ Day(i) \in Int
    BY <2>1
  <2>4. QED
    BY <1>7, <1>10, <2>2, <2>3
<1>12. QED
  BY <1>10, <1>11 DEF Day

LEMMA YearsRun ==
  ASSUME NEW m \in Nat, NEW k \in Nat, m + 12 * k <= Horizon
  PROVE  FirstDay[m] + 365 * k <= FirstDay[m + 12 * k]
<1> DEFINE T == {j \in Nat : m + 12 * j <= Horizon => FirstDay[m] + 365 * j <= FirstDay[m + 12 * j]}
<1>1. Horizon \in Nat \ {0} /\ \A i \in 0 .. Horizon : FirstDay[i] \in Nat
  BY CalendarIs, DurationAssumption
<1>2. 0 \in T
  <2>1. m + 12 * 0 = m /\ 365 * 0 = 0
    OBVIOUS
  <2>2. m <= Horizon => FirstDay[m] \in Nat
    BY <1>1
  <2>3. QED
    BY <2>1, <2>2
<1>3. ASSUME NEW j \in Nat, j \in T PROVE j + 1 \in T
  <2> SUFFICES ASSUME m + 12 * (j + 1) <= Horizon PROVE FirstDay[m] + 365 * (j + 1) <= FirstDay[m + 12 * (j + 1)]
    OBVIOUS
  <2>1. PICK n \in Nat : n = m + 12 * j
    OBVIOUS
  <2>2. n + 12 = m + 12 * (j + 1) /\ n + 12 <= Horizon /\ n \in 0 .. Horizon /\ m \in 0 .. Horizon
        /\ n + 12 \in 0 .. Horizon
    BY <1>1, <2>1
  <2>3. FirstDay[n] + 365 <= FirstDay[n + 12]
    BY <2>2, YearRuns
  <2>4. FirstDay[m] + 365 * j <= FirstDay[n]
    BY <1>3, <2>1, <2>2
  <2>5. FirstDay[m] \in Nat /\ FirstDay[n] \in Nat /\ FirstDay[n + 12] \in Nat
    BY <1>1, <2>2
  <2>6. FirstDay[m + 12 * (j + 1)] = FirstDay[n + 12]
    BY <2>2
  <2>7. QED
    BY <2>3, <2>4, <2>5, <2>6
<1> HIDE DEF T
<1>4. Nat \subseteq T
  BY <1>2, <1>3, Stepwise
<1>5. QED
  BY <1>4 DEF T

(* The shortest that a number of months can be. *)
Shortest(k) == 365 * (k \div 12) + 28 * (k % 12)

LEMMA SpanIs ==
  ASSUME NEW m \in Nat, NEW k \in Nat, m + k <= Horizon
  PROVE  /\ FirstDay[m] \in Nat /\ FirstDay[m + k] \in Nat
         /\ FirstDay[m] + Shortest(k) <= FirstDay[m + k]
         /\ Shortest(k) \in Nat /\ FirstDay[m] <= FirstDay[m + k]
<1>1. PICK y \in Nat, r \in Nat : y = k \div 12 /\ r = k % 12 /\ k = 12 * y + r
  OBVIOUS
<1>2. Horizon \in Nat /\ m + 12 * y <= Horizon /\ m + 12 * y \in Nat /\ m + k = m + 12 * y + r
  BY <1>1, DurationAssumption
<1>3. FirstDay[m] + 365 * y <= FirstDay[m + 12 * y]
  BY <1>2, YearsRun
<1>4. PICK n \in Nat : n = m + 12 * y
  BY <1>2
<1>5. FirstDay[n] + 28 * r <= FirstDay[n + r]
  BY <1>2, <1>4, MonthsRun
<1>6. m \in 0 .. Horizon /\ n \in 0 .. Horizon /\ m + k \in 0 .. Horizon
  BY <1>2, <1>4
<1>7. FirstDay[m] \in Nat /\ FirstDay[n] \in Nat /\ FirstDay[m + k] \in Nat
  BY <1>6, CalendarIs
<1>8. FirstDay[n + r] = FirstDay[m + k] /\ Shortest(k) = 365 * y + 28 * r
  BY <1>1, <1>2, <1>4 DEF Shortest
<1>9. QED
  BY <1>3, <1>4, <1>5, <1>7, <1>8

(* The month of a day. *)
LEMMA MonthOfIs ==
  ASSUME NEW day \in Nat
  PROVE  /\ MonthOf(day) \in 0 .. Horizon
         /\ FirstDay[MonthOf(day)] <= day
         /\ MonthOf(day) < Horizon => day < FirstDay[MonthOf(day) + 1]
<1> DEFINE M == {m \in 0 .. Horizon : FirstDay[m] <= day}
           L == {Horizon - m : m \in M}
<1>1. Horizon \in Nat /\ FirstDay[0] = 0 /\ \A m \in 0 .. Horizon : FirstDay[m] \in Nat
  BY CalendarIs, DurationAssumption
<1>2. 0 \in M
  BY <1>1
<1>3. L \subseteq Nat /\ L # {}
  BY <1>1, <1>2
<1>4. PICK l \in L : \A n \in L : l <= n
  <2> HIDE DEF L
  <2>1. QED
    BY <1>3, LeastOf
<1>5. PICK top \in M : l = Horizon - top
  OBVIOUS
<1>6. \A m \in M : top >= m
  <2> SUFFICES ASSUME NEW m \in M PROVE top >= m
    OBVIOUS
  <2>1. l <= Horizon - m
    BY <1>4
  <2>2. QED
    BY <1>1, <1>5, <2>1
<1>7. MonthOf(day) = CHOOSE x \in M : \A y \in M : x >= y
  BY DEF MonthOf, Max
<1>8. MonthOf(day) \in M /\ \A y \in M : MonthOf(day) >= y
  BY <1>6, <1>7
<1>9. ASSUME MonthOf(day) < Horizon PROVE day < FirstDay[MonthOf(day) + 1]
  <2>1. MonthOf(day) + 1 \in 0 .. Horizon /\ ~(MonthOf(day) >= MonthOf(day) + 1)
    BY <1>1, <1>8, <1>9
  <2>2. MonthOf(day) + 1 \notin M
    BY <1>8, <2>1
  <2>3. QED
    BY <1>1, <2>1, <2>2
<1>10. QED
  BY <1>8, <1>9

-----------------------------------------------------------------------------
(* Months later. *)
(* The day and the month a booking starts in, and the day it ends on a     *)
(* number of months later.                                                 *)
DayIn(start, zone) == (start - zone) \div DayMinutes

MonthIn(start, zone) == MonthOf(DayIn(start, zone))

DayAfter(start, zone, k) ==
  LET from == MonthIn(start, zone)
  IN  FirstDay[from + k]
      + Min({DayIn(start, zone) - FirstDay[from], DaysInMonth(from + k) - 1})

(* Starts for which the model's calendar is long enough. *)
InCalendar(start, zone, k) ==
  /\ start \in Nat /\ zone \in Nat /\ k \in Nat /\ start >= zone
  /\ MonthIn(start, zone) + k < Horizon

LEMMA StartsIn ==
  ASSUME NEW start, NEW zone, NEW k, InCalendar(start, zone, k)
  PROVE  LET day  == DayIn(start, zone)
             from == MonthIn(start, zone)
         IN  /\ day \in Nat /\ from \in 0 .. Horizon /\ from + k \in 0 .. Horizon - 1
             /\ from \in 0 .. Horizon - 1
             /\ FirstDay[from] \in Nat /\ FirstDay[from] <= day /\ day < FirstDay[from + 1]
             /\ FirstDay[from + 1] = FirstDay[from] + DaysInMonth(from)
<1> DEFINE day  == DayIn(start, zone)
           from == MonthIn(start, zone)
<1>1. start \in Nat /\ zone \in Nat /\ k \in Nat /\ start >= zone /\ from + k < Horizon
  BY DEF InCalendar
<1>2. Horizon \in Nat /\ DayMinutes \in Nat \ {0}
  BY DurationAssumption
<1>3. day \in Nat
  <2>1. PICK wall \in Nat : wall = start - zone
    BY <1>1
  <2>2. wall \div DayMinutes \in Nat
    BY <1>2
  <2>3. QED
    BY <2>1, <2>2 DEF DayIn
<1>4. from = MonthOf(day)
  BY DEF MonthIn
<1> HIDE DEF day, from
<1>5. /\ from \in 0 .. Horizon /\ FirstDay[from] <= day
      /\ from < Horizon => day < FirstDay[from + 1]
  BY <1>3, <1>4, MonthOfIs
<1>6. from + k \in 0 .. Horizon - 1 /\ from \in 0 .. Horizon - 1 /\ from < Horizon
  BY <1>1, <1>2, <1>5
<1>7. FirstDay[from] \in Nat /\ FirstDay[from + 1] = FirstDay[from] + DaysInMonth(from)
  BY <1>5, <1>6, CalendarIs
<1>8. QED
  BY <1>3, <1>5, <1>6, <1>7 DEF day, from

(* The day is in the month, not after the one it started on. *)
LEMMA DayAfterIs ==
  ASSUME NEW start, NEW zone, NEW k, InCalendar(start, zone, k)
  PROVE  LET day  == DayIn(start, zone)
             from == MonthIn(start, zone)
             late == DayAfter(start, zone, k)
         IN  /\ late \in Nat
             /\ FirstDay[from + k] <= late /\ late < FirstDay[from + k + 1]
             /\ late - day >= Shortest(k)
             /\ k = 0 => late = day
<1> DEFINE day  == DayIn(start, zone)
           from == MonthIn(start, zone)
           late == DayAfter(start, zone, k)
           here == FirstDay[from]
           there == FirstDay[from + k]
           length == DaysInMonth(from + k)
<1>1. k \in Nat /\ Horizon \in Nat
  BY DurationAssumption DEF InCalendar
<1>2. /\ day \in Nat /\ from \in 0 .. Horizon - 1 /\ from + k \in 0 .. Horizon - 1
      /\ here \in Nat /\ here <= day /\ day < FirstDay[from + 1]
      /\ FirstDay[from + 1] = here + DaysInMonth(from)
  BY StartsIn
<1>3. late = there + Min({day - here, length - 1})
  BY DEF DayAfter
<1> HIDE DEF day, from, late
<1>4. length \in 28 .. 31
  BY <1>1, <1>2, MonthLength
<1>5. late = there + Smaller(day - here, length - 1)
  <2>1. day - here \in Int /\ length - 1 \in Int
    BY <1>2, <1>4
  <2>2. QED
    BY <1>3, <2>1, LeastOfTwo
<1>6. there \in Nat /\ FirstDay[from + k + 1] = there + length
  <2>1. PICK n \in 0 .. Horizon - 1 : n = from + k
    BY <1>2
  <2>2. n \in 0 .. Horizon /\ FirstDay[n] \in Nat /\ FirstDay[n + 1] = FirstDay[n] + DaysInMonth(n)
    BY <1>1, CalendarIs
  <2>3. QED
    BY <2>1, <2>2
<1>7. there >= here + Shortest(k) /\ Shortest(k) \in Nat
  BY <1>1, <1>2, SpanIs
<1>8. FirstDay[from + k + 1] >= FirstDay[from + 1] + Shortest(k)
  <2>1. from + 1 \in Nat /\ from + 1 + k <= Horizon /\ from + 1 + k = from + k + 1
    BY <1>1, <1>2
  <2>2. FirstDay[from + 1] + Shortest(k) <= FirstDay[from + 1 + k]
    BY <1>1, <2>1, SpanIs
  <2>3. FirstDay[from + 1 + k] = FirstDay[from + k + 1]
    BY <2>1
  <2>4. FirstDay[from + 1] \in Int /\ FirstDay[from + k + 1] \in Int
    BY <1>1, <1>4, <1>6, <2>1, SpanIs
  <2>5. QED
    BY <1>7, <2>2, <2>3, <2>4
<1> HIDE DEF here, there, length
<1>9. PICK next \in Nat : next = FirstDay[from + k + 1]
  <2>1. there + length \in Nat
    BY <1>4, <1>6
  <2>2. QED
    BY <1>6, <2>1
<1>10. PICK following \in Nat : following = FirstDay[from + 1]
  <2>1. from \in Nat /\ DaysInMonth(from) \in 28 .. 31
    BY <1>1, <1>2, MonthLength
  <2>2. QED
    BY <1>2, <2>1
<1>11. late \in Nat /\ there <= late /\ late < next
  BY <1>2, <1>4, <1>5, <1>6, <1>9 DEF Smaller
<1>12. late - day >= Shortest(k)
  BY <1>2, <1>4, <1>5, <1>6, <1>7, <1>8, <1>9, <1>10 DEF Smaller
<1>13. k = 0 => late = day
  <2> SUFFICES ASSUME k = 0 PROVE late = day
    OBVIOUS
  <2>1. there = here /\ length = DaysInMonth(from)
    BY <1>2 DEF there, here, length
  <2>2. QED
    BY <1>2, <1>4, <1>5, <2>1 DEF Smaller
<1>14. QED
  BY <1>9, <1>11, <1>12, <1>13 DEF day, from, late, there

(* Later months are later days. *)
LEMMA DaysAdvance ==
  ASSUME NEW start, NEW zone, NEW k, NEW j \in Nat, InCalendar(start, zone, k), j < k
  PROVE  DayAfter(start, zone, j) < DayAfter(start, zone, k) /\ InCalendar(start, zone, j)
<1> DEFINE from == MonthIn(start, zone)
           one  == DayAfter(start, zone, j)
           two  == DayAfter(start, zone, k)
<1>1. k \in Nat /\ Horizon \in Nat /\ from \in 0 .. Horizon - 1 /\ from + k \in 0 .. Horizon - 1
  BY StartsIn, DurationAssumption DEF InCalendar
<1>2. InCalendar(start, zone, j)
  BY <1>1 DEF InCalendar
<1>3. /\ one \in Nat /\ one < FirstDay[from + j + 1]
      /\ two \in Nat /\ FirstDay[from + k] <= two
  BY <1>2, DayAfterIs
<1> HIDE DEF from, one, two
<1>4. PICK m \in Nat, l \in Nat : m = from + j + 1 /\ l = k - j - 1 /\ m + l = from + k
  <2>1. from + j + 1 \in Nat /\ k - j - 1 \in Nat /\ (from + j + 1) + (k - j - 1) = from + k
    BY <1>1
  <2>2. QED
    BY <2>1
<1>5. FirstDay[m] <= FirstDay[m + l] /\ FirstDay[m] \in Nat /\ FirstDay[m + l] \in Nat
  <2>1. m + l <= Horizon
    BY <1>1, <1>4
  <2>2. QED
    BY <2>1, SpanIs
<1>6. one < two
  BY <1>3, <1>4, <1>5
<1>7. QED
  BY <1>2, <1>6 DEF one, two

(* add_months moves by whole days. *)
LEMMA AddMonthsIs ==
  ASSUME NEW start, NEW zone, NEW k, InCalendar(start, zone, k)
  PROVE  LET days == DayAfter(start, zone, k) - DayIn(start, zone)
         IN  days \in Int /\ AddMonths(start, k, zone) = start + DayMinutes * days
<1> DEFINE D    == DayMinutes
           wall == start - zone
           day  == DayIn(start, zone)
           late == DayAfter(start, zone, k)
           rest == wall % D
<1>1. D \in Nat \ {0} /\ wall \in Int /\ start \in Nat /\ zone \in Nat
  BY DurationAssumption DEF InCalendar
<1>2. late \in Nat /\ day \in Nat
  BY DayAfterIs, StartsIn
<1>3. AddMonths(start, k, zone) = late * D + rest + zone
  BY DEF AddMonths, DayAfter, MonthIn, DayIn
<1>4. rest \in Int /\ wall = D * day + rest
  <2> HIDE DEF wall, D
  <2>1. wall % D \in 0 .. D - 1 /\ wall = D * (wall \div D) + (wall % D)
    BY <1>1, Quotient
  <2>2. QED
    BY <1>1, <2>1 DEF DayIn, wall, D
<1> DEFINE days == late - day
<1>5. days \in Int /\ D * late \in Int /\ D * day \in Int /\ D * days = D * late - D * day /\ late * D = D * late
  BY <1>1, <1>2
<1>6. start = D * day + rest + zone
  BY <1>1, <1>4, <1>5
<1> HIDE DEF D, rest, late, day, days, wall
<1>7. late * D + rest + zone = start + D * days
  BY <1>1, <1>4, <1>5, <1>6
<1>8. QED
  BY <1>3, <1>5, <1>7 DEF D, days, late, day

-----------------------------------------------------------------------------
(* What is counted back, unit by unit. *)
LEMMA HoursCount ==
  ASSUME NEW start \in Nat, NEW q \in Nat \ {0}, NEW zone
  PROVE  QuantityFor("HOURLY", start, EndFor("HOURLY", start, q, zone), SlotMinutes, zone) = 100 * q
<1> DEFINE end == EndFor("HOURLY", start, q, zone)
<1>1. end = start + 60 * q
  BY DEF EndFor
<1>2. end \in Nat /\ end > start /\ end - start = 60 * q
  BY <1>1
<1> HIDE DEF end
<1>3. (60 * q) % SlotMinutes = 0
  <2>1. SlotMinutes \in Nat \ {0} /\ 60 % SlotMinutes = 0
    BY LengthAssumption
  <2>2. PICK n \in Int : n = 60 \div SlotMinutes
    BY <2>1, Quotient
  <2>3. 60 = SlotMinutes * n
    <3>1. 60 = SlotMinutes * n + 0
      BY <2>1, <2>2, Quotient
    <3>2. QED
      BY <2>1, <2>2, <3>1
  <2>4. PICK p \in Int : p = n * q
    BY <2>2
  <2>5. 60 * q = SlotMinutes * p
    <3>1. 60 * q = (SlotMinutes * n) * q
      BY <2>3
    <3>2. (SlotMinutes * n) * q = SlotMinutes * (n * q)
      BY <2>1
    <3>3. QED
      BY <2>4, <3>1, <3>2
  <2>6. QED
    BY <2>1, <2>5, Multiples
<1>4. RoundHalfUp(100 * (60 * q), 60) = 100 * q
  <2>1. 2 * (100 * (60 * q)) + 60 = 120 * (100 * q) + 60
    OBVIOUS
  <2>2. (2 * (100 * (60 * q)) + 60) \div 120 = 100 * q
    BY <2>1, QuotientIs, 60 \in 0 .. 120 - 1
  <2>3. QED
    BY <2>2 DEF RoundHalfUp
<1>5. QED
  BY <1>2, <1>3, <1>4 DEF QuantityFor, end

LEMMA DaysCount ==
  ASSUME NEW start \in Nat, NEW q \in Nat \ {0}, NEW zone, IsLocalMidnight(start)
  PROVE  QuantityFor("DAILY", start, EndFor("DAILY", start, q, zone), SlotMinutes, zone) = 100 * q
<1> DEFINE end == EndFor("DAILY", start, q, zone)
           D == DayMinutes
<1>1. D \in Nat \ {0}
  BY DurationAssumption
<1>2. end = start + D * q
  BY DEF EndFor
<1>3. PICK n \in Int : start = D * n /\ n = start \div D
  <2>1. start % D = 0 /\ start = D * (start \div D) + (start % D) /\ start \div D \in Int
    BY <1>1, Quotient DEF IsLocalMidnight
  <2>2. PICK n \in Int : n = start \div D
    BY <2>1
  <2> HIDE DEF D
  <2>3. start = D * n + 0
    BY <2>1, <2>2
  <2>4. start = D * n
    BY <1>1, <2>2, <2>3
  <2>5. QED
    BY <2>2, <2>4
<1> HIDE DEF end, D
<1>4. D * q \in Nat \ {0} /\ end > start /\ end - start = D * q
  BY <1>1, <1>2
<1>5. end = D * (n + q)
  BY <1>1, <1>2, <1>3
<1>6. end % D = 0
  BY <1>1, <1>5, Multiples, n + q \in Int
<1>7. (end - start) \div D = q
  <2>1. PICK a \in Int : a = end - start /\ a = D * q + 0
    BY <1>1, <1>4
  <2>2. a \div D = q
    BY <1>1, <2>1, QuotientIs, 0 \in 0 .. D - 1
  <2>3. QED
    BY <2>1, <2>2
<1>8. IsLocalMidnight(end)
  BY <1>6 DEF IsLocalMidnight, D
<1>9. QED
  BY <1>4, <1>7, <1>8 DEF QuantityFor, end, D

LEMMA MonthsCount ==
  ASSUME NEW start \in Starts, NEW q \in Quantities, NEW zone \in Zones,
         EndFor("MONTHLY", start, q, zone) - start <= WindowDays * DayMinutes
  PROVE  QuantityFor("MONTHLY", start, EndFor("MONTHLY", start, q, zone), SlotMinutes, zone) = 100 * q
<1> DEFINE end   == EndFor("MONTHLY", start, q, zone)
           D     == DayMinutes
           Day(k) == DayAfter(start, zone, k)
           day   == DayIn(start, zone)
<1>1. /\ D \in Nat \ {0} /\ MaxMonths \in Nat \ {0} /\ q \in Nat \ {0}
      /\ start \in Nat /\ zone \in Nat /\ IsLocalMidnight(start) /\ start >= zone
      /\ WindowDays \in Nat /\ WindowDays < Shortest(MaxMonths + 1)
  BY DurationAssumption, LengthAssumption DEF Shortest
<1>2. InCalendar(start, zone, q) /\ InCalendar(start, zone, MaxMonths)
  BY <1>1, LengthAssumption DEF InCalendar, MonthIn, DayIn
<1>3. ASSUME NEW k, InCalendar(start, zone, k)
      PROVE  /\ Day(k) \in Nat /\ day \in Nat /\ Day(k) - day >= Shortest(k)
             /\ k = 0 => Day(k) = day
             /\ Cursor(start, k, zone) = start + D * (Day(k) - day)
  BY <1>3, DayAfterIs, StartsIn, AddMonthsIs DEF Cursor
<1>4. \A k, j \in Nat : InCalendar(start, zone, k) /\ j < k => Day(j) < Day(k) /\ InCalendar(start, zone, j)
  BY DaysAdvance
<1>5. end = start + D * (Day(q) - day) /\ end = Cursor(start, q, zone)
  BY <1>2, <1>3 DEF EndFor, Cursor
<1> HIDE DEF D, Day, day, end
<1>6. ASSUME NEW a \in Int, NEW b \in Int, a < b PROVE start + D * a < start + D * b
  <2>1. PICK c \in Nat \ {0} : c = b - a
    BY <1>6
  <2>2. D * c \in Nat \ {0} /\ D * b = D * a + D * c /\ D * a \in Int /\ D * b \in Int
    BY <1>1, <2>1
  <2>3. QED
    BY <1>1, <2>2
<1>7. ASSUME NEW k \in Nat, NEW j \in Nat, InCalendar(start, zone, k), j < k
      PROVE  /\ Cursor(start, j, zone) < Cursor(start, k, zone)
             /\ Cursor(start, j, zone) \in Int /\ Cursor(start, k, zone) \in Int
  <2>1. InCalendar(start, zone, j) /\ Day(j) < Day(k)
    BY <1>4, <1>7
  <2>2. PICK a \in Int : a = Day(j) - day /\ Cursor(start, j, zone) = start + D * a
    BY <1>3, <2>1
  <2>3. PICK b \in Int : b = Day(k) - day /\ Cursor(start, k, zone) = start + D * b
    BY <1>3, <1>7
  <2>4. a < b
    BY <1>3, <1>7, <2>1, <2>2, <2>3
  <2>5. start + D * a < start + D * b
    BY <1>6, <2>4
  <2>6. D * a \in Int /\ D * b \in Int
    BY <1>1
  <2>7. QED
    BY <1>1, <2>2, <2>3, <2>5, <2>6
<1>8. q <= MaxMonths
  <2> SUFFICES ASSUME MaxMonths + 1 <= q PROVE FALSE
    BY <1>1
  <2>1. Day(MaxMonths + 1) <= Day(q) /\ InCalendar(start, zone, MaxMonths + 1)
    <3>1. CASE MaxMonths + 1 = q
      BY <1>2, <1>3, <3>1
    <3>2. CASE MaxMonths + 1 < q
      BY <1>1, <1>2, <1>3, <1>4, <3>2, MaxMonths + 1 \in Nat
    <3>3. QED
      BY <1>1, <3>1, <3>2
  <2>2. PICK days \in Int : days = Day(q) - day
    BY <1>2, <1>3
  <2>3. Day(MaxMonths + 1) - day >= Shortest(MaxMonths + 1) /\ Day(MaxMonths + 1) \in Nat
    BY <1>3, <2>1
  <2>4. Day(q) \in Nat /\ day \in Nat
    BY <1>2, <1>3
  <2>5. Shortest(MaxMonths + 1) \in Int
    BY <1>1 DEF Shortest
  <2>6. days > WindowDays
    BY <1>1, <2>1, <2>2, <2>3, <2>4, <2>5
  <2>7. start + D * WindowDays < start + D * days
    BY <1>1, <1>6, <2>6
  <2>8. end = start + D * days /\ end - start <= WindowDays * D
    BY <1>5, <2>2 DEF end, D
  <2>9. D * days \in Int /\ D * WindowDays \in Int /\ WindowDays * D = D * WindowDays
    BY <1>1
  <2>10. QED
    BY <1>1, <2>7, <2>8, <2>9
<1>9. end > start /\ end \in Int
  <2>1. InCalendar(start, zone, 0)
    BY <1>1, <1>2, <1>4
  <2>2. Cursor(start, 0, zone) = start + D * 0
    <3>1. Day(0) - day = 0
      BY <1>3, <2>1
    <3>2. QED
      BY <1>3, <2>1, <3>1
  <2>3. Cursor(start, 0, zone) = start
    BY <1>1, <2>2
  <2>4. Cursor(start, 0, zone) < Cursor(start, q, zone) /\ Cursor(start, q, zone) \in Int
    BY <1>1, <1>2, <1>7
  <2>5. QED
    BY <1>5, <2>3, <2>4
<1>10. IsLocalMidnight(end)
  <2>1. start % D = 0 /\ start = D * (start \div D) + (start % D) /\ start \div D \in Int
    BY <1>1, Quotient DEF IsLocalMidnight, D
  <2>2. PICK n \in Int : start = D * n
    <3>1. PICK n \in Int : n = start \div D
      BY <2>1
    <3>2. start = D * n + 0 /\ D * n \in Int
      BY <1>1, <2>1, <3>1
    <3>3. QED
      BY <3>2
  <2>3. PICK days \in Int : days = Day(q) - day
    BY <1>2, <1>3
  <2>4. end = D * (n + days)
    BY <1>1, <1>5, <2>2, <2>3
  <2>5. end % D = 0
    BY <1>1, <2>4, Multiples, n + days \in Int
  <2>6. QED
    BY <2>5 DEF IsLocalMidnight, D
<1> DEFINE reached == {k \in 0 .. MaxMonths : Cursor(start, k, zone) >= end}
           all == reached \cup {MaxMonths}
<1>11. q \in all /\ \A k \in all : q <= k
  <2>1. Cursor(start, q, zone) >= end
    BY <1>5, <1>9
  <2>2. q \in reached
    BY <1>1, <1>8, <2>1
  <2>3. ASSUME NEW k \in reached PROVE q <= k
    <3> SUFFICES ASSUME k < q PROVE FALSE
      BY <1>1
    <3>1. Cursor(start, k, zone) < end /\ Cursor(start, k, zone) \in Int
      BY <1>1, <1>2, <1>5, <1>7
    <3>2. QED
      BY <1>9, <3>1
  <2>4. QED
    BY <1>8, <2>2, <2>3
<1>12. Min(all) = q
  <2>1. all \subseteq Nat
    BY <1>1
  <2> HIDE DEF all
  <2>2. Min(all) = CHOOSE x \in all : \A y \in all : x <= y
    BY DEF Min
  <2>3. Min(all) \in all /\ \A y \in all : Min(all) <= y
    BY <1>11, <2>2
  <2>4. Min(all) \in Nat /\ q \in Nat /\ Min(all) <= q /\ q <= Min(all)
    BY <1>11, <2>1, <2>3
  <2>5. QED
    BY <2>4
<1>13. QED
  BY <1>1, <1>5, <1>9, <1>10, <1>12 DEF QuantityFor, end

(* A window resolved from a count of units is priced for that count, by    *)
(* the hour, by the day and over months of any length, up to the longest   *)
(* window the settings allow (end_for, quantity_for).                      *)
THEOREM EndIsCountedBack == Spec => []EndForInverse
<1>1. Answer => EndForInverse
  <2> SUFFICES ASSUME Answer, answer.ask = "end" PROVE answer.counted = 100 * answer.quantity
    BY DEF EndForInverse
  <2> DEFINE unit == answer.unit
             start == answer.start
             q == answer.quantity
             end == answer.end
  <2>1. EndAnswer(answer)
    BY DEF Answer
  <2>2. /\ Asks(unit, start) /\ q \in Quantities /\ end - start <= WindowDays * DayMinutes
    BY <2>1 DEF EndAnswer
  <2>3. PICK zone \in Zones : end = EndFor(unit, start, q, zone)
                              /\ answer.counted = QuantityFor(unit, start, end, SlotMinutes, zone)
    BY <2>1 DEF EndAnswer
  <2> HIDE DEF unit, start, end, q
  <2>4. answer.counted = QuantityFor(unit, start, EndFor(unit, start, q, zone), SlotMinutes, zone)
    BY <2>3
  <2>5. q \in Nat \ {0}
    <3>1. Quantities \subseteq Nat \ {0}
      BY LengthAssumption
    <3>2. QED
      BY <2>2, <3>1
  <2>6. CASE unit = "HOURLY"
    <3>1. start \in Nat
      BY <2>2, <2>6, LengthAssumption DEF Asks
    <3>2. QED
      BY <2>4, <2>5, <2>6, <3>1, HoursCount DEF q
  <2>7. CASE unit = "DAILY"
    <3>1. start \in Nat /\ IsLocalMidnight(start)
      BY <2>2, <2>7, LengthAssumption DEF Asks
    <3>2. QED
      BY <2>4, <2>5, <2>7, <3>1, DaysCount DEF q
  <2>8. CASE unit = "MONTHLY"
    <3>1. start \in Starts
      BY <2>2, <2>8 DEF Asks
    <3>2. QED
      BY <2>2, <2>3, <2>4, <2>8, <3>1, MonthsCount DEF q
  <2>9. QED
    BY <2>2, <2>6, <2>7, <2>8 DEF Asks, Units, q
<1>2. QED
  BY <1>1, AnswerAlways, PTL

(* Answers have numbers of the right kind: a resolved window always has a  *)
(* quantity, and the meter never shows a negative amount.                  *)
THEOREM QuotesWellFormed == Spec => []TypeOK
<1>1. Answer /\ EndForInverse => TypeOK
  <2> SUFFICES ASSUME Answer, EndForInverse PROVE TypeOK
    OBVIOUS
  <2>1. answer.ask \in {"none", "cover", "search", "bays", "day", "end", "price", "refund", "meter"}
    BY DEF Answer
  <2>2. ASSUME answer.ask = "end" PROVE answer.counted \in Nat \cup {NoQuantity}
    <3>1. EndAnswer(answer)
      BY <2>2 DEF Answer
    <3>2. answer.quantity \in Quantities
      BY <3>1 DEF EndAnswer
    <3>3. Quantities \subseteq Nat
      BY LengthAssumption
    <3>4. answer.quantity \in Nat /\ answer.counted = 100 * answer.quantity
      BY <2>2, <3>2, <3>3 DEF EndForInverse
    <3>5. QED
      BY <3>4
  <2>3. ASSUME answer.ask = "meter" PROVE {answer.minutes, answer.amount, answer.due} \subseteq Nat
    <3>1. MeterAnswer(answer)
      BY <2>3 DEF Answer
    <3>2. PICK b \in Bookings, past \in Nat, paid \in BOOLEAN, already \in Nat, config \in Configs :
            answer = MeterAt(b, past, paid, already, config)
      BY <3>1 DEF MeterAnswer
    <3>3. /\ answer.minutes = BillableMinutes(past, config)
          /\ answer.amount = AmountFor(b.base, b.booked, past, config)
          /\ answer.due = AmountDue(answer.amount, paid, already)
      BY <3>2 DEF MeterAt
    <3>4. answer.minutes \in Nat
      BY <3>3, Bills
    <3>5. answer.amount \in Nat
      BY <3>3, AmountsGrow
    <3>6. answer.due \in Nat
      <4>1. PICK amount \in Nat : amount = answer.amount
        BY <3>5
      <4>2. Max({amount - already, 0}) \in Nat
        BY DEF Max
      <4>3. QED
        BY <3>3, <4>1, <4>2 DEF AmountDue
    <3>7. QED
      BY <3>4, <3>5, <3>6
  <2>4. QED
    BY <2>1, <2>2, <2>3 DEF TypeOK
<1>2. QED
  BY <1>1, AnswerAlways, EndIsCountedBack, PTL

-----------------------------------------------------------------------------
(* A behaviour of the composition is a behaviour of each of its parts.     *)
LEMMA RunsItsParts == McSpec => Spec /\ PayoutSpec
<1>1. McInit => Init /\ PayoutInit
  BY DEF McInit
<1>2. [McNext]_<<part, vars, payoutVars>> => [Next]_vars
  BY DEF McNext
<1>3. [McNext]_<<part, vars, payoutVars>> => [PayoutNext]_payoutVars
  BY DEF McNext
<1>4. QED
  BY <1>1, <1>2, <1>3, PTL DEF McSpec, Spec, PayoutSpec

(* Answers, reports and payouts are well-formed in every behaviour of the  *)
(* composition.                                                            *)
THEOREM QuotesAndPayoutsWellFormed == McSpec => []McTypeOK
BY RunsItsParts, QuotesWellFormed, PayoutsWellFormed, PTL DEF McTypeOK
=============================================================================
