# ParkSpace: a verification project

ParkSpace is a marketplace for parking bays: providers list spaces, renters book
a bay for a period, pay, check in, leave, and pay again if they leave late. Its
backend is a FastAPI application over one PostgreSQL database
(`src/backend/app`), with a background maintenance loop in the same process, a
payment gateway outside, and a React client (`src/frontend`).

What makes it hard is not any one handler but their interleavings. Requests run
at READ COMMITTED, load rows without locking them, decide on what they loaded
and write later, by primary key, the columns they changed. The sweep does the
same from the other side. The gateway is not part of any transaction. The models
here keep exactly that: what is read when, what is written when, what is locked
in between, and what a crash takes back.

## 1. Inventory

| Component | State | Operations | Talks to | Hard because |
|---|---|---|---|---|
| Booking creation (`bookings/service.py` `create`, `availability/service.py`) | `bookings` rows: bay, period, blocking status; the exclusion constraint | create with retry loop and savepoint; every release of a row; a dispute that re-enters | bays, availability, reports, sweep | optimistic read, lock waits, deadlock victims, retries |
| Booking lifecycle (`bookings/service.py`, `maintenance.py`, `overstay.py`, `reports/service.py`) | `status`, `hold_expires_at`, `confirmed_at`, `overstay_*`, `reminder_sent_at` | pay, approve, reject, cancel, check in, end, report, resolve, freeze; the five statements of `run_once` | payments, notifications | stale rows written back; a pass of several statements; clocks read at different times |
| Payments (`payments/service.py`, `router.py`) | `payments`, `refunds`, `webhook_events` | start, confirm, webhook, capture, refund, overstay top-up | gateway, bookings | late, repeated, reordered webhooks; money moved outside the transaction |
| Arrival codes (`bookings/arrival.py`) | `arrival_codes`: code, attempts, expiry | announce, verify | bookings | commit half-way through; lost updates of the counter; two announcements after an expiry |
| Overstay meter (`bookings/overstay.py`) | none (pure) plus `freeze` | `billable_minutes`, `amount_for`, `quote` | lifecycle, payments | boundary instants, caps, rounding, paid while it runs |
| Availability (`availability/service.py`, `parking/service.py` search, bay picker, calendar) | rules, blocks | `rules_cover_window`, `assert_available`, search filter, `build_calendar` | creation, search | midnight, weeks, adjoining intervals; four places that count bays |
| Pricing (`bookings/pricing.py`) | none | quantity, end, price parts, refund tiers | creation, cancel, agreements | rounding, month ends, offsets |
| Listings and bays (`parking/`, `availability/crud.py`) | spaces, bays, blocks, status | create, update, publish, pause, delete, block; moderation | creation | capacity cuts, blocks and deletions against concurrent bookings |
| Reports and payouts (`reports/`, `admin/service.py`) | `reports`, `payouts`, `payout_bookings` | report, resolve, create payout, mark paid | lifecycle | reports and resolutions, two payouts, at once |
| Accounts (`auth/`, `core/security.py`, `core/deps.py`, `users/router.py`) | users, `token_version` | login, refresh, logout-all, new password, suspension | everything | a token issued after a check made before a revocation |
| Vehicles (`vehicles/service.py`) | saved vehicles, the default flag | create, update, delete | creation | check-then-write, row locks |
| Reviews (`reviews/service.py`) | reviews, rating summary of the space | create, refresh | listings | an aggregate written later |
| Settings (`settings/service.py`) | one row per rule | update, read | every request | several rows, each locked until the commit |
| Web client (`frontend/src/lib`) | stored tokens, requests in flight | request, refresh, hooks, login, logout | API | shared refresh, answers out of order |
| Notifications (`notifications/`) | rows, emails after commit | notify, deliver | lifecycle | commit against delivery |
| Rate limiter (`core/ratelimit.py`) | window counters | hit | every route | two stores |
| Providers, audit, storage, geocoding, CLI | rows, files | CRUD | | nothing concurrent that could disagree |

What must hold of each: creation never double-books and always answers; the
lifecycle never uses an unpaid booking, never forgets a payment, releases every
bay, and bills who is late; payments never give back more than was paid, never
confirm without money, and never lose a capture; a code checks in only while it
is the code; what is shown as available can be booked; counted durations are
priced for what was counted; a listing with bookings survives and keeps its bays;
nothing is paid out twice; a revoked token stays out. `PROJECT.json` lists every
hazard at its line with the properties that cover it.

## 2. The modules

```
Periods <- SlotCalendar                (the abstract calendar)
   ^           ^ refines
   +--- BookingCreate     <- MCBookingCreate,     BookingCreateProofs
   |    BookingLifecycle  <- MCBookingLifecycle,  BookingLifecycleProofs
   |    Payments          <- MCPayments,          PaymentsProofs
   |
   +--- Availability <-+
        Pricing      <-+- Quotes    <-+
                          Payouts   <-+- MCQuotes          QuotesProofs, PayoutsProofs
        ArrivalCode, Listings, Sessions, Reviews,
        Vehicles, Settings, WebClient  <- MCOffice         SpacesProofs (Listings, Reviews),
                                                           TokensProofs (Sessions, WebClient),
                                                           OfficeProofs (the others and MCOffice)
```

The first three models look at one booking table from three sides, each with the other
two reduced to what it can observe of them:

* In **BookingCreate** a row's later life is `Release` (any UPDATE to a status
  that does not block) and `Dispute` (the one UPDATE back).
* In **BookingLifecycle** a row is already inserted, a capture is `MarkPaid` or
  `CaptureTopUp`, and the constraint shows as a transaction that is lost
  (`Abandon`).
* In **Payments** the booking is its payment-relevant status only; `CONFIRMED`
  stands for `CONFIRMED` and `ACTIVE`, which every payment path treats alike.

### Periods, SlotCalendar

`Period` and `Overlaps` are `tstzrange(start_at, end_at, '[)')` and `&&`.
`SlotCalendar` is the promise: a set of claims on bays, a claim added only if it
clashes with none, a claim removed at any time.

### BookingCreate

| Model | Code |
|---|---|
| `phase[r]` | where the request's transaction, then its row, stands |
| `slot`, `tries` | `booking.slot_index`, the loop variable `attempt` |
| `outOfService` | the bays whose `ParkingBay.is_active` is false; the provider switches `SwitchedBays` |
| `Receive`, `Read`, `Insert`, `Commit` | validation and `assert_bookable`; `assert_available`; `begin_nested`/`add`/`flush`; `db.commit()` in the route |
| `Accept`, `Lose`, `DeadlockVictim` | the three ways PostgreSQL's exclusion check ends: no rival, a committed rival, two writers waiting for each other |
| `ReferenceClash` | the unique reference, also a `continue` |
| `Release`, `CommitRelease`, `Dispute` | expiry, rejection, cancellation, completion; a report on a completed row |
| `Abort` | an exception or a dead process at any step |

An exclusion constraint is not a lock that is taken first: the tuple is put into
the heap and the index, then the index is scanned; a committed conflict fails the
statement, an uncommitted one makes it wait. A waiting scan is a `placed`
(or `replaced`) row for which neither `Accept` nor `Lose` is enabled.
`Visible` is what a READ COMMITTED query sees; `InHeap` is what the scan sees.

### BookingLifecycle

One row, requests `Sessions`, maintenance processes `Sweepers`, a clock.

* A request is `Load` (a copy of the row), one decision (`MarkPaid`, `Approve`,
  `Reject`, `Cancel`, `Verify`, `EndParking`, `ReportIssue`, `Resolve`,
  `OpenTopUp`, `CaptureTopUp`) made on that copy, and `Write`: `Overlay` puts the
  changed columns, and only those, on whatever is committed by then, as
  SQLAlchemy's UPDATE by primary key does. Flush and commit are one step because
  nobody can see the row in between.
* A pass is `StartPass` (the advisory lock), `ExpireHolds` and `ActivateStarted`
  (bulk UPDATEs: `View` is re-evaluated, the row stays locked in `writer`),
  `StartOverstays`, `CompleteFinished`, `DueReminders` (SELECT, then mutate
  `Instance`, the identity-mapped object; flushed before the next statement,
  `dirty`), and `FinishPass`. `AbortPass` may come at any step.
* `Billable` is `billable_minutes` in model time; money is proportional to it.
* A column that no transition reads and that no property is about is left out:
  `cancelled_at`, `completed_at`, the reason and the earnings.

### Payments

One booking, gateway `Orders` (those in `TopUps` are overstay orders), events,
sessions. A capture is two steps, `Confirm` or `Webhook` (rows are read and the
decision taken) and `Capture`/`CloseEvent` (flush and commit). A cancellation is
`Cancel` (the refund is computed from the loaded booking), `FlushCancel` (the
UPDATE takes the row: `rowLock`), `PickPayment` (`refund_booking` reads a captured
payment), `CallGateway` (refunded; refused; or refunded with the answer lost) and
`CommitCancel`. `Abort` rolls the database back and nothing else: `charged`,
`declined`, `given` belong to the gateway. An order is in `charged` once its
customer has completed the checkout, whether the gateway calls it captured or only
authorized: the webhook takes both for a capture (`payments/service.py:286`). `lost`
becomes true when money went back and no committed row will say so.

### ArrivalCode

One booking's row in `arrival_codes` and the concurrent requests that announce
and verify. `Announce`/`AnnounceReads`/`AnnounceReplaces` are the guards, the
read and the delete-and-insert; `Submit`/`SubmitReads`/`SubmitCounts`/`Enter` are
the guards, the read, the attempt that commits on its own, and the check-in. A
request keeps the row it read (`read`), as the identity map does; an UPDATE or
DELETE by key that meets another row is an error (`SameRow`, `Replaceable`).
`judged` counts, outside the program, the guesses really compared with one code.
`BookingMoves` is everything else that happens to the booking.

### Availability, Pricing, Quotes

Pure operators with the names of the functions they translate, and one module
that asks them. `Availability` counts ticks, finer than the minutes rules are
written in, of a week of any length; `Pricing` counts minutes of the local clock
over the real calendar of the years from 2024, paise, and hundredths of units and
percents. A datetime's UTC offset is a parameter (`zone`): `add_months` works on
the calendar fields of the offset that was sent. `Quotes` holds one answer at a
time; the meter is asked minute by minute, with a payment in between. A sort is
the choice of the sequence that is in order (`Ordered`, `SortedTiers`), a loop over
a list a function of the number of its elements (`upTo`, `walk`), a search for the
first unit that fits the least such unit.

What `Quotes` assumes of its constants is what the application checks before it
calculates: intervals of a day that are not empty (`availability/schemas.py`, and the
check constraints of `availability/models.py`); percentages between 0 and 100, tiers
of non-negative hours, a slot that divides the hour and a longest window that is
shorter than the months `quantity_for` counts (`settings/schemas.py`); a share
between 0 and 100 (`providers/schemas.py`).

### Payouts

Reports, resolutions and payouts of one provider's bookings, by any number of
requests and of clerks: each reads
committed rows statement by statement (`Report`, `ReportChecks`, `ReportCommits`;
`Resolve`, `ResolveChecks`, `ResolveCommits`; `Select`, `PayoutCommits`;
`MarkPaid`, `PaidCommits`) and the unique index on `payout_bookings.booking_id`
is `Insertable`. `LeftFlagged` are the bookings that stay flagged with nothing open; a
resolution is marked `raced` when another one closes a report on the same booking
between its search for open reports and its commit (`Missing`). What the bookings
earned is computed by `Pricing`.

### Listings

One listing: `listing` is `status` and `total_slots`, `bays` the bay rows, `sold`
the slots with a blocking booking, `booked` those with a booking row of any status.
A row leaves `sold` when it is cancelled, expires or ends (`Release`), and comes
back when a serious report makes an ended booking DISPUTED, which blocks again
(`Dispute`, `reports/service.py:56`); both may happen any number of times. A job
keeps what its request loaded and wants. It is marked `raced` when, before it
commits, something that it may have decided without was committed: for a change
of the total (`Resizing`), another total; for that and for a block (`Clearing`), a
booking that is made or comes back; for a renter's request (`Seeking`), a total or a
block. `Deletable` is the foreign key (`ondelete="RESTRICT"`), `Synced` is
`sync_for_space`.

### Sessions, Reviews, Vehicles, Settings

Small tables at the level of statements. `Sessions` keeps beside each token the
number of revocations that were committed when its owner was last checked
(`since`), which the program does not know. `Reviews` and `Vehicles` have row
locks and unique indexes (`Inserted`, `Locking`, `Pending`, `Locked`, `Claimed`):
a statement sees committed rows and its own. A review loads the space's row with
the booking (`Booking.parking_space` is `lazy="joined"`), so the `db.get` of
`refresh_space_rating` answers from the session, and its UPDATE has only the
columns that differ from that older copy (`loaded`, `Changed`). `Settings` locks a row from its
upsert to the commit (`Held`), and writes keys in the order of the fields.

### WebClient

The browser runs one task at a time; a step is one task with its microtasks.
`refresh` is `refreshInFlight` with the timer of its `finally`; a call remembers
the token it was first denied with; `Active` is the flag of the effect's closure.

## 3. What the runs check

Passing runs (every action and every disjunct of the next-state relations fires
in some of them):

| Run | Instance | Properties |
|---|---|---|
| `BookingCreate_safety` | 3 requests, 2 bays, 3 windows (two overlapping, two back to back), bay 0 named or none, 2 rounds, every row may be disputed, the provider switches bay 0 | `TypeOK`, `NoDoubleBooking`, `NamedBayOrNothing`, `RefusalHasWinner`, `ImplementsCalendar` |
| `BookingCreate_liveness` | 3 requests, 1 bay, reference collisions | `EveryRequestAnswered` |
| `BookingLifecycle_safety` | 2 requests, 1 sweeper, a clock 0..4 over hold 1, start 1, end 2, grace 3, meter stop 4 | `TypeOK`, `PaidBeforeUse`, `ExpiryTakesOnlyLapsed`, `PaymentNeverForgotten` |
| `BookingLifecycle_liveness` | gated space, 1 request, 1 sweeper, the same clock | `LateNeverFree`, `HoldsLapse`, `BayReleased`, `RemindedOnce` |
| `Payments_safety` | a booking order and a top-up order, 2 sessions, failed and captured events, a partial and a full refund | `TypeOK`, `RefundWithinPayment`, `ConfirmedWasCharged` |
| `Payments_liveness` | 1 order, 2 sessions, failed and captured events | `CaptureReachesTheBooks` |
| `Quotes_safety`, availability | a week of 3 days of 3 minutes of 2 ticks: 216 sets of rules, every window from the second day on, up to more than a week long; listings with 0 to 2 slots, bookings on slots 0 to 2, a block | `CoverAgreesWithWalk`, `ShownIsAvailable`, `OpenDayHasRoom` |
| `Quotes_safety`, pricing | local midnights around every month end of 2024, 1 to 61 units, sent as local time or as UTC; prices, shares, commissions and tiers; meters minute by minute past their stop, with and without a payment | `EndForInverse`, `MoneyConserved`, `MeterChargesOnce`, `McTypeOK` |
| `Quotes_safety`, payouts | 2 bookings, 1 reporter, 2 reports, 2 payouts, 2 requests, both of them clerks | `PaidOutOnce`, `StuckOnlyByRace` |
| `Office_safety`, arrival | 2 requests, 2 codes, 2 attempts, a code that lives 1 instant, a clock 0..3 | `LiveCodeKept`, `CheckInWithLiveCode`, `GuessesBounded` |
| `Office_safety`, listing | the provider's requests one by one, 1 renter's request, 1 admin, disputes, up to 2 slots | `HistorySurvives`, `BaysFollowTotal`, `StrandedByRaceOrReturn` |
| `Office_safety`, totals | 2 editors at once, 1 renter's request, disputes, a listing that is only published, up to 2 slots | the same |
| `Office_safety`, session | 2 clients, 1 revoker, 1 restorer, up to 3 revocations | `RevokedStaysOut` |
| `Office_safety`, review | 2 requests, 3 bookings, 3 ratings, both subjects | `SummaryStaleOnlyInRace` |
| `Office_safety`, vehicle | 2 requests, 2 plates, 2 rows | `SoleDefault` |
| `Office_safety`, settings | 2 admins, 3 rules with values valid for some of them | `UpdatesNeverDeadlock` |
| `Office_safety`, web | 2 hooks (one passes the abort signal on), 2 changes each, 2 tokens | `FreshAnswerShown`, `RetryWithNewToken` |

`Quotes_safety` and `Office_safety` hold several parts that share no variable:
`part` picks the one that moves, so a behaviour is a behaviour of that part.
`OfficeTypeOK` and `McTypeOK` are the conjunctions of the parts' type invariants.

Runs that end in a violation each check one sentence of the repository that the
code does not keep:

| Run | Sentence | What happens |
|---|---|---|
| `BookingLifecycle_meter` | a pass "only touches rows still in the state it is moving out of" | selected ACTIVE, ended by its renter, written OVERSTAYING |
| `BookingLifecycle_ends` | "Refuses while money is owed" | top-up paid, meter runs on, booking ends with a larger bill |
| `Payments_refunded` | "we never refund a booking that failed to cancel" | the handler dies between the gateway and the commit |
| `Quotes_month` | "Monthly bookings must end on the same day of a later month" | the client sends UTC; local 1 March is 29 February there, and a month later is local 30 March |

The models also reach the following, which no run states because no sentence of
the repository is precise enough to be refuted, or because one of the runs above
shows the same cause:

* five rivals for five bays lose four rounds to four different winners, and the
  fifth is refused with a bay free (`bookings/service.py:234`);
* a renter who names no bay may be handed one that is out of service:
  `find_free_slot` looks at bookings only (`availability/service.py:272`);
* two payment requests that find no open order each open one, and both may be
  captured (`payments/service.py:148`);
* a check-in that loaded a CONFIRMED booking writes ACTIVE over a cancellation
  that committed meanwhile (`bookings/arrival.py:167`);
* a top-up request freezes a debt on a booking that was completed on time
  (`payments/service.py:52`), and a slower clock's smaller debt may be written
  over a larger one (`bookings/overstay.py:99`);
* a capture reported after the hold was swept is recorded, the booking stays
  EXPIRED, and nothing refunds it (`payments/service.py:238`); a cancellation
  that read the booking before the capture refunds nothing either
  (`bookings/service.py:362`);
* a failed-attempt event that was read before a capture writes FAILED over it
  (`payments/service.py:290`), after which `refund_booking` finds nothing to refund;
* two guesses at once may count as one attempt (`bookings/arrival.py:156`), so
  more than `arrival_code_max_attempts` guesses are judged, but, as
  `GuessesBounded` says, not without end; a code whose attempts are used up is
  announced again until it expires (`bookings/arrival.py:109`);
* a block, a cut and a booking that do not see each other strand the booking
  (`parking/service.py:165`, `availability/crud.py:31`). Without any race, a
  booking that ended early frees its slot, the slot is cut or the period blocked,
  as it may be, and a report makes the booking DISPUTED on the slot that is gone
  (`reports/service.py:56`). `StrandedByRaceOrReturn` says nothing else strands one;
* a status written by its provider overwrites a suspension that came in between
  (`parking/service.py:200`);
* two updates of `total_slots` at once leave the bays of the one and the total of
  the other (`parking/service.py:154`): the check and `sync_for_space` go by the
  total that each has loaded. `BaysFollowTotal` says nothing else does, and that the
  next update that none overtakes repairs it;
* two admins who close the last two reports of a booking at once each see the
  other's open, and the booking stays flagged (`reports/service.py:142`), until a
  report on it is closed again: `StuckOnlyByRace`;
* a review that nobody overtook since it read the ratings may still leave a wrong
  average. The ratings are {4}; A, who gives 3, loads the booking; B gives 5 and
  commits 4.50 of 2; A reads 4.00 of 3, which is the average it loaded, writes the
  count only, and the row says 4.50 of 3 (`reviews/service.py:69`).
  `SummaryStaleOnlyInRace` exempts this case and no other;
* a payout pays for a booking that was flagged DISPUTED after it was selected
  (`admin/service.py:349`), and the dashboard then understates what is still to
  be paid (`providers/dashboard.py:120`);
* a dispute lifted on a checked-in booking of a gated space returns it to
  CONFIRMED with its code used up (`reports/service.py:150`): it ends, or is
  reported again, but cannot be checked in.

Read beside the models, and not in them: the migrated exclusion constraint does
not list OVERSTAYING while the one of `bookings/models.py` does. The booked
period of an overstaying row is over, so no new booking meets it under either.

### An assumption of a single actor

`RevokedStaysOut`, and with it that no token's version is above the account's
(`SessionTypeOK`), holds only while the revocations of one account do not overlap,
and the constants say so: one revoker. With two, both load the same `token_version`
and write the same next one, and a token issued between them stays good. The code takes no lock against it; nothing in it claims to. No other
property assumes how many actors there are of a kind; those that a race may break
say which race, and that nothing else does.

### Bounds and why they are enough

* Three requests and two bays: two rivals that wait for each other while a third
  commits, releases or disputes, with a bay left to retry on. Two rounds stand
  for five (the fourth lost round is no different from the second). The bays are
  interchangeable but for their order, so naming bay 0 meets every case: a named
  bay against a named one, and against a renter who is given the lowest.
* One row in the lifecycle: no statement of a transition reads another booking's
  columns. Two requests give a stale copy, a change behind it and the sweep at
  the same time. Two processes running the sweep exclude each other by the
  advisory lock: the runs have one, and the theorem `OneReminder` any number.
* `MaxTime` ends the clock after the last instant the code compares with. A hold
  renewed later than that lapses with it (`HoldFrom`). Nothing happens after the
  last instant that depends on time.
* `MaxGiven` caps what the gateway is asked to give back for an order, at twice
  the price: one refund too many is representable. The gateway refusing is always
  possible, so the cap removes no interleaving before it.
* The short week: `rules_cover_window` compares minutes with the day's two ends
  and days with the week's length, nothing else. Three minutes hold two windows
  with a gap or that touch; windows reach past a week, where `WeekdaysTouched`
  changes its answer.
* The calendar: month ends repeat every four years, and a start within three days
  of one, with 1 to 61 months, meets every pair of lengths; 60 and 61 are at the
  bound of the loop in `quantity_for`.
* In the small parts, two requests and two of everything they may disagree about
  (three bookings and three ratings, so that a review finds an average unchanged and
  a count that is not).
  `MaxVersion`, `MaxJudged`, `MaxRuns`, `MaxTokens`, `Reports` and `PayoutIds`
  bound what would grow for ever; the actions that need the next one stop there.
  `MaxJudged` is above what `GuessesBounded` allows (6, and 5 for two requests and
  two attempts), so the bound does not hide it.
* Three bounds leave out combinations, to keep the runs short, of what the theorems
  prove without them. `OneEditor` and `OnlyPublished` (`MCOffice`): a listing is
  explored with everything that may be done to it but one request of its provider at
  a time, and with two at a time while admins rest. `OneRenter`: reviews of renters,
  which have no summary, are for one booking and of one rating. `FewResolve`
  (`MCQuotes`): two clerks resolve at the same time only reports of one booking and
  while there are no payouts.
* Deadlock checking is off (`CHECK_DEADLOCK FALSE`): a booking ends, a clock
  stops, a request is answered or a bound is reached, and nothing is left to do.
  That nothing hangs before that is what the liveness properties, and
  `UpdatesNeverDeadlock`, say.
* Symmetry is used on requests and sessions, in safety runs only.

### Fairness and why the code justifies it

* `BookingCreate`: a request's own steps are weakly fair (the event loop runs
  them); a waiting scan is strongly fair, since PostgreSQL wakes or aborts every
  waiter and a conflicting row may come and go meanwhile; a begun release ends.
  Renters, providers and crashes are not fair.
* `BookingLifecycle`: the clock ticks; `maintenance_loop` starts a pass every
  interval and swallows exceptions, so its steps are strongly fair: passes may be
  killed again and again, but not all at the same statement. Requests are not
  fair at all: what must happen, happens without them.
* `Payments`: the gateway redelivers an event until it is acknowledged (strong
  fairness of `Webhook`), transactions end, and not every one of them dies. The
  client's own confirmation is not fair.

The small parts state safety only: their specifications have no fairness.

## 4. What is proved

For every number of requests, sessions, sweepers, orders, bays, windows, rules,
rows, amounts and instants that satisfy the modules' assumptions
(`ASSUME ...Assumption`, evaluated by TLC in the runs). Every safety and every action
property of a passing run is stated by a theorem. The conjuncts of each inductive
invariant are named in parentheses below:

| Module | Theorems |
|---|---|
| `BookingCreateProofs` | `TypeCorrect`, `DoubleBookingImpossible`, `NamedBayHonoured`, `RefusalExplained`, `CreateImplementsCalendar` |
| `BookingLifecycleProofs` | `TypeCorrect`, `NoUseWithoutPayment`, `OneReminder`, `PaymentsRemembered`, `OnlyLapsedExpire`, `LateRentersOwe` |
| `PaymentsProofs` | `TypeCorrect`, `NeverRefundedTwice`, `ConfirmationNeedsMoney` |
| `QuotesProofs` | `CoverIsExact`, `HoursAreTheRules`, `ShownCanBeBooked`, `OpenDaysHaveRoom`, `MoneyIsConserved`, `EndIsCountedBack`, `MeterNeverBillsTwice`, `QuotesWellFormed`, `QuotesAndPayoutsWellFormed` |
| `PayoutsProofs` | `PayoutsWellFormed`, `NoBookingPaidOutTwice`, `OnlyRacesLeaveStuck` |
| `SpacesProofs` | `ListingsWellFormed`, `BookingsKeepTheirListing`, `OnlyOvertakenTotalsPartBays`, `OnlyRacesAndReturnsStrand`, `ReviewsWellFormed`, `SummariesStaleOnlyInRaces` |
| `TokensProofs` | `TokensWellFormed`, `RevokedTokensStayOut`, `ClientWellFormed`, `DeniedTokensAreNotRepeated`, `LatestAnswersAreShown` |
| `OfficeProofs` | `CodesWellFormed`, `LiveCodesAreKept`, `CheckInsAreByLiveCodes`, `GuessesAreBounded`, `RulesInForceAreAccepted`, `SettingsNeverDeadlock`, `VehiclesWellFormed`, `OneVehicleIsTheDefault`, `OfficeWellFormed` |

**BookingCreate** (`Typed`, `SettledExclusive`, `NamedBayKept`, `SlotAssigned`,
`RefusalHasWinner`). `NoDoubleBooking` is not inductive: an uncommitted row that
passed its scan will become visible by a step that checks nothing. The invariant
says that of two overlapping rows on a bay at most one has passed its scan
without having been released, whatever it did since; `Accept` is the only step
that makes a row pass, and it is guarded by `Conflicts`. `RefusalExplained` needs
that a `refused` or `gaveup` request saw a rival that had committed, and that a
row that ever committed stays a `Winner` (its bay and its window never change
again). `CreateImplementsCalendar` maps `Commit` to `Claim`, `CommitRelease` to
`Release`, and every other step to a stutter.

**BookingLifecycle** (`TypeOK`, `PaidBeforeUse`, `SessionHarmless`,
`SweepHarmless`, `OnePass`, `RemindersCounted`). `PaidBeforeUse` depends on rows nobody has committed yet:
the images in the hands of requests and of the sweep. `SessionHarmless` and
`SweepHarmless` say of each image in flight that what it would write is covered
by a `confirmed` that is already committed or that is written with it; the proof
leans on `confirmed` never being written back to false, which is
`PaymentsRemembered` and holds because `Overlay` writes dirty columns only.
`OneReminder` counts: `reminders` is at most one and, while it is zero, at most
one pass (the holder of the advisory lock) has a reminder to commit.
`OnlyLapsedExpire` needs that whoever carries EXPIRED to the row is the sweeper
that holds its lock. `LateRentersOwe` adds a second invariant (`Metered`). A pass
closes a booking from a reading taken some statements before it commits, requests
may rewrite the recorded reading in between, and the pass writes it only if it
differs from the one loaded. Nothing recorded, loaded or about to be written shows
more than the meter does now, so a request that re-reads the meter only raises it
(`SessionMetered`); only a sweep puts a booking on the meter, only one that it saw
ACTIVE, and it trusts its own copy only once it has moved it, so a pass that finds
the booking on the meter has closed it from a reading of its own (`SweepMetered`).

**Payments** (`TypeOK`, `HoldersHold`, `PlansFit`, `CapturesArePaid`, `Books`,
`ConfirmedWasCharged`). `NeverRefundedTwice` needs four facts: whoever is between its flush
and its commit holds the row (`HoldersHold`), so at most one refund is in flight;
its plan fits what the books leave (`PlansFit`); the books are within the payment
and, unless something was lost, agree with the gateway up to the one refund in
flight (`Books`). `ConfirmationNeedsMoney` needs that a session on its way to
capture has a customer's payment behind it (`CapturesArePaid`).

**Listings** (`Typed`, `Careful`). `HistorySurvives` follows from the types and the
foreign key at each deletion. For the other two, `Sound` says of each request in
flight that what it has found is still so, unless it was marked `raced`: the total a
change of it loaded is the listing's, no slot above the new total is sold, nothing is
sold in the period to be blocked, a renter's slot is below the total and the period is
not blocked. It holds for any number of editors because every commit marks the
requests it may concern. With it, the listing keeps the total that an update which was
not raced has loaded, or gets the one that it wants, and `sync_for_space` makes the
bays those of that total, whatever bays there were; and a cut, a block or a sale that
was not raced strands nobody, so that what is left is `Dispute`.

**Reviews** (`ReviewInv`). `Current` says of each request what is left of its reading:
the row of the space that it loaded is the committed one as long as no other review has
passed it, and the aggregate it found is that of all reviews as long as none has since
it read them. Two drafts that are inserted and not yet published are for different
trips or subjects, because the second insert waits at the unique key (`OnePerTrip`). So
a column that a request writes, if nobody overtook it, is that of the reviews as they
are once it has committed; and one that it leaves out was equal to that when it was
loaded, and still is if nobody has passed it.

**Sessions** (`Known`, one revoker). `InStep` is the strengthening: whatever
carries a version, a token or a request about to issue one, and carries the
current version, was last checked after the latest revocation. Every revocation
writes a version above all of them, because the one it loaded is still the
account's (`Latest`).

**ArrivalCode** (`ArrivalInv`). `Held` says that a request which still holds the
present row's key holds its code and expiry too (only the attempts and the
verification of a row ever change), that a row read for replacement had expired
when it was read, and that whoever is about to enter typed the code it read. Keys
are never reused (`code.id = issued`), which makes the writes by key safe.
`GuessesAreBounded` counts for any number of requests at once. Each of them stands at
a value of the counter: the one it will count from, if that is less than the counter,
and else the counter itself. A guess takes a request away from the least value that is
involved and moves others up at most, so the spread of the requests over the values
falls in the order that looks at the least value first, and no other step raises it
until there is a new code. No spread comes twice, so there are fewer guesses than
spreads (`Spent`); with two requests these are one more than
`MaxAttempts * (MaxAttempts + 3) / 2`.

**Vehicles** (`VehicleInv`). A request holds the locks of what it has written, and
nobody else has written the plate it holds (`Apart`), which is the unique index; a
row it has loaded, and that no commit has changed since, is the row that stands
(`Informed`); what it is about to commit leaves one default (`Heir`). A request that
another overtook is marked, and nothing is claimed of it.

**Settings** (`InOrder`, one lock for each row). Whoever waits has written only
fields that come before those it has yet to write. Of the requests under way the one
that waits for the last field of all would be waiting for a request whose next field
comes later still: so one of them can always go on.

**The office**. A step of `McSpec` is a step of one part and leaves the variables of
the others alone, so each part's theorems hold of the composition.
`OfficeWellFormed` and `TokensWellFormed` assume one revoker, as
`RevokedTokensStayOut` does.

**Quotes** (`Answer`). The state is one answer, so the invariant is short: the answer
is what the service computes for the question it carries, and the meter has not been
paid more than it shows. Each theorem is then one about the operators, and these are
where the proofs are long.

* `CoverIsExact`: deciding from the set of weekdays agrees with a walk day by day,
  for windows of any length, because every day between the first and the last is
  whole and a window that reaches over a week touches every weekday.
* `HoursAreTheRules`: finitely many intervals can be put in order; joining them one
  by one keeps their minutes (`MergeIntervals`) and leaves intervals that rise with a
  gap between them, or none; the walk over them (`Covers`) stops short only at a
  minute that is in none.
* `ShownCanBeBooked` and `OpenDaysHaveRoom`: fewer slots taken than there are leaves
  one free, by counting, whatever slots the bookings name; what is free and open over
  a window is so over every window inside it.
* `MoneyIsConserved`: the commission is rounded and the earning is what it leaves; of
  the tiers in order the first one that is met is the tightest, in whatever order they
  were listed.
* `EndIsCountedBack`: months later is later, a month has at least 28 days and twelve
  have at least 365, so the count of months meets the end that was resolved before it
  reaches `MaxMonths`.
* `MeterNeverBillsTwice`: the amount grows with the time over, so what was paid is
  never more than what the meter shows.

**Payouts** (`Typed`, `Grounds`). `PaidOutOnce` needs only that a payout's amount is
that of its bookings and that the unique index is looked at in the step that inserts.
`OnlyRacesLeaveStuck` needs `Founded`, of every clerk: a resolution that will keep the
flag of its booking, and is not marked `raced`, leaves another report open on it. That
stays so whatever is reported meanwhile; only another resolution closes a report, and
one that does so on the same booking marks it.

**WebClient** (`WebInv`). `CallOK` says of a request that is denied and no retry
that it carries the token it was first sent with, and that this is older than the
one a refresh that has just settled has brought; `RefreshOK` says that the stored
token is none or at least that new. So whoever retries, by joining a refresh or
by finding it settled, sends a newer token than the one denied. That the promise
is settled only while its timer is set is the part the code's `setTimeout` owes.
`Fresh` is its own strengthening: while a page loads, the request of its latest
run is in flight, and only that run's answer may write the state.

### What is only model-checked

* The liveness properties (`EveryRequestAnswered`, `HoldsLapse`, `BayReleased`,
  `CaptureReachesTheBooks`): reasoning under fairness is outside this prover's reach.
* What the runs refute: a counterexample is a behaviour of one instance.
* That the bounds hide nothing, for what is left: section 3 says why.

The library's induction theorems take a predicate as a parameter and cannot be used
here. Where a proof of `QuotesProofs` needs one, it takes the smallest counterexample
instead, which exists because the order is well-founded: the least step of a run at
which a claim fails (`Stepwise`), the smallest finite set that cannot be put in order.

## 5. What is not modelled

`PROJECT.json` lists each part with the reason. In short:

* formatting, HTTP, authentication cryptography, e-mail texts, file storage,
  geocoding and the command line, which are I/O;
* the rate limiter: one atomic counter per client, route and window;
* the delivery of e-mails after the response, which looks its row up again;
* row-at-a-time CRUD that nothing else interleaves with: profiles, provider
  onboarding and documents, the descriptive columns and photos of a listing, the
  names of bays (duplicates are refused within one request only, `parking/bays.py`,
  so a bay may be given the name of one that the request does not mention);
* two browser tabs that share one `localStorage`, and the pages themselves;
* the composition of parts through one booking row beyond what section 2 says:
  each model reduces the others to what it can observe of them. Prices are
  amounts, e-mails are a counter, a vehicle is not looked at by a booking.

## 6. What is left

In the order in which it would add most:

1. Composing `Listings` with `BookingCreate`, so that a cut or a block races with
   the whole retry loop and not with its last round only.
2. An abstract life of a booking (who may use a bay, who owes what) that
   `BookingLifecycle` and `ArrivalCode` both implement.
3. Two tabs in `WebClient`: a refresh by one while the other has one in flight.

## 7. Running it

```
cd tla
tlc -workers 2 -config BookingCreate_safety.cfg MCBookingCreate.tla
tlapm BookingCreateProofs.tla
```

Each configuration `<Name>_<run>.cfg` belongs to `MC<Name>.tla`. The longest
run takes about two minutes, the longest proof two to four minutes.
