------------------------------- MODULE Payouts -------------------------------
(***************************************************************************)
(* Issue reports (reports/service.py) and the payouts of one provider      *)
(* (admin/service.py).                                                     *)
(*                                                                         *)
(* Requests run at the same time and read committed rows, one statement    *)
(* after the other; what a request writes appears with its commit.         *)
(* `deals` are the provider's bookings, numbered by the time they end;     *)
(* what else happens to them is a step of the environment.                 *)
(***************************************************************************)
EXTENDS Integers, FiniteSetsExt

CONSTANTS
  Deals,      \* bookings, 1 .. n
  Earning,    \* Booking.provider_earning of each
  Parties,    \* who may report: the renter and the provider
  Requests,   \* requests that report, pay out and mark paid
  Clerks,     \* requests that resolve reports
  Reports,    \* rows of reports, 1 .. n (a bound)
  PayoutIds,  \* rows of payouts, 1 .. n (a bound)
  NoRow

(* An ACTIVE booking is like a CONFIRMED one to all of this.                *)
DealStatuses == {"CONFIRMED", "COMPLETED", "DISPUTED", "CANCELLED"}

(* OPEN and UNDER_REVIEW are alike to the code, RESOLVED and DISMISSED too. *)
ReportStatuses == {"OPEN", "CLOSED"}

SumOf(set) == MapThenSumSet(LAMBDA d : Earning[d], set)

(* reports, and payouts with their payout_bookings *)
ReportRows == [deal : Deals, by : Parties, status : ReportStatuses]
PayoutRows == [of : SUBSET Deals, amount : {SumOf(set) : set \in SUBSET Deals}, status : {"PENDING", "PAID"}]

ASSUME PayoutAssumption ==
  /\ Deals \subseteq Nat \ {0} /\ IsFiniteSet(Deals)
  /\ Earning \in [Deals -> Nat]
  /\ Reports \cup PayoutIds \subseteq Nat
  /\ NoRow \notin ReportRows \cup PayoutRows

VARIABLES
  deals,     \* Booking.status
  over,      \* bookings up to this one have ended
  reports,   \* rows, [deal, by, status], or NoRow
  payouts,   \* rows with their payout_bookings, [of, amount, status], or NoRow
  desk       \* per request: where it is and what it has read

payoutVars == <<deals, over, reports, payouts, desk>>


(* EARNED_STATUSES, and the ones a serious report flags. *)
Earned     == {"COMPLETED"}
Disputable == {"CONFIRMED", "COMPLETED"}

NoWork == [at |-> "idle"]

PayoutInit ==
  /\ deals = [d \in Deals |-> "CONFIRMED"]
  /\ over = 0
  /\ reports = [r \in Reports |-> NoRow]
  /\ payouts = [p \in PayoutIds |-> NoRow]
  /\ desk = [q \in Requests \cup Clerks |-> NoWork]

Rows(table) == {k \in DOMAIN table : table[k] # NoRow}

(* A new row's key. *)
NextKey(table, k) == table[k] = NoRow /\ \A j \in DOMAIN table : j < k => table[j] # NoRow

Finish(q) == desk' = [desk EXCEPT ![q] = NoWork]

Proceed(q, work) == desk' = [desk EXCEPT ![q] = work]

-----------------------------------------------------------------------------
(* reports/service.create: the booking is loaded, ...                      *)
Report(q, d, by, serious) ==
  /\ desk[q].at = "idle"
  /\ Proceed(q, [at |-> "report", deal |-> d, by |-> by, flag |-> serious /\ deals[d] \in Disputable])
  /\ UNCHANGED <<deals, over, reports, payouts>>

OpenOn(d) == {r \in Rows(reports) : reports[r].deal = d /\ reports[r].status = "OPEN"}

(* ... an open report of the same person is a conflict, ...                *)
ReportChecks(q) ==
  /\ desk[q].at = "report"
  /\ IF \E r \in OpenOn(desk[q].deal) : reports[r].by = desk[q].by
     THEN Finish(q)
     ELSE Proceed(q, [desk[q] EXCEPT !.at = "insert"])
  /\ UNCHANGED <<deals, over, reports, payouts>>

(* ... the report is committed, and with it the flag, by the status loaded. *)
ReportCommits(q, r) ==
  LET work == desk[q]
  IN  /\ work.at = "insert"
      /\ NextKey(reports, r)
      /\ reports' = [reports EXCEPT ![r] = [deal |-> work.deal, by |-> work.by, status |-> "OPEN"]]
      /\ IF work.flag THEN deals' = [deals EXCEPT ![work.deal] = "DISPUTED"]
                      ELSE UNCHANGED deals
      /\ Finish(q)
      /\ UNCHANGED <<over, payouts>>

-----------------------------------------------------------------------------
(* update_report, resolve: a new status; a closing one looks at the        *)
(* booking, ...                                                            *)
Resolve(q, r, status) ==
  /\ desk[q].at = "idle"
  /\ reports[r] # NoRow
  /\ LET disputed == status = "CLOSED" /\ deals[reports[r].deal] = "DISPUTED"
     IN  Proceed(q, [at |-> IF disputed THEN "others" ELSE "resolve",
                     report |-> r, status |-> status, lift |-> FALSE, raced |-> FALSE])
  /\ UNCHANGED <<deals, over, reports, payouts>>

(* [Mutant of OtherOpen] the report itself counts as one still open.       *)
AnyOpen(r) == OpenOn(reports[r].deal)

(* The other reports still open on its booking. *)
OtherOpen(r) == OpenOn(reports[r].deal) \ {r}

(* ... then for other open reports ...                                     *)
ResolveChecks(q) ==
  /\ desk[q].at = "others"
  /\ Proceed(q, [desk[q] EXCEPT !.at = "resolve", !.lift = OtherOpen(desk[q].report) = {}])
  /\ UNCHANGED <<deals, over, reports, payouts>>

Lifted(d) == IF d <= over THEN "COMPLETED" ELSE "CONFIRMED"

(* Resolutions that have looked, and miss that a report on d gets closed.  *)
Missing(d) ==
  {c \in Clerks : desk[c].at = "resolve" /\ reports[desk[c].report].deal = d}

(* ... and commits, lifting the dispute if it found none.                  *)
ResolveCommits(q) ==
  LET work == desk[q]
      d    == reports[work.report].deal
  IN  /\ work.at = "resolve"
      /\ reports' = [reports EXCEPT ![work.report].status = work.status]
      /\ deals' = IF work.lift THEN [deals EXCEPT ![d] = Lifted(d)] ELSE deals
      /\ desk' = [c \in Requests \cup Clerks |->
                   IF c = q THEN NoWork
                   ELSE IF work.status = "CLOSED" /\ c \in Missing(d) THEN [desk[c] EXCEPT !.raced = TRUE]
                   ELSE desk[c]]
      /\ UNCHANGED <<over, payouts>>

-----------------------------------------------------------------------------
Settled == UNION {payouts[p].of : p \in Rows(payouts)}

(* create_payout: the unsettled bookings that ended by the cutoff, which   *)
(* the admin may set to any date.                                          *)
Select(q, cutoff) ==
  LET chosen == {d \in Deals \ Settled : deals[d] \in Earned /\ d <= cutoff}
  IN  /\ desk[q].at = "idle"
      /\ chosen # {}
      /\ Proceed(q, [at |-> "payout", of |-> chosen])
      /\ UNCHANGED <<deals, over, reports, payouts>>

(* [Mutant of Insertable] payout_bookings.booking_id is not unique.        *)
InsertableAny(of) == of # {}

(* The unique booking_id of payout_bookings. *)
Insertable(of) == of \cap Settled = {}

(* Its rows are committed together, or the request fails.                  *)
PayoutCommits(q, p) ==
  LET of == desk[q].of
  IN  /\ desk[q].at = "payout"
      /\ NextKey(payouts, p)
      /\ payouts' = IF Insertable(of)
                    THEN [payouts EXCEPT ![p] = [of |-> of, amount |-> SumOf(of), status |-> "PENDING"]]
                    ELSE payouts
      /\ Finish(q)
      /\ UNCHANGED <<deals, over, reports>>

(* mark_payout_paid: the payout is loaded, one already paid is a conflict. *)
MarkPaid(q, p) ==
  /\ desk[q].at = "idle"
  /\ payouts[p] # NoRow
  /\ payouts[p].status # "PAID"
  /\ Proceed(q, [at |-> "paid", payout |-> p])
  /\ UNCHANGED <<deals, over, reports, payouts>>

PaidCommits(q) ==
  /\ desk[q].at = "paid"
  /\ payouts' = [payouts EXCEPT ![desk[q].payout].status = "PAID"]
  /\ Finish(q)
  /\ UNCHANGED <<deals, over, reports>>

(* A handler that dies: nothing of it was committed. *)
RequestDies(q) ==
  /\ desk[q].at # "idle"
  /\ Finish(q)
  /\ UNCHANGED <<deals, over, reports, payouts>>

-----------------------------------------------------------------------------
(* The environment: a booking is ended or cancelled, ...                   *)
DealMoves(d, to) ==
  /\ deals[d] = "CONFIRMED"
  /\ to \in {"CANCELLED", "COMPLETED"}
  /\ deals' = [deals EXCEPT ![d] = to]
  /\ UNCHANGED <<over, reports, payouts, desk>>

(* ... and its time passes. *)
DealEnds ==
  /\ over + 1 \in Deals
  /\ over' = over + 1
  /\ UNCHANGED <<deals, reports, payouts, desk>>

PayoutNext ==
  \/ \E q \in Requests :
       \/ \E d \in Deals, by \in Parties, serious \in BOOLEAN : Report(q, d, by, serious)
       \/ ReportChecks(q)
       \/ \E r \in Reports : ReportCommits(q, r)
       \/ \E cutoff \in Deals : Select(q, cutoff)
       \/ \E p \in PayoutIds : PayoutCommits(q, p) \/ MarkPaid(q, p)
       \/ PaidCommits(q)
  \/ \E q \in Clerks :
       \/ \E r \in Reports, status \in ReportStatuses : Resolve(q, r, status)
       \/ ResolveChecks(q)
       \/ ResolveCommits(q)
  \/ \E q \in Requests \cup Clerks : RequestDies(q)
  \/ \E d \in Deals, to \in DealStatuses : DealMoves(d, to)
  \/ DealEnds

PayoutSpec == PayoutInit /\ [][PayoutNext]_payoutVars

-----------------------------------------------------------------------------
(* Rows are well-formed, and requests hold what their step needs.          *)
PayoutTypeOK ==
  /\ deals \in [Deals -> DealStatuses]
  /\ over \in Deals \cup {0}
  /\ \A r \in Rows(reports) :
       reports[r].deal \in Deals /\ reports[r].by \in Parties /\ reports[r].status \in ReportStatuses
  /\ \A p \in Rows(payouts) :
       payouts[p].of \in (SUBSET Deals) \ {{}} /\ payouts[p].status \in {"PENDING", "PAID"}
  /\ \A q \in Clerks : desk[q].at \in {"others", "resolve"} => reports[desk[q].report] # NoRow

(* "Keeps a booking from being paid twice" (PayoutBooking): however many   *)
(* payouts are created at the same time, no booking is in two, and each    *)
(* pays what its own bookings earned, so that all of them together never   *)
(* pay more than there was to earn.                                        *)
PaidOutOnce ==
  /\ \A p, q \in Rows(payouts) : p # q => payouts[p].of \cap payouts[q].of = {}
  /\ \A p \in Rows(payouts) : payouts[p].amount = SumOf(payouts[p].of)

(* Bookings left flagged with all their reports closed: out of payouts.    *)
LeftFlagged == {d \in Deals : deals[d] = "DISPUTED" /\ OpenOn(d) = {}}

(* "Lift the dispute flag once nothing is left open on the booking"        *)
(* (resolve): whatever reports come in and whoever resolves meanwhile, a   *)
(* booking gets stuck only when a resolution commits after another one has *)
(* closed a report on the same booking since it looked for them; and one   *)
(* that was not raced so leaves its booking free, stuck as it may have     *)
(* been.                                                                   *)
StuckOnlyByRace ==
  [][/\ \A d \in LeftFlagged' \ LeftFlagged :
          \E q \in Clerks : ResolveCommits(q) /\ desk[q].raced /\ reports[desk[q].report].deal = d
     /\ \A q \in Clerks :
          ResolveCommits(q) /\ ~desk[q].raced => reports[desk[q].report].deal \notin LeftFlagged']_payoutVars
=============================================================================
