---------------------------- MODULE PayoutsProofs ----------------------------
(***************************************************************************)
(* Theorems about Payouts, for any number of bookings, reports, payouts    *)
(* and requests in flight.                                                 *)
(*                                                                         *)
(* PaidOutOnce rests on the unique index alone: what create_payout selects *)
(* may be settled by another payout before it commits.  StuckOnlyByRace    *)
(* rests on what a resolution still knows when it commits (Founded): it    *)
(* leaves the flag only if another report is open, which remains so until  *)
(* another resolution closes one on that booking, and that marks this one. *)
(***************************************************************************)
EXTENDS Payouts, TLAPS

DeskSteps == {"idle", "report", "insert", "others", "resolve", "payout", "paid"}

(* What a request holds is what its next write needs. *)
WorkOK(q) ==
  LET work == desk[q]
  IN  /\ work.at \in DeskSteps
      /\ work.at \in {"report", "insert"} => work.deal \in Deals /\ work.by \in Parties
      /\ work.at \in {"others", "resolve"} =>
           /\ q \in Clerks
           /\ work \in [at : DeskSteps, report : Reports, status : ReportStatuses, lift : BOOLEAN,
                        raced : BOOLEAN]
           /\ reports[work.report] # NoRow
      /\ work.at = "payout" => work.of \in (SUBSET Deals) \ {{}}
      /\ work.at = "paid" => work.payout \in PayoutIds /\ payouts[work.payout] # NoRow

Typed ==
  /\ deals \in [Deals -> DealStatuses]
  /\ over \in Deals \cup {0}
  /\ reports \in [Reports -> ReportRows \cup {NoRow}]
  /\ payouts \in [PayoutIds -> PayoutRows \cup {NoRow}]
  /\ \A p \in PayoutIds : payouts[p] # NoRow => payouts[p].of # {} /\ payouts[p].amount = SumOf(payouts[p].of)
  /\ DOMAIN desk = Requests \cup Clerks
  /\ \A q \in Requests \cup Clerks : WorkOK(q)

(* A resolution that closes a report and keeps the flag leaves another     *)
(* open report, if the booking is flagged at all and nothing was missed.   *)
Founded(q) ==
  LET work == desk[q]
  IN  work.at = "resolve" /\ work.status = "CLOSED" /\ ~work.lift /\ ~work.raced =>
        (deals[reports[work.report].deal] = "DISPUTED" => OtherOpen(work.report) # {})

Grounds == \A q \in Clerks : Founded(q)

-----------------------------------------------------------------------------
LEMMA NoWorkIsIdle == NoWork.at = "idle"
BY DEF NoWork

LEMMA TypedInit == PayoutInit => Typed
BY PayoutAssumption DEF PayoutInit, Typed, WorkOK, NoWork, DeskSteps, DealStatuses

(* Steps of a request that reads.                                          *)
LEMMA DeskMoves ==
  ASSUME Typed, NEW q \in Requests \cup Clerks, NEW work,
         desk' = [desk EXCEPT ![q] = work],
         UNCHANGED <<deals, over, reports, payouts>>,
         WorkOK(q)'
  PROVE  Typed'
<1>1. ASSUME NEW r \in Requests \cup Clerks PROVE WorkOK(r)'
  <2>1. CASE r = q
    BY <2>1
  <2>2. CASE r # q
    BY <2>2 DEF Typed, WorkOK
  <2>3. QED
    BY <2>1, <2>2
<1>2. QED
  BY <1>1 DEF Typed

LEMMA DeskRests ==
  ASSUME Typed, NEW q \in Requests \cup Clerks, Finish(q), UNCHANGED <<deals, over, reports, payouts>>
  PROVE  Typed'
BY DeskMoves DEF Finish, NoWork, WorkOK, DeskSteps, Typed

(* Steps that write rows and end.                                          *)
LEMMA DeskWrites ==
  ASSUME Typed, NEW q \in Requests \cup Clerks, Finish(q),
         \A r \in Reports : reports[r] # NoRow => reports'[r] # NoRow,
         \A p \in PayoutIds : payouts[p] # NoRow => payouts'[p] # NoRow
  PROVE  DOMAIN desk' = Requests \cup Clerks /\ \A r \in Requests \cup Clerks : WorkOK(r)'
<1>1. ASSUME NEW r \in Requests \cup Clerks PROVE WorkOK(r)'
  <2>1. CASE r = q
    <3>1. desk'[r] = NoWork
      BY <2>1 DEF Finish, Typed
    <3>2. QED
      BY <3>1 DEF WorkOK, NoWork, DeskSteps
  <2>2. CASE r # q
    <3>1. desk'[r] = desk[r]
      BY <2>2 DEF Finish, Typed
    <3>2. QED
      BY <3>1 DEF Typed, WorkOK
  <2>3. QED
    BY <2>1, <2>2
<1>2. QED
  BY <1>1 DEF Finish, Typed

(* What a resolution's commit leaves on the desk.                          *)
LEMMA DeskResolved ==
  ASSUME Typed, NEW q \in Clerks, ResolveCommits(q), NEW c \in Requests \cup Clerks
  PROVE  \/ c = q /\ desk'[c] = NoWork
         \/ c # q /\ desk'[c] = desk[c] /\ ~(desk[q].status = "CLOSED" /\ c \in Missing(reports[desk[q].report].deal))
         \/ /\ c \in Clerks /\ desk[c].at = "resolve"
            /\ desk'[c] = [desk[c] EXCEPT !.raced = TRUE]
<1>1. desk'[c] = IF c = q THEN NoWork
                 ELSE IF desk[q].status = "CLOSED" /\ c \in Missing(reports[desk[q].report].deal)
                 THEN [desk[c] EXCEPT !.raced = TRUE]
                 ELSE desk[c]
  BY DEF ResolveCommits
<1>2. c \in Missing(reports[desk[q].report].deal) => c \in Clerks /\ desk[c].at = "resolve"
  BY DEF Missing
<1>3. QED
  BY <1>1, <1>2

LEMMA DeskStands ==
  ASSUME Typed, UNCHANGED <<reports, payouts, desk>>
  PROVE  \A r \in Requests \cup Clerks : WorkOK(r)'
BY DEF Typed, WorkOK

LEMMA TypedStep == Typed /\ [PayoutNext]_payoutVars => Typed'
<1> SUFFICES ASSUME Typed, [PayoutNext]_payoutVars PROVE Typed'
  OBVIOUS
<1>1. ASSUME NEW q \in Requests, NEW d \in Deals, NEW by \in Parties, NEW serious \in BOOLEAN,
             Report(q, d, by, serious)
      PROVE  Typed'
  <2> DEFINE work == [at |-> "report", deal |-> d, by |-> by, flag |-> serious /\ deals[d] \in Disputable]
  <2>1. desk'[q] = work
    BY <1>1 DEF Report, Proceed, Typed
  <2>2. WorkOK(q)'
    BY <2>1 DEF WorkOK, DeskSteps
  <2>3. QED
    BY <1>1, <2>2, DeskMoves DEF Report, Proceed
<1>2. ASSUME NEW q \in Requests, ReportChecks(q) PROVE Typed'
  <2>1. CASE Finish(q)
    BY <1>2, <2>1, DeskRests DEF ReportChecks
  <2>2. CASE Proceed(q, [desk[q] EXCEPT !.at = "insert"])
    <3>1. /\ desk'[q] = [desk[q] EXCEPT !.at = "insert"]
          /\ desk[q].at = "report" /\ WorkOK(q)
      BY <1>2, <2>2 DEF ReportChecks, Proceed, Typed
    <3>2. WorkOK(q)'
      BY <3>1 DEF WorkOK, DeskSteps
    <3>3. QED
      BY <1>2, <2>2, <3>2, DeskMoves DEF ReportChecks, Proceed
  <2>3. QED
    BY <1>2, <2>1, <2>2 DEF ReportChecks
<1>3. ASSUME NEW q \in Requests, NEW r \in Reports, ReportCommits(q, r) PROVE Typed'
  <2> DEFINE row == [deal |-> desk[q].deal, by |-> desk[q].by, status |-> "OPEN"]
  <2>1. desk[q].deal \in Deals /\ desk[q].by \in Parties
    BY <1>3 DEF ReportCommits, Typed, WorkOK
  <2>2. row \in ReportRows /\ row # NoRow
    BY <2>1, PayoutAssumption DEF ReportRows, ReportStatuses
  <2>3. reports' = [reports EXCEPT ![r] = row] /\ UNCHANGED <<over, payouts>> /\ Finish(q)
    BY <1>3 DEF ReportCommits
  <2>4. deals' \in [Deals -> DealStatuses]
    BY <1>3, <2>1 DEF ReportCommits, Typed, DealStatuses
  <2>5. DOMAIN desk' = Requests \cup Clerks /\ \A s \in Requests \cup Clerks : WorkOK(s)'
    <3>1. \A s \in Reports : reports[s] # NoRow => reports'[s] # NoRow
      BY <2>2, <2>3 DEF Typed
    <3>2. \A p \in PayoutIds : payouts[p] # NoRow => payouts'[p] # NoRow
      BY <2>3
    <3>3. QED
      BY <2>3, <3>1, <3>2, DeskWrites
  <2>6. QED
    BY <2>2, <2>3, <2>4, <2>5 DEF Typed
<1>4. ASSUME NEW q \in Clerks, NEW r \in Reports, NEW status \in ReportStatuses, Resolve(q, r, status)
      PROVE  Typed'
  <2> DEFINE disputed == status = "CLOSED" /\ deals[reports[r].deal] = "DISPUTED"
  <2> DEFINE work == [at |-> IF disputed THEN "others" ELSE "resolve",
                      report |-> r, status |-> status, lift |-> FALSE, raced |-> FALSE]
  <2>1. desk'[q] = work /\ reports[r] # NoRow
    BY <1>4 DEF Resolve, Proceed, Typed
  <2>2. WorkOK(q)'
    BY <1>4, <2>1 DEF WorkOK, DeskSteps, Resolve
  <2>3. QED
    BY <1>4, <2>2, DeskMoves DEF Resolve, Proceed
<1>5. ASSUME NEW q \in Clerks, ResolveChecks(q) PROVE Typed'
  <2> DEFINE lift == OtherOpen(desk[q].report) = {}
  <2>1. /\ desk'[q] = [desk[q] EXCEPT !.at = "resolve", !.lift = lift]
        /\ desk[q].at = "others" /\ WorkOK(q)
    BY <1>5 DEF ResolveChecks, Proceed, Typed
  <2>2. WorkOK(q)'
    <3>1. lift \in BOOLEAN
      OBVIOUS
    <3> HIDE DEF lift
    <3> DEFINE job == [at : DeskSteps, report : Reports, status : ReportStatuses, lift : BOOLEAN,
                       raced : BOOLEAN]
    <3>2. desk[q] \in job /\ reports[desk[q].report] # NoRow
      BY <2>1 DEF WorkOK
    <3>3. desk'[q] \in job /\ desk'[q].at = "resolve" /\ desk'[q].report = desk[q].report
      BY <2>1, <3>1, <3>2 DEF DeskSteps
    <3>4. UNCHANGED reports
      BY <1>5 DEF ResolveChecks
    <3>5. QED
      BY <3>2, <3>3, <3>4 DEF WorkOK, DeskSteps
  <2>3. QED
    BY <1>5, <2>2, DeskMoves DEF ResolveChecks, Proceed
<1>6. ASSUME NEW q \in Clerks, ResolveCommits(q) PROVE Typed'
  <2> DEFINE r == desk[q].report
  <2>1. r \in Reports /\ reports[r] \in ReportRows /\ desk[q].status \in ReportStatuses
    BY <1>6 DEF ResolveCommits, Typed, WorkOK
  <2>2. reports' = [reports EXCEPT ![r].status = desk[q].status] /\ UNCHANGED <<over, payouts>>
    BY <1>6 DEF ResolveCommits
  <2>3. reports'[r] \in ReportRows /\ reports' \in [Reports -> ReportRows \cup {NoRow}]
    BY <2>1, <2>2 DEF Typed, ReportRows
  <2>4. deals' \in [Deals -> DealStatuses]
    BY <1>6, <2>1 DEF ResolveCommits, Typed, DealStatuses, Lifted, ReportRows
  <2>5. DOMAIN desk' = Requests \cup Clerks /\ \A s \in Requests \cup Clerks : WorkOK(s)'
    <3>1. \A s \in Reports : reports[s] # NoRow => reports'[s] # NoRow
      BY <2>1, <2>2, <2>3, PayoutAssumption DEF Typed
    <3>2. ASSUME NEW c \in Requests \cup Clerks PROVE WorkOK(c)'
      <4>1. CASE desk'[c] = NoWork
        BY <4>1 DEF WorkOK, NoWork, DeskSteps
      <4>2. CASE desk'[c] = desk[c]
        BY <2>2, <3>1, <4>2 DEF Typed, WorkOK
      <4>3. CASE c \in Clerks /\ desk[c].at = "resolve" /\ desk'[c] = [desk[c] EXCEPT !.raced = TRUE]
        <5> DEFINE jobs == [at : DeskSteps, report : Reports, status : ReportStatuses, lift : BOOLEAN,
                            raced : BOOLEAN]
        <5>1. desk[c] \in jobs /\ reports[desk[c].report] # NoRow
          BY <4>3 DEF Typed, WorkOK
        <5>2. desk'[c] \in jobs /\ desk'[c].at = "resolve" /\ desk'[c].report = desk[c].report
          BY <4>3, <5>1
        <5>3. QED
          BY <3>1, <4>3, <5>1, <5>2 DEF WorkOK, DeskSteps
      <4>4. QED
        BY <1>6, <4>1, <4>2, <4>3, DeskResolved
    <3>3. DOMAIN desk' = Requests \cup Clerks
      BY <1>6 DEF ResolveCommits
    <3>4. QED
      BY <3>2, <3>3
  <2>6. QED
    BY <2>2, <2>3, <2>4, <2>5 DEF Typed
<1>7. ASSUME NEW q \in Requests, NEW cutoff \in Deals, Select(q, cutoff) PROVE Typed'
  <2> DEFINE chosen == {d \in Deals \ Settled : deals[d] \in Earned /\ d <= cutoff}
  <2>4. chosen \subseteq Deals
    OBVIOUS
  <2>1. desk'[q] = [at |-> "payout", of |-> chosen] /\ chosen # {} /\ chosen \subseteq Deals
    <3> HIDE DEF chosen
    <3>1. chosen # {} /\ desk' = [desk EXCEPT ![q] = [at |-> "payout", of |-> chosen]]
      BY <1>7 DEF Select, Proceed, chosen
    <3>2. QED
      BY <2>4, <3>1 DEF Typed
  <2>2. WorkOK(q)'
    <3> HIDE DEF chosen
    <3>1. QED
      BY <2>1 DEF WorkOK, DeskSteps
  <2>3. QED
    BY <1>7, <2>2, DeskMoves DEF Select, Proceed
<1>8. ASSUME NEW q \in Requests, NEW p \in PayoutIds, PayoutCommits(q, p) PROVE Typed'
  <2> DEFINE of == desk[q].of
  <2> DEFINE row == [of |-> of, amount |-> SumOf(of), status |-> "PENDING"]
  <2>1. of \in (SUBSET Deals) \ {{}}
    BY <1>8 DEF PayoutCommits, Typed, WorkOK
  <2>2. row \in PayoutRows /\ row # NoRow
    BY <2>1, PayoutAssumption DEF PayoutRows
  <2>3. /\ payouts' = payouts \/ payouts' = [payouts EXCEPT ![p] = row]
        /\ UNCHANGED <<deals, over, reports>> /\ Finish(q)
    BY <1>8 DEF PayoutCommits
  <2>4. DOMAIN desk' = Requests \cup Clerks /\ \A s \in Requests \cup Clerks : WorkOK(s)'
    <3>1. \A s \in Reports : reports[s] # NoRow => reports'[s] # NoRow
      BY <2>3
    <3>2. \A k \in PayoutIds : payouts[k] # NoRow => payouts'[k] # NoRow
      BY <2>2, <2>3 DEF Typed
    <3>3. QED
      BY <2>3, <3>1, <3>2, DeskWrites
  <2>5. QED
    BY <2>1, <2>2, <2>3, <2>4 DEF Typed
<1>9. ASSUME NEW q \in Requests, NEW p \in PayoutIds, MarkPaid(q, p) PROVE Typed'
  <2>1. desk'[q] = [at |-> "paid", payout |-> p] /\ payouts[p] # NoRow
    BY <1>9 DEF MarkPaid, Proceed, Typed
  <2>2. WorkOK(q)'
    BY <1>9, <2>1 DEF WorkOK, DeskSteps, MarkPaid
  <2>3. QED
    BY <1>9, <2>2, DeskMoves DEF MarkPaid, Proceed
<1>10. ASSUME NEW q \in Requests, PaidCommits(q) PROVE Typed'
  <2> DEFINE p == desk[q].payout
  <2>1. p \in PayoutIds /\ payouts[p] \in PayoutRows /\ payouts[p] # NoRow
    BY <1>10 DEF PaidCommits, Typed, WorkOK
  <2>2. payouts' = [payouts EXCEPT ![p].status = "PAID"] /\ UNCHANGED <<deals, over, reports>> /\ Finish(q)
    BY <1>10 DEF PaidCommits
  <2>3. /\ payouts'[p] \in PayoutRows /\ payouts'[p].of = payouts[p].of
        /\ payouts'[p].amount = payouts[p].amount
    BY <2>1, <2>2 DEF Typed, PayoutRows
  <2>4. DOMAIN desk' = Requests \cup Clerks /\ \A s \in Requests \cup Clerks : WorkOK(s)'
    <3>1. \A s \in Reports : reports[s] # NoRow => reports'[s] # NoRow
      BY <2>2
    <3>2. \A k \in PayoutIds : payouts[k] # NoRow => payouts'[k] # NoRow
      BY <2>1, <2>2, <2>3, PayoutAssumption DEF Typed
    <3>3. QED
      BY <2>2, <3>1, <3>2, DeskWrites
  <2>5. QED
    BY <2>1, <2>2, <2>3, <2>4 DEF Typed
<1>11. ASSUME NEW q \in Requests \cup Clerks, RequestDies(q) PROVE Typed'
  BY <1>11, DeskRests DEF RequestDies
<1>12. ASSUME NEW d \in Deals, NEW to \in DealStatuses, DealMoves(d, to) PROVE Typed'
  BY <1>12, DeskStands DEF DealMoves, Typed
<1>13. CASE DealEnds
  BY <1>13, DeskStands DEF DealEnds, Typed
<1>14. CASE UNCHANGED payoutVars
  BY <1>14 DEF payoutVars, Typed, WorkOK
<1>15. QED
  BY <1>1, <1>2, <1>3, <1>4, <1>5, <1>6, <1>7, <1>8, <1>9, <1>10, <1>11, <1>12, <1>13, <1>14 DEF PayoutNext

(* Bookings, reports and payouts are well-formed, and every request holds  *)
(* what its next write needs.                                              *)
THEOREM PayoutsWellFormed == PayoutSpec => []PayoutTypeOK
<1>1. Typed => PayoutTypeOK
  BY DEF Typed, WorkOK, PayoutTypeOK, Rows, ReportRows, PayoutRows
<1>2. QED
  BY <1>1, TypedInit, TypedStep, PTL DEF PayoutSpec
-----------------------------------------------------------------------------
(* "Keeps a booking from being paid twice" (admin/models.py), however many *)
(* payouts are selected, committed and marked paid at the same time.       *)
THEOREM NoBookingPaidOutTwice == PayoutSpec => []PaidOutOnce
<1>1. PayoutInit => PaidOutOnce
  BY DEF PayoutInit, PaidOutOnce, Rows
<1>2. ASSUME Typed, Typed', PaidOutOnce, [PayoutNext]_payoutVars
      PROVE  PaidOutOnce'
  <2>1. \A p \in Rows(payouts)' : payouts'[p].amount = SumOf(payouts'[p].of)
    BY <1>2 DEF Typed, Rows
  <2>2. ASSUME NEW q \in Requests, NEW p \in PayoutIds, PayoutCommits(q, p)
        PROVE  \A k, l \in Rows(payouts)' : k # l => payouts'[k].of \cap payouts'[l].of = {}
    <3> DEFINE of == desk[q].of
    <3>1. CASE payouts' = payouts
      BY <1>2, <3>1 DEF PaidOutOnce, Rows
    <3>2. CASE Insertable(of)
      <4>1. payouts' = [payouts EXCEPT ![p] = [of |-> of, amount |-> SumOf(of), status |-> "PENDING"]]
        BY <2>2, <3>2 DEF PayoutCommits
      <4>2. \A k \in PayoutIds : k # p => payouts'[k] = payouts[k]
        BY <1>2, <4>1 DEF Typed
      <4>3. payouts'[p].of = of
        BY <1>2, <4>1 DEF Typed
      <4>4. \A k \in Rows(payouts) : of \cap payouts[k].of = {}
        BY <3>2 DEF Insertable, Settled
      <4>5. Rows(payouts)' \subseteq Rows(payouts) \cup {p} /\ Rows(payouts)' \subseteq PayoutIds
        BY <1>2, <4>1, <4>2 DEF Rows, Typed
      <4>6. QED
        BY <1>2, <4>2, <4>3, <4>4, <4>5 DEF PaidOutOnce
    <3>3. QED
      BY <2>2, <3>1, <3>2 DEF PayoutCommits
  <2>3. ASSUME NEW q \in Requests, PaidCommits(q)
        PROVE  \A k, l \in Rows(payouts)' : k # l => payouts'[k].of \cap payouts'[l].of = {}
    <3> DEFINE p == desk[q].payout
    <3>1. p \in PayoutIds /\ payouts[p] \in PayoutRows /\ payouts[p] # NoRow
      BY <1>2, <2>3 DEF PaidCommits, Typed, WorkOK
    <3>2. payouts' = [payouts EXCEPT ![p].status = "PAID"]
      BY <2>3 DEF PaidCommits
    <3>3. \A k \in PayoutIds : payouts'[k] # NoRow => payouts[k] # NoRow /\ payouts'[k].of = payouts[k].of
      BY <1>2, <3>1, <3>2 DEF Typed, PayoutRows
    <3>4. QED
      BY <1>2, <3>3 DEF PaidOutOnce, Rows, Typed
  <2>4. CASE UNCHANGED payouts
    BY <1>2, <2>4 DEF PaidOutOnce, Rows
  <2>5. \A k, l \in Rows(payouts)' : k # l => payouts'[k].of \cap payouts'[l].of = {}
    <3>1. \/ UNCHANGED payouts
          \/ \E q \in Requests : PaidCommits(q) \/ \E p \in PayoutIds : PayoutCommits(q, p)
      BY <1>2
      DEF PayoutNext, payoutVars, Report, ReportChecks, ReportCommits, Select, MarkPaid, Resolve, ResolveChecks,
          ResolveCommits, RequestDies, DealMoves, DealEnds
    <3>2. QED
      BY <2>2, <2>3, <2>4, <3>1 DEF PaidOutOnce
  <2>6. QED
    BY <2>1, <2>5 DEF PaidOutOnce
<1>3. QED
  BY <1>1, <1>2, TypedInit, TypedStep, PTL DEF PayoutSpec

-----------------------------------------------------------------------------
LEMMA GroundsInit == PayoutInit => Grounds
BY DEF PayoutInit, Grounds, Founded, NoWork

(* Steps of a request that leave bookings and reports as they are.         *)
LEMMA GroundsStand ==
  ASSUME Typed, Grounds, NEW q, UNCHANGED <<deals, reports>>,
         desk' = desk \/ \E work : desk' = [desk EXCEPT ![q] = work],
         q \in Clerks => Founded(q)'
  PROVE  Grounds'
<1>1. ASSUME NEW r \in Clerks PROVE Founded(r)'
  <2>1. CASE r = q
    BY <2>1
  <2>2. CASE r # q
    BY <2>2 DEF Typed, Grounds, Founded, OtherOpen, OpenOn, Rows
  <2>3. QED
    BY <2>1, <2>2
<1>2. QED
  BY <1>1 DEF Grounds

(* A new report leaves an open one on its booking, and closes none.        *)
LEMMA ReportOpens ==
  ASSUME Typed, NEW q \in Requests, NEW r \in Reports, ReportCommits(q, r), NEW d, d = desk[q].deal
  PROVE  /\ r \in OpenOn(d)'
         /\ \A s \in Rows(reports) : s # r /\ reports'[s] = reports[s]
         /\ \A e \in Deals : /\ OpenOn(e) \subseteq OpenOn(e)'
                             /\ deals'[e] = "DISPUTED" => deals[e] = "DISPUTED" \/ e = d
<1> DEFINE row == [deal |-> d, by |-> desk[q].by, status |-> "OPEN"]
<1>1. d \in Deals /\ desk[q].by \in Parties /\ reports[r] = NoRow /\ reports' = [reports EXCEPT ![r] = row]
  BY DEF ReportCommits, NextKey, Typed, WorkOK
<1>2. row # NoRow
  BY <1>1, PayoutAssumption DEF ReportRows, ReportStatuses
<1>3. \A s \in Rows(reports) : s # r /\ reports'[s] = reports[s] /\ s \in Rows(reports)'
  BY <1>1 DEF Typed, Rows
<1>4. r \in OpenOn(d)'
  BY <1>1, <1>2 DEF Typed, OpenOn, Rows
<1>5. \A e \in Deals : OpenOn(e) \subseteq OpenOn(e)'
  BY <1>3 DEF OpenOn
<1>6. \A e \in Deals : deals'[e] = "DISPUTED" => deals[e] = "DISPUTED" \/ e = d
  BY <1>1 DEF ReportCommits, Typed
<1>7. QED
  BY <1>3, <1>4, <1>5, <1>6

(* A resolution changes one report, of the booking d.                      *)
LEMMA ResolutionCloses ==
  ASSUME Typed, NEW q \in Clerks, ResolveCommits(q), NEW r, NEW d, r = desk[q].report, d = reports[r].deal
  PROVE  /\ r \in Reports /\ d \in Deals /\ desk[q].status \in ReportStatuses
         /\ \A s \in Reports : reports[s] # NoRow => reports'[s] # NoRow /\ reports'[s].deal = reports[s].deal
         /\ \A e \in Deals : OpenOn(e) \ {r} \subseteq OpenOn(e)'
         /\ \A e \in Deals : e # d => OpenOn(e)' = OpenOn(e)
         /\ desk[q].status = "OPEN" => OpenOn(d) \cup {r} \subseteq OpenOn(d)'
         /\ \A e \in Deals : deals'[e] = "DISPUTED" => deals[e] = "DISPUTED" /\ (e = d => ~desk[q].lift)
<1>1. /\ r \in Reports /\ reports[r] \in ReportRows /\ reports[r] # NoRow /\ d \in Deals
      /\ desk[q].status \in ReportStatuses
  BY DEF ResolveCommits, Typed, WorkOK, ReportRows
<1>2. reports' = [reports EXCEPT ![r].status = desk[q].status]
  BY DEF ResolveCommits
<1>3. /\ reports'[r].deal = d /\ reports'[r].status = desk[q].status
      /\ reports'[r] \in ReportRows
      /\ \A s \in Reports : s # r => reports'[s] = reports[s]
      /\ DOMAIN reports' = Reports /\ DOMAIN reports = Reports
  BY <1>1, <1>2 DEF Typed, ReportRows
<1>4. reports'[r] # NoRow
  BY <1>3, PayoutAssumption
<1>5. \A e \in Deals : OpenOn(e) \ {r} \subseteq OpenOn(e)'
  BY <1>3 DEF OpenOn, Rows
<1>6. \A e \in Deals : e # d => OpenOn(e)' = OpenOn(e)
  BY <1>1, <1>3, <1>4 DEF OpenOn, Rows
<1>7. desk[q].status = "OPEN" => r \in OpenOn(d)'
  BY <1>1, <1>3, <1>4 DEF OpenOn, Rows
<1>8. \A e \in Deals : deals'[e] = "DISPUTED" => deals[e] = "DISPUTED" /\ (e = d => ~desk[q].lift)
  BY <1>1 DEF ResolveCommits, Typed, Lifted
<1>9. QED
  BY <1>1, <1>3, <1>4, <1>5, <1>6, <1>7, <1>8

LEMMA GroundsStep ==
  ASSUME Typed, Typed', Grounds, [PayoutNext]_payoutVars
  PROVE  Grounds'
<1>1. ASSUME NEW q \in Requests, NEW r \in Reports, ReportCommits(q, r) PROVE Grounds'
  <2>1. ASSUME NEW s \in Clerks PROVE Founded(s)'
    <3>1. CASE s = q
      <4>1. desk'[s].at = "idle"
        BY <1>1, <3>1, NoWorkIsIdle DEF ReportCommits, Finish, Typed
      <4>2. QED
        BY <4>1 DEF Founded
    <3>2. CASE s # q
      <4>0. PICK c, d : c = desk[s].report /\ d = desk[q].deal
        OBVIOUS
      <4>1. desk'[s] = desk[s]
        BY <1>1, <3>2 DEF ReportCommits, Finish, Typed
      <4>2. CASE desk[s].at = "resolve"
        <5>1. c \in Rows(reports) /\ reports[c].deal \in Deals
          BY <4>0, <4>2 DEF Typed, WorkOK, Rows, ReportRows
        <5>2. c # r /\ reports'[c] = reports[c]
          BY <1>1, <4>0, <5>1, ReportOpens
        <5>3. OtherOpen(c) \subseteq OtherOpen(c)'
          BY <1>1, <4>0, <5>1, <5>2, ReportOpens DEF OtherOpen
        <5>4. reports[c].deal = d => OtherOpen(c)' # {}
          BY <1>1, <4>0, <5>2, ReportOpens DEF OtherOpen
        <5>5. deals'[reports[c].deal] = "DISPUTED" => deals[reports[c].deal] = "DISPUTED" \/ reports[c].deal = d
          BY <1>1, <4>0, <5>1, ReportOpens
        <5>6. QED
          BY <4>0, <4>1, <5>2, <5>3, <5>4, <5>5 DEF Grounds, Founded
      <4>3. CASE desk[s].at # "resolve"
        BY <4>1, <4>3 DEF Founded
      <4>4. QED
        BY <4>2, <4>3
    <3>3. QED
      BY <3>1, <3>2
  <2>2. QED
    BY <2>1 DEF Grounds
<1>2. ASSUME NEW q \in Clerks, NEW r \in Reports, NEW status \in ReportStatuses, Resolve(q, r, status)
      PROVE  Grounds'
  <2>1. /\ desk'[q].at = IF status = "CLOSED" /\ deals[reports[r].deal] = "DISPUTED" THEN "others" ELSE "resolve"
        /\ desk'[q].report = r /\ desk'[q].status = status
        /\ UNCHANGED <<deals, reports>>
    BY <1>2 DEF Resolve, Proceed, Typed
  <2>2. Founded(q)'
    BY <2>1 DEF Founded
  <2>3. QED
    BY <1>2, <2>2, GroundsStand DEF Resolve, Proceed
<1>3. ASSUME NEW q \in Clerks, ResolveChecks(q) PROVE Grounds'
  <2> DEFINE lift == OtherOpen(desk[q].report) = {}
  <2>1. desk[q] \in [at : DeskSteps, report : Reports, status : ReportStatuses, lift : BOOLEAN,
                     raced : BOOLEAN]
    BY <1>3 DEF ResolveChecks, Typed, WorkOK
  <2>2. desk'[q].report = desk[q].report /\ desk'[q].lift = lift /\ UNCHANGED <<deals, reports>>
    BY <1>3, <2>1 DEF ResolveChecks, Proceed, Typed
  <2>3. Founded(q)'
    BY <2>2 DEF Founded, OtherOpen, OpenOn, Rows
  <2>4. QED
    BY <1>3, <2>3, GroundsStand DEF ResolveChecks, Proceed
<1>4. ASSUME NEW q \in Clerks, ResolveCommits(q) PROVE Grounds'
  <2>1. ASSUME NEW s \in Clerks PROVE Founded(s)'
    <3>0. PICK r, d, c : r = desk[q].report /\ d = reports[r].deal /\ c = desk[s].report
      OBVIOUS
    <3>1. CASE desk'[s] = NoWork
      BY <3>1, NoWorkIsIdle DEF Founded
    <3>2. CASE /\ desk[s].at = "resolve"
               /\ desk'[s] = [desk[s] EXCEPT !.raced = TRUE]
      <4>1. desk[s] \in [at : DeskSteps, report : Reports, status : ReportStatuses, lift : BOOLEAN,
                         raced : BOOLEAN]
        BY <3>2 DEF Typed, WorkOK
      <4>2. desk'[s].raced
        BY <3>2, <4>1
      <4>3. QED
        BY <4>2 DEF Founded
    <3>3. CASE desk'[s] = desk[s] /\ ~(desk[q].status = "CLOSED" /\ s \in Missing(d))
      <4>1. SUFFICES ASSUME desk[s].at = "resolve", desk[s].status = "CLOSED", ~desk[s].lift, ~desk[s].raced,
                            deals'[reports'[c].deal] = "DISPUTED"
                     PROVE  OtherOpen(c)' # {}
        BY <3>0, <3>3 DEF Founded
      <4>2. c \in Reports /\ reports[c] # NoRow /\ reports[c].deal \in Deals
        BY <3>0, <4>1 DEF Typed, WorkOK, ReportRows
      <4>3. reports'[c].deal = reports[c].deal /\ deals[reports[c].deal] = "DISPUTED"
        BY <1>4, <3>0, <4>1, <4>2, ResolutionCloses
      <4>4. OtherOpen(c) # {}
        BY <3>0, <4>1, <4>3 DEF Grounds, Founded
      <4>5. reports[c].deal = d => desk[q].status = "OPEN"
        BY <1>4, <3>0, <3>3, <4>1, ResolutionCloses DEF Missing, ReportStatuses
      <4>6. OpenOn(reports[c].deal) \subseteq OpenOn(reports[c].deal)'
        BY <1>4, <3>0, <4>2, <4>5, ResolutionCloses
      <4>7. QED
        BY <4>3, <4>4, <4>6 DEF OtherOpen
    <3>4. QED
      BY <1>4, <3>0, <3>1, <3>2, <3>3, DeskResolved
  <2>2. QED
    BY <2>1 DEF Grounds
<1>5. ASSUME NEW d \in Deals, NEW to \in DealStatuses, DealMoves(d, to) PROVE Grounds'
  <2>1. \A e \in Deals : deals'[e] = "DISPUTED" => deals[e] = "DISPUTED"
    BY <1>5 DEF DealMoves, Typed
  <2>2. \A q \in Clerks : desk[q].at = "resolve" => reports[desk[q].report].deal \in Deals
    BY DEF Typed, WorkOK, ReportRows
  <2>3. QED
    BY <1>5, <2>1, <2>2 DEF DealMoves, Grounds, Founded, OtherOpen, OpenOn, Rows
<1>6. ASSUME NEW q \in Requests \cup Clerks, NEW work, desk' = [desk EXCEPT ![q] = work],
             work.at # "resolve", UNCHANGED <<deals, reports>>
      PROVE  Grounds'
  <2>1. Founded(q)'
    BY <1>6 DEF Founded, Typed
  <2>2. QED
    BY <1>6, <2>1, GroundsStand
<1>7. ASSUME NEW q \in Requests, NEW d \in Deals, NEW by \in Parties, NEW serious \in BOOLEAN,
             Report(q, d, by, serious)
      PROVE  Grounds'
  <2> DEFINE work == [at |-> "report", deal |-> d, by |-> by, flag |-> serious /\ deals[d] \in Disputable]
  <2>1. desk' = [desk EXCEPT ![q] = work] /\ UNCHANGED <<deals, reports>> /\ work.at # "resolve"
    BY <1>7 DEF Report, Proceed
  <2> HIDE DEF work
  <2>2. QED
    BY <1>6, <2>1
<1>8. ASSUME NEW q \in Requests, ReportChecks(q) PROVE Grounds'
  <2>1. CASE Finish(q)
    BY <1>6, <1>8, <2>1, NoWorkIsIdle DEF ReportChecks, Finish
  <2>2. CASE Proceed(q, [desk[q] EXCEPT !.at = "insert"])
    <3>1. Founded(q)'
      BY <1>8, <2>2 DEF ReportChecks, Proceed, Founded, Typed
    <3>2. QED
      BY <1>8, <2>2, <3>1, GroundsStand DEF ReportChecks, Proceed
  <2>3. QED
    BY <1>8, <2>1, <2>2 DEF ReportChecks
<1>9. ASSUME NEW q \in Requests, NEW cutoff \in Deals, Select(q, cutoff) PROVE Grounds'
  BY <1>6, <1>9 DEF Select, Proceed
<1>10. ASSUME NEW q \in Requests, NEW p \in PayoutIds, PayoutCommits(q, p) PROVE Grounds'
  <2>1. desk' = [desk EXCEPT ![q] = NoWork] /\ UNCHANGED <<deals, reports>> /\ NoWork.at # "resolve"
    BY <1>10, NoWorkIsIdle DEF PayoutCommits, Finish
  <2>2. QED
    BY <1>6, <2>1
<1>11. ASSUME NEW q \in Requests, NEW p \in PayoutIds, MarkPaid(q, p) PROVE Grounds'
  <2> DEFINE work == [at |-> "paid", payout |-> p]
  <2>1. desk' = [desk EXCEPT ![q] = work] /\ UNCHANGED <<deals, reports>> /\ work.at # "resolve"
    BY <1>11 DEF MarkPaid, Proceed
  <2> HIDE DEF work
  <2>2. QED
    BY <1>6, <2>1
<1>12. ASSUME NEW q \in Requests, PaidCommits(q) PROVE Grounds'
  BY <1>6, <1>12, NoWorkIsIdle DEF PaidCommits, Finish
<1>13. ASSUME NEW q \in Requests \cup Clerks, RequestDies(q) PROVE Grounds'
  BY <1>6, <1>13, NoWorkIsIdle DEF RequestDies, Finish
<1>14. CASE DealEnds
  BY <1>14, GroundsStand DEF DealEnds, Grounds, Founded, OtherOpen, OpenOn, Rows
<1>15. CASE UNCHANGED payoutVars
  BY <1>15, GroundsStand DEF payoutVars, Grounds, Founded, OtherOpen, OpenOn, Rows
<1>16. QED
  BY <1>1, <1>2, <1>3, <1>4, <1>5, <1>7, <1>8, <1>9, <1>10, <1>11, <1>12, <1>13, <1>14, <1>15 DEF PayoutNext

-----------------------------------------------------------------------------
(* What a step may do to the bookings that are stuck.                      *)
StuckStep ==
  /\ \A d \in LeftFlagged' \ LeftFlagged :
       \E q \in Clerks : ResolveCommits(q) /\ desk[q].raced /\ reports[desk[q].report].deal = d
  /\ \A q \in Clerks :
       ResolveCommits(q) /\ ~desk[q].raced => reports[desk[q].report].deal \notin LeftFlagged'

LEMMA UnracedFrees ==
  ASSUME Typed, Grounds, NEW q \in Clerks, ResolveCommits(q), ~desk[q].raced
  PROVE  reports[desk[q].report].deal \notin LeftFlagged'
<1>0. PICK r, d : r = desk[q].report /\ d = reports[r].deal
  OBVIOUS
<1>1. SUFFICES ASSUME d \in Deals, deals'[d] = "DISPUTED" PROVE OpenOn(d)' # {}
  BY <1>0 DEF LeftFlagged
<1>2. CASE desk[q].status = "OPEN"
  BY <1>0, <1>2, ResolutionCloses
<1>3. CASE desk[q].status = "CLOSED"
  <2>1. deals[d] = "DISPUTED" /\ ~desk[q].lift
    BY <1>0, <1>1, ResolutionCloses
  <2>2. OtherOpen(r) # {}
    BY <1>0, <1>3, <2>1 DEF Grounds, Founded, ResolveCommits
  <2>3. OpenOn(d) \ {r} \subseteq OpenOn(d)'
    BY <1>0, <1>1, ResolutionCloses
  <2>4. QED
    BY <1>0, <2>2, <2>3 DEF OtherOpen
<1>4. QED
  BY <1>0, <1>2, <1>3, ResolutionCloses DEF ReportStatuses

LEMMA StuckStepHolds ==
  ASSUME Typed, Grounds, [PayoutNext]_payoutVars
  PROVE  StuckStep
<1>1. SUFFICES ASSUME NEW d \in LeftFlagged' \ LeftFlagged
               PROVE  \E q \in Clerks : ResolveCommits(q) /\ desk[q].raced /\ reports[desk[q].report].deal = d
  BY UnracedFrees DEF StuckStep
<1>2. d \in Deals /\ deals'[d] = "DISPUTED" /\ OpenOn(d)' = {} /\ ~(deals[d] = "DISPUTED" /\ OpenOn(d) = {})
  BY <1>1 DEF LeftFlagged
<1>3. ASSUME NEW q \in Requests, NEW r \in Reports, ReportCommits(q, r) PROVE FALSE
  <2>0. PICK e : e = desk[q].deal
    OBVIOUS
  <2>1. e # d
    BY <1>2, <1>3, <2>0, ReportOpens
  <2>2. QED
    BY <1>2, <1>3, <2>0, <2>1, ReportOpens
<1>4. ASSUME NEW q \in Clerks, ResolveCommits(q) PROVE desk[q].raced /\ reports[desk[q].report].deal = d
  <2>0. PICK r, e : r = desk[q].report /\ e = reports[r].deal
    OBVIOUS
  <2>1. e = d
    BY <1>2, <1>4, <2>0, ResolutionCloses
  <2>2. QED
    BY <1>1, <1>4, <2>0, <2>1, UnracedFrees
<1>5. ASSUME NEW e \in Deals, NEW to \in DealStatuses, DealMoves(e, to) PROVE FALSE
  <2>1. deals[d] = "DISPUTED" /\ OpenOn(d)' = OpenOn(d)
    BY <1>2, <1>5 DEF DealMoves, Typed, OpenOn, Rows
  <2>2. QED
    BY <1>2, <2>1
<1>6. CASE UNCHANGED <<deals, reports>>
  BY <1>2, <1>6 DEF OpenOn, Rows
<1>7. QED
  BY <1>3, <1>4, <1>5, <1>6
  DEF PayoutNext, payoutVars, Report, ReportChecks, Resolve, ResolveChecks, Select, PayoutCommits, MarkPaid,
      PaidCommits, RequestDies, DealEnds

(* "Lift the dispute flag once nothing is left open on the booking"        *)
(* (resolve), for any number of reports, and of admins who close them: a   *)
(* booking gets stuck only when its resolutions overlap, and any that none *)
(* overlapped frees it.                                                    *)
THEOREM OnlyRacesLeaveStuck == PayoutSpec => StuckOnlyByRace
<1>1. Typed /\ Typed' /\ Grounds /\ [PayoutNext]_payoutVars => Grounds'
  BY GroundsStep
<1>2. Typed /\ Grounds /\ [PayoutNext]_payoutVars => [StuckStep]_payoutVars
  BY StuckStepHolds
<1>3. QED
  BY <1>1, <1>2, TypedInit, TypedStep, GroundsInit, PTL DEF PayoutSpec, StuckOnlyByRace, StuckStep
=============================================================================
