---------------------------- MODULE SpacesProofs -----------------------------
(***************************************************************************)
(* Theorems about a space: its listing, and what its renters have written  *)
(* about it.  For any number of requests, slots, trips and authors.        *)
(*                                                                         *)
(* Listings.  HistorySurvives is inductive with the type invariant: the    *)
(* check of delete plays no part in it, the foreign key alone carries it.  *)
(* What steps may do to the bays and to the bookings needs one more fact   *)
(* (Careful): what a request has loaded or found is still so, or the       *)
(* request was raced.  It holds however many requests edit the listing,    *)
(* because each commit marks all those it may concern.                     *)
(*                                                                         *)
(* Reviews.  What a request has loaded and read still stands if no other   *)
(* one has passed it since (Current); two drafts that are inserted and not *)
(* yet published are for different trips or subjects (OnePerTrip), because *)
(* the second insert waits at the unique key.  So of the request that      *)
(* publishes a review it is known that the aggregate it has found is the   *)
(* one of the reviews as they are once it has committed.                   *)
(***************************************************************************)
EXTENDS Listings, Reviews, FiniteSetTheorems, FunctionTheorems, TLAPS

-----------------------------------------------------------------------------
Listing == [status : ListingStatuses, total : 1 .. MaxTotal]

Wanted == ListingStatuses \cup Nat \cup {NoListing}

Jobs == [at : Steps, old : Wanted, new : Wanted, raced : BOOLEAN]

(* What a request wants is of the kind its next write needs.               *)
JobTyped(job) ==
  /\ job.at = "status" => job.new \in ListingStatuses
  /\ job.at \in {"cut", "resize"} => job.new \in 1 .. MaxTotal
  /\ job.at = "insert" => job.new \in Slots

WorkTyped ==
  /\ work \in [Workers -> Jobs]
  /\ \A w \in Workers : JobTyped(work[w])

RowsTyped ==
  /\ listing \in Listing \cup {NoListing}
  /\ provider \in {"ACTIVE", "SUSPENDED"}
  /\ bays \subseteq Slots /\ sold \subseteq booked /\ booked \subseteq Slots
  /\ blocked \in BOOLEAN
  /\ listing = NoListing => bays = {} /\ ~blocked

Typed == RowsTyped /\ WorkTyped

-----------------------------------------------------------------------------
(* The steps that only change what a request holds. *)
LEMMA BeginTyped ==
  ASSUME WorkTyped, NEW w \in Workers, NEW job \in Jobs, JobTyped(job), Begin(w, job)
  PROVE  WorkTyped'
BY DEF WorkTyped, Begin, JobTyped, Slots

LEMMA AtRestTyped == AtRest \in Jobs /\ JobTyped(AtRest)
BY DEF AtRest, Job, Jobs, Steps, Wanted, JobTyped

LEMMA RestTyped ==
  ASSUME WorkTyped, NEW w \in Workers, Rest(w)
  PROVE  WorkTyped'
BY AtRestTyped DEF WorkTyped, Rest, JobTyped, Slots

LEMMA RacedTyped ==
  ASSUME WorkTyped, NEW u \in Workers, NEW rivals
  PROVE  Raced(u, rivals) \in Jobs /\ JobTyped(Raced(u, rivals))
BY DEF Raced, WorkTyped, Jobs, JobTyped

LEMMA RaceTyped ==
  ASSUME WorkTyped, NEW w \in Workers, NEW rivals, RestAndRace(w, rivals)
  PROVE  WorkTyped'
<1>1. ASSUME NEW u \in Workers PROVE work'[u] \in Jobs /\ JobTyped(work'[u])
  <2>1. CASE u = w
    BY <2>1, AtRestTyped DEF RestAndRace
  <2>2. CASE u # w
    BY <2>2, RacedTyped DEF RestAndRace
  <2>3. QED
    BY <2>1, <2>2
<1>2. work' = [u \in Workers |-> work'[u]]
  BY DEF RestAndRace
<1>3. QED
  BY <1>1, <1>2 DEF WorkTyped, JobTyped, Slots

LEMMA StepTyped ==
  ASSUME WorkTyped, NEW w \in Workers, NEW at \in Steps,
         work' = [work EXCEPT ![w].at = at],
         at \in {"resize", "delete", "block"},
         at = "resize" => work[w].new \in 1 .. MaxTotal
  PROVE  WorkTyped'
BY DEF WorkTyped, Jobs, JobTyped, Slots

LEMMA LoadsTyped ==
  ASSUME Typed, NEW e \in Editors, NEW job \in Jobs, JobTyped(job), Loads(e, job)
  PROVE  Typed'
<1>1. e \in Workers
  BY DEF Workers
<1>2. WorkTyped'
  BY <1>1, BeginTyped DEF Typed, Loads
<1>3. QED
  BY <1>2 DEF Typed, RowsTyped, Loads, rowsOf

-----------------------------------------------------------------------------
(* Rows and requests are well-formed, for any number of requests.          *)
LEMMA TypedInit == ListingInit => Typed
<1> SUFFICES ASSUME ListingInit PROVE Typed
  OBVIOUS
<1>1. PICK n \in 1 .. MaxTotal : listing = [status |-> "DRAFT", total |-> n] /\ bays = SlotsOf(n)
  BY DEF ListingInit
<1>2. listing \in Listing /\ bays \subseteq Slots
  BY <1>1, ListingAssumption DEF Listing, ListingStatuses, Slots, SlotsOf
<1>3. RowsTyped
  BY <1>2, ListingAssumption DEF RowsTyped, ListingInit, Listing
<1>4. WorkTyped
  BY AtRestTyped DEF WorkTyped, ListingInit
<1>5. QED
  BY <1>3, <1>4 DEF Typed

LEMMA TypedStep == Typed /\ [ListingNext]_listingVars => Typed'
<1> SUFFICES ASSUME Typed, [ListingNext]_listingVars PROVE Typed'
  OBVIOUS
<1> USE ListingAssumption
<1>0. /\ Editors \subseteq Workers /\ Seekers \subseteq Workers /\ Staff \subseteq Workers
      /\ listing # NoListing => listing \in Listing
  BY DEF Workers, Typed, RowsTyped
<1>1. ASSUME NEW e \in Editors, NEW n \in 1 .. MaxTotal, AskTotal(e, n) PROVE Typed'
  <2> DEFINE job == Job(IF n < listing.total THEN "cut" ELSE "resize", listing.total, n)
  <2>1. listing.total \in Nat
    BY <1>0, <1>1 DEF AskTotal, Loads, Listing
  <2>2. job = [at |-> IF n < listing.total THEN "cut" ELSE "resize",
               old |-> listing.total, new |-> n, raced |-> FALSE]
    BY DEF Job
  <2>5. job \in Jobs /\ JobTyped(job)
    <3>1. job.at \in {"cut", "resize"} /\ n \in Nat
      BY <2>2
    <3>2. QED
      BY <2>1, <2>2, <3>1 DEF Job, Jobs, JobTyped, Steps, Wanted
  <2>3. Loads(e, job)
    BY <1>1 DEF AskTotal
  <2>4. QED
    BY <2>5, <2>3, LoadsTyped
<1>2. ASSUME NEW e \in Editors, CutChecks(e) PROVE Typed'
  <2>1. work[e].at = "cut" /\ work[e].new \in 1 .. MaxTotal
    BY <1>0, <1>2 DEF CutChecks, Typed, WorkTyped, JobTyped
  <2>2. WorkTyped'
    BY <1>0, <1>2, <2>1, StepTyped, RestTyped DEF CutChecks, Typed, Steps
  <2>3. QED
    BY <1>2, <2>2 DEF CutChecks, Typed, RowsTyped, rowsOf
<1>3. ASSUME NEW e \in Editors, ResizeCommits(e) PROVE Typed'
  <2>1. WorkTyped'
    BY <1>0, <1>3, RestTyped, RaceTyped DEF ResizeCommits, Typed
  <2>2. work[e].new \in 1 .. MaxTotal
    BY <1>0, <1>3 DEF ResizeCommits, Typed, WorkTyped, JobTyped
  <2>3. RowsTyped'
    BY <1>0, <1>3, <2>2 DEF ResizeCommits, Typed, RowsTyped, Listing, Synced, SlotsOf, Slots
  <2>4. QED
    BY <2>1, <2>3 DEF Typed
<1>4. ASSUME NEW e \in Editors, NEW to \in ListingStatuses, AskPublish(e, to) PROVE Typed'
  <2>1. listing \in Listing
    BY <1>0, <1>4 DEF AskPublish
  <2>2. QED
    BY <1>4, <2>1, LoadsTyped DEF AskPublish, AtRest, Job, Jobs, JobTyped, Steps, Wanted, Listing
<1>5. ASSUME NEW e \in Editors, AskPause(e) PROVE Typed'
  <2>1. listing \in Listing
    BY <1>0, <1>5 DEF AskPause
  <2>2. QED
    BY <1>5, <2>1, LoadsTyped DEF AskPause, AtRest, Job, Jobs, JobTyped, Steps, Wanted, Listing, ListingStatuses
<1>6. ASSUME NEW e \in Editors, AskDelete(e) PROVE Typed'
  BY <1>6, LoadsTyped DEF AskDelete, AtRest, Job, Jobs, JobTyped, Steps, Wanted
<1>7. ASSUME NEW e \in Editors, DeleteChecks(e) PROVE Typed'
  <2>1. WorkTyped'
    BY <1>0, <1>7, StepTyped, RestTyped DEF DeleteChecks, Typed, Steps
  <2>2. QED
    BY <1>7, <2>1 DEF DeleteChecks, Typed, RowsTyped, rowsOf
<1>8. ASSUME NEW e \in Editors, DeleteCommits(e) PROVE Typed'
  <2>1. WorkTyped'
    BY <1>0, <1>8, RestTyped DEF DeleteCommits, Typed
  <2>2. QED
    BY <1>8, <2>1 DEF DeleteCommits, Typed, RowsTyped
<1>9. ASSUME NEW e \in Editors, AskBlock(e) PROVE Typed'
  BY <1>9, LoadsTyped DEF AskBlock, AtRest, Job, Jobs, JobTyped, Steps, Wanted
<1>10. ASSUME NEW e \in Editors, BlockChecks(e) PROVE Typed'
  <2>1. WorkTyped'
    BY <1>0, <1>10, StepTyped, RestTyped DEF BlockChecks, Typed, Steps
  <2>2. QED
    BY <1>10, <2>1 DEF BlockChecks, Typed, RowsTyped, rowsOf
<1>11. ASSUME NEW e \in Editors, BlockCommits(e) PROVE Typed'
  <2>1. WorkTyped'
    BY <1>0, <1>11, RestTyped, RaceTyped DEF BlockCommits, Typed
  <2>2. QED
    BY <1>11, <2>1 DEF BlockCommits, Typed, RowsTyped
<1>12. ASSUME NEW a \in Staff, NEW to \in {"PUBLISHED", "REJECTED", "SUSPENDED"}, Decide(a, to) PROVE Typed'
  <2> DEFINE job == Job("status", listing.status, to)
  <2>1. listing \in Listing
    BY <1>0, <1>12 DEF Decide
  <2>2. job \in Jobs /\ JobTyped(job)
    BY <2>1 DEF AtRest, Job, Jobs, JobTyped, Steps, Wanted, Listing, ListingStatuses
  <2>3. WorkTyped'
    BY <1>0, <1>12, <2>2, BeginTyped DEF Decide, Typed
  <2>4. QED
    BY <1>12, <2>3 DEF Decide, Typed, RowsTyped, rowsOf
<1>13. ASSUME NEW w \in Editors \cup Staff, StatusCommits(w) PROVE Typed'
  <2>1. WorkTyped' /\ work[w].new \in ListingStatuses
    BY <1>0, <1>13, RestTyped DEF StatusCommits, Typed, WorkTyped, JobTyped
  <2>2. RowsTyped'
    BY <1>0, <1>13, <2>1 DEF StatusCommits, Typed, RowsTyped, Listing
  <2>3. QED
    BY <2>1, <2>2 DEF Typed
<1>14. ASSUME NEW to \in {"ACTIVE", "SUSPENDED"}, SetProvider(to) PROVE Typed'
  <2>1. RowsTyped'
    BY <1>0, <1>14 DEF SetProvider, Typed, RowsTyped, Listing, ListingStatuses
  <2>2. QED
    BY <1>14, <2>1 DEF SetProvider, Typed, WorkTyped, JobTyped, Slots
<1>15. CASE Unblock
  BY <1>15 DEF Unblock, Typed, RowsTyped, WorkTyped, JobTyped, Slots
<1>16. ASSUME NEW s \in Seekers, Seek(s) PROVE Typed'
  <2> DEFINE job == Job("seek", listing.total, NoListing)
  <2>1. listing.total \in Nat
    BY <1>0, <1>16 DEF Seek, Shown, Listing
  <2>2. job \in Jobs /\ JobTyped(job)
    BY <2>1 DEF AtRest, Job, Jobs, JobTyped, Steps, Wanted, Listing
  <2>3. WorkTyped'
    BY <1>0, <1>16, <2>2, BeginTyped DEF Seek, Typed
  <2>4. QED
    BY <1>16, <2>3 DEF Seek, Typed, RowsTyped, rowsOf
<1>17. ASSUME NEW s \in Seekers, NEW slot \in Slots, Finds(s, slot) PROVE Typed'
  <2>1. WorkTyped'
    BY <1>0, <1>17 DEF Finds, Typed, WorkTyped, Jobs, JobTyped, Steps, Wanted, Slots
  <2>2. QED
    BY <1>17, <2>1 DEF Finds, Typed, RowsTyped, rowsOf
<1>18. ASSUME NEW s \in Seekers, FindsNone(s) PROVE Typed'
  <2>1. WorkTyped'
    BY <1>0, <1>18, RestTyped DEF FindsNone, Typed
  <2>2. QED
    BY <1>18, <2>1 DEF FindsNone, Typed, RowsTyped, rowsOf
<1>19. ASSUME NEW s \in Seekers, SaleCommits(s) PROVE Typed'
  <2>1. WorkTyped' /\ work[s].new \in Slots
    BY <1>0, <1>19, RestTyped, RaceTyped DEF SaleCommits, Typed, WorkTyped, JobTyped
  <2>2. RowsTyped'
    BY <1>19, <2>1 DEF SaleCommits, Typed, RowsTyped
  <2>3. QED
    BY <2>1, <2>2 DEF Typed
<1>20. ASSUME NEW slot \in Slots, Release(slot) \/ Dispute(slot) PROVE Typed'
  <2>1. CASE Release(slot)
    BY <2>1 DEF Release, Typed, RowsTyped, WorkTyped, JobTyped, Slots
  <2>2. CASE Dispute(slot)
    <3>1. WorkTyped'
      BY <2>2, RacedTyped DEF Dispute, Typed, WorkTyped, JobTyped, Slots
    <3>2. QED
      BY <2>2, <3>1 DEF Dispute, Typed, RowsTyped
  <2>3. QED
    BY <1>20, <2>1, <2>2
<1>21. ASSUME NEW w \in Workers, WorkDies(w) PROVE Typed'
  <2>1. WorkTyped'
    BY <1>21, RestTyped DEF WorkDies, Typed
  <2>2. QED
    BY <1>21, <2>1 DEF WorkDies, Typed, RowsTyped, rowsOf
<1>22. CASE UNCHANGED listingVars
  BY <1>22 DEF listingVars, Typed, RowsTyped, WorkTyped, JobTyped, Slots
<1>23. QED
  BY <1>1, <1>2, <1>3, <1>4, <1>5, <1>6, <1>7, <1>8, <1>9, <1>10, <1>11, <1>12, <1>13, <1>14, <1>15,
     <1>16, <1>17, <1>18, <1>19, <1>20, <1>21, <1>22
  DEF ListingNext, Approve, Reject, Suspend

(* No row of a listing, and nothing of a request, is ever ill-formed; no   *)
(* bay and no block outlives its listing.                                  *)
THEOREM ListingsWellFormed == ListingSpec => []ListingTypeOK
<1>1. Typed => ListingTypeOK
  BY DEF Typed, RowsTyped, WorkTyped, ListingTypeOK, Listing, Jobs
<1>2. QED
  BY <1>1, TypedInit, TypedStep, PTL DEF ListingSpec

-----------------------------------------------------------------------------
(* "Listings with bookings are never destroyed" (parking/service.py:204),  *)
(* for any number of providers', renters' and admins' requests in flight,  *)
(* whichever of them check before, after or not at all.                    *)
THEOREM BookingsKeepTheirListing == ListingSpec => []HistorySurvives
<1>1. ListingInit => HistorySurvives
  BY DEF ListingInit, HistorySurvives
<1>2. Typed /\ HistorySurvives /\ [ListingNext]_listingVars => HistorySurvives'
  <2> SUFFICES ASSUME Typed, HistorySurvives, [ListingNext]_listingVars PROVE HistorySurvives'
    OBVIOUS
  <2> USE DEF HistorySurvives
  <2>0. ASSUME NEW x \in Listing PROVE x # NoListing
    BY <2>0, ListingAssumption DEF Listing
  <2>1. ASSUME NEW e \in Editors, ResizeCommits(e) PROVE HistorySurvives'
    <3>1. listing' = NoListing => listing = NoListing
      <4>1. Typed'
        BY TypedStep
      <4>2. work[e].new \in 1 .. MaxTotal
        BY <2>1 DEF ResizeCommits, Typed, WorkTyped, JobTyped, Workers
      <4>3. listing # NoListing => [listing EXCEPT !.total = work[e].new] \in Listing
        BY <4>2 DEF Typed, RowsTyped, Listing
      <4>4. QED
        BY <2>0, <2>1, <4>3 DEF ResizeCommits
    <3>2. QED
      BY <2>1, <3>1 DEF ResizeCommits
  <2>2. ASSUME NEW w \in Editors \cup Staff, StatusCommits(w) PROVE HistorySurvives'
    <3>1. work[w].new \in ListingStatuses
      BY <2>2 DEF StatusCommits, Typed, WorkTyped, JobTyped, Workers
    <3>2. listing # NoListing => [listing EXCEPT !.status = work[w].new] \in Listing
      BY <3>1 DEF Typed, RowsTyped, Listing
    <3>3. QED
      BY <2>0, <2>2, <3>2 DEF StatusCommits
  <2>3. ASSUME NEW to \in {"ACTIVE", "SUSPENDED"}, SetProvider(to) PROVE HistorySurvives'
    <3>1. listing # NoListing => [listing EXCEPT !.status = "SUSPENDED"] \in Listing
      BY DEF Typed, RowsTyped, Listing, ListingStatuses
    <3>2. QED
      BY <2>0, <2>3, <3>1 DEF SetProvider
  <2>4. ASSUME NEW e \in Editors, DeleteCommits(e) PROVE HistorySurvives'
    BY <2>4 DEF DeleteCommits, Deletable
  <2>5. ASSUME NEW s \in Seekers, SaleCommits(s) PROVE HistorySurvives'
    BY <2>5 DEF SaleCommits
  <2>6. CASE UNCHANGED <<listing, booked>>
    BY <2>6
  <2>7. QED
    BY <2>1, <2>2, <2>3, <2>4, <2>5, <2>6
    DEF ListingNext, Approve, Reject, Suspend, Decide, AskTotal, CutChecks, AskPublish, AskPause, AskDelete,
        DeleteChecks, AskBlock, BlockChecks, BlockCommits, Unblock, Seek, Finds, FindsNone, Release,
        Dispute, WorkDies, Loads, rowsOf, listingVars
<1>3. QED
  BY <1>1, <1>2, TypedInit, TypedStep, PTL DEF ListingSpec

-----------------------------------------------------------------------------
(* What a request has found is still so, or it knows that it was raced.    *)
Sound(job) ==
  /\ job.at \in Resizing /\ ~job.raced => listing = NoListing \/ job.old = listing.total
  /\ job.at = "resize" /\ ~job.raced => CutSafe(job.new) \/ job.old <= job.new
  /\ job.at = "block" /\ ~job.raced => sold = {}
  /\ job.at = "seek" => job.old \in Nat
  /\ listing # NoListing /\ job.at = "seek" /\ ~job.raced => job.old <= listing.total
  /\ listing # NoListing /\ job.at = "insert" /\ ~job.raced => job.new < listing.total /\ ~blocked

Careful == \A w \in Workers : Sound(work[w])

LEMMA AtRestSound == Sound(AtRest)
BY DEF Sound, AtRest, Job, Resizing

(* A step ends requests, marks them as raced, or leaves true what they     *)
(* have found.                                                             *)
LEMMA CarefulAfter ==
  ASSUME Typed, Careful,
         \A u \in Workers : \/ work'[u] = AtRest
                            \/ work'[u] = [work[u] EXCEPT !.raced = TRUE]
                            \/ work'[u] = work[u] /\ Sound(work[u])'
  PROVE  Careful'
<1>1. ASSUME NEW u \in Workers PROVE Sound(work[u])'
  <2>1. CASE work'[u] = AtRest
    BY <2>1 DEF Sound, AtRest, Job, Resizing
  <2>2. CASE work'[u] = [work[u] EXCEPT !.raced = TRUE]
    <3>1. work'[u].at = work[u].at /\ work'[u].old = work[u].old /\ work'[u].raced
      BY <2>2 DEF Typed, WorkTyped, Jobs
    <3>2. QED
      BY <3>1 DEF Sound, Careful
  <2>3. QED
    BY <2>1, <2>2
<1>2. QED
  BY <1>1 DEF Careful

LEMMA RaceAfter ==
  ASSUME Typed, Careful, NEW w \in Workers, NEW rivals, RestAndRace(w, rivals),
         \A u \in Workers : work[u].at \notin rivals /\ work'[u] = work[u] => Sound(work[u])'
  PROVE  Careful'
BY CarefulAfter DEF RestAndRace, Raced

(* Steps that change one request and no row.                               *)
LEMMA QuietStep ==
  ASSUME Typed, Careful, NEW w \in Workers, NEW job, Sound(job),
         UNCHANGED rowsOf, work' = [work EXCEPT ![w] = job]
  PROVE  Careful'
<1>1. ASSUME NEW u \in Workers PROVE Sound(work'[u])
  BY DEF Careful, Typed, WorkTyped
<1>2. QED
  BY <1>1 DEF Careful, Sound, CutSafe, rowsOf

LEMMA QuietRest ==
  ASSUME Typed, Careful, NEW w \in Workers, Rest(w), UNCHANGED rowsOf
  PROVE  Careful'
BY AtRestSound, QuietStep DEF Rest

(* What a status written over another leaves of the listing.               *)
LEMMA StatusKeepsTotal ==
  ASSUME Typed, NEW to \in ListingStatuses, listing # NoListing
  PROVE  /\ [listing EXCEPT !.status = to] \in Listing
         /\ [listing EXCEPT !.status = to] # NoListing
         /\ [listing EXCEPT !.status = to].total = listing.total
BY ListingAssumption DEF Typed, RowsTyped, Listing

(* The total written is the one wanted, and the listing is still there.    *)
LEMMA ResizeWrites ==
  ASSUME Typed, NEW e \in Editors, ResizeCommits(e), listing # NoListing
  PROVE  /\ listing' # NoListing
         /\ work[e].new \in 1 .. MaxTotal
         /\ listing'.total = work[e].new \/ (listing' = listing /\ work[e].new = work[e].old)
         /\ bays' = SlotsOf(work[e].new)
<1>1. work[e].new \in 1 .. MaxTotal
  BY DEF ResizeCommits, Typed, WorkTyped, JobTyped, Workers
<1>2. /\ [listing EXCEPT !.total = work[e].new] \in Listing
      /\ [listing EXCEPT !.total = work[e].new].total = work[e].new
  BY <1>1 DEF Typed, RowsTyped, Listing
<1>3. Synced(bays, work[e].new) = SlotsOf(work[e].new)
  BY DEF Synced
<1>4. QED
  BY <1>1, <1>2, <1>3, ListingAssumption DEF ResizeCommits, Listing

LEMMA CarefulInit == ListingInit => Careful
BY AtRestSound DEF ListingInit, Careful

LEMMA CarefulStep ==
  ASSUME Typed, Careful, [ListingNext]_listingVars
  PROVE  Careful'
<1> USE ListingAssumption
<1>0. /\ Editors \subseteq Workers /\ Seekers \subseteq Workers /\ Staff \subseteq Workers
      /\ listing # NoListing => listing \in Listing /\ listing.total \in Nat
  BY DEF Workers, Typed, RowsTyped, Listing
<1>1. ASSUME NEW e \in Editors, NEW n \in 1 .. MaxTotal, AskTotal(e, n) PROVE Careful'
  <2> DEFINE job == [at |-> IF n < listing.total THEN "cut" ELSE "resize",
                     old |-> listing.total, new |-> n, raced |-> FALSE]
  <2>1. work' = [work EXCEPT ![e] = job] /\ listing # NoListing /\ UNCHANGED rowsOf
    BY <1>1 DEF AskTotal, Loads, Begin, Job
  <2>2. Sound(job)
    <3>1. job.at = "resize" => job.old <= job.new
      BY <1>0, <2>1
    <3>2. QED
      BY <2>1, <3>1 DEF Sound
  <2>3. QED
    BY <1>0, <2>1, <2>2, QuietStep
<1>2. ASSUME NEW e \in Editors, CutChecks(e) PROVE Careful'
  <2>1. CASE CutSafe(work[e].new)
    <3> DEFINE job == [work[e] EXCEPT !.at = "resize"]
    <3>1. work' = [work EXCEPT ![e] = job] /\ UNCHANGED rowsOf
      BY <1>2, <2>1 DEF CutChecks
    <3>2. Sound(job)
      BY <1>0, <1>2, <2>1 DEF CutChecks, Careful, Sound, Typed, WorkTyped, Jobs, Resizing
    <3>3. QED
      BY <1>0, <3>1, <3>2, QuietStep
  <2>2. CASE ~CutSafe(work[e].new)
    BY <1>0, <1>2, <2>2, QuietRest DEF CutChecks
  <2>3. QED
    BY <2>1, <2>2
<1>3. ASSUME NEW e \in Editors, ResizeCommits(e) PROVE Careful'
  <2>1. CASE listing = NoListing
    BY <1>0, <1>3, <2>1, QuietRest DEF ResizeCommits, rowsOf
  <2>2. CASE listing # NoListing
    <3>1. UNCHANGED <<sold, blocked>> /\ RestAndRace(e, Resizing \cup Seeking)
      BY <1>3, <2>2 DEF ResizeCommits
    <3>2. ASSUME NEW u \in Workers, work[u].at \notin Resizing \cup Seeking, work'[u] = work[u]
          PROVE  Sound(work[u])'
      BY <3>1, <3>2 DEF Sound, Careful, Resizing, Seeking
    <3>3. QED
      BY <1>0, <3>1, <3>2, RaceAfter
  <2>3. QED
    BY <2>1, <2>2
<1>4. ASSUME NEW e \in Editors, NEW to \in ListingStatuses, AskPublish(e, to) PROVE Careful'
  BY <1>0, <1>4, QuietStep DEF AskPublish, Loads, Begin, AtRest, Job, Sound, Resizing
<1>5. ASSUME NEW e \in Editors, AskPause(e) PROVE Careful'
  BY <1>0, <1>5, QuietStep DEF AskPause, Loads, Begin, AtRest, Job, Sound, Resizing
<1>6. ASSUME NEW e \in Editors, AskDelete(e) PROVE Careful'
  BY <1>0, <1>6, QuietStep DEF AskDelete, Loads, Begin, AtRest, Job, Sound, Resizing
<1>7. ASSUME NEW e \in Editors, DeleteChecks(e) PROVE Careful'
  <2> DEFINE job == [work[e] EXCEPT !.at = "delete"]
  <2>1. CASE booked # {}
    BY <1>0, <1>7, <2>1, QuietRest DEF DeleteChecks
  <2>2. CASE booked = {}
    <3>1. work' = [work EXCEPT ![e] = job] /\ UNCHANGED rowsOf
      BY <1>7, <2>2 DEF DeleteChecks
    <3>2. job.at = "delete"
      BY <1>0 DEF Typed, WorkTyped, Jobs
    <3>3. QED
      BY <1>0, <3>1, <3>2, QuietStep DEF Sound, Resizing
  <2>3. QED
    BY <2>1, <2>2
<1>8. ASSUME NEW e \in Editors, DeleteCommits(e) PROVE Careful'
  <2>1. /\ work' = [work EXCEPT ![e] = AtRest] /\ UNCHANGED sold
        /\ listing' = NoListing \/ (UNCHANGED rowsOf)
    BY <1>8 DEF DeleteCommits, Rest, rowsOf
  <2>2. CASE UNCHANGED rowsOf
    BY <1>0, <1>8, <2>2, QuietRest DEF DeleteCommits
  <2>3. CASE listing' = NoListing
    <3>1. ASSUME NEW u \in Workers, work'[u] = work[u] PROVE Sound(work[u])'
      BY <2>1, <2>3, <3>1 DEF Sound, Careful, CutSafe
    <3>2. QED
      BY <2>1, <3>1, CarefulAfter DEF Typed, WorkTyped
  <2>4. QED
    BY <2>1, <2>2, <2>3
<1>9. ASSUME NEW e \in Editors, AskBlock(e) PROVE Careful'
  BY <1>0, <1>9, QuietStep DEF AskBlock, Loads, Begin, AtRest, Job, Sound, Resizing
<1>10. ASSUME NEW e \in Editors, BlockChecks(e) PROVE Careful'
  <2> DEFINE job == [work[e] EXCEPT !.at = "block"]
  <2>1. CASE ~PeriodFree
    BY <1>0, <1>10, <2>1, QuietRest DEF BlockChecks
  <2>2. CASE PeriodFree
    <3>1. work' = [work EXCEPT ![e] = job] /\ UNCHANGED rowsOf
      BY <1>10, <2>2 DEF BlockChecks
    <3>2. job.at = "block"
      BY <1>0 DEF Typed, WorkTyped, Jobs
    <3>3. QED
      BY <1>0, <2>2, <3>1, <3>2, QuietStep DEF Sound, PeriodFree, Resizing
  <2>3. QED
    BY <2>1, <2>2
<1>11. ASSUME NEW e \in Editors, BlockCommits(e) PROVE Careful'
  <2>1. CASE listing = NoListing
    BY <1>0, <1>11, <2>1, QuietRest DEF BlockCommits, rowsOf
  <2>2. CASE listing # NoListing
    <3>1. UNCHANGED <<listing, sold>> /\ RestAndRace(e, Seeking)
      BY <1>11, <2>2 DEF BlockCommits
    <3>2. ASSUME NEW u \in Workers, work[u].at \notin Seeking, work'[u] = work[u]
          PROVE  Sound(work[u])'
      BY <3>1, <3>2 DEF Sound, Careful, CutSafe, Seeking
    <3>3. QED
      BY <1>0, <3>1, <3>2, RaceAfter
  <2>3. QED
    BY <2>1, <2>2
<1>12. ASSUME NEW a \in Staff, NEW to \in {"PUBLISHED", "REJECTED", "SUSPENDED"}, Decide(a, to) PROVE Careful'
  BY <1>0, <1>12, QuietStep DEF Decide, Begin, AtRest, Job, Sound, Resizing
<1>13. ASSUME NEW w \in Editors \cup Staff, StatusCommits(w) PROVE Careful'
  <2>1. /\ listing = NoListing <=> listing' = NoListing
        /\ listing # NoListing => listing'.total = listing.total
        /\ UNCHANGED <<sold, blocked>> /\ work' = [work EXCEPT ![w] = AtRest]
    <3>1. work[w].new \in ListingStatuses
      BY <1>13 DEF StatusCommits, Typed, WorkTyped, JobTyped, Workers
    <3>2. QED
      BY <1>13, <3>1, StatusKeepsTotal DEF StatusCommits, Rest
  <2>2. ASSUME NEW u \in Workers, work'[u] = work[u] PROVE Sound(work[u])'
    BY <2>1, <2>2 DEF Sound, Careful, CutSafe
  <2>3. QED
    BY <2>1, <2>2, CarefulAfter DEF Typed, WorkTyped
<1>14. ASSUME NEW to \in {"ACTIVE", "SUSPENDED"}, SetProvider(to) PROVE Careful'
  <2>1. /\ listing = NoListing <=> listing' = NoListing
        /\ listing # NoListing => listing'.total = listing.total
        /\ UNCHANGED <<sold, blocked, work>>
    BY <1>14, StatusKeepsTotal DEF SetProvider, ListingStatuses
  <2>2. QED
    BY <2>1 DEF Careful, Sound, CutSafe
<1>15. CASE Unblock
  BY <1>15 DEF Unblock, Careful, Sound, CutSafe
<1>16. ASSUME NEW s \in Seekers, Seek(s) PROVE Careful'
  <2> DEFINE job == [at |-> "seek", old |-> listing.total, new |-> NoListing, raced |-> FALSE]
  <2>1. work' = [work EXCEPT ![s] = job] /\ listing # NoListing /\ UNCHANGED rowsOf
    BY <1>16 DEF Seek, Shown, Begin, AtRest, Job
  <2>2. job.at = "seek" /\ job.old = listing.total /\ listing.total \in Nat
    BY <1>0, <2>1
  <2>3. Sound(job)
    BY <2>2 DEF Sound, Resizing
  <2>4. QED
    BY <1>0, <2>1, <2>3, QuietStep
<1>17. ASSUME NEW s \in Seekers, NEW slot \in Slots, Finds(s, slot) PROVE Careful'
  <2> DEFINE job == [work[s] EXCEPT !.at = "insert", !.new = slot]
  <2>1. work' = [work EXCEPT ![s] = job] /\ UNCHANGED rowsOf
    BY <1>0, <1>17 DEF Finds, Typed, WorkTyped, Jobs
  <2>2. job.at = "insert" /\ job.new = slot /\ job.raced = work[s].raced
    BY <1>0 DEF Typed, WorkTyped, Jobs
  <2>3. slot \in Nat /\ slot < work[s].old /\ work[s].old \in Nat /\ ~blocked
    BY <1>0, <1>17 DEF Finds, SlotsOf, Slots, Careful, Sound
  <2>4. listing # NoListing /\ ~job.raced => slot < listing.total
    BY <1>0, <1>17, <2>2, <2>3 DEF Finds, Careful, Sound
  <2>5. QED
    BY <1>0, <2>1, <2>2, <2>3, <2>4, QuietStep DEF Sound, Resizing
<1>18. ASSUME NEW s \in Seekers, FindsNone(s) PROVE Careful'
  BY <1>0, <1>18, QuietRest DEF FindsNone
<1>19. ASSUME NEW s \in Seekers, SaleCommits(s) PROVE Careful'
  <2>1. CASE ~(listing # NoListing /\ work[s].new \notin sold)
    BY <1>0, <1>19, <2>1, QuietRest DEF SaleCommits, rowsOf
  <2>2. CASE listing # NoListing /\ work[s].new \notin sold
    <3>1. RestAndRace(s, Clearing) /\ UNCHANGED <<listing, blocked>>
      BY <1>19, <2>2 DEF SaleCommits
    <3>2. ASSUME NEW u \in Workers, work[u].at \notin Clearing, work'[u] = work[u]
          PROVE  Sound(work[u])'
      BY <3>1, <3>2 DEF Sound, Careful, Clearing, Resizing
    <3>3. QED
      BY <1>0, <3>1, <3>2, RaceAfter
  <2>3. QED
    BY <2>1, <2>2
<1>20. ASSUME NEW slot \in Slots, Release(slot) PROVE Careful'
  BY <1>20 DEF Release, Careful, Sound, CutSafe
<1>21. ASSUME NEW slot \in Slots, Dispute(slot) PROVE Careful'
  <2>1. UNCHANGED <<listing, blocked>> /\ \A u \in Workers : work'[u] = Raced(u, Clearing)
    BY <1>21 DEF Dispute
  <2>2. ASSUME NEW u \in Workers, work[u].at \notin Clearing PROVE work'[u] = work[u] /\ Sound(work[u])'
    <3>1. work'[u] = work[u]
      BY <2>1, <2>2 DEF Raced
    <3>2. QED
      BY <2>1, <2>2, <3>1 DEF Sound, Careful, Clearing, Resizing
  <2>3. QED
    BY <2>1, <2>2, CarefulAfter DEF Raced
<1>22. ASSUME NEW w \in Workers, WorkDies(w) PROVE Careful'
  BY <1>22, QuietRest DEF WorkDies
<1>23. CASE UNCHANGED listingVars
  BY <1>23 DEF listingVars, Careful, Sound, CutSafe
<1>24. QED
  BY <1>1, <1>2, <1>3, <1>4, <1>5, <1>6, <1>7, <1>8, <1>9, <1>10, <1>11, <1>12, <1>13, <1>14, <1>15,
     <1>16, <1>17, <1>18, <1>19, <1>20, <1>21, <1>22, <1>23
  DEF ListingNext, Approve, Reject, Suspend

-----------------------------------------------------------------------------
(* What a step may do to the bays. *)
BaysStep ==
  /\ BaysMatch => BaysMatch' \/ \E e \in Editors : ResizeCommits(e) /\ work[e].raced
  /\ \A e \in Editors : ResizeCommits(e) /\ ~work[e].raced => BaysMatch'

LEMMA UnracedRepairs ==
  ASSUME Typed, Careful, NEW e \in Editors, ResizeCommits(e), ~work[e].raced
  PROVE  BaysMatch'
<1>1. CASE listing = NoListing
  BY <1>1 DEF ResizeCommits, BaysMatch
<1>2. CASE listing # NoListing
  <2>1. work[e].old = listing.total
    BY <1>2 DEF ResizeCommits, Careful, Sound, Resizing, Workers
  <2>2. QED
    BY <1>2, <2>1, ResizeWrites DEF BaysMatch, SlotsOf
<1>3. QED
  BY <1>1, <1>2

LEMMA BaysStepHolds ==
  ASSUME Typed, Careful, [ListingNext]_listingVars
  PROVE  BaysStep
<1>1. SUFFICES ASSUME BaysMatch PROVE BaysMatch' \/ \E e \in Editors : ResizeCommits(e) /\ work[e].raced
  BY UnracedRepairs DEF BaysStep
<1>2. ASSUME NEW e \in Editors, ResizeCommits(e)
      PROVE  BaysMatch' \/ (ResizeCommits(e) /\ work[e].raced)
  BY <1>2, UnracedRepairs
<1>3. ASSUME NEW e \in Editors, DeleteCommits(e) PROVE BaysMatch'
  BY <1>1, <1>3 DEF DeleteCommits, BaysMatch
<1>4. ASSUME NEW w \in Editors \cup Staff, StatusCommits(w) PROVE BaysMatch'
  <2>1. work[w].new \in ListingStatuses
    BY <1>4 DEF StatusCommits, Typed, WorkTyped, JobTyped, Workers
  <2>2. QED
    BY <1>1, <1>4, <2>1, StatusKeepsTotal DEF StatusCommits, BaysMatch
<1>5. ASSUME NEW to \in {"ACTIVE", "SUSPENDED"}, SetProvider(to) PROVE BaysMatch'
  BY <1>1, <1>5, StatusKeepsTotal DEF SetProvider, BaysMatch, ListingStatuses
<1>6. CASE UNCHANGED <<listing, bays>>
  BY <1>1, <1>6 DEF BaysMatch
<1>7. QED
  BY <1>2, <1>3, <1>4, <1>5, <1>6
  DEF ListingNext, Approve, Reject, Suspend, Decide, AskTotal, CutChecks, AskPublish, AskPause, AskDelete,
      DeleteChecks, AskBlock, BlockChecks, BlockCommits, Unblock, Seek, Finds, FindsNone, SaleCommits,
      Release, Dispute, WorkDies, Loads, rowsOf, listingVars

(* "Make the bay rows match the space's `total_slots`" (parking/bays.py:49)*)
(* for any number of the provider's requests, renters and admins: only an  *)
(* update of the total that another one overtook can undo it, and any that *)
(* none overtook restores it.                                              *)
THEOREM OnlyOvertakenTotalsPartBays == ListingSpec => BaysFollowTotal
<1>1. Typed /\ Careful /\ [ListingNext]_listingVars => Careful'
  BY CarefulStep
<1>2. Typed /\ Careful /\ [ListingNext]_listingVars => [BaysStep]_listingVars
  BY BaysStepHolds
<1>3. QED
  BY <1>1, <1>2, TypedInit, TypedStep, CarefulInit, PTL DEF ListingSpec, BaysFollowTotal, BaysStep

-----------------------------------------------------------------------------
(* What a step may do to the bookings the listing no longer has room for.  *)
StrandingStep ==
  \/ Stranded' \subseteq Stranded
  \/ \E w \in Workers : work[w].raced /\ work'[w].at = "rest"
  \/ \E slot \in Slots : Dispute(slot) /\ Stranded' \subseteq Stranded \cup {slot}

LEMMA RowsKeptStrandNothing == ASSUME UNCHANGED rowsOf PROVE StrandingStep
BY DEF StrandingStep, Stranded, rowsOf

LEMMA RestIsRest ==
  ASSUME Typed, NEW w \in Workers, NEW rivals, Rest(w) \/ RestAndRace(w, rivals)
  PROVE  work'[w].at = "rest"
BY DEF Typed, WorkTyped, Rest, RestAndRace, AtRest, Job

LEMMA StrandStep ==
  ASSUME Typed, Careful, [ListingNext]_listingVars
  PROVE  StrandingStep
<1>0. /\ Editors \subseteq Workers /\ Seekers \subseteq Workers /\ Staff \subseteq Workers
      /\ listing # NoListing => listing \in Listing /\ listing.total \in Nat
      /\ sold \subseteq Nat /\ sold \subseteq booked
  BY DEF Workers, Typed, RowsTyped, Listing, Slots
<1>1. ASSUME NEW e \in Editors, ResizeCommits(e) PROVE StrandingStep
  <2>1. CASE listing = NoListing
    BY <1>1, <2>1, RowsKeptStrandNothing DEF ResizeCommits, rowsOf
  <2>2. CASE work[e].raced
    BY <1>0, <1>1, <2>2, RestIsRest DEF ResizeCommits, StrandingStep
  <2>3. CASE listing # NoListing /\ ~work[e].raced
    <3>1. /\ listing' # NoListing /\ listing'.total = work[e].new /\ work[e].new \in Nat
          /\ UNCHANGED <<sold, blocked>>
      <4>1. work[e].old = listing.total
        BY <1>0, <1>1, <2>3 DEF ResizeCommits, Careful, Sound, Resizing
      <4>2. /\ listing' # NoListing /\ work[e].new \in Nat
            /\ listing'.total = work[e].new \/ (listing' = listing /\ work[e].new = work[e].old)
        BY <1>1, <2>3, ResizeWrites
      <4>3. UNCHANGED <<sold, blocked>>
        BY <1>1 DEF ResizeCommits
      <4>4. QED
        BY <4>1, <4>2, <4>3
    <3>2. CutSafe(work[e].new) \/ listing.total <= work[e].new
      BY <1>0, <1>1, <2>3 DEF ResizeCommits, Careful, Sound, Resizing
    <3>3. ASSUME NEW s \in Stranded' PROVE s \in Stranded
      <4>1. s \in sold /\ s \in Nat /\ (blocked \/ s >= work[e].new)
        BY <1>0, <3>1, <3>3 DEF Stranded
      <4>2. CASE blocked
        BY <4>1, <4>2 DEF Stranded
      <4>3. CASE s >= work[e].new
        <5>1. listing.total <= work[e].new
          BY <3>1, <3>2, <4>1, <4>3 DEF CutSafe
        <5>2. s >= listing.total
          BY <1>0, <2>3, <3>1, <4>1, <4>3, <5>1
        <5>3. QED
          BY <4>1, <5>2 DEF Stranded
      <4>4. QED
        BY <4>1, <4>2, <4>3
    <3>4. QED
      BY <3>3 DEF StrandingStep
  <2>4. QED
    BY <2>1, <2>2, <2>3
<1>2. ASSUME NEW e \in Editors, DeleteCommits(e) PROVE StrandingStep
  <2>1. CASE Deletable
    <3>1. sold' = {}
      BY <1>0, <1>2, <2>1 DEF DeleteCommits, Deletable
    <3>2. QED
      BY <3>1 DEF StrandingStep, Stranded
  <2>2. CASE ~Deletable
    BY <1>2, <2>2, RowsKeptStrandNothing DEF DeleteCommits, rowsOf
  <2>3. QED
    BY <2>1, <2>2
<1>3. ASSUME NEW e \in Editors, BlockCommits(e) PROVE StrandingStep
  <2>1. CASE work[e].raced
    BY <1>0, <1>3, <2>1, RestIsRest DEF BlockCommits, StrandingStep
  <2>2. CASE ~work[e].raced
    <3>1. sold' = {}
      BY <1>0, <1>3, <2>2 DEF BlockCommits, Careful, Sound
    <3>2. QED
      BY <3>1 DEF StrandingStep, Stranded
  <2>3. QED
    BY <2>1, <2>2
<1>4. ASSUME NEW s \in Seekers, SaleCommits(s) PROVE StrandingStep
  <2>1. UNCHANGED <<listing, blocked>> /\ (sold' = sold \/ (listing # NoListing /\ sold' = sold \cup {work[s].new}))
    BY <1>4 DEF SaleCommits
  <2>2. CASE work[s].raced
    BY <1>0, <1>4, <2>2, RestIsRest DEF SaleCommits, StrandingStep
  <2>3. CASE ~work[s].raced
    <3>1. listing # NoListing => work[s].new < listing.total /\ ~blocked /\ work[s].new \in Nat
      BY <1>0, <1>4, <2>3 DEF SaleCommits, Careful, Sound, Typed, WorkTyped, JobTyped, Slots
    <3>2. ASSUME NEW x \in Stranded' PROVE x \in Stranded
      BY <1>0, <2>1, <3>1, <3>2 DEF Stranded
    <3>3. QED
      BY <3>2 DEF StrandingStep
  <2>4. QED
    BY <2>2, <2>3
<1>5. ASSUME /\ listing = NoListing <=> listing' = NoListing
             /\ listing # NoListing => listing'.total = listing.total
             /\ sold' \subseteq sold /\ (blocked' => blocked)
      PROVE  StrandingStep
  BY <1>5 DEF StrandingStep, Stranded
<1>6. ASSUME NEW w \in Editors \cup Staff, StatusCommits(w) PROVE StrandingStep
  <2>1. work[w].new \in ListingStatuses
    BY <1>6 DEF StatusCommits, Typed, WorkTyped, JobTyped, Workers
  <2>2. QED
    BY <1>5, <1>6, <2>1, StatusKeepsTotal DEF StatusCommits
<1>7. ASSUME NEW to \in {"ACTIVE", "SUSPENDED"}, SetProvider(to) PROVE StrandingStep
  BY <1>5, <1>7, StatusKeepsTotal DEF SetProvider, ListingStatuses
<1>8. CASE Unblock
  BY <1>5, <1>8 DEF Unblock
<1>9. ASSUME NEW slot \in Slots, Release(slot) PROVE StrandingStep
  BY <1>5, <1>9 DEF Release
<1>10. ASSUME NEW slot \in Slots, Dispute(slot) PROVE StrandingStep
  <2>1. Stranded' \subseteq Stranded \cup {slot}
    BY <1>10 DEF Dispute, Stranded
  <2>2. QED
    BY <1>10, <2>1 DEF StrandingStep
<1>11. ASSUME NEW e \in Editors,
              \/ \E n \in 1 .. MaxTotal : AskTotal(e, n)
              \/ CutChecks(e) \/ AskPause(e) \/ AskDelete(e) \/ DeleteChecks(e) \/ AskBlock(e) \/ BlockChecks(e)
              \/ \E to \in ListingStatuses : AskPublish(e, to)
       PROVE  StrandingStep
  <2>1. UNCHANGED rowsOf
    BY <1>11 DEF AskTotal, CutChecks, AskPause, AskDelete, DeleteChecks, AskBlock, BlockChecks, AskPublish, Loads
  <2>2. QED
    BY <2>1, RowsKeptStrandNothing
<1>12. CASE \/ \E a \in Staff : Approve(a) \/ Reject(a) \/ Suspend(a)
            \/ \E s \in Seekers : Seek(s) \/ FindsNone(s) \/ \E slot \in Slots : Finds(s, slot)
            \/ \E w \in Workers : WorkDies(w)
  <2>1. UNCHANGED rowsOf
    BY <1>12 DEF Approve, Reject, Suspend, Decide, Seek, FindsNone, Finds, WorkDies
  <2>2. QED
    BY <2>1, RowsKeptStrandNothing
<1>13. CASE UNCHANGED listingVars
  BY <1>13, RowsKeptStrandNothing DEF listingVars, rowsOf
<1>14. QED
  BY <1>1, <1>2, <1>3, <1>4, <1>6, <1>7, <1>8, <1>9, <1>10, <1>11, <1>12, <1>13 DEF ListingNext

(* A booking that keeps its slot is stranded only by a request that was in *)
(* flight when it was made, or by its own: _assert_slot_reduction_safe and *)
(* create_block keep every other one, however many edit the listing.  The  *)
(* only other one is a booking that had ended and that a report brings     *)
(* back.                                                                   *)
THEOREM OnlyRacesAndReturnsStrand == ListingSpec => StrandedByRaceOrReturn
<1>1. Typed /\ Careful /\ [ListingNext]_listingVars => Careful'
  BY CarefulStep
<1>2. Typed /\ Careful /\ [ListingNext]_listingVars => [StrandingStep]_listingVars
  BY StrandStep
<1>3. QED
  BY <1>1, <1>2, TypedInit, TypedStep, CarefulInit, PTL DEF ListingSpec, StrandedByRaceOrReturn, StrandingStep

-----------------------------------------------------------------------------
Rows == [trip : Trips, subject : Subjects, rating : Ratings]

OfSpace(rows) == {r \in rows : r.subject = "SPACE"}

(* What the columns of the summary may hold. *)
Summaries == [average : {Aggregate(rows).average : rows \in SUBSET Rows}, count : 0 .. Cardinality(Trips)]

Underway == [at : {"insert", "read", "update", "commit"}, row : Rows, loaded : Summaries, found : Summaries,
             passed : BOOLEAN, raced : BOOLEAN]

(* A request has what its step needs, ... *)
DraftTyped(d) ==
  /\ d = NoDraft \/ d \in Underway
  /\ d.at \in {"read", "update"} => d.row.subject = "SPACE"

(* ... what it has loaded and read still stands, unless another one passed *)
(* it since; and one about a renter has nothing to write to the space.     *)
Current(d) ==
  d.at # "none" =>
    /\ ~d.passed => d.loaded = summary
    /\ d.row.subject = "RENTER" => d.found = d.loaded
    /\ d.at \in {"update", "commit"} /\ d.row.subject = "SPACE" /\ ~d.raced
         => d.found = Aggregate(reviews \cup {d.row})

OnePerTrip ==
  /\ \A r, s \in reviews : Same(r, s) => r = s
  /\ \A a \in Inserted : \A r \in reviews : ~Same(r, drafts[a].row)
  /\ \A a, b \in Inserted : a # b => ~Same(drafts[a].row, drafts[b].row)

ReviewInv ==
  /\ reviews \subseteq Rows
  /\ summary \in Summaries
  /\ DOMAIN drafts = Authors
  /\ \A a \in Authors : DraftTyped(drafts[a]) /\ Current(drafts[a])
  /\ OnePerTrip

(* Reviews of the space are of different bookings, so there are no more.   *)
LEMMA AggregateTyped ==
  ASSUME NEW rows \in SUBSET Rows, \A r, s \in rows : Same(r, s) => r = s
  PROVE  Aggregate(rows) \in Summaries
<1> DEFINE S == OfSpace(rows)
           trip == [r \in S |-> r.trip]
<1>1. trip \in Injection(S, Trips)
  <2>1. trip \in [S -> Trips]
    BY DEF OfSpace, Rows
  <2>2. ASSUME NEW r \in S, NEW s \in S, trip[r] = trip[s] PROVE r = s
    BY <2>2 DEF OfSpace, Same
  <2>3. QED
    BY <2>1, <2>2 DEF Injection, IsInjective
<1>2. Cardinality(S) \in Nat /\ Cardinality(S) <= Cardinality(Trips) /\ Cardinality(Trips) \in Nat
  BY <1>1, ReviewAssumption, FS_Injection, FS_CardinalityType
<1>3. Aggregate(rows) = [average |-> Aggregate(rows).average, count |-> Cardinality(S)]
  BY DEF Aggregate, OfSpace
<1>4. QED
  BY <1>2, <1>3 DEF Summaries

(* Reviews of renters do not count. *)
LEMMA AggregateOfSpace ==
  ASSUME NEW rows, NEW more, OfSpace(rows) = OfSpace(more)
  PROVE  Aggregate(rows) = Aggregate(more)
BY DEF Aggregate, OfSpace

LEMMA NoDraftFits == DraftTyped(NoDraft) /\ Current(NoDraft) /\ NoDraft.at = "none"
BY DEF DraftTyped, Current, NoDraft

LEMMA ReviewInvInit == ReviewInit => ReviewInv
<1> SUFFICES ASSUME ReviewInit PROVE ReviewInv
  OBVIOUS
<1>1. Aggregate({}) = [average |-> 0, count |-> 0]
  <2>1. {r \in {} : r.subject = "SPACE"} = {}
    OBVIOUS
  <2>2. QED
    BY <2>1, FS_EmptySet DEF Aggregate
<1>2. Aggregate({}) \in Summaries
  BY AggregateTyped
<1>3. \A a \in Authors : drafts[a] = NoDraft
  BY DEF ReviewInit
<1>4. OnePerTrip
  BY <1>3 DEF ReviewInit, OnePerTrip, Inserted, NoDraft
<1>5. QED
  BY <1>1, <1>2, <1>3, <1>4, NoDraftFits DEF ReviewInit, ReviewInv

(* A request goes on, and nothing is committed. *)
LEMMA DraftMoves ==
  ASSUME ReviewInv, NEW a \in Authors, NEW d, drafts' = [drafts EXCEPT ![a] = d],
         UNCHANGED <<reviews, summary>>, DraftTyped(d), Current(d),
         d.at \in {"read", "update", "commit"} =>
           \/ a \in Inserted /\ d.row = drafts[a].row
           \/ /\ \A r \in reviews : ~Same(r, d.row)
              /\ \A b \in Inserted : ~Same(drafts[b].row, d.row)
  PROVE  ReviewInv'
<1>1. DOMAIN drafts' = Authors /\ drafts'[a] = d /\ \A b \in Authors : b # a => drafts'[b] = drafts[b]
  BY DEF ReviewInv
<1>2. ASSUME NEW b \in Authors PROVE DraftTyped(drafts'[b]) /\ Current(drafts[b])'
  BY <1>1 DEF ReviewInv, Current
<1>3. OnePerTrip'
  <2>1. \A r, s : Same(r, s) => Same(s, r)
    BY DEF Same
  <2>2. \A b \in Inserted' : b \in Authors /\ (b # a => b \in Inserted)
    BY <1>1 DEF Inserted
  <2>3. a \in Inserted' => d.at \in {"read", "update", "commit"}
    BY <1>1 DEF Inserted
  <2>4. ASSUME NEW b \in Inserted', NEW r \in reviews PROVE ~Same(r, drafts'[b].row)
    BY <1>1, <2>2, <2>3 DEF ReviewInv, OnePerTrip
  <2>5. ASSUME NEW b \in Inserted', b # a, a \in Inserted' PROVE ~Same(drafts'[b].row, drafts'[a].row)
    BY <1>1, <2>2, <2>3, <2>5 DEF ReviewInv, OnePerTrip
  <2>6. ASSUME NEW b \in Inserted', NEW c \in Inserted', b # c PROVE ~Same(drafts'[b].row, drafts'[c].row)
    BY <1>1, <2>1, <2>2, <2>5, <2>6 DEF ReviewInv, OnePerTrip
  <2>7. QED
    BY <2>4, <2>6 DEF ReviewInv, OnePerTrip
<1>4. QED
  BY <1>1, <1>2, <1>3 DEF ReviewInv, DraftTyped

LEMMA DraftDiscarded ==
  ASSUME ReviewInv, NEW a \in Authors, Discard(a), UNCHANGED <<reviews, summary>>
  PROVE  ReviewInv'
BY NoDraftFits, DraftMoves DEF Discard

(* What a commit leaves of another request. *)
LEMMA PassedKeeps ==
  ASSUME NEW d, DraftTyped(d), NEW row \in Rows
  PROVE  LET e == Passed(d, row)
         IN  /\ DraftTyped(e) /\ e.at = d.at
             /\ d.at # "none" => /\ e.row = d.row /\ e.loaded = d.loaded /\ e.found = d.found
                                 /\ row.subject = "SPACE" => e.passed
                                 /\ row.subject = "SPACE" /\ d.at \in {"update", "commit"} => e.raced
             /\ row.subject = "RENTER" => e = d
<1>1. CASE d.at = "none" \/ row.subject = "RENTER"
  BY <1>1 DEF Passed, Rows, Subjects
<1>2. CASE ~(d.at = "none" \/ row.subject = "RENTER")
  <2> DEFINE e == [d EXCEPT !.passed = TRUE, !.raced = @ \/ d.at \in {"update", "commit"}]
  <2>1. Passed(d, row) = e /\ d \in Underway /\ row.subject = "SPACE"
    BY <1>2 DEF Passed, DraftTyped, NoDraft, Rows, Subjects
  <2>2. e \in Underway /\ e.at = d.at /\ e.row = d.row /\ e.loaded = d.loaded /\ e.found = d.found
    BY <2>1 DEF Underway
  <2>3. e.passed /\ (d.at \in {"update", "commit"} => e.raced)
    BY <2>1 DEF Underway
  <2> HIDE DEF e
  <2>4. QED
    BY <2>1, <2>2, <2>3 DEF DraftTyped
<1>3. QED
  BY <1>1, <1>2

(* What a commit writes: nothing for a review of a renter; for one of the  *)
(* space, in the columns that changed, what it has found.                  *)
LEMMA SummaryWritten ==
  ASSUME ReviewInv, NEW a \in Authors, Publish(a)
  PROVE  /\ summary' \in Summaries
         /\ drafts[a].row.subject = "RENTER" => summary' = summary
         /\ \A c \in DOMAIN summary :
              summary'[c] = IF drafts[a].found[c] # drafts[a].loaded[c] THEN drafts[a].found[c] ELSE summary[c]
         /\ DOMAIN summary = {"average", "count"}
<1> DEFINE d == drafts[a]
<1>1. d \in Underway /\ Current(d) /\ summary \in Summaries /\ d.at = "commit"
  BY DEF ReviewInv, DraftTyped, Publish, NoDraft
<1>2. summary' = [c \in DOMAIN summary |-> IF d.found[c] # d.loaded[c] THEN d.found[c] ELSE summary[c]]
  BY DEF Publish, Changed
<1> HIDE DEF d
<1>3. DOMAIN summary = {"average", "count"} /\ d.found \in Summaries /\ d.row.subject \in Subjects
  BY <1>1 DEF Summaries, Underway, Rows
<1>4. \A c \in {"average", "count"} : summary'[c] \in {d.found[c], summary[c]}
  BY <1>2, <1>3
<1>5. summary' = [average |-> summary'.average, count |-> summary'.count]
  BY <1>2, <1>3
<1>6. summary' \in Summaries
  BY <1>1, <1>3, <1>4, <1>5 DEF Summaries
<1>7. d.row.subject = "RENTER" => summary' = summary
  BY <1>1, <1>2, <1>3 DEF Current, Summaries
<1>8. QED
  BY <1>2, <1>3, <1>6, <1>7 DEF d

LEMMA InvPublish ==
  ASSUME ReviewInv, NEW a \in Authors, Publish(a)
  PROVE  ReviewInv'
<1> DEFINE row == drafts[a].row
<1>1. drafts[a].at = "commit" /\ reviews' = reviews \cup {row}
  BY DEF Publish
<1>2. row \in Rows /\ row.subject \in Subjects /\ a \in Inserted
  BY <1>1 DEF ReviewInv, DraftTyped, Inserted, Underway, NoDraft, Rows
<1>3. DOMAIN drafts' = Authors
  BY DEF Publish
<1> HIDE DEF row
<1>4. ASSUME NEW b \in Authors
      PROVE  /\ DraftTyped(drafts'[b]) /\ Current(drafts[b])'
             /\ drafts'[b].at \in {"none", drafts[b].at}
             /\ drafts'[b].at # "none" => b # a /\ drafts'[b].row = drafts[b].row
  <2>1. CASE b = a
    <3>1. drafts'[b] = NoDraft
      BY <2>1 DEF Publish
    <3>2. QED
      BY <3>1, NoDraftFits DEF Current
  <2>2. CASE b # a
    <3> DEFINE d == drafts[b]
    <3>1. drafts'[b] = Passed(d, row) /\ DraftTyped(d) /\ Current(d)
      BY <2>2 DEF Publish, ReviewInv, row
    <3>2. /\ DraftTyped(drafts'[b]) /\ drafts'[b].at = d.at
          /\ d.at # "none" => /\ drafts'[b].row = d.row /\ drafts'[b].loaded = d.loaded /\ drafts'[b].found = d.found
                              /\ row.subject = "SPACE" => drafts'[b].passed
                              /\ row.subject = "SPACE" /\ d.at \in {"update", "commit"} => drafts'[b].raced
          /\ row.subject = "RENTER" => drafts'[b] = d
      BY <1>2, <3>1, PassedKeeps
    <3>3. CASE row.subject = "SPACE"
      BY <2>2, <3>1, <3>2, <3>3 DEF Current
    <3>4. CASE row.subject = "RENTER"
      <4>1. drafts'[b] = d /\ summary' = summary
        BY <3>2, <3>4, SummaryWritten DEF row
      <4>2. Aggregate(reviews' \cup {d.row}) = Aggregate(reviews \cup {d.row})
        BY <1>1, <3>4, AggregateOfSpace DEF OfSpace
      <4>3. QED
        BY <2>2, <3>1, <4>1, <4>2 DEF Current
    <3>5. QED
      BY <1>2, <3>3, <3>4 DEF Subjects
  <2>3. QED
    BY <2>1, <2>2
<1>5. OnePerTrip'
  <2>1. \A b \in Inserted' : b \in Inserted /\ b # a /\ drafts'[b].row = drafts[b].row
    BY <1>4 DEF Inserted
  <2>2. \A r, s : Same(r, s) => Same(s, r)
    BY DEF Same
  <2>3. \A r, s \in reviews' : Same(r, s) => r = s
    BY <1>1, <1>2, <2>2 DEF ReviewInv, OnePerTrip, row
  <2>4. \A b \in Inserted' : \A r \in reviews' : ~Same(r, drafts'[b].row)
    BY <1>1, <1>2, <2>1 DEF ReviewInv, OnePerTrip, row
  <2>5. \A b, c \in Inserted' : b # c => ~Same(drafts'[b].row, drafts'[c].row)
    BY <2>1 DEF ReviewInv, OnePerTrip
  <2>6. QED
    BY <2>3, <2>4, <2>5 DEF OnePerTrip
<1>6. QED
  BY <1>1, <1>2, <1>3, <1>4, <1>5, SummaryWritten DEF ReviewInv, DraftTyped

LEMMA ReviewInvStep == ReviewInv /\ [ReviewNext]_reviewVars => ReviewInv'
<1> SUFFICES ASSUME ReviewInv, [ReviewNext]_reviewVars PROVE ReviewInv'
  OBVIOUS
<1>0. ASSUME NEW a \in Authors, drafts[a].at # "none"
      PROVE  drafts[a] \in Underway /\ DraftTyped(drafts[a]) /\ Current(drafts[a])
  BY <1>0 DEF ReviewInv, DraftTyped, NoDraft
<1>1. ASSUME NEW a \in Authors, NEW trip \in Trips, NEW subject \in Subjects, NEW rating \in Ratings,
             Write(a, trip, subject, rating)
      PROVE  ReviewInv'
  <2> DEFINE d == [at |-> "insert", row |-> [trip |-> trip, subject |-> subject, rating |-> rating],
                   loaded |-> summary, found |-> summary, passed |-> FALSE, raced |-> FALSE]
  <2>1. drafts' = [drafts EXCEPT ![a] = d] /\ UNCHANGED <<reviews, summary>>
    BY <1>1 DEF Write
  <2>2. d \in Underway /\ d.at = "insert" /\ d.loaded = summary /\ d.found = summary
    BY DEF Rows, Underway, ReviewInv
  <2> HIDE DEF d
  <2>3. DraftTyped(d) /\ Current(d)
    BY <2>2 DEF DraftTyped, Current
  <2>4. QED
    BY <2>1, <2>2, <2>3, DraftMoves
<1>2. ASSUME NEW a \in Authors, Insert(a) PROVE ReviewInv'
  <2> DEFINE old == drafts[a]
             at == IF old.row.subject = "SPACE" THEN "read" ELSE "commit"
             d == [old EXCEPT !.at = at]
  <2>1. old \in Underway /\ Current(old) /\ old.at = "insert" /\ UNCHANGED <<reviews, summary>>
    BY <1>0, <1>2 DEF Insert
  <2>2. CASE \E r \in reviews : Same(r, old.row)
    BY <1>2, <2>1, <2>2, DraftDiscarded DEF Insert
  <2>3. CASE ~ \E r \in reviews : Same(r, old.row)
    <3>1. drafts' = [drafts EXCEPT ![a] = d]
      BY <1>2, <2>3 DEF Insert, ReviewInv
    <3>2. /\ \A r \in reviews : ~Same(r, old.row)
          /\ \A b \in Inserted : ~Same(drafts[b].row, old.row)
      BY <1>2, <2>3 DEF Insert
    <3>3. /\ d \in Underway /\ d.at = at /\ d.row = old.row /\ d.loaded = old.loaded /\ d.found = old.found
          /\ d.passed = old.passed /\ d.raced = old.raced
      BY <2>1 DEF Underway
    <3>4. old.row.subject \in Subjects
      BY <2>1 DEF Underway, Rows
    <3> HIDE DEF d
    <3>5. DraftTyped(d) /\ Current(d)
      BY <2>1, <3>3, <3>4 DEF DraftTyped, Current, Subjects
    <3>6. QED
      BY <2>1, <3>1, <3>2, <3>3, <3>5, DraftMoves
  <2>4. QED
    BY <2>2, <2>3
<1>3. ASSUME NEW a \in Authors, ReadsRatings(a) PROVE ReviewInv'
  <2> DEFINE old == drafts[a]
             d == [old EXCEPT !.at = "update", !.found = Aggregate(Seen(a))]
  <2>1. drafts' = [drafts EXCEPT ![a] = d] /\ UNCHANGED <<reviews, summary>>
    BY <1>3 DEF ReadsRatings, ReviewInv
  <2>2. old \in Underway /\ DraftTyped(old) /\ Current(old) /\ old.at = "read" /\ a \in Inserted
    BY <1>0, <1>3 DEF ReadsRatings, Inserted
  <2>3. Seen(a) = reviews \cup {old.row} /\ old.row \in Rows /\ old.row.subject = "SPACE"
    BY <2>2 DEF Seen, Underway, DraftTyped
  <2>4. Aggregate(Seen(a)) \in Summaries
    <3>1. \A r, s \in Seen(a) : Same(r, s) => r = s
      <4>1. \A r, s : Same(r, s) => Same(s, r)
        BY DEF Same
      <4>2. QED
        BY <2>2, <2>3, <4>1 DEF ReviewInv, OnePerTrip
    <3>2. Seen(a) \in SUBSET Rows
      BY <2>3 DEF ReviewInv
    <3>3. QED
      BY <3>1, <3>2, AggregateTyped
  <2>5. /\ d \in Underway /\ d.at = "update" /\ d.row = old.row /\ d.loaded = old.loaded
        /\ d.found = Aggregate(Seen(a)) /\ d.passed = old.passed
    BY <2>2, <2>4 DEF Underway
  <2> HIDE DEF d
  <2>6. DraftTyped(d) /\ Current(d)
    BY <2>2, <2>3, <2>5 DEF DraftTyped, Current
  <2>7. QED
    BY <2>1, <2>2, <2>5, <2>6, DraftMoves
<1>4. ASSUME NEW a \in Authors, Updates(a) PROVE ReviewInv'
  <2> DEFINE old == drafts[a]
             d == [old EXCEPT !.at = "commit"]
  <2>1. drafts' = [drafts EXCEPT ![a] = d] /\ UNCHANGED <<reviews, summary>>
    BY <1>4 DEF Updates, ReviewInv
  <2>2. old \in Underway /\ DraftTyped(old) /\ Current(old) /\ old.at = "update" /\ a \in Inserted
    BY <1>0, <1>4 DEF Updates, Inserted
  <2>3. /\ d \in Underway /\ d.at = "commit" /\ d.row = old.row /\ d.loaded = old.loaded /\ d.found = old.found
        /\ d.passed = old.passed /\ d.raced = old.raced
    BY <2>2 DEF Underway
  <2> HIDE DEF d
  <2>4. DraftTyped(d) /\ Current(d)
    BY <2>2, <2>3 DEF DraftTyped, Current
  <2>5. QED
    BY <2>1, <2>2, <2>3, <2>4, DraftMoves
<1>5. ASSUME NEW a \in Authors, Publish(a) PROVE ReviewInv'
  BY <1>5, InvPublish
<1>6. ASSUME NEW a \in Authors, DraftDies(a) PROVE ReviewInv'
  BY <1>6, DraftDiscarded DEF DraftDies
<1>7. CASE UNCHANGED reviewVars
  BY <1>7 DEF reviewVars, ReviewInv, DraftTyped, Current, OnePerTrip, Inserted
<1>8. QED
  BY <1>1, <1>2, <1>3, <1>4, <1>5, <1>6, <1>7 DEF ReviewNext

(* One review for each trip and subject (uq_reviews_booking_subject), and a *)
(* summary that counts no more reviews than there are trips.               *)
THEOREM ReviewsWellFormed == ReviewSpec => []ReviewTypeOK
<1>1. ReviewInv => ReviewTypeOK
  <2> SUFFICES ASSUME ReviewInv PROVE ReviewTypeOK
    OBVIOUS
  <2>1. \A r, s : Same(r, s) => Same(s, r)
    BY DEF Same
  <2>2. ASSUME NEW r \in reviews \cup {drafts[a].row : a \in Inserted},
               NEW s \in reviews \cup {drafts[a].row : a \in Inserted}, Same(r, s)
        PROVE  r = s
    BY <2>1, <2>2 DEF ReviewInv, OnePerTrip
  <2>3. QED
    BY <2>2 DEF ReviewInv, ReviewTypeOK, Rows, Summaries
<1>2. QED
  BY <1>1, ReviewInvInit, ReviewInvStep, PTL DEF ReviewSpec

(* A review that no other one overtakes after it has read the ratings      *)
(* leaves the space with the average and the number of its reviews         *)
(* (refresh_space_rating), but for a column that looked right in the row   *)
(* it began with and that another review has changed since.                *)
THEOREM SummariesStaleOnlyInRaces == ReviewSpec => SummaryStaleOnlyInRace
<1> DEFINE Fresh(a) ==
      /\ drafts[a].at = "commit" /\ drafts[a].row.subject = "SPACE" /\ ~drafts[a].raced
      /\ drafts[a].row \in reviews' \ reviews
      => \A c \in DOMAIN summary :
           \/ summary'[c] = Aggregate(reviews')[c]
           \/ drafts[a].passed /\ drafts[a].loaded[c] = Aggregate(reviews')[c]
<1>1. ASSUME ReviewInv, [ReviewNext]_reviewVars
      PROVE  [\A a \in Authors : Fresh(a)]_reviewVars
  <2> SUFFICES ASSUME ReviewNext, NEW a \in Authors,
                      drafts[a].at = "commit", drafts[a].row.subject = "SPACE", ~drafts[a].raced,
                      drafts[a].row \in reviews', drafts[a].row \notin reviews, NEW c \in DOMAIN summary
               PROVE  \/ summary'[c] = Aggregate(reviews')[c]
                      \/ drafts[a].passed /\ drafts[a].loaded[c] = Aggregate(reviews')[c]
    BY <1>1
  <2>1. PICK b \in Authors : Publish(b)
    BY DEF ReviewNext, Write, Insert, ReadsRatings, Updates, DraftDies
  <2>2. drafts[a].row = drafts[b].row /\ drafts[b].at = "commit"
    BY <2>1 DEF Publish
  <2>3. a = b
    <3>1. a \in Inserted /\ b \in Inserted
      BY <2>2 DEF Inserted
    <3>2. Same(drafts[a].row, drafts[b].row)
      BY <2>2 DEF Same
    <3>3. QED
      BY <1>1, <3>1, <3>2 DEF ReviewInv, OnePerTrip
  <2>4. Current(drafts[a]) /\ reviews' = reviews \cup {drafts[a].row}
    BY <1>1, <2>1, <2>3 DEF Publish, ReviewInv
  <2>5. /\ drafts[a].found = Aggregate(reviews')
        /\ ~drafts[a].passed => drafts[a].loaded = summary
    BY <2>4 DEF Current
  <2>6. summary'[c] = IF drafts[a].found[c] # drafts[a].loaded[c] THEN drafts[a].found[c] ELSE summary[c]
    BY <1>1, <2>1, <2>3, SummaryWritten
  <2>7. QED
    BY <2>5, <2>6
<1>2. QED
  BY <1>1, ReviewInvInit, ReviewInvStep, PTL DEF ReviewSpec, SummaryStaleOnlyInRace
=============================================================================
