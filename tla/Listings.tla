------------------------------ MODULE Listings ------------------------------
(***************************************************************************)
(* One listing and what refers to it: its status and number of slots       *)
(* (parking/service.py), its bay rows (parking/bays.py), one blocked       *)
(* period (availability/crud.py), the bookings made for that period, and   *)
(* what admins do to the listing and its provider (admin/service.py).      *)
(*                                                                         *)
(* A request loads the listing, decides with what it loaded, looks at      *)
(* other rows, and writes: its first write locks, so that the rest of it,  *)
(* with the commit, is one step.  Requests run at the same time.           *)
(***************************************************************************)
EXTENDS Integers

CONSTANTS
  Editors,   \* requests of the listing's provider
  Seekers,   \* requests of renters
  Staff,     \* requests of admins
  MaxTotal,  \* the most slots asked for (a bound)
  NoListing  \* the row has been deleted

ListingStatuses == {"DRAFT", "PENDING_APPROVAL", "PUBLISHED", "PAUSED", "REJECTED", "SUSPENDED"}

ASSUME ListingAssumption ==
  MaxTotal \in Nat \ {0} /\ NoListing \notin [status : ListingStatuses, total : 1 .. MaxTotal]

VARIABLES
  listing,   \* parking_spaces: [status, total], or NoListing
  provider,  \* Provider.status
  bays,      \* slot_index of the parking_bays rows
  sold,      \* slots with a blocking booking
  booked,    \* slots with a booking row, of any status
  blocked,   \* there is an availability_blocks row
  work       \* per request: where it is, what it loaded and wants

listingVars == <<listing, provider, bays, sold, booked, blocked, work>>

Workers == Editors \cup Seekers \cup Staff

Slots == 0 .. MaxTotal - 1

SlotsOf(total) == 0 .. total - 1

(* A request: `old` and `new` are the status or the total it loaded and    *)
(* the one it wants.  `raced`: a booking, or another request's total, was  *)
(* committed while it changes the total or blocks, or one of these while   *)
(* it is a renter's.                                                       *)
Job(at, old, new) == [at |-> at, old |-> old, new |-> new, raced |-> FALSE]

AtRest == Job("rest", NoListing, NoListing)

(* create: a DRAFT with a bay for each slot. *)
ListingInit ==
  /\ \E n \in 1 .. MaxTotal : /\ listing = [status |-> "DRAFT", total |-> n]
                              /\ bays = SlotsOf(n)
  /\ provider = "ACTIVE"
  /\ sold = {}
  /\ booked = {}
  /\ blocked = FALSE
  /\ work = [w \in Workers |-> AtRest]

Begin(w, job) == work[w].at = "rest" /\ work' = [work EXCEPT ![w] = job]

Rest(w) == work' = [work EXCEPT ![w] = AtRest]

(* The end of a request whose commit may matter to `rivals` in flight.     *)
Raced(u, rivals) == IF work[u].at \in rivals THEN [work[u] EXCEPT !.raced = TRUE] ELSE work[u]

RestAndRace(w, rivals) ==
  work' = [u \in Workers |-> IF u = w THEN AtRest ELSE Raced(u, rivals)]

(* Steps of the requests that a booking, or a new total, comes across.     *)
Resizing == {"cut", "resize"}

Clearing == Resizing \cup {"bookings", "block"}

Seeking == {"seek", "insert"}

rowsOf == <<listing, provider, bays, sold, booked, blocked>>

(* get_owned, for a provider who is not suspended.                         *)
Loads(e, job) ==
  /\ provider = "ACTIVE"
  /\ listing # NoListing
  /\ Begin(e, job)
  /\ UNCHANGED rowsOf

-----------------------------------------------------------------------------
(* update: total_slots is one of the changes.  A cut looks at the bookings.*)
AskTotal(e, n) ==
  Loads(e, Job(IF n < listing.total THEN "cut" ELSE "resize", listing.total, n))

(* [Mutant of CutSafe] the highest slot in use may be the first one gone.  *)
CutSafeOffByOne(n) == \A s \in sold : s <= n

CutSafe(n) == \A s \in sold : s < n

CutChecks(e) ==
  /\ work[e].at = "cut"
  /\ IF CutSafe(work[e].new) THEN work' = [work EXCEPT ![e].at = "resize"] ELSE Rest(e)
  /\ UNCHANGED rowsOf

(* [Mutant of Synced] bays are added, and never removed.                   *)
SyncedUp(there, total) == there \cup SlotsOf(total)

(* sync_for_space: the missing bays are added, those above the total go.   *)
Synced(there, total) == (there \cap SlotsOf(total)) \cup (SlotsOf(total) \ there)

(* total_slots is written if it differs from what was loaded; the bays     *)
(* follow this request's total in any case.  No row to update: an error.   *)
ResizeCommits(e) ==
  LET job == work[e]
  IN  /\ job.at = "resize"
      /\ IF listing = NoListing
         THEN /\ Rest(e)
              /\ UNCHANGED <<listing, bays>>
         ELSE /\ listing' = IF job.new = job.old THEN listing ELSE [listing EXCEPT !.total = job.new]
              /\ bays' = Synced(bays, job.new)
              /\ RestAndRace(e, Resizing \cup Seeking)
      /\ UNCHANGED <<provider, sold, booked, blocked>>

-----------------------------------------------------------------------------
(* publish and pause decide by the status loaded.  What publish also needs *)
(* (authority, a price, a rule) is the provider's own to provide.          *)
AskPublish(e, to) ==
  /\ to \in {"PENDING_APPROVAL", "PUBLISHED"}
  /\ listing # NoListing /\ listing.status \notin {"SUSPENDED", "REJECTED"}
  /\ Loads(e, Job("status", listing.status, to))

AskPause(e) ==
  /\ listing # NoListing /\ listing.status \in {"PUBLISHED", "PENDING_APPROVAL"}
  /\ Loads(e, Job("status", listing.status, "PAUSED"))

(* decide_listing: whatever the status is. *)
Decide(a, to) ==
  /\ listing # NoListing
  /\ Begin(a, Job("status", listing.status, to))
  /\ UNCHANGED rowsOf

Approve(a) == Decide(a, "PUBLISHED")

Reject(a) == Decide(a, "REJECTED")

Suspend(a) == Decide(a, "SUSPENDED")

(* The status is written if it differs from what was loaded.               *)
StatusCommits(w) ==
  LET job == work[w]
  IN  /\ job.at = "status"
      /\ listing' = IF listing = NoListing \/ job.new = job.old THEN listing
                    ELSE [listing EXCEPT !.status = job.new]
      /\ Rest(w)
      /\ UNCHANGED <<provider, bays, sold, booked, blocked>>

(* set_provider_status: an UPDATE suspends the published listings.         *)
SetProvider(to) ==
  /\ provider # to
  /\ provider' = to
  /\ listing' = IF to = "SUSPENDED" /\ listing # NoListing /\ listing.status = "PUBLISHED"
                THEN [listing EXCEPT !.status = "SUSPENDED"] ELSE listing
  /\ UNCHANGED <<bays, sold, booked, blocked, work>>

-----------------------------------------------------------------------------
(* delete: refused if a booking is found, ...                              *)
AskDelete(e) == Loads(e, Job("find", NoListing, NoListing))

DeleteChecks(e) ==
  /\ work[e].at = "find"
  /\ IF booked # {} THEN Rest(e) ELSE work' = [work EXCEPT ![e].at = "delete"]
  /\ UNCHANGED rowsOf

(* [Mutant of Deletable] bookings go with their listing (ondelete CASCADE).*)
DeletableAny == listing # NoListing

(* ... and by the foreign key of a booking inserted since (RESTRICT).      *)
Deletable == listing # NoListing /\ booked = {}

(* Bays and blocks go with the row. *)
DeleteCommits(e) ==
  /\ work[e].at = "delete"
  /\ IF Deletable
     THEN /\ listing' = NoListing
          /\ bays' = {}
          /\ blocked' = FALSE
     ELSE UNCHANGED <<listing, bays, blocked>>
  /\ Rest(e)
  /\ UNCHANGED <<provider, sold, booked>>

-----------------------------------------------------------------------------
(* create_block: "Existing bookings win", ...                              *)
AskBlock(e) == Loads(e, Job("bookings", NoListing, NoListing))

PeriodFree == sold = {}

BlockChecks(e) ==
  /\ work[e].at = "bookings"
  /\ IF PeriodFree THEN work' = [work EXCEPT ![e].at = "block"] ELSE Rest(e)
  /\ UNCHANGED rowsOf

(* ... and the row is inserted, if there is still a listing to refer to.   *)
BlockCommits(e) ==
  /\ work[e].at = "block"
  /\ IF listing = NoListing
     THEN Rest(e) /\ UNCHANGED blocked
     ELSE RestAndRace(e, Seeking) /\ blocked' = TRUE
  /\ UNCHANGED <<listing, provider, bays, sold, booked>>

(* delete_block *)
Unblock ==
  /\ provider = "ACTIVE"
  /\ blocked
  /\ blocked' = FALSE
  /\ UNCHANGED <<listing, provider, bays, sold, booked, work>>

-----------------------------------------------------------------------------
(* get_public *)
Shown == listing # NoListing /\ listing.status = "PUBLISHED" /\ provider = "ACTIVE"

(* bookings/service.create loads the listing as renters may see it, ...    *)
Seek(s) ==
  /\ Shown
  /\ Begin(s, Job("seek", listing.total, NoListing))
  /\ UNCHANGED rowsOf

(* ... assert_available looks for a block, and for a slot of those it knows,*)
Finds(s, slot) ==
  /\ work[s].at = "seek"
  /\ ~blocked
  /\ slot \in SlotsOf(work[s].old) \ sold
  /\ work' = [work EXCEPT ![s].at = "insert", ![s].new = slot]
  /\ UNCHANGED rowsOf

FindsNone(s) ==
  /\ work[s].at = "seek"
  /\ blocked \/ SlotsOf(work[s].old) \subseteq sold
  /\ Rest(s)
  /\ UNCHANGED rowsOf

(* ... and the row is inserted, if the exclusion constraint and the        *)
(* foreign key let it.                                                     *)
SaleCommits(s) ==
  LET slot == work[s].new
  IN  /\ work[s].at = "insert"
      /\ IF listing # NoListing /\ slot \notin sold
         THEN /\ sold' = sold \cup {slot}
              /\ booked' = booked \cup {slot}
              /\ RestAndRace(s, Clearing)
         ELSE Rest(s) /\ UNCHANGED <<sold, booked>>
      /\ UNCHANGED <<listing, provider, bays, blocked>>

(* A booking is cancelled, expires or ends. *)
Release(slot) ==
  /\ slot \in sold
  /\ sold' = sold \ {slot}
  /\ UNCHANGED <<listing, provider, bays, booked, blocked, work>>

(* A booking that had ended is disputed by a serious report, which makes   *)
(* it block its slot again, if the exclusion constraint lets it.           *)
Dispute(slot) ==
  /\ slot \in booked \ sold
  /\ sold' = sold \cup {slot}
  /\ work' = [w \in Workers |-> Raced(w, Clearing)]
  /\ UNCHANGED <<listing, provider, bays, booked, blocked>>

(* A handler that dies: nothing of it was committed. *)
WorkDies(w) ==
  /\ work[w].at # "rest"
  /\ Rest(w)
  /\ UNCHANGED rowsOf

ListingNext ==
  \/ \E e \in Editors :
       \/ \E n \in 1 .. MaxTotal : AskTotal(e, n)
       \/ CutChecks(e) \/ ResizeCommits(e)
       \/ \E to \in ListingStatuses : AskPublish(e, to)
       \/ AskPause(e)
       \/ AskDelete(e) \/ DeleteChecks(e) \/ DeleteCommits(e)
       \/ AskBlock(e) \/ BlockChecks(e) \/ BlockCommits(e)
  \/ \E a \in Staff : Approve(a) \/ Reject(a) \/ Suspend(a)
  \/ \E w \in Editors \cup Staff : StatusCommits(w)
  \/ \E to \in {"ACTIVE", "SUSPENDED"} : SetProvider(to)
  \/ Unblock
  \/ \E s \in Seekers : \/ Seek(s) \/ FindsNone(s) \/ SaleCommits(s)
                        \/ \E slot \in Slots : Finds(s, slot)
  \/ \E slot \in Slots : Release(slot) \/ Dispute(slot)
  \/ \E w \in Workers : WorkDies(w)

ListingSpec == ListingInit /\ [][ListingNext]_listingVars

-----------------------------------------------------------------------------
Steps == {"rest", "cut", "resize", "status", "find", "delete", "bookings", "block", "seek", "insert"}

(* Rows are well-formed, and nothing refers to a listing that is gone.     *)
ListingTypeOK ==
  /\ listing = NoListing \/ listing \in [status : ListingStatuses, total : 1 .. MaxTotal]
  /\ provider \in {"ACTIVE", "SUSPENDED"}
  /\ bays \subseteq Slots /\ sold \subseteq booked /\ booked \subseteq Slots
  /\ blocked \in BOOLEAN
  /\ listing = NoListing => bays = {} /\ ~blocked
  /\ \A w \in Workers : work[w].at \in Steps

(* "Listings with bookings are never destroyed - booking history must      *)
(* survive" (delete), also when the booking arrives after the check.       *)
HistorySurvives == booked # {} => listing # NoListing

(* "Make the bay rows match the space's `total_slots`" (sync_for_space):   *)
(* whatever bookings, admins and crashes come between a request's steps,   *)
(* bays and total part only where an update of the total commits after     *)
(* another one overtook it; and one that none overtook makes them match    *)
(* again, however far apart they were.                                     *)
BaysMatch == listing # NoListing => bays = SlotsOf(listing.total)

BaysFollowTotal ==
  [][/\ BaysMatch => BaysMatch' \/ \E e \in Editors : ResizeCommits(e) /\ work[e].raced
     /\ \A e \in Editors : ResizeCommits(e) /\ ~work[e].raced => BaysMatch']_listingVars

(* Bookings on a slot or in a period that the listing no longer offers.    *)
Stranded == {s \in sold : blocked \/ listing = NoListing \/ s >= listing.total}

(* "Refuse a capacity cut that would strand an existing booking's slot"    *)
(* (_assert_slot_reduction_safe), "a provider cannot block a slot they     *)
(* have already sold" (create_block) and the renter's own check: a booking *)
(* is stranded only by two requests that were in flight at the same time,  *)
(* or when it had ended, its slot was cut or blocked meanwhile, and a      *)
(* report brings it back.                                                  *)
StrandedByRaceOrReturn ==
  [][\/ Stranded' \subseteq Stranded
     \/ \E w \in Workers : work[w].raced /\ work'[w].at = "rest"
     \/ \E slot \in Slots : Dispute(slot) /\ Stranded' \subseteq Stranded \cup {slot}]_listingVars
=============================================================================
