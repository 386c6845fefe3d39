------------------------------- MODULE Reviews -------------------------------
(***************************************************************************)
(* The reviews of one space's completed bookings and the summary that the  *)
(* space's row keeps of them (reviews/service.py).                         *)
(*                                                                         *)
(* Requests run at the same time and read committed rows, and their own;   *)
(* a row that one has written is locked until its transaction ends.        *)
(***************************************************************************)
EXTENDS Integers, FiniteSets, FiniteSetsExt

CONSTANTS
  Authors,   \* requests
  Trips,     \* completed bookings of the space
  Ratings    \* what may be given

ASSUME ReviewAssumption == Ratings \subseteq Nat /\ IsFiniteSet(Trips)

VARIABLES
  reviews,   \* committed rows: [trip, subject, rating]
  summary,   \* parking_spaces: rating_average, in hundredths (0 for none), and rating_count
  drafts     \* per request: where it is, its row, what it has read

reviewVars == <<reviews, summary, drafts>>

Subjects == {"SPACE", "RENTER"}

NoDraft == [at |-> "none"]

ReviewInit ==
  /\ reviews = {}
  /\ summary = [average |-> 0, count |-> 0]
  /\ drafts = [a \in Authors |-> NoDraft]

(* quantize: n / d to the nearest, a half to the even one.                 *)
HalfEven(n, d) ==
  LET q == n \div d
      twice == 2 * (n % d)
  IN  IF twice > d \/ (twice = d /\ q % 2 = 1) THEN q + 1 ELSE q

(* avg and count over the space's reviews. *)
Aggregate(rows) ==
  LET ofSpace == {r \in rows : r.subject = "SPACE"}
      count   == Cardinality(ofSpace)
      sum     == MapThenSumSet(LAMBDA r : r.rating, ofSpace)
  IN  [average |-> IF count = 0 THEN 0 ELSE HalfEven(100 * sum, count), count |-> count]

Same(r, s) == r.trip = s.trip /\ r.subject = s.subject

(* Requests whose row is inserted and not committed. *)
Inserted == {a \in Authors : drafts[a].at \in {"read", "update", "commit"}}

(* Columns that differ from the row loaded with the booking, which db.get  *)
(* answers from the session: it does not read the row again.               *)
Changed(d) == {c \in DOMAIN summary : d.found[c] # d.loaded[c]}

(* Who has the lock of the space's row. *)
Locking == {a \in Authors : drafts[a].at = "commit" /\ Changed(drafts[a]) # {}}

Discard(a) == drafts' = [drafts EXCEPT ![a] = NoDraft]

-----------------------------------------------------------------------------
(* create: the booking is loaded, and with it the space's row; a review of *)
(* the same booking and subject is a conflict, ...                         *)
Write(a, trip, subject, rating) ==
  LET row == [trip |-> trip, subject |-> subject, rating |-> rating]
  IN  /\ drafts[a].at = "none"
      /\ \A r \in reviews : ~Same(r, row)
      /\ drafts' = [drafts EXCEPT ![a] = [at |-> "insert", row |-> row, loaded |-> summary, found |-> summary,
                                         passed |-> FALSE, raced |-> FALSE]]
      /\ UNCHANGED <<reviews, summary>>

(* ... the row is flushed.  The unique index waits for a rival's row, and  *)
(* refuses a second one; reviews of renters have no summary.               *)
Insert(a) ==
  LET row == drafts[a].row
  IN  /\ drafts[a].at = "insert"
      /\ \A b \in Inserted : ~Same(drafts[b].row, row)
      /\ IF \E r \in reviews : Same(r, row)
         THEN Discard(a)
         ELSE drafts' = [drafts EXCEPT ![a].at = IF row.subject = "SPACE" THEN "read" ELSE "commit"]
      /\ UNCHANGED <<reviews, summary>>

(* [Mutant of Seen] the aggregate is read before the row is flushed.       *)
SeenBefore(a) == reviews

(* A statement sees the committed rows and the request's own.              *)
Seen(a) == reviews \cup {drafts[a].row}

(* refresh_space_rating: the aggregate, ...                                *)
ReadsRatings(a) ==
  /\ drafts[a].at = "read"
  /\ drafts' = [drafts EXCEPT ![a].at = "update", ![a].found = Aggregate(Seen(a))]
  /\ UNCHANGED <<reviews, summary>>

(* ... and an UPDATE of the columns that have changed, if any.             *)
Updates(a) ==
  /\ drafts[a].at = "update"
  /\ Changed(drafts[a]) # {} => Locking = {}
  /\ drafts' = [drafts EXCEPT ![a].at = "commit"]
  /\ UNCHANGED <<reviews, summary>>

(* A request in flight when a review of the space commits: `passed`, and   *)
(* `raced` if it has read the ratings before, and missed this one.         *)
Passed(d, row) ==
  IF d.at = "none" \/ row.subject = "RENTER" THEN d
  ELSE [d EXCEPT !.passed = TRUE, !.raced = @ \/ d.at \in {"update", "commit"}]

(* create_review: the commit.                                              *)
Publish(a) ==
  LET d == drafts[a]
  IN  /\ d.at = "commit"
      /\ reviews' = reviews \cup {d.row}
      /\ summary' = [c \in DOMAIN summary |-> IF c \in Changed(d) THEN d.found[c] ELSE summary[c]]
      /\ drafts' = [b \in Authors |-> IF b = a THEN NoDraft ELSE Passed(drafts[b], d.row)]

(* A handler that dies: nothing of it was committed. *)
DraftDies(a) ==
  /\ drafts[a].at # "none"
  /\ Discard(a)
  /\ UNCHANGED <<reviews, summary>>

ReviewNext ==
  \E a \in Authors :
    \/ \E trip \in Trips, subject \in Subjects, rating \in Ratings : Write(a, trip, subject, rating)
    \/ Insert(a) \/ ReadsRatings(a) \/ Updates(a) \/ Publish(a) \/ DraftDies(a)

ReviewSpec == ReviewInit /\ [][ReviewNext]_reviewVars

-----------------------------------------------------------------------------
(* "One review per booking per direction" (Review): rows are well-formed,  *)
(* and those in flight too.                                                *)
ReviewTypeOK ==
  /\ reviews \subseteq [trip : Trips, subject : Subjects, rating : Ratings]
  /\ \A r, s \in reviews \cup {drafts[a].row : a \in Inserted} : Same(r, s) => r = s
  /\ summary.count \in 0 .. Cardinality(Trips)

(* "The listing's average is kept denormalised so search and listing pages *)
(* never aggregate on read" (reviews/service.py): when a review of the     *)
(* space commits that no other one overtook since it read the ratings,     *)
(* each column is that of all reviews, so that it repairs what a race has  *)
(* left; except a column that was so already in the row it began with, is  *)
(* therefore not written, and was changed by another review meanwhile.     *)
SummaryStaleOnlyInRace ==
  [][\A a \in Authors :
       /\ drafts[a].at = "commit" /\ drafts[a].row.subject = "SPACE" /\ ~drafts[a].raced
       /\ drafts[a].row \in reviews' \ reviews
       => \A c \in DOMAIN summary :
            \/ summary'[c] = Aggregate(reviews')[c]
            \/ drafts[a].passed /\ drafts[a].loaded[c] = Aggregate(reviews')[c]]_reviewVars
=============================================================================
