----------------------------- MODULE ArrivalCode -----------------------------
(***************************************************************************)
(* The arrival code of one booking (bookings/arrival.py): the renter       *)
(* announces, the provider reads a short-lived code out, the renter types  *)
(* it in and is checked in.                                                *)
(*                                                                         *)
(* The requests of the renter run at the same time, each in a session of   *)
(* its own: it reads the booking, then the code row, then writes with what *)
(* it read.  A write is one step with its commit: until then the row's     *)
(* lock, or the unique index, keeps every other writer out.  Everything    *)
(* else that happens to the booking (cancellations, reports, the sweep)    *)
(* is a step of the environment.                                           *)
(***************************************************************************)
EXTENDS Integers, FiniteSets

CONSTANTS
  Visits,        \* requests in flight
  Codes,         \* what secrets.choice may draw, and the renter may type
  NoCode,        \* no row in arrival_codes
  MaxAttempts,   \* arrival_code_max_attempts
  Ttl,           \* arrival_code_ttl_minutes
  EndAt,         \* when the booking ends
  MaxClock,      \* last instant looked at (a bound)
  MaxJudged      \* guesses at one code that are followed (a bound)

(* arrival_codes *)
CodeRows == [id : Nat, code : Codes, expires : Nat, attempts : Nat, verified : BOOLEAN]

ASSUME ArrivalAssumption ==
  /\ {MaxAttempts, Ttl, EndAt, MaxClock, MaxJudged} \subseteq Nat
  /\ Ttl > 0
  /\ IsFiniteSet(Visits)
  /\ Codes # {}
  /\ NoCode \notin CodeRows

VARIABLES
  clock,     \* utcnow()
  booking,   \* Booking.status
  code,      \* the row of arrival_codes, or NoCode
  issued,    \* rows inserted so far: the last one's primary key
  judged,    \* guesses compared with the present row's code
  visits     \* per request: where it is, the row it read, what was typed

arrivalVars == <<clock, booking, code, issued, judged, visits>>

CheckInStatuses == {"CONFIRMED", "ACTIVE", "DISPUTED", "COMPLETED", "CANCELLED"}

VisitSteps == {"idle", "announce", "replace", "verify", "count", "enter"}

NoVisit == [at |-> "idle", read |-> NoCode, typed |-> CHOOSE c \in Codes : TRUE, seen |-> 0]

ArrivalInit ==
  /\ clock = 0
  /\ booking = "CONFIRMED"
  /\ code = NoCode
  /\ issued = 0
  /\ judged = 0
  /\ visits = [v \in Visits |-> NoVisit]

Leave(v) == visits' = [visits EXCEPT ![v] = NoVisit]

Live(row) == row.expires > clock

-----------------------------------------------------------------------------
(* announce: the guards on the booking; `now` is read here.                *)
Announce(v) ==
  /\ visits[v].at = "idle"
  /\ booking = "CONFIRMED"
  /\ clock <= EndAt
  /\ visits' = [visits EXCEPT ![v] = [NoVisit EXCEPT !.at = "announce", !.seen = clock]]
  /\ UNCHANGED <<clock, booking, code, issued, judged>>

(* get_code: a verified row is a conflict, a live one is the answer; none, *)
(* or one that has expired, is replaced.                                   *)
AnnounceReads(v) ==
  /\ visits[v].at = "announce"
  /\ IF code # NoCode /\ (code.verified \/ code.expires > visits[v].seen)
     THEN Leave(v)
     ELSE visits' = [visits EXCEPT ![v].at = "replace", ![v].read = code]
  /\ UNCHANGED <<clock, booking, code, issued, judged>>

(* [Mutant of Replaceable] the booking's row is deleted, whichever it is.  *)
ReplaceableAny(read) == TRUE

(* The old row is deleted by its key: any other row of the booking meets   *)
(* the insert at the unique index.                                         *)
Replaceable(read) == code = NoCode \/ (read # NoCode /\ code.id = read.id)

(* The new row; or an IntegrityError, and the request fails.               *)
AnnounceReplaces(v) ==
  /\ visits[v].at = "replace"
  /\ IF Replaceable(visits[v].read)
     THEN \E c \in Codes :
            /\ code' = [id |-> issued + 1, code |-> c, expires |-> visits[v].seen + Ttl,
                        attempts |-> 0, verified |-> FALSE]
            /\ issued' = issued + 1
            /\ judged' = 0
     ELSE UNCHANGED <<code, issued, judged>>
  /\ Leave(v)
  /\ UNCHANGED <<clock, booking>>

-----------------------------------------------------------------------------
(* verify: an ACTIVE booking is answered, one not CONFIRMED refused.       *)
Submit(v, typed) ==
  /\ visits[v].at = "idle"
  /\ booking = "CONFIRMED"
  /\ visits' = [visits EXCEPT ![v] = [NoVisit EXCEPT !.at = "verify", !.typed = typed]]
  /\ UNCHANGED <<clock, booking, code, issued, judged>>

(* The guards on the row. *)
SubmitReads(v) ==
  /\ visits[v].at = "verify"
  /\ IF code # NoCode /\ Live(code) /\ code.attempts < MaxAttempts
     THEN visits' = [visits EXCEPT ![v].at = "count", ![v].read = code]
     ELSE Leave(v)
  /\ UNCHANGED <<clock, booking, code, issued, judged>>

(* An UPDATE by key matches the row that was read, if it is still there.   *)
(* Otherwise it is a StaleDataError, and the request fails.                *)
SameRow(read) == code # NoCode /\ code.id = read.id

(* [Mutant of CountedAttempt] only flushed: a wrong code rolls it back.    *)
CountedIfRight(read, typed) == IF read.code = typed THEN read.attempts + 1 ELSE code.attempts

(* [Mutant of CountedAttempt] the database adds one, after the guard.      *)
CountedInPlace(read, typed) == code.attempts + 1

(* The attempt is committed, as the value read plus one. *)
CountedAttempt(read, typed) == read.attempts + 1

SubmitCounts(v) ==
  LET visit == visits[v]
  IN  /\ visit.at = "count"
      /\ judged < MaxJudged
      /\ IF SameRow(visit.read)
         THEN /\ code' = [code EXCEPT !.attempts = CountedAttempt(visit.read, visit.typed)]
              /\ judged' = judged + 1
              /\ IF visit.read.code = visit.typed
                 THEN visits' = [visits EXCEPT ![v].at = "enter"]
                 ELSE Leave(v)
         ELSE /\ Leave(v)
              /\ UNCHANGED <<code, judged>>
      /\ UNCHANGED <<clock, booking, issued>>

(* [Mutant of Enterable] the booking is checked in, whatever the row.      *)
EnterableAny(read) == code # NoCode

Enterable(read) == SameRow(read)

(* verified_at and ACTIVE, on whatever the booking has become meanwhile.   *)
Enter(v) ==
  /\ visits[v].at = "enter"
  /\ IF Enterable(visits[v].read)
     THEN /\ code' = [code EXCEPT !.verified = TRUE]
          /\ booking' = "ACTIVE"
     ELSE UNCHANGED <<code, booking>>
  /\ Leave(v)
  /\ UNCHANGED <<clock, issued, judged>>

(* A handler that dies: what it did not commit is gone. *)
VisitDies(v) ==
  /\ visits[v].at # "idle"
  /\ Leave(v)
  /\ UNCHANGED <<clock, booking, code, issued, judged>>

-----------------------------------------------------------------------------
(* What the rest of the application does to the booking.                   *)
BookingMoves(to) ==
  /\ \/ booking = "CONFIRMED" /\ to = "CANCELLED"
     \/ booking = "ACTIVE" /\ to = "COMPLETED"
     \/ booking \in {"CONFIRMED", "ACTIVE", "COMPLETED"} /\ to = "DISPUTED"
     \/ booking = "DISPUTED" /\ to = IF EndAt <= clock THEN "COMPLETED" ELSE "CONFIRMED"
  /\ booking' = to
  /\ UNCHANGED <<clock, code, issued, judged, visits>>

ArrivalTick ==
  /\ clock < MaxClock
  /\ clock' = clock + 1
  /\ UNCHANGED <<booking, code, issued, judged, visits>>

ArrivalNext ==
  \/ \E v \in Visits : \/ Announce(v) \/ AnnounceReads(v) \/ AnnounceReplaces(v)
                       \/ \E c \in Codes : Submit(v, c)
                       \/ SubmitReads(v) \/ SubmitCounts(v) \/ Enter(v) \/ VisitDies(v)
  \/ \E to \in CheckInStatuses : BookingMoves(to)
  \/ ArrivalTick

ArrivalSpec == ArrivalInit /\ [][ArrivalNext]_arrivalVars

-----------------------------------------------------------------------------
(* A row holds a code, and the counter never exceeds its limit; what a     *)
(* request holds is a row that was there.                                  *)
ArrivalTypeOK ==
  /\ clock \in 0 .. MaxClock
  /\ booking \in CheckInStatuses
  /\ issued \in Nat
  /\ judged \in 0 .. MaxJudged
  /\ code # NoCode =>
       /\ code.id = issued
       /\ code.code \in Codes
       /\ code.attempts \in 0 .. MaxAttempts
       /\ code.expires <= clock + Ttl
  /\ \A v \in Visits : /\ visits[v].at \in VisitSteps
                       /\ visits[v].at \in {"count", "enter"} => visits[v].read # NoCode
                       /\ visits[v].read # NoCode => visits[v].read.id \in 1 .. issued

(* "Re-announcing before the current code expires returns the same code"   *)
(* (announce): whatever announcements race, after an expiry too, the       *)
(* number the provider reads out is replaced only once it has expired.     *)
LiveCodeKept ==
  [][code # NoCode /\ code'.id # code.id => ~Live(code)]_arrivalVars

(* A check-in is by the code that is in the table at that moment: a code   *)
(* that was judged right and has been replaced since checks nobody in      *)
(* (verify commits the attempt first, and goes on with what it had read).  *)
CheckInWithLiveCode ==
  [][booking # "ACTIVE" /\ booking' = "ACTIVE" =>
       \E v \in Visits : /\ visits[v].at = "enter"
                         /\ code # NoCode /\ code.code = visits[v].typed
                         /\ code.id = visits[v].read.id]_arrivalVars

(* The ways to spread the requests over the values of the counter: how     *)
(* many of them stand at each.                                             *)
Spreads ==
  {[n \in 0 .. MaxAttempts |-> Cardinality({v \in Visits : at[v] = n})] :
     at \in [Visits -> 0 .. MaxAttempts]}

(* "Burns after a handful of wrong guesses" (ArrivalCode): each request    *)
(* writes the count it has read plus one, so that requests running at the  *)
(* same time make the counter forget guesses, and can set it back; but no  *)
(* spread of them over its values comes twice, so that the guesses judged  *)
(* against one code stay fewer than the spreads (with one request at a     *)
(* time that is MaxAttempts, with two MaxAttempts * (MaxAttempts + 3) / 2).*)
GuessesBounded == judged < Cardinality(Spreads)
=============================================================================
