---------------------------- MODULE OfficeProofs -----------------------------
(***************************************************************************)
(* Theorems about the small parts that MCOffice composes, and about their  *)
(* composition: for any number of requests, of codes and attempts, of      *)
(* vehicles and drivers, and of admins.                                    *)
(*                                                                         *)
(* ArrivalCode.  A request decides by a row it has read, and the row may be *)
(* counted up, or replaced, before it writes.  The invariant says what is  *)
(* left of the decision then (VisitOK): a row that still has the key that  *)
(* was read has the code and the expiry that were read, and what had       *)
(* expired when the announcement began has expired now.  How many guesses  *)
(* there can be is counted by the spreads of the requests over the values  *)
(* of the counter (Spent), below.                                          *)
(*                                                                         *)
(* Settings.  Whoever waits has written only fields that come before the   *)
(* ones it has yet to write (InOrder); of the requests under way the one   *)
(* that waits for the last field of all would be waiting for a request     *)
(* whose next field comes later still.                                     *)
(*                                                                         *)
(* Vehicles.  A request holds the locks of what it has written, and nobody *)
(* else has written the plate it holds (Apart); a row that it has loaded   *)
(* and that no other has changed since is the row that stands (Informed),  *)
(* and what it is about to commit leaves one default (Heir).               *)
(*                                                                         *)
(* The office.  A step of the composition is a step of one part, and leaves *)
(* the variables of the others alone.                                      *)
(***************************************************************************)
EXTENDS MCOffice, SpacesProofs, TokensProofs, WellFoundedInduction

-----------------------------------------------------------------------------
VisitRecords == [at : VisitSteps, read : CodeRows \cup {NoCode}, typed : Codes, seen : Nat]

(* What a request may go on with. *)
VisitOK(visit) ==
  /\ visit.seen <= clock
  /\ visit.read # NoCode => visit.read.id \in 1 .. issued
  /\ visit.read # NoCode /\ code # NoCode /\ visit.read.id = code.id
       => visit.read.code = code.code /\ visit.read.expires = code.expires
  /\ visit.at = "replace" /\ visit.read # NoCode => visit.read.expires <= visit.seen
  /\ visit.at \in {"count", "enter"} => visit.read # NoCode /\ visit.read.attempts < MaxAttempts
  /\ visit.at = "enter" => visit.read.code = visit.typed

RowOK ==
  code # NoCode => /\ code.id = issued /\ issued > 0
                   /\ code.attempts <= MaxAttempts
                   /\ code.expires <= clock + Ttl

ArrivalInv ==
  /\ clock \in 0 .. MaxClock
  /\ booking \in CheckInStatuses
  /\ issued \in Nat
  /\ judged \in 0 .. MaxJudged
  /\ code \in CodeRows \cup {NoCode}
  /\ RowOK
  /\ visits \in [Visits -> VisitRecords]
  /\ \A v \in Visits : VisitOK(visits[v])

LEMMA NoVisitHeld == ASSUME clock \in Nat PROVE NoVisit \in VisitRecords /\ VisitOK(NoVisit)
<1>1. (CHOOSE c \in Codes : TRUE) \in Codes
  BY ArrivalAssumption
<1>2. QED
  BY <1>1 DEF NoVisit, VisitRecords, VisitSteps, VisitOK

LEMMA ArrivalInvInit == ArrivalInit => ArrivalInv
<1> SUFFICES ASSUME ArrivalInit PROVE ArrivalInv
  OBVIOUS
<1>1. clock = 0 /\ issued = 0 /\ judged = 0 /\ code = NoCode /\ booking = "CONFIRMED"
  BY DEF ArrivalInit
<1>2. clock \in 0 .. MaxClock /\ judged \in 0 .. MaxJudged
  BY <1>1, ArrivalAssumption
<1>3. QED
  BY <1>1, <1>2, NoVisitHeld DEF ArrivalInit, ArrivalInv, RowOK, CheckInStatuses

(* Steps that change one request and nothing else.                         *)
LEMMA VisitMoves ==
  ASSUME ArrivalInv, NEW v \in Visits, NEW visit \in VisitRecords, VisitOK(visit),
         visits' = [visits EXCEPT ![v] = visit],
         UNCHANGED <<clock, booking, code, issued, judged>>
  PROVE  ArrivalInv'
<1>1. ASSUME NEW u \in Visits PROVE VisitOK(visits[u])'
  BY DEF ArrivalInv, VisitOK
<1>2. QED
  BY <1>1 DEF ArrivalInv, RowOK

LEMMA VisitLeaves ==
  ASSUME ArrivalInv, NEW v \in Visits, Leave(v), UNCHANGED <<clock, booking, code, issued, judged>>
  PROVE  ArrivalInv'
<1>1. clock \in Nat
  BY ArrivalAssumption DEF ArrivalInv
<1>2. QED
  BY <1>1, NoVisitHeld, VisitMoves DEF Leave

(* Steps that also change what the row counts and whether it is verified.  *)
LEMMA RowCounts ==
  ASSUME ArrivalInv, NEW v \in Visits, NEW visit \in VisitRecords, VisitOK(visit),
         visits' = [visits EXCEPT ![v] = visit],
         code # NoCode, code' \in CodeRows, code'.attempts <= MaxAttempts,
         code'.id = code.id, code'.code = code.code, code'.expires = code.expires,
         booking' \in CheckInStatuses, judged' \in 0 .. MaxJudged,
         UNCHANGED <<clock, issued>>
  PROVE  ArrivalInv'
<1>1. code' # NoCode
  BY ArrivalAssumption
<1>2. ASSUME NEW u \in Visits PROVE VisitOK(visits[u])'
  <2>1. visits'[u] = visit \/ visits'[u] = visits[u]
    BY DEF ArrivalInv
  <2>2. QED
    BY <1>1, <2>1 DEF ArrivalInv, VisitOK
<1>3. QED
  BY <1>1, <1>2 DEF ArrivalInv, RowOK

LEMMA ArrivalInvStep == ArrivalInv /\ [ArrivalNext]_arrivalVars => ArrivalInv'
<1> SUFFICES ASSUME ArrivalInv, [ArrivalNext]_arrivalVars PROVE ArrivalInv'
  OBVIOUS
<1>0. clock \in Nat
  BY ArrivalAssumption DEF ArrivalInv
<1>1. ASSUME NEW v \in Visits, Announce(v) PROVE ArrivalInv'
  <2> DEFINE visit == [NoVisit EXCEPT !.at = "announce", !.seen = clock]
  <2>3. NoVisit \in VisitRecords /\ NoVisit.read = NoCode
    BY <1>0, NoVisitHeld DEF NoVisit
  <2>4. visit \in VisitRecords /\ visit.at = "announce" /\ visit.seen = clock /\ visit.read = NoCode
    BY <1>0, <2>3 DEF VisitRecords, VisitSteps
  <2>1. visit \in VisitRecords /\ VisitOK(visit)
    BY <1>0, <2>4 DEF VisitOK
  <2>2. QED
    BY <1>1, <2>1, VisitMoves DEF Announce
<1>2. ASSUME NEW v \in Visits, AnnounceReads(v) PROVE ArrivalInv'
  <2>1. CASE code # NoCode /\ (code.verified \/ code.expires > visits[v].seen)
    BY <1>2, <2>1, VisitLeaves DEF AnnounceReads
  <2>2. CASE ~(code # NoCode /\ (code.verified \/ code.expires > visits[v].seen))
    <3> DEFINE visit == [visits[v] EXCEPT !.at = "replace", !.read = code]
    <3>1. visit \in VisitRecords /\ visit.at = "replace" /\ visit.read = code /\ visit.seen = visits[v].seen
      BY DEF ArrivalInv, VisitRecords, VisitSteps
    <3>2. code # NoCode => code.expires <= visits[v].seen /\ code.id \in 1 .. issued
      <4>1. ASSUME code # NoCode PROVE code.expires <= visits[v].seen
        <5>1. ~(code.expires > visits[v].seen)
          BY <2>2, <4>1, Zenon
        <5>2. code.expires \in Nat /\ visits[v].seen \in Nat
          BY <4>1 DEF ArrivalInv, CodeRows, VisitRecords
        <5>3. QED
          BY <5>1, <5>2
      <4>2. ASSUME code # NoCode PROVE code.id \in 1 .. issued
        BY <4>2 DEF ArrivalInv, CodeRows, RowOK
      <4>3. QED
        BY <4>1, <4>2
    <3>3. VisitOK(visit)
      BY <3>1, <3>2 DEF ArrivalInv, VisitOK
    <3>4. visits' = [visits EXCEPT ![v] = visit]
      BY <1>2, <2>2 DEF AnnounceReads, ArrivalInv
    <3>5. QED
      BY <1>2, <3>1, <3>3, <3>4, VisitMoves DEF AnnounceReads
  <2>3. QED
    BY <2>1, <2>2
<1>3. ASSUME NEW v \in Visits, AnnounceReplaces(v) PROVE ArrivalInv'
  <2>1. CASE ~Replaceable(visits[v].read)
    BY <1>3, <2>1, VisitLeaves DEF AnnounceReplaces
  <2>2. CASE Replaceable(visits[v].read)
    <3>1. PICK c \in Codes :
            code' = [id |-> issued + 1, code |-> c, expires |-> visits[v].seen + Ttl,
                     attempts |-> 0, verified |-> FALSE]
      BY <1>3, <2>2 DEF AnnounceReplaces
    <3>2. /\ issued' = issued + 1 /\ judged' = 0 /\ UNCHANGED <<clock, booking>>
          /\ visits' = [visits EXCEPT ![v] = NoVisit]
      BY <1>3, <2>2 DEF AnnounceReplaces, Leave
    <3>3. visits[v].seen \in Nat /\ visits[v].seen <= clock /\ issued \in Nat
      BY DEF ArrivalInv, VisitRecords, VisitOK
    <3>4. /\ code' \in CodeRows /\ code'.id = issued' /\ code'.attempts <= MaxAttempts
          /\ code'.expires <= clock' + Ttl
      BY <1>0, <3>1, <3>2, <3>3, ArrivalAssumption DEF CodeRows
    <3>5. ASSUME NEW u \in Visits PROVE visits'[u] \in VisitRecords /\ VisitOK(visits[u])'
      <4>1. CASE u = v
        <5>1. visits'[u] = NoVisit
          BY <3>2, <4>1 DEF ArrivalInv
        <5>2. QED
          BY <1>0, <3>2, <5>1, NoVisitHeld DEF NoVisit, VisitOK
      <4>2. CASE u # v
        <5>1. visits'[u] = visits[u]
          BY <3>2, <4>2 DEF ArrivalInv
        <5>2. visits[u].read # NoCode => visits[u].read.id \in 1 .. issued /\ visits[u].read.id # issued'
          BY <3>2, <3>3 DEF ArrivalInv, VisitOK
        <5>3. QED
          BY <3>2, <3>3, <3>4, <5>1, <5>2 DEF ArrivalInv, VisitOK
      <4>3. QED
        BY <4>1, <4>2
    <3>6. visits' \in [Visits -> VisitRecords]
      BY <3>2, <3>5 DEF ArrivalInv
    <3>7. QED
      BY <3>2, <3>3, <3>4, <3>5, <3>6, ArrivalAssumption DEF ArrivalInv, RowOK
  <2>3. QED
    BY <2>1, <2>2
<1>4. ASSUME NEW v \in Visits, NEW typed \in Codes, Submit(v, typed) PROVE ArrivalInv'
  <2> DEFINE visit == [NoVisit EXCEPT !.at = "verify", !.typed = typed]
  <2>3. NoVisit \in VisitRecords /\ NoVisit.read = NoCode /\ NoVisit.seen = 0
    BY <1>0, NoVisitHeld DEF NoVisit
  <2>4. visit \in VisitRecords /\ visit.at = "verify" /\ visit.seen = 0 /\ visit.read = NoCode
    BY <2>3 DEF VisitRecords, VisitSteps
  <2>1. visit \in VisitRecords /\ VisitOK(visit)
    BY <1>0, <2>4 DEF VisitOK
  <2>2. QED
    BY <1>4, <2>1, VisitMoves DEF Submit
<1>5. ASSUME NEW v \in Visits, SubmitReads(v) PROVE ArrivalInv'
  <2>1. CASE ~(code # NoCode /\ Live(code) /\ code.attempts < MaxAttempts)
    BY <1>5, <2>1, VisitLeaves DEF SubmitReads
  <2>2. CASE code # NoCode /\ Live(code) /\ code.attempts < MaxAttempts
    <3> DEFINE visit == [visits[v] EXCEPT !.at = "count", !.read = code]
    <3>1. visit \in VisitRecords /\ visit.at = "count" /\ visit.read = code /\ visit.seen = visits[v].seen
      BY DEF ArrivalInv, VisitRecords, VisitSteps
    <3>2. code.id \in 1 .. issued
      BY <2>2 DEF ArrivalInv, CodeRows, RowOK
    <3>3. VisitOK(visit)
      BY <2>2, <3>1, <3>2 DEF ArrivalInv, VisitOK
    <3>4. visits' = [visits EXCEPT ![v] = visit]
      BY <1>5, <2>2 DEF SubmitReads, ArrivalInv
    <3>5. QED
      BY <1>5, <3>1, <3>3, <3>4, VisitMoves DEF SubmitReads
  <2>3. QED
    BY <2>1, <2>2
<1>6. ASSUME NEW v \in Visits, SubmitCounts(v) PROVE ArrivalInv'
  <2>1. CASE ~SameRow(visits[v].read)
    BY <1>6, <2>1, VisitLeaves DEF SubmitCounts
  <2>2. CASE SameRow(visits[v].read)
    <3>1. code # NoCode /\ code \in CodeRows
      BY <2>2 DEF SameRow, ArrivalInv
    <3>2. visits[v].read.attempts \in Nat /\ visits[v].read.attempts < MaxAttempts
      BY <1>6 DEF SubmitCounts, ArrivalInv, VisitOK, VisitRecords, CodeRows
    <3>3. code' = [code EXCEPT !.attempts = visits[v].read.attempts + 1]
      BY <1>6, <2>2 DEF SubmitCounts, CountedAttempt
    <3>4. /\ code' \in CodeRows /\ code'.attempts <= MaxAttempts
          /\ code'.id = code.id /\ code'.code = code.code /\ code'.expires = code.expires
      BY <3>1, <3>2, <3>3, ArrivalAssumption DEF CodeRows
    <3>5. judged' \in 0 .. MaxJudged /\ booking' \in CheckInStatuses /\ UNCHANGED <<clock, issued>>
      BY <1>6, <2>2, ArrivalAssumption DEF SubmitCounts, ArrivalInv
    <3>6. CASE visits[v].read.code = visits[v].typed
      <4> DEFINE visit == [visits[v] EXCEPT !.at = "enter"]
      <4>1. /\ visit \in VisitRecords /\ visit.at = "enter" /\ visit.read = visits[v].read
            /\ visit.seen = visits[v].seen /\ visit.typed = visits[v].typed
        BY DEF ArrivalInv, VisitRecords, VisitSteps
      <4>2. VisitOK(visit)
        BY <1>6, <3>6, <4>1 DEF SubmitCounts, ArrivalInv, VisitOK
      <4>3. visits' = [visits EXCEPT ![v] = visit]
        BY <1>6, <2>2, <3>6 DEF SubmitCounts, ArrivalInv
      <4>4. QED
        BY <3>1, <3>4, <3>5, <4>1, <4>2, <4>3, RowCounts
    <3>7. CASE visits[v].read.code # visits[v].typed
      BY <1>0, <1>6, <2>2, <3>1, <3>4, <3>5, <3>7, NoVisitHeld, RowCounts DEF SubmitCounts, Leave
    <3>8. QED
      BY <3>6, <3>7
  <2>3. QED
    BY <2>1, <2>2
<1>7. ASSUME NEW v \in Visits, Enter(v) PROVE ArrivalInv'
  <2>1. CASE ~Enterable(visits[v].read)
    BY <1>7, <2>1, VisitLeaves DEF Enter
  <2>2. CASE Enterable(visits[v].read)
    <3>1. code # NoCode /\ code \in CodeRows /\ code.attempts <= MaxAttempts
      BY <2>2 DEF Enterable, SameRow, ArrivalInv, RowOK
    <3>2. code' = [code EXCEPT !.verified = TRUE]
      BY <1>7, <2>2 DEF Enter
    <3>3. /\ code' \in CodeRows /\ code'.attempts <= MaxAttempts
          /\ code'.id = code.id /\ code'.code = code.code /\ code'.expires = code.expires
      BY <3>1, <3>2 DEF CodeRows
    <3>4. booking' \in CheckInStatuses /\ judged' \in 0 .. MaxJudged /\ UNCHANGED <<clock, issued>>
      BY <1>7, <2>2 DEF Enter, CheckInStatuses, ArrivalInv
    <3>5. QED
      BY <1>0, <1>7, <3>1, <3>3, <3>4, NoVisitHeld, RowCounts DEF Enter, Leave
  <2>3. QED
    BY <2>1, <2>2
<1>8. ASSUME NEW v \in Visits, VisitDies(v) PROVE ArrivalInv'
  BY <1>8, VisitLeaves DEF VisitDies
<1>9. ASSUME NEW to \in CheckInStatuses, BookingMoves(to) PROVE ArrivalInv'
  BY <1>9 DEF BookingMoves, ArrivalInv, RowOK, VisitOK
<1>10. CASE ArrivalTick
  <2>1. clock' = clock + 1 /\ clock' \in 0 .. MaxClock /\ UNCHANGED <<booking, code, issued, judged, visits>>
    BY <1>0, <1>10, ArrivalAssumption DEF ArrivalTick
  <2>2. ASSUME NEW u \in Visits PROVE VisitOK(visits[u])'
    BY <1>0, <2>1 DEF ArrivalInv, VisitOK, VisitRecords
  <2>3. RowOK'
    BY <1>0, <2>1, ArrivalAssumption DEF ArrivalInv, RowOK, CodeRows
  <2>4. QED
    BY <2>1, <2>2, <2>3 DEF ArrivalInv
<1>11. CASE UNCHANGED arrivalVars
  BY <1>11 DEF arrivalVars, ArrivalInv, RowOK, VisitOK
<1>12. QED
  BY <1>1, <1>2, <1>3, <1>4, <1>5, <1>6, <1>7, <1>8, <1>9, <1>10, <1>11 DEF ArrivalNext

(* The row of arrival_codes is well-formed: its counter never exceeds the  *)
(* limit of attempts, whatever requests race for it.                       *)
THEOREM CodesWellFormed == ArrivalSpec => []ArrivalTypeOK
<1>1. ArrivalInv => ArrivalTypeOK
  BY DEF ArrivalInv, ArrivalTypeOK, RowOK, CodeRows, VisitOK, VisitRecords
<1>2. QED
  BY <1>1, ArrivalInvInit, ArrivalInvStep, PTL DEF ArrivalSpec

-----------------------------------------------------------------------------
(* "Re-announcing before the current code expires returns the same code"   *)
(* (announce), for any number of announcements and guesses in flight.      *)
THEOREM LiveCodesAreKept == ArrivalSpec => LiveCodeKept
<1>1. ASSUME ArrivalInv, [ArrivalNext]_arrivalVars
      PROVE  [code # NoCode /\ code'.id # code.id => ~Live(code)]_arrivalVars
  <2> SUFFICES ASSUME ArrivalNext, code # NoCode, code'.id # code.id PROVE ~Live(code)
    BY <1>1
  <2>1. ASSUME NEW v \in Visits, AnnounceReplaces(v) PROVE ~Live(code)
    <3>1. visits[v].read # NoCode /\ code.id = visits[v].read.id
      BY <2>1 DEF AnnounceReplaces, Replaceable
    <3>2. code.expires <= visits[v].seen /\ visits[v].seen <= clock
      BY <1>1, <2>1, <3>1 DEF AnnounceReplaces, ArrivalInv, VisitOK
    <3>3. code.expires \in Nat /\ visits[v].seen \in Nat /\ clock \in Nat
      BY <1>1, ArrivalAssumption DEF ArrivalInv, CodeRows, VisitRecords
    <3>4. QED
      BY <3>2, <3>3 DEF Live
  <2>2. ASSUME NEW v \in Visits, SubmitCounts(v) PROVE FALSE
    BY <1>1, <2>2 DEF SubmitCounts, ArrivalInv, CodeRows
  <2>3. ASSUME NEW v \in Visits, Enter(v) PROVE FALSE
    BY <1>1, <2>3 DEF Enter, ArrivalInv, CodeRows
  <2>4. QED
    BY <2>1, <2>2, <2>3
    DEF ArrivalNext, Announce, AnnounceReads, Submit, SubmitReads, VisitDies, BookingMoves, ArrivalTick
<1>2. QED
  BY <1>1, ArrivalInvInit, ArrivalInvStep, PTL DEF ArrivalSpec, LiveCodeKept

(* A check-in is by the code in the table at that moment: verify goes on   *)
(* with a row it read before it committed the attempt, and may find it     *)
(* replaced.                                                               *)
THEOREM CheckInsAreByLiveCodes == ArrivalSpec => CheckInWithLiveCode
<1> DEFINE ByLiveCode ==
      \E v \in Visits : /\ visits[v].at = "enter"
                        /\ code # NoCode /\ code.code = visits[v].typed
                        /\ code.id = visits[v].read.id
<1>1. ASSUME ArrivalInv, [ArrivalNext]_arrivalVars
      PROVE  [booking # "ACTIVE" /\ booking' = "ACTIVE" => ByLiveCode]_arrivalVars
  <2> SUFFICES ASSUME ArrivalNext, booking # "ACTIVE", booking' = "ACTIVE" PROVE ByLiveCode
    BY <1>1
  <2>1. ASSUME NEW v \in Visits, Enter(v) PROVE ByLiveCode
    <3>1. visits[v].at = "enter" /\ code # NoCode /\ code.id = visits[v].read.id
      BY <2>1 DEF Enter, Enterable, SameRow
    <3>2. code.code = visits[v].typed
      BY <1>1, <3>1 DEF ArrivalInv, VisitOK
    <3>3. QED
      BY <3>1, <3>2
  <2>2. ASSUME NEW to \in CheckInStatuses, BookingMoves(to) PROVE FALSE
    BY <2>2 DEF BookingMoves
  <2>3. QED
    BY <2>1, <2>2
    DEF ArrivalNext, Announce, AnnounceReads, AnnounceReplaces, Submit, SubmitReads, SubmitCounts, VisitDies,
        ArrivalTick
<1>2. QED
  BY <1>1, ArrivalInvInit, ArrivalInvStep, PTL DEF ArrivalSpec, CheckInWithLiveCode

-----------------------------------------------------------------------------
(* How many guesses at one code there can be.  Each request stands at a    *)
(* value of the counter: at the one it will count from, if that is less    *)
(* than the counter, and else at the counter itself (Stand).  A guess      *)
(* takes a request away from the least value involved, and moves others    *)
(* up at most, so that the spread of the requests over the values gets     *)
(* lower (Lower), in the order that looks at the least value first; no     *)
(* other step makes it higher, until there is a new code.                  *)
Values == 0 .. MaxAttempts

Counts(v) == visits[v].at = "count" /\ visits[v].read.id = code.id

Stand(v) ==
  IF Counts(v) /\ visits[v].read.attempts < code.attempts THEN visits[v].read.attempts ELSE code.attempts

Stands == [v \in Visits |-> Stand(v)]

Those(at, n) == {v \in Visits : at[v] = n}

Spread(at) == [n \in Values |-> Cardinality(Those(at, n))]

Lower(t, s) == \E n \in Values : t[n] < s[n] /\ \A m \in Values : m < n => t[m] = s[m]

(* Every guess has left a spread behind that does not come again.          *)
Spent ==
  /\ code = NoCode => judged = 0
  /\ code # NoCode =>
       \E past \in SUBSET Spreads : /\ Cardinality(past) = judged
                                    /\ \A s \in past : Lower(Spread(Stands), s)

LEMMA ThoseFinite ==
  ASSUME NEW at, NEW n
  PROVE  IsFiniteSet(Those(at, n)) /\ Cardinality(Those(at, n)) \in Nat
<1>1. Those(at, n) \in SUBSET Visits
  BY DEF Those
<1>2. QED
  BY <1>1, FS_Subset, FS_CardinalityType, ArrivalAssumption

LEMMA SpreadIs ==
  ASSUME NEW at \in [Visits -> Values]
  PROVE  Spread(at) \in Spreads
BY DEF Spread, Spreads, Those, Values

LEMMA SpreadsCount == Spreads \subseteq [Values -> Nat]
<1>1. ASSUME NEW at \in [Visits -> Values] PROVE Spread(at) \in [Values -> Nat]
  BY ThoseFinite DEF Spread
<1>2. ASSUME NEW s \in Spreads PROVE s \in [Values -> Nat]
  <2>1. PICK at \in [Visits -> Values] : s = [n \in Values |-> Cardinality({v \in Visits : at[v] = n})]
    BY DEF Spreads, Values
  <2>2. s = Spread(at)
    BY <2>1 DEF Spread, Those
  <2>3. QED
    BY <1>1, <2>2
<1>3. QED
  BY <1>2

LEMMA SpreadsFinite == IsFiniteSet(Spreads)
<1> DEFINE graphs == SUBSET (Visits \X Values)
           of(g) == [n \in Values |-> Cardinality({v \in Visits : <<v, n>> \in g})]
           f == [g \in graphs |-> of(g)]
           range == {f[g] : g \in graphs}
<1>1. IsFiniteSet(graphs)
  <2>1. IsFiniteSet(Values)
    BY FS_Interval, ArrivalAssumption DEF Values
  <2>2. IsFiniteSet(Visits \X Values)
    BY <2>1, FS_Product, ArrivalAssumption
  <2>3. QED
    BY <2>2, FS_SUBSET
<1>2. f \in Surjection(graphs, range)
  <2> HIDE DEF graphs, of
  <2>1. f \in [graphs -> range] /\ \A s \in range : \E g \in graphs : f[g] = s
    OBVIOUS
  <2>2. QED
    BY <2>1 DEF Surjection
<1>3. IsFiniteSet(range)
  <2> HIDE DEF graphs, f, range
  <2>1. QED
    BY <1>1, <1>2, FS_Surjection
<1>4. ASSUME NEW s \in Spreads PROVE s \in range
  <2>1. PICK at \in [Visits -> Values] : s = [n \in Values |-> Cardinality({v \in Visits : at[v] = n})]
    BY DEF Spreads, Values
  <2> DEFINE g == {p \in Visits \X Values : at[p[1]] = p[2]}
  <2>2. g \in graphs
    OBVIOUS
  <2>3. ASSUME NEW n \in Values PROVE {v \in Visits : <<v, n>> \in g} = {v \in Visits : at[v] = n}
    OBVIOUS
  <2> HIDE DEF g
  <2>4. of(g) = s
    BY <2>1, <2>3
  <2> HIDE DEF graphs, of
  <2>5. f[g] = s
    BY <2>2, <2>4
  <2>6. QED
    BY <2>2, <2>5
<1>5. Spreads \in SUBSET range
  BY <1>4
<1> HIDE DEF range
<1>6. QED
  BY <1>3, <1>5, FS_Subset

LEMMA LowerOrders ==
  ASSUME NEW s \in Spreads, NEW t \in Spreads, NEW u \in Spreads
  PROVE  ~Lower(s, s) /\ (Lower(t, s) /\ Lower(u, t) => Lower(u, s))
<1>1. /\ \A n \in Values : s[n] \in Nat /\ t[n] \in Nat /\ u[n] \in Nat
      /\ Values \subseteq Nat
  BY SpreadsCount, ArrivalAssumption DEF Values
<1>2. ~Lower(s, s)
  BY <1>1 DEF Lower
<1>3. ASSUME Lower(t, s), Lower(u, t) PROVE Lower(u, s)
  <2>1. PICK n \in Values : t[n] < s[n] /\ \A m \in Values : m < n => t[m] = s[m]
    BY <1>3 DEF Lower
  <2>2. PICK k \in Values : u[k] < t[k] /\ \A m \in Values : m < k => u[m] = t[m]
    BY <1>3 DEF Lower
  <2>3. CASE n <= k
    <3>1. u[n] < s[n] /\ \A m \in Values : m < n => u[m] = s[m]
      BY <1>1, <2>1, <2>2, <2>3
    <3>2. QED
      BY <3>1 DEF Lower
  <2>4. CASE k < n
    <3>1. u[k] < s[k] /\ \A m \in Values : m < k => u[m] = s[m]
      BY <1>1, <2>1, <2>2, <2>4
    <3>2. QED
      BY <3>1 DEF Lower
  <2>5. QED
    BY <1>1, <2>3, <2>4
<1>4. QED
  BY <1>2, <1>3

(* Those below n stay, one leaves n for a higher value, and no one comes.  *)
LEMMA Lowers ==
  ASSUME NEW a \in [Visits -> Values], NEW b \in [Visits -> Values], NEW n \in Values,
         \A v \in Visits : a[v] < n => b[v] = a[v],
         \A v \in Visits : a[v] >= n => b[v] >= n,
         \A v \in Visits : b[v] = n => a[v] = n,
         \E v \in Visits : a[v] = n /\ b[v] # n
  PROVE  Lower(Spread(b), Spread(a))
<1>0. Values \subseteq Nat
  BY DEF Values
<1>1. ASSUME NEW m \in Values, m < n PROVE Those(b, m) = Those(a, m)
  <2>1. ASSUME NEW v \in Visits PROVE a[v] = m <=> b[v] = m
    <3>1. a[v] \in Nat /\ b[v] \in Nat /\ m \in Nat /\ n \in Nat
      BY <1>0
    <3>2. CASE a[v] < n
      BY <3>2
    <3>3. CASE a[v] >= n
      BY <1>1, <3>1, <3>3
    <3>4. QED
      BY <3>1, <3>2, <3>3
  <2>2. QED
    BY <2>1 DEF Those
<1>2. Those(b, n) \subseteq Those(a, n) /\ Those(b, n) # Those(a, n)
  BY DEF Those
<1>3. Cardinality(Those(b, n)) < Cardinality(Those(a, n))
  <2>1. Cardinality(Those(b, n)) <= Cardinality(Those(a, n)) /\ Cardinality(Those(a, n)) # Cardinality(Those(b, n))
    BY <1>2, ThoseFinite, FS_Subset
  <2>2. QED
    BY <2>1, ThoseFinite
<1>4. QED
  BY <1>1, <1>3 DEF Lower, Spread

StandsOK ==
  code # NoCode =>
    /\ Stands \in [Visits -> Values] /\ code.attempts \in Values
    /\ \A v \in Visits : Counts(v) => visits[v].read.attempts \in Values
                                      /\ visits[v].read.attempts < MaxAttempts

LEMMA StandsTyped == ArrivalInv => StandsOK
<1> SUFFICES ASSUME ArrivalInv, code # NoCode
             PROVE  /\ Stands \in [Visits -> Values] /\ code.attempts \in Values
                    /\ \A v \in Visits : Counts(v) => visits[v].read.attempts \in Values
                                                     /\ visits[v].read.attempts < MaxAttempts
  BY DEF StandsOK
<1>1. code.attempts \in Values
  BY ArrivalAssumption DEF ArrivalInv, RowOK, CodeRows, Values
<1>2. ASSUME NEW v \in Visits, Counts(v)
      PROVE  visits[v].read.attempts \in Values /\ visits[v].read.attempts < MaxAttempts
  <2>1. visits[v] \in VisitRecords /\ visits[v].read # NoCode /\ visits[v].read.attempts < MaxAttempts
    BY <1>2 DEF Counts, ArrivalInv, VisitOK
  <2>2. QED
    BY <2>1, ArrivalAssumption DEF VisitRecords, CodeRows, Values
<1>3. QED
  BY <1>1, <1>2 DEF Stands, Stand

LEMMA StandsTypedNext == ArrivalInv' => StandsOK'
BY StandsTyped, PTL

(* The spreads of the past stay above the present one, ...                 *)
LEMMA SpentFalls ==
  ASSUME ArrivalInv, ArrivalInv', Spent, code # NoCode, code' # NoCode, UNCHANGED judged,
         Stands' = Stands \/ Lower(Spread(Stands'), Spread(Stands))
  PROVE  Spent'
<1>1. PICK past \in SUBSET Spreads : Cardinality(past) = judged /\ \A s \in past : Lower(Spread(Stands), s)
  BY DEF Spent
<1>2. Spread(Stands) \in Spreads /\ Spread(Stands') \in Spreads
  BY StandsTyped, StandsTypedNext, SpreadIs DEF StandsOK
<1>3. \A s \in past : Lower(Spread(Stands'), s)
  BY <1>1, <1>2, LowerOrders
<1>4. QED
  BY <1>1, <1>3 DEF Spent

(* ... which a guess adds to them.                                         *)
LEMMA SpentGrows ==
  ASSUME ArrivalInv, ArrivalInv', Spent, code # NoCode, code' # NoCode, judged' = judged + 1,
         Lower(Spread(Stands'), Spread(Stands))
  PROVE  Spent'
<1>1. PICK past \in SUBSET Spreads : Cardinality(past) = judged /\ \A s \in past : Lower(Spread(Stands), s)
  BY DEF Spent
<1>2. Spread(Stands) \in Spreads /\ Spread(Stands') \in Spreads
  BY StandsTyped, StandsTypedNext, SpreadIs DEF StandsOK
<1> DEFINE more == past \cup {Spread(Stands)}
<1>3. \A s \in more : Lower(Spread(Stands'), s)
  BY <1>1, <1>2, LowerOrders
<1>4. Spread(Stands) \notin past
  BY <1>1, <1>2, LowerOrders
<1>5. Cardinality(more) = judged + 1
  <2>1. IsFiniteSet(past)
    BY SpreadsFinite, FS_Subset
  <2>2. QED
    BY <1>1, <1>4, <2>1, FS_AddElement
<1>6. more \in SUBSET Spreads
  BY <1>2
<1> HIDE DEF more
<1>7. QED
  BY <1>3, <1>5, <1>6 DEF Spent

(* Steps after which the row is as it was, and whoever counts has done so  *)
(* before, or has just read it.                                            *)
LEMMA SpentKept ==
  ASSUME ArrivalInv, ArrivalInv', Spent, NEW v \in Visits, UNCHANGED judged, code' # NoCode <=> code # NoCode,
         code # NoCode => code'.attempts = code.attempts /\ code'.id = code.id,
         \A u \in Visits \ {v} : visits'[u] = visits[u],
         visits'[v].at = "count" =>
           \/ visits'[v] = visits[v]
           \/ code # NoCode /\ visits'[v].read.attempts = code.attempts
  PROVE  Spent'
<1>1. CASE code = NoCode
  BY <1>1 DEF Spent
<1>2. CASE code # NoCode
  <2>0. PICK a, b : a = Stands /\ b = Stands'
    OBVIOUS
  <2>1. a \in [Visits -> Values] /\ b \in [Visits -> Values] /\ Values \subseteq Nat
    BY <1>2, <2>0, StandsTyped, StandsTypedNext DEF StandsOK, Values
  <2>2. \A u \in Visits \ {v} : b[u] = a[u]
    BY <1>2, <2>0 DEF Stands, Stand, Counts
  <2>3. b[v] = a[v] \/ a[v] < b[v]
    <3>1. CASE visits'[v] = visits[v]
      BY <1>2, <2>0, <3>1 DEF Stands, Stand, Counts
    <3>2. CASE visits'[v].at # "count" \/ visits'[v].read.attempts = code.attempts
      <4>1. b[v] = code.attempts
        BY <1>2, <2>0, <3>2 DEF Stands, Stand, Counts
      <4>2. a[v] = code.attempts \/ a[v] < code.attempts
        BY <2>0 DEF Stands, Stand
      <4>3. QED
        BY <4>1, <4>2
    <3>3. QED
      BY <3>1, <3>2
  <2>4. CASE a[v] < b[v]
    <3>0. PICK n \in Values : n = a[v]
      BY <2>1
    <3>1. \A u \in Visits : a[u] \in Nat /\ b[u] \in Nat
      BY <2>1
    <3>2. \A u \in Visits : a[u] < n => b[u] = a[u]
      BY <2>2, <3>0, <3>1
    <3>3. \A u \in Visits : a[u] >= n => b[u] >= n
      BY <2>2, <2>4, <3>0, <3>1
    <3>4. \A u \in Visits : b[u] = n => a[u] = n
      BY <2>2, <2>4, <3>0, <3>1
    <3>5. a[v] = n /\ b[v] # n
      BY <2>4, <3>0, <3>1
    <3>6. Lower(Spread(b), Spread(a))
      BY <2>1, <3>2, <3>3, <3>4, <3>5, Lowers
    <3>7. QED
      BY <1>2, <2>0, <3>6, SpentFalls
  <2>5. CASE b[v] = a[v]
    <3>1. b = a
      BY <2>1, <2>2, <2>5
    <3>2. QED
      BY <1>2, <2>0, <3>1, SpentFalls
  <2>6. QED
    BY <2>3, <2>4, <2>5
<1>3. QED
  BY <1>1, <1>2

(* A request counts what it read.                                          *)
LEMMA SpentCounts ==
  ASSUME ArrivalInv, ArrivalInv', Spent, NEW v \in Visits, Counts(v), code # NoCode,
         code' = [code EXCEPT !.attempts = visits[v].read.attempts + 1], code' # NoCode,
         judged' = judged + 1,
         \A u \in Visits \ {v} : visits'[u] = visits[u],
         visits'[v].at # "count"
  PROVE  Spent'
<1>0. PICK a, b, x, c, n : /\ a = Stands /\ b = Stands' /\ x = visits[v].read.attempts
                           /\ c = code.attempts /\ n = a[v]
  OBVIOUS
<1>1. /\ a \in [Visits -> Values] /\ b \in [Visits -> Values] /\ n \in Values /\ x \in Nat /\ c \in Nat
      /\ Values \subseteq Nat /\ \A u \in Visits : Counts(u) => visits[u].read.attempts \in Nat
  BY <1>0, StandsTyped, StandsTypedNext DEF StandsOK, Values
<1>2. code'.attempts = x + 1 /\ code'.id = code.id
  BY <1>0 DEF ArrivalInv, CodeRows
<1>3. n <= x /\ n <= c /\ (n = x \/ n = c)
  BY <1>0, <1>1 DEF Stands, Stand
<1>4. b[v] = x + 1
  BY <1>0, <1>2 DEF Stands, Stand, Counts
<1>5. ASSUME NEW u \in Visits \ {v}
      PROVE  \/ a[u] = c /\ b[u] = x + 1
             \/ \E r \in Nat : /\ a[u] = IF r < c THEN r ELSE c
                               /\ b[u] = IF r < x + 1 THEN r ELSE x + 1
  <2>1. visits'[u] = visits[u]
    OBVIOUS
  <2>2. CASE Counts(u)
    <3>1. PICK r \in Nat : r = visits[u].read.attempts
      BY <1>1, <2>2
    <3>2. a[u] = IF r < c THEN r ELSE c
      BY <1>0, <2>2, <3>1 DEF Stands, Stand
    <3>3. b[u] = IF r < x + 1 THEN r ELSE x + 1
      BY <1>0, <1>2, <2>1, <2>2, <3>1 DEF Stands, Stand, Counts
    <3>4. QED
      BY <3>2, <3>3
  <2>3. CASE ~Counts(u)
    BY <1>0, <1>2, <2>1, <2>3 DEF Stands, Stand, Counts
  <2>4. QED
    BY <2>2, <2>3
<1>6. ASSUME NEW u \in Visits
      PROVE  (a[u] < n => b[u] = a[u]) /\ (a[u] >= n => b[u] >= n) /\ (b[u] = n => a[u] = n)
  <2>0. a[u] \in Nat /\ b[u] \in Nat /\ n \in Nat
    BY <1>1
  <2>1. CASE u = v
    BY <1>0, <1>1, <1>3, <1>4, <2>0, <2>1
  <2>2. CASE u # v
    <3>1. CASE a[u] = c /\ b[u] = x + 1
      BY <1>1, <1>3, <2>0, <3>1
    <3>2. ASSUME NEW r \in Nat, a[u] = IF r < c THEN r ELSE c, b[u] = IF r < x + 1 THEN r ELSE x + 1
          PROVE  (a[u] < n => b[u] = a[u]) /\ (a[u] >= n => b[u] >= n) /\ (b[u] = n => a[u] = n)
      BY <1>1, <1>3, <2>0, <3>2
    <3>3. QED
      BY <1>5, <2>2, <3>1, <3>2
  <2>3. QED
    BY <2>1, <2>2
<1>7. a[v] = n /\ b[v] # n
  BY <1>0, <1>1, <1>3, <1>4
<1>8. Lower(Spread(b), Spread(a))
  BY <1>1, <1>6, <1>7, Lowers
<1>9. QED
  BY <1>0, <1>8, SpentGrows

LEMMA SpentStep ==
  ASSUME ArrivalInv, ArrivalInv', Spent, [ArrivalNext]_arrivalVars
  PROVE  Spent'
<1>0. NoVisit.at = "idle" /\ DOMAIN visits = Visits
  BY DEF NoVisit, ArrivalInv
<1>1. ASSUME NEW v \in Visits, Leave(v), UNCHANGED <<code, judged>> PROVE Spent'
  BY <1>0, <1>1, SpentKept DEF Leave
<1>2. ASSUME NEW v \in Visits, Announce(v) PROVE Spent'
  <2>1. visits'[v].at = "announce" /\ UNCHANGED <<code, judged>>
        /\ \A u \in Visits \ {v} : visits'[u] = visits[u]
    BY <1>0, <1>2 DEF Announce, NoVisit
  <2>2. QED
    BY <2>1, SpentKept
<1>3. ASSUME NEW v \in Visits, AnnounceReads(v) PROVE Spent'
  <2>1. CASE code # NoCode /\ (code.verified \/ code.expires > visits[v].seen)
    BY <1>1, <1>3, <2>1 DEF AnnounceReads
  <2>2. CASE ~(code # NoCode /\ (code.verified \/ code.expires > visits[v].seen))
    <3>1. visits'[v].at = "replace" /\ UNCHANGED <<code, judged>>
          /\ \A u \in Visits \ {v} : visits'[u] = visits[u]
      BY <1>0, <1>3, <2>2 DEF AnnounceReads, ArrivalInv, VisitRecords
    <3>2. QED
      BY <3>1, SpentKept
  <2>3. QED
    BY <2>1, <2>2
<1>4. ASSUME NEW v \in Visits, AnnounceReplaces(v) PROVE Spent'
  <2>1. CASE ~Replaceable(visits[v].read)
    BY <1>1, <1>4, <2>1 DEF AnnounceReplaces
  <2>2. CASE Replaceable(visits[v].read)
    <3>1. PICK c \in Codes :
            code' = [id |-> issued + 1, code |-> c, expires |-> visits[v].seen + Ttl,
                     attempts |-> 0, verified |-> FALSE]
      BY <1>4, <2>2 DEF AnnounceReplaces
    <3>2. judged' = 0 /\ visits' = [visits EXCEPT ![v] = NoVisit]
      BY <1>4, <2>2 DEF AnnounceReplaces, Leave
    <3>3. code'.attempts = 0 /\ code'.id = issued + 1
      BY <3>1
    <3>4. Cardinality({}) = judged' /\ {} \in SUBSET Spreads
      BY <3>2, FS_EmptySet
    <3>5. code' # NoCode
      <4>1. visits[v].seen \in Nat /\ issued \in Nat
        BY DEF ArrivalInv, VisitRecords
      <4>2. code' \in CodeRows
        BY <3>1, <4>1, ArrivalAssumption DEF CodeRows
      <4>3. QED
        BY <4>2, ArrivalAssumption
    <3>6. QED
      BY <3>4, <3>5 DEF Spent
  <2>3. QED
    BY <2>1, <2>2
<1>5. ASSUME NEW v \in Visits, NEW typed \in Codes, Submit(v, typed) PROVE Spent'
  <2>1. visits'[v].at = "verify" /\ UNCHANGED <<code, judged>>
        /\ \A u \in Visits \ {v} : visits'[u] = visits[u]
    BY <1>0, <1>5 DEF Submit, NoVisit
  <2>2. QED
    BY <2>1, SpentKept
<1>6. ASSUME NEW v \in Visits, SubmitReads(v) PROVE Spent'
  <2>1. CASE ~(code # NoCode /\ Live(code) /\ code.attempts < MaxAttempts)
    BY <1>1, <1>6, <2>1 DEF SubmitReads
  <2>2. CASE code # NoCode /\ Live(code) /\ code.attempts < MaxAttempts
    <3>1. visits'[v].read = code /\ UNCHANGED <<code, judged>>
          /\ \A u \in Visits \ {v} : visits'[u] = visits[u]
      BY <1>0, <1>6, <2>2 DEF SubmitReads, ArrivalInv, VisitRecords
    <3>2. QED
      BY <2>2, <3>1, SpentKept
  <2>3. QED
    BY <2>1, <2>2
<1>7. ASSUME NEW v \in Visits, SubmitCounts(v) PROVE Spent'
  <2>1. CASE ~SameRow(visits[v].read)
    BY <1>1, <1>7, <2>1 DEF SubmitCounts
  <2>2. CASE SameRow(visits[v].read)
    <3>1. Counts(v) /\ code \in CodeRows /\ code # NoCode
      BY <1>7, <2>2 DEF SubmitCounts, Counts, SameRow, ArrivalInv
    <3>2. code' = [code EXCEPT !.attempts = visits[v].read.attempts + 1] /\ judged' = judged + 1
      BY <1>7, <2>2 DEF SubmitCounts, CountedAttempt
    <3>3. visits'[v].at # "count" /\ \A u \in Visits \ {v} : visits'[u] = visits[u]
      BY <1>0, <1>7, <2>2 DEF SubmitCounts, Leave, ArrivalInv, VisitRecords
    <3>4. code' # NoCode
      <4>1. visits[v].read.attempts \in Nat
        BY <3>1, StandsTyped DEF StandsOK, Values
      <4>2. code' \in CodeRows
        BY <3>1, <3>2, <4>1 DEF CodeRows
      <4>3. QED
        BY <4>2, ArrivalAssumption
    <3>5. QED
      BY <3>1, <3>2, <3>3, <3>4, SpentCounts
  <2>3. QED
    BY <2>1, <2>2
<1>8. ASSUME NEW v \in Visits, Enter(v) PROVE Spent'
  <2>1. CASE ~Enterable(visits[v].read)
    BY <1>1, <1>8, <2>1 DEF Enter
  <2>2. CASE Enterable(visits[v].read)
    <3>1. code # NoCode /\ code \in CodeRows /\ code' = [code EXCEPT !.verified = TRUE]
          /\ UNCHANGED judged /\ visits' = [visits EXCEPT ![v] = NoVisit]
      BY <1>8, <2>2 DEF Enter, Enterable, SameRow, ArrivalInv, Leave
    <3>2. code' \in CodeRows /\ code'.attempts = code.attempts /\ code'.id = code.id
      BY <3>1 DEF CodeRows
    <3>3. code' # NoCode
      BY <3>2, ArrivalAssumption
    <3>4. QED
      BY <1>0, <3>1, <3>2, <3>3, SpentKept
  <2>3. QED
    BY <2>1, <2>2
<1>9. ASSUME NEW v \in Visits, VisitDies(v) PROVE Spent'
  BY <1>1, <1>9 DEF VisitDies
<1>10. ASSUME UNCHANGED <<code, judged, visits>> PROVE Spent'
  <2>1. Stands' = Stands
    BY <1>10 DEF Stands, Stand, Counts
  <2>2. QED
    BY <1>10, <2>1, SpentFalls DEF Spent
<1>11. QED
  BY <1>2, <1>3, <1>4, <1>5, <1>6, <1>7, <1>8, <1>9, <1>10
  DEF ArrivalNext, BookingMoves, ArrivalTick, arrivalVars

(* "Burns after a handful of wrong guesses" (ArrivalCode): for any number  *)
(* of the renter's requests at a time, and any limit of attempts, the      *)
(* guesses judged against one code are fewer than the spreads of the       *)
(* requests over the values of the counter.                                *)
THEOREM GuessesAreBounded == ArrivalSpec => []GuessesBounded
<1>1. ArrivalInit => Spent
  BY DEF ArrivalInit, Spent
<1>2. ArrivalInv /\ Spent => GuessesBounded
  <2> SUFFICES ASSUME ArrivalInv, Spent PROVE GuessesBounded
    OBVIOUS
  <2>1. CASE code = NoCode
    <3> DEFINE none == [v \in Visits |-> 0]
    <3>1. none \in [Visits -> Values]
      BY ArrivalAssumption DEF Values
    <3> HIDE DEF none
    <3>2. Spread(none) \in Spreads
      BY <3>1, SpreadIs
    <3>3. Cardinality(Spreads) \in Nat /\ Cardinality(Spreads) # 0
      BY <3>2, SpreadsFinite, FS_CardinalityType, FS_EmptySet
    <3>4. QED
      BY <2>1, <3>3 DEF Spent, GuessesBounded
  <2>2. CASE code # NoCode
    <3>1. PICK past \in SUBSET Spreads : Cardinality(past) = judged /\ \A s \in past : Lower(Spread(Stands), s)
      BY <2>2 DEF Spent
    <3>2. Spread(Stands) \in Spreads
      BY <2>2, StandsTyped, SpreadIs DEF StandsOK
    <3>3. Spread(Stands) \notin past
      BY <3>1, <3>2, LowerOrders
    <3>4. Cardinality(past) <= Cardinality(Spreads) /\ Cardinality(Spreads) # Cardinality(past)
      BY <3>2, <3>3, SpreadsFinite, FS_Subset
    <3>5. Cardinality(Spreads) \in Nat /\ judged \in Nat
      BY SpreadsFinite, FS_CardinalityType DEF ArrivalInv
    <3>6. QED
      BY <3>1, <3>4, <3>5 DEF GuessesBounded
  <2>3. QED
    BY <2>1, <2>2
<1>3. ArrivalInv /\ ArrivalInv' /\ Spent /\ [ArrivalNext]_arrivalVars => Spent'
  BY SpentStep
<1>4. QED
  BY <1>1, <1>2, <1>3, ArrivalInvInit, ArrivalInvStep, PTL DEF ArrivalSpec

-----------------------------------------------------------------------------
(* What a request has written is what it was asked to change, in the order *)
(* of the fields: nothing that it has yet to write comes before it.        *)
UpdateTyped(u) ==
  /\ DOMAIN u = {"changes", "put"}
  /\ u.put \subseteq DOMAIN u.changes /\ DOMAIN u.changes \subseteq Touched
  /\ \A f \in DOMAIN u.changes : u.changes[f] \in Accepts[f]

InOrder(u) == \A f \in u.put, g \in DOMAIN u.changes \ u.put : Place(f) < Place(g)

(* A row has one lock. *)
SettingsInv ==
  /\ DOMAIN settings = Touched
  /\ \A f \in Touched : settings[f] = NotStored \/ settings[f] \in Accepts[f]
  /\ DOMAIN updates = Admins
  /\ \A a \in Admins : UpdateTyped(updates[a]) /\ InOrder(updates[a])
  /\ \A a, b \in Admins : a # b => updates[a].put \cap updates[b].put = {}

LEMMA LeastOf ==
  ASSUME NEW S, S \subseteq Nat, S # {}
  PROVE  \E m \in S : \A n \in S : m <= n
<1> DEFINE R == OpToRel(<, Nat)
<1>1. \A i, j \in Nat : i < j => <<i, j>> \in R
  BY DEF OpToRel
<1>2. IsWellFoundedOn(R, Nat)
  BY NatLessThanWellFounded
<1> HIDE DEF R
<1>3. PICK m \in S : \A n \in S : <<n, m>> \notin R
  BY <1>2, WFMin
<1>4. \A n \in S : m <= n
  <2> SUFFICES ASSUME NEW n \in S PROVE m <= n
    OBVIOUS
  <2>1. ~(n < m)
    BY <1>1, <1>3
  <2>2. QED
    BY <2>1
<1>5. QED
  BY <1>4

LEMMA Places ==
  /\ \A f \in Touched : Place(f) \in 1 .. 20
  /\ \A f, g \in Touched : Place(f) = Place(g) => f = g
<1>1. DOMAIN Fields = 1 .. 20
  BY DEF Fields
<1>2. \A f \in Touched : \E i \in DOMAIN Fields : Fields[i] = f
  BY SettingsAssumption DEF ToSet
<1>3. \A f \in Touched : Place(f) \in DOMAIN Fields /\ Fields[Place(f)] = f
  BY <1>2 DEF Place
<1>4. QED
  BY <1>1, <1>3

LEMMA NextKeyIs ==
  ASSUME NEW left, left \subseteq Touched, left # {}
  PROVE  NextKeys(left) # {}
<1> DEFINE P == {Place(f) : f \in left}
<1>1. P \subseteq Nat /\ P # {}
  BY Places
<1>2. PICK m \in P : \A n \in P : m <= n
  <2> HIDE DEF P
  <2>1. QED
    BY <1>1, LeastOf
<1>3. QED
  BY <1>2 DEF NextKeys

LEMMA SettingsInvInit == SettingsInit => SettingsInv
BY DEF SettingsInit, SettingsInv, NoUpdate, UpdateTyped, InOrder

LEMMA SettingsInvStep == SettingsInv /\ [SettingsNext]_settingsVars => SettingsInv'
<1> SUFFICES ASSUME SettingsInv, [SettingsNext]_settingsVars PROVE SettingsInv'
  OBVIOUS
<1>1. UpdateTyped(NoUpdate) /\ InOrder(NoUpdate) /\ NoUpdate.put = {}
  BY DEF NoUpdate, UpdateTyped, InOrder
<1>2. ASSUME NEW a \in Admins, NEW u, updates' = [updates EXCEPT ![a] = u],
             UpdateTyped(u), InOrder(u),
             \A b \in Admins \ {a} : u.put \cap updates[b].put = {},
             DOMAIN settings' = Touched,
             \A f \in Touched : settings'[f] = NotStored \/ settings'[f] \in Accepts[f]
      PROVE  SettingsInv'
  BY <1>2 DEF SettingsInv, UpdateTyped, InOrder
<1>3. ASSUME NEW a \in Admins, NEW changes, DOMAIN changes \subseteq Touched, AskUpdate(a, changes)
      PROVE  SettingsInv'
  <2> DEFINE u == [changes |-> changes, put |-> {}]
  <2>1. updates[a] = NoUpdate /\ UNCHANGED settings /\ updates' = [updates EXCEPT ![a] = u]
        /\ Valid(Over(changes, InForce))
    BY <1>3 DEF AskUpdate, InFlight
  <2>3. \A f \in DOMAIN changes : changes[f] \in Accepts[f]
    BY <1>3, <2>1 DEF Valid, Over
  <2>4. u.changes = changes /\ u.put = {} /\ DOMAIN u = {"changes", "put"}
    OBVIOUS
  <2> HIDE DEF u
  <2>5. UpdateTyped(u) /\ InOrder(u)
    BY <1>3, <2>3, <2>4 DEF UpdateTyped, InOrder
  <2>6. QED
    BY <1>2, <2>1, <2>4, <2>5 DEF SettingsInv
<1>4. ASSUME NEW a \in Admins, NEW f \in Touched, Upsert(a, f) PROVE SettingsInv'
  <2> DEFINE old == updates[a]
             u == [changes |-> old.changes, put |-> old.put \cup {f}]
  <2>1. /\ f \in NextKeys(DOMAIN old.changes \ old.put) /\ f \notin Held(a)
        /\ updates' = [updates EXCEPT ![a] = u] /\ UNCHANGED settings
    BY <1>4 DEF Upsert, Unwritten
  <2>2. UpdateTyped(old) /\ InOrder(old)
    BY DEF SettingsInv
  <2>5. u.changes = old.changes /\ u.put = old.put \cup {f} /\ DOMAIN u = {"changes", "put"}
    OBVIOUS
  <2> HIDE DEF u
  <2>6. f \in DOMAIN old.changes \ old.put
        /\ \A g \in DOMAIN old.changes \ old.put : Place(f) <= Place(g)
    BY <2>1 DEF NextKeys
  <2>7. UpdateTyped(u)
    BY <2>2, <2>5, <2>6 DEF UpdateTyped
  <2>8. InOrder(u)
    <3> SUFFICES ASSUME NEW e \in {f} \cup old.put,
                        NEW g \in (DOMAIN old.changes \ old.put) \ {f}
                 PROVE  Place(e) < Place(g)
      BY <2>5 DEF InOrder
    <3>1. Place(f) <= Place(g) /\ Place(f) # Place(g)
      BY <2>2, <2>6, Places DEF UpdateTyped
    <3>2. {e, f, g} \subseteq Touched
      BY <2>2, <2>6 DEF UpdateTyped
    <3>3. QED
      BY <2>2, <3>1, <3>2, Places DEF InOrder
  <2>9. \A b \in Admins \ {a} : f \notin updates[b].put
    <3> SUFFICES ASSUME NEW b \in Admins \ {a}, f \in updates[b].put PROVE FALSE
      OBVIOUS
    <3>1. updates[b] # NoUpdate
      BY <1>1
    <3>2. QED
      BY <2>1, <3>1 DEF Held, InFlight
  <2>10. \A b \in Admins \ {a} : u.put \cap updates[b].put = {}
    BY <2>5, <2>9 DEF SettingsInv
  <2>11. QED
    BY <1>2, <2>1, <2>7, <2>8, <2>10 DEF SettingsInv
<1>5. ASSUME NEW a \in Admins, CommitSettings(a) PROVE SettingsInv'
  <2>1. settings' = Over(updates[a].changes, settings) /\ updates' = [updates EXCEPT ![a] = NoUpdate]
    BY <1>5 DEF CommitSettings
  <2>2. DOMAIN settings' = Touched /\ \A f \in Touched : settings'[f] = NotStored \/ settings'[f] \in Accepts[f]
    BY <2>1 DEF SettingsInv, UpdateTyped, Over
  <2>3. QED
    BY <1>1, <1>2, <2>1, <2>2
<1>6. ASSUME NEW a \in Admins, UpdateDies(a) PROVE SettingsInv'
  <2>1. updates' = [updates EXCEPT ![a] = NoUpdate] /\ UNCHANGED settings
    BY <1>6 DEF UpdateDies
  <2>2. QED
    BY <1>1, <1>2, <2>1 DEF SettingsInv
<1>7. CASE UNCHANGED settingsVars
  BY <1>7 DEF settingsVars, SettingsInv, UpdateTyped, InOrder
<1>8. QED
  BY <1>3, <1>4, <1>5, <1>6, <1>7 DEF SettingsNext

(* Whatever requests write at the same time, and in whatever order, each   *)
(* rule stored is one that SettingsUpdate accepts (schemas.py).            *)
THEOREM RulesInForceAreAccepted == SettingsSpec => []SettingsTypeOK
<1>1. SettingsInv => SettingsTypeOK
  <2> SUFFICES ASSUME SettingsInv PROVE SettingsTypeOK
    OBVIOUS
  <2>1. Valid(InForce)
    BY SettingsAssumption DEF SettingsInv, Valid, InForce
  <2>2. QED
    BY <2>1 DEF SettingsInv, SettingsTypeOK, UpdateTyped
<1>2. QED
  BY <1>1, SettingsInvInit, SettingsInvStep, PTL DEF SettingsSpec

(* Of the requests that wait, the one that waits for the rule that comes   *)
(* last: whoever holds that rule has only later ones to write, so it waits *)
(* for none of them.                                                       *)
LEMMA SomeoneGoesOn == SettingsInv => UpdatesNeverDeadlock
<1> SUFFICES ASSUME SettingsInv, InFlight # {},
                    \A a \in InFlight : Unwritten(a) # {} /\ NextKeys(Unwritten(a)) \subseteq Held(a)
             PROVE  FALSE
  BY DEF UpdatesNeverDeadlock
<1> DEFINE Left == {n \in Nat : \E a \in InFlight : \E f \in NextKeys(Unwritten(a)) : n = 20 - Place(f)}
<1>1. ASSUME NEW a \in InFlight
      PROVE  /\ Unwritten(a) \subseteq Touched
             /\ NextKeys(Unwritten(a)) # {}
             /\ NextKeys(Unwritten(a)) \subseteq Unwritten(a)
  <2>1. Unwritten(a) \subseteq Touched
    BY DEF Unwritten, InFlight, SettingsInv, UpdateTyped
  <2>2. QED
    BY <2>1, NextKeyIs DEF NextKeys
<1>2. \A a \in InFlight : \A f \in NextKeys(Unwritten(a)) : 20 - Place(f) \in Left
  BY <1>1, Places
<1>3. PICK m \in Left : \A n \in Left : m <= n
  <2>1. Left # {}
    BY <1>1, <1>2
  <2>2. QED
    BY <2>1, LeastOf
<1>4. PICK a \in InFlight : \E f \in NextKeys(Unwritten(a)) : m = 20 - Place(f)
  OBVIOUS
<1>4a. PICK f \in NextKeys(Unwritten(a)) : m = 20 - Place(f)
  BY <1>4
<1>5. PICK b \in InFlight : f \in updates[b].put
  BY <1>4, <1>4a DEF Held
<1>6. PICK g \in NextKeys(Unwritten(b)) : g \in Unwritten(b)
  BY <1>1
<1>7. Place(f) < Place(g)
  BY <1>5, <1>6 DEF SettingsInv, InOrder, Unwritten, InFlight
<1>8. 20 - Place(g) \in Left
  BY <1>2, <1>6
<1>9. f \in Touched /\ g \in Touched
  BY <1>1, <1>4, <1>6
<1> HIDE DEF Left
<1>10. QED
  BY <1>3, <1>4a, <1>7, <1>8, <1>9, Places

(* The rows of one update are written in the order of the fields, so that  *)
(* of the requests under way one always has the lock it needs next.        *)
THEOREM SettingsNeverDeadlock == SettingsSpec => []UpdatesNeverDeadlock
<1>1. QED
  BY SomeoneGoesOn, SettingsInvInit, SettingsInvStep, PTL DEF SettingsSpec

-----------------------------------------------------------------------------
VehicleRows == [plate : Plates, default : BOOLEAN]

JobSteps == {"none", "insert", "update", "look", "clear", "delete", "replace", "promote", "commit"}

Busy(d) == jobs[d].at # "none"

(* What a request holds at each step. *)
JobOK(j) ==
  /\ j.at \in JobSteps
  /\ j.at # "none" =>
       /\ DOMAIN j = {"at", "key", "loaded", "row", "found", "put", "raced"}
       /\ j.key \in Garage /\ j.raced \in BOOLEAN
       /\ {j.loaded, j.row} \subseteq VehicleRows \cup {NoVehicle}
       /\ j.found \subseteq Garage /\ DOMAIN j.put \subseteq Garage
       /\ \A v \in DOMAIN j.put : j.put[v] \in VehicleRows \cup {NoVehicle}
  /\ j.at \in {"insert", "update", "look", "clear"} => j.row \in VehicleRows
  /\ j.at \in {"update", "delete", "replace", "promote"} => j.loaded \in VehicleRows
  /\ j.at \in {"delete", "replace", "promote"} => j.row = NoVehicle
  /\ j.at \in {"look", "clear"} => j.row.default
  /\ j.at \in {"replace", "promote"} => j.loaded.default
  /\ j.at \in {"insert", "update", "delete"} => DOMAIN j.put = {}
  /\ j.at \in {"look", "clear", "replace", "promote"} => DOMAIN j.put \subseteq {j.key}

(* What it has written is locked, and keeps the plates apart: ...          *)
Apart(d, put) ==
  /\ \A e \in Drivers \ {d} : Busy(e) =>
       /\ DOMAIN put \cap DOMAIN jobs[e].put = {}
       /\ \A v \in DOMAIN put, w \in DOMAIN jobs[e].put :
            put[v] # NoVehicle /\ jobs[e].put[w] # NoVehicle => put[v].plate # jobs[e].put[w].plate
  /\ \A v \in DOMAIN put : put[v] # NoVehicle =>
       /\ \A w \in Saved : vehicles[w].plate = put[v].plate => w = v
       /\ \A w \in DOMAIN put : put[w] # NoVehicle /\ put[w].plate = put[v].plate => w = v

(* ... the key of a new row is nobody else's, and all other keys are there. *)
KeysOK(d, j) ==
  /\ j.at = "insert" =>
       /\ vehicles[j.key] = NoVehicle
       /\ \A e \in Drivers \ {d} : Busy(e) => jobs[e].key # j.key /\ j.key \notin DOMAIN jobs[e].put
  /\ \A v \in DOMAIN j.put : v = j.key \/ vehicles[v] # NoVehicle

(* The rows as its commit would leave them. *)
After(j) == [v \in Garage |-> IF v \in DOMAIN j.put THEN j.put[v] ELSE vehicles[v]]

SavedAfter(j) == {v \in Garage : After(j)[v] # NoVehicle}

DefaultsAfter(j) == {v \in SavedAfter(j) : After(j)[v].default}

Heir(j) ==
  IF j.row # NoVehicle
  THEN j.row.default => DefaultsAfter(j) = {j.key}
  ELSE Defaults = {j.key} => (DefaultsAfter(j) = {} <=> SavedAfter(j) = {})

(* As long as no other has committed, what it has read is so.              *)
Informed(j) ==
  ~j.raced =>
    /\ j.at \in {"update", "delete", "replace", "promote"} => vehicles[j.key] = j.loaded
    /\ j.at \in {"look", "clear"} => j.key \in DefaultsAfter(j)
    /\ j.at = "clear" => j.found = Defaults \ {j.key}
    /\ j.at \in {"replace", "promote"} => DOMAIN j.put = {j.key} /\ j.put[j.key] = NoVehicle
    /\ j.at = "promote" => \E n \in Saved \ {j.key} : j.found = {n}
    /\ j.at = "commit" => Heir(j)

OneRowPerPlate == \A v, w \in Saved : vehicles[v].plate = vehicles[w].plate => v = w

VehicleInv ==
  /\ vehicles \in [Garage -> VehicleRows \cup {NoVehicle}]
  /\ OneRowPerPlate
  /\ DOMAIN jobs = Drivers
  /\ \A d \in Drivers : JobOK(jobs[d])
  /\ \A d \in Drivers : Busy(d) => Apart(d, jobs[d].put) /\ KeysOK(d, jobs[d]) /\ Informed(jobs[d])

LEMMA VehicleInvInit == VehicleInit => VehicleInv
BY DEF VehicleInit, VehicleInv, OneRowPerPlate, Saved, JobOK, JobSteps, Busy, NoJob

LEMMA LockedIs ==
  ASSUME NEW d \in Drivers
  PROVE  \A v : v \in Locked(d) <=> \E e \in Drivers \ {d} : Busy(e) /\ v \in DOMAIN jobs[e].put
BY DEF Locked, Pending, Busy

LEMMA ClaimedIs ==
  ASSUME NEW d \in Drivers, NEW plate, ~Claimed(d, plate)
  PROVE  /\ \A v \in Registered(plate) : v \notin Locked(d)
         /\ \A e \in Drivers \ {d} : Busy(e) => \A w \in DOMAIN jobs[e].put :
              jobs[e].put[w] # NoVehicle => jobs[e].put[w].plate # plate
BY DEF Claimed, Pending, Busy

(* A step of one request that writes nothing to the table. *)
LEMMA JobMoves ==
  ASSUME VehicleInv, NEW d \in Drivers, NEW j,
         DOMAIN jobs' = Drivers, jobs'[d] = j, \A e \in Drivers \ {d} : jobs'[e] = jobs[e],
         UNCHANGED vehicles,
         JobOK(j),
         j.at # "none" => Apart(d, j.put) /\ KeysOK(d, j) /\ Informed(j),
         \A e \in Drivers \ {d} : jobs[e].at = "insert" /\ j.at # "none" =>
           j.key # jobs[e].key /\ jobs[e].key \notin DOMAIN j.put
  PROVE  VehicleInv'
<1>1. jobs'[d] = j /\ \A e \in Drivers \ {d} : jobs'[e] = jobs[e]
  BY DEF VehicleInv
<1>2. Saved' = Saved /\ Defaults' = Defaults
  BY DEF Saved, Defaults
<1>3. ASSUME NEW e \in Drivers, Busy(e)' PROVE Apart(e, jobs[e].put)'
  <2>1. CASE e = d
    BY <1>1, <1>2, <1>3, <2>1 DEF Apart, Busy
  <2>2. CASE e # d
    BY <1>1, <1>2, <1>3, <2>2 DEF Apart, Busy, VehicleInv
  <2>3. QED
    BY <2>1, <2>2
<1>4. ASSUME NEW e \in Drivers, Busy(e)' PROVE KeysOK(e, jobs[e])'
  <2>1. CASE e = d
    BY <1>1, <1>4, <2>1 DEF KeysOK, Busy
  <2>2. CASE e # d
    BY <1>1, <1>4, <2>2 DEF KeysOK, Busy, VehicleInv
  <2>3. QED
    BY <2>1, <2>2
<1>5. ASSUME NEW e \in Drivers, Busy(e)' PROVE Informed(jobs[e])'
  <2>1. Informed(jobs'[e])
    BY <1>1, <1>5 DEF Busy, VehicleInv
  <2>2. PICK k : k = jobs'[e]
    OBVIOUS
  <2>3. After(k)' = After(k)
    BY DEF After
  <2>4. SavedAfter(k)' = SavedAfter(k) /\ DefaultsAfter(k)' = DefaultsAfter(k)
    BY <2>3 DEF SavedAfter, DefaultsAfter
  <2>5. Heir(k)' <=> Heir(k)
    BY <1>2, <2>4 DEF Heir
  <2>6. Informed(k)' <=> Informed(k)
    BY <1>2, <2>4, <2>5 DEF Informed
  <2>7. QED
    BY <2>1, <2>2, <2>6
<1>6. QED
  BY <1>1, <1>2, <1>3, <1>4, <1>5 DEF VehicleInv, OneRowPerPlate

LEMMA JobLeaves ==
  ASSUME VehicleInv, NEW d \in Drivers, Give(d)
  PROVE  VehicleInv'
<1>1. NoJob.at = "none" /\ JobOK(NoJob)
  BY DEF NoJob, JobOK, JobSteps
<1>2. DOMAIN jobs' = Drivers /\ jobs'[d] = NoJob /\ \A e \in Drivers \ {d} : jobs'[e] = jobs[e]
  BY DEF Give, VehicleInv
<1>3. QED
  BY <1>1, <1>2, JobMoves DEF Give

(* A request that is already on its way goes on. *)
LEMMA JobAdvances ==
  ASSUME VehicleInv, NEW d \in Drivers, Busy(d), NEW at, NEW found, NEW put, NEW j,
         Advance(d, at, found, put), at # "insert",
         j = [at |-> at, key |-> jobs[d].key, loaded |-> jobs[d].loaded, row |-> jobs[d].row,
              found |-> found, put |-> put, raced |-> jobs[d].raced],
         JobOK(j), Apart(d, put), Informed(j),
         \A v \in DOMAIN put : v = jobs[d].key \/ v \in Saved,
         \A e \in Drivers \ {d} : jobs[e].at = "insert" => jobs[e].key \notin DOMAIN put
  PROVE  VehicleInv'
<1>1. j.at = at /\ j.key = jobs[d].key /\ j.put = put
  OBVIOUS
<1>2. DOMAIN jobs' = Drivers /\ jobs'[d] = j /\ (\A e \in Drivers \ {d} : jobs'[e] = jobs[e]) /\ UNCHANGED vehicles
  BY DEF Advance, VehicleInv
<1>3. KeysOK(d, j)
  BY <1>1 DEF KeysOK, Saved
<1>4. \A e \in Drivers \ {d} : jobs[e].at = "insert" => j.key # jobs[e].key /\ jobs[e].key \notin DOMAIN j.put
  BY <1>1 DEF VehicleInv, KeysOK, Busy
<1>5. QED
  BY <1>1, <1>2, <1>3, <1>4, JobMoves

LEMMA JobStays ==
  ASSUME VehicleInv, NEW d \in Drivers, Busy(d), NEW at, NEW found, NEW j,
         Advance(d, at, found, jobs[d].put), at # "insert",
         j = [at |-> at, key |-> jobs[d].key, loaded |-> jobs[d].loaded, row |-> jobs[d].row,
              found |-> found, put |-> jobs[d].put, raced |-> jobs[d].raced],
         JobOK(j), Informed(j)
  PROVE  VehicleInv'
<1>1. Apart(d, jobs[d].put)
  BY DEF VehicleInv
<1>2. /\ \A e \in Drivers \ {d} : jobs[e].at = "insert" => jobs[e].key \notin DOMAIN jobs[d].put
      /\ \A v \in DOMAIN jobs[d].put : v = jobs[d].key \/ v \in Saved
  BY DEF VehicleInv, KeysOK, Busy, JobOK, Saved
<1>3. QED
  BY <1>1, <1>2, JobAdvances

LEMMA JobWrites ==
  ASSUME VehicleInv, NEW d \in Drivers, Busy(d), NEW at, NEW row \in VehicleRows \cup {NoVehicle}, NEW j,
         WriteRow(d, at, row), at # "insert",
         j = [at |-> at, key |-> jobs[d].key, loaded |-> jobs[d].loaded, row |-> jobs[d].row,
              found |-> {}, put |-> [v \in {jobs[d].key} |-> row], raced |-> jobs[d].raced],
         JobOK(j), Informed(j),
         \A e \in Drivers \ {d} : Busy(e) => jobs[d].key \notin DOMAIN jobs[e].put,
         row # NoVehicle =>
           /\ \A w \in Saved : vehicles[w].plate = row.plate => w = jobs[d].key
           /\ \A e \in Drivers \ {d} : Busy(e) => \A w \in DOMAIN jobs[e].put :
                jobs[e].put[w] # NoVehicle => jobs[e].put[w].plate # row.plate
  PROVE  VehicleInv'
<1> DEFINE put == [v \in {jobs[d].key} |-> row]
<1>1. DOMAIN put = {jobs[d].key} /\ put[jobs[d].key] = row
  OBVIOUS
<1>2. Advance(d, at, {}, put)
  BY DEF WriteRow
<1>3. j = [at |-> at, key |-> jobs[d].key, loaded |-> jobs[d].loaded, row |-> jobs[d].row,
           found |-> {}, put |-> put, raced |-> jobs[d].raced]
  OBVIOUS
<1> HIDE DEF put
<1>4. Apart(d, put)
  BY <1>1 DEF Apart
<1>5. \A e \in Drivers \ {d} : jobs[e].at = "insert" => jobs[e].key \notin DOMAIN put
  BY <1>1 DEF VehicleInv, KeysOK, Busy
<1>6. \A v \in DOMAIN put : v = jobs[d].key \/ v \in Saved
  BY <1>1
<1>7. QED
  BY <1>2, <1>3, <1>4, <1>5, <1>6, JobAdvances, Zenon

LEMMA JobMarks ==
  ASSUME VehicleInv, NEW d \in Drivers, Busy(d), NEW these, these \subseteq Saved, NEW default \in BOOLEAN,
         NEW put, NEW j, MarkRows(d, these, default),
         put = [v \in these \cup DOMAIN jobs[d].put |->
                  IF v \in these THEN [plate |-> vehicles[v].plate, default |-> default] ELSE jobs[d].put[v]],
         j = [at |-> "commit", key |-> jobs[d].key, loaded |-> jobs[d].loaded, row |-> jobs[d].row,
              found |-> {}, put |-> put, raced |-> jobs[d].raced],
         Informed(j),
         these \cap Locked(d) = {}
  PROVE  VehicleInv'
<1>1. Advance(d, "commit", {}, put)
  BY DEF MarkRows
<1>2. /\ DOMAIN put = these \cup DOMAIN jobs[d].put
      /\ \A v \in these : put[v] \in VehicleRows /\ put[v].plate = vehicles[v].plate
      /\ \A v \in DOMAIN jobs[d].put \ these : put[v] = jobs[d].put[v]
  BY DEF VehicleInv, Saved, VehicleRows
<1>3. NoVehicle \notin VehicleRows
  BY GarageAssumption DEF VehicleRows
<1>4. JobOK(jobs[d]) /\ Apart(d, jobs[d].put) /\ jobs[d].at # "none"
  BY DEF VehicleInv, Busy
<1>5. JobOK(j)
  <2>1. these \subseteq Garage
    BY DEF Saved
  <2>2. j.at = "commit" /\ j.key = jobs[d].key /\ j.loaded = jobs[d].loaded /\ j.row = jobs[d].row
        /\ j.found = {} /\ j.put = put /\ j.raced = jobs[d].raced
        /\ DOMAIN j = {"at", "key", "loaded", "row", "found", "put", "raced"}
    OBVIOUS
  <2>3. \A v \in DOMAIN put : put[v] \in VehicleRows \cup {NoVehicle}
    BY <1>2, <1>4 DEF JobOK
  <2>4. QED
    BY <1>2, <1>4, <2>1, <2>2, <2>3 DEF JobOK, JobSteps
<1>6. Apart(d, put)
  <2>1. ASSUME NEW e \in Drivers \ {d}, Busy(e)
        PROVE  /\ DOMAIN put \cap DOMAIN jobs[e].put = {}
               /\ \A v \in DOMAIN put, w \in DOMAIN jobs[e].put :
                    put[v] # NoVehicle /\ jobs[e].put[w] # NoVehicle => put[v].plate # jobs[e].put[w].plate
    <3>1. Apart(e, jobs[e].put)
      BY <2>1 DEF VehicleInv
    <3>2. these \cap DOMAIN jobs[e].put = {}
      BY <2>1, LockedIs
    <3>3. ASSUME NEW v \in DOMAIN put, NEW w \in DOMAIN jobs[e].put,
                 put[v] # NoVehicle, jobs[e].put[w] # NoVehicle
          PROVE  put[v].plate # jobs[e].put[w].plate
      <4>1. CASE v \in these
        BY <1>2, <3>1, <3>2, <3>3, <4>1 DEF Apart
      <4>2. CASE v \notin these
        BY <1>2, <1>4, <2>1, <3>3, <4>2 DEF Apart
      <4>3. QED
        BY <4>1, <4>2
    <3>4. QED
      BY <1>2, <1>4, <2>1, <3>2, <3>3 DEF Apart
  <2>2. ASSUME NEW v \in DOMAIN put, put[v] # NoVehicle, NEW w \in Saved, vehicles[w].plate = put[v].plate
        PROVE  w = v
    <3>1. CASE v \in these
      BY <1>2, <2>2, <3>1 DEF VehicleInv, OneRowPerPlate
    <3>2. CASE v \notin these
      BY <1>2, <1>4, <2>2, <3>2 DEF Apart
    <3>3. QED
      BY <3>1, <3>2
  <2>3. ASSUME NEW v \in DOMAIN put, put[v] # NoVehicle, NEW w \in DOMAIN put, put[w] # NoVehicle,
               put[w].plate = put[v].plate
        PROVE  w = v
    <3>1. CASE v \in these
      <4>1. put[w].plate = vehicles[v].plate /\ v \in Saved
        BY <1>2, <2>3, <3>1
      <4>2. QED
        BY <2>2, <2>3, <4>1
    <3>2. CASE w \in these
      <4>1. put[v].plate = vehicles[w].plate /\ w \in Saved
        BY <1>2, <2>3, <3>2
      <4>2. QED
        BY <2>2, <2>3, <4>1
    <3>3. CASE v \notin these /\ w \notin these
      BY <1>2, <1>4, <2>3, <3>3 DEF Apart
    <3>4. QED
      BY <3>1, <3>2, <3>3
  <2>4. \A v \in DOMAIN put : put[v] # NoVehicle =>
          /\ \A w \in Saved : vehicles[w].plate = put[v].plate => w = v
          /\ \A w \in DOMAIN put : put[w] # NoVehicle /\ put[w].plate = put[v].plate => w = v
    <3> SUFFICES ASSUME NEW v \in DOMAIN put, put[v] # NoVehicle
                 PROVE  /\ \A w \in Saved : vehicles[w].plate = put[v].plate => w = v
                        /\ \A w \in DOMAIN put : put[w] # NoVehicle /\ put[w].plate = put[v].plate => w = v
      OBVIOUS
    <3>1. \A w \in Saved : vehicles[w].plate = put[v].plate => w = v
      BY <2>2
    <3>2. \A w \in DOMAIN put : put[w] # NoVehicle /\ put[w].plate = put[v].plate => w = v
      BY <2>3
    <3>3. QED
      BY <3>1, <3>2
  <2>5. QED
    BY <2>1, <2>4, Zenon DEF Apart
<1>7. \A e \in Drivers \ {d} : jobs[e].at = "insert" => jobs[e].key \notin DOMAIN put
  BY <1>2 DEF VehicleInv, KeysOK, Busy, Saved
<1>8. \A v \in DOMAIN put : v = jobs[d].key \/ v \in Saved
  BY <1>2, <1>4 DEF VehicleInv, KeysOK, Busy, JobOK, Saved
<1>9. QED
  BY <1>1, <1>5, <1>6, <1>7, <1>8, JobAdvances

(* The commit: whoever else is on the way has been overtaken. *)
LEMMA JobCommits ==
  ASSUME VehicleInv, NEW d \in Drivers, CommitVehicle(d)
  PROVE  VehicleInv'
<1> DEFINE put == jobs[d].put
<1>1. Busy(d) /\ JobOK(jobs[d]) /\ Apart(d, put)
  BY DEF CommitVehicle, VehicleInv, Busy
<1>2. /\ DOMAIN vehicles' = Garage
      /\ \A v \in Garage : vehicles'[v] = IF v \in DOMAIN put THEN put[v] ELSE vehicles[v]
  BY DEF CommitVehicle
<1>3. DOMAIN put \subseteq Garage /\ \A v \in DOMAIN put : put[v] \in VehicleRows \cup {NoVehicle}
  BY <1>1 DEF Busy, JobOK
<1>4. /\ DOMAIN jobs' = Drivers /\ jobs'[d].at = "none" /\ JobOK(jobs'[d])
      /\ \A e \in Drivers \ {d} : ~Busy(e) => jobs'[e].at = "none" /\ JobOK(jobs'[e])
  BY DEF CommitVehicle, Busy, NoJob, JobOK, JobSteps
<1>5. ASSUME NEW e \in Drivers \ {d}, Busy(e)
      PROVE  /\ jobs'[e].at = jobs[e].at /\ jobs'[e].key = jobs[e].key /\ jobs'[e].put = jobs[e].put
             /\ jobs'[e].row = jobs[e].row
             /\ JobOK(jobs'[e]) /\ Informed(jobs[e])'
  <2>1. jobs'[e] = [jobs[e] EXCEPT !.raced = TRUE]
    BY <1>5 DEF CommitVehicle, Busy
  <2>2. PICK j : j = jobs[e]
    OBVIOUS
  <2>3. PICK k : k = jobs'[e]
    OBVIOUS
  <2>4. JobOK(j) /\ j.at # "none"
    BY <1>5, <2>2 DEF VehicleInv, Busy
  <2>5. "raced" \in DOMAIN j
    BY <2>2, <2>4 DEF JobOK
  <2>6. DOMAIN k = DOMAIN j /\ k.at = j.at /\ k.key = j.key /\ k.put = j.put /\ k.row = j.row /\ k.loaded = j.loaded /\ k.found = j.found
        /\ k.raced = TRUE
    BY <2>1, <2>2, <2>3, <2>5
  <2>7. JobOK(k)
    BY <2>4, <2>6 DEF JobOK
  <2>8. Informed(k)'
    BY <2>6 DEF Informed
  <2>9. QED
    BY <2>2, <2>3, <2>6, <2>7, <2>8
<1>6. Saved' = {v \in Garage : IF v \in DOMAIN put THEN put[v] # NoVehicle ELSE v \in Saved}
  BY <1>2 DEF Saved
<1>7. vehicles' \in [Garage -> VehicleRows \cup {NoVehicle}]
  <2>1. \A v \in Garage : vehicles'[v] \in VehicleRows \cup {NoVehicle}
    BY <1>2, <1>3 DEF VehicleInv
  <2>2. vehicles' = [v \in Garage |-> vehicles'[v]]
    BY DEF CommitVehicle
  <2>3. QED
    BY <2>1, <2>2
<1> HIDE DEF put
<1>8. OneRowPerPlate'
  <2> SUFFICES ASSUME NEW v \in Saved', NEW w \in Saved', vehicles'[v].plate = vehicles'[w].plate
               PROVE  v = w
    BY DEF OneRowPerPlate
  <2>1. CASE v \in DOMAIN put
    BY <1>1, <1>2, <1>6, <2>1 DEF Apart
  <2>2. CASE w \in DOMAIN put
    BY <1>1, <1>2, <1>6, <2>2 DEF Apart
  <2>3. CASE v \notin DOMAIN put /\ w \notin DOMAIN put
    BY <1>2, <1>6, <2>3 DEF VehicleInv, OneRowPerPlate
  <2>4. QED
    BY <2>1, <2>2, <2>3
<1>9. ASSUME NEW e \in Drivers, Busy(e)' PROVE Apart(e, jobs[e].put)' /\ KeysOK(e, jobs[e])' /\ Informed(jobs[e])'
  <2>1. e # d /\ Busy(e)
    BY <1>4, <1>9 DEF Busy
  <2>2. Apart(e, jobs[e].put) /\ KeysOK(e, jobs[e])
    BY <2>1 DEF VehicleInv
  <2>3. \A f \in Drivers \ {e} : Busy(f)' => Busy(f) /\ f # d
    BY <1>4 DEF Busy
  <2>4. \A f \in Drivers \ {d} : Busy(f) => jobs'[f].put = jobs[f].put /\ jobs'[f].key = jobs[f].key
                                            /\ jobs'[f].at = jobs[f].at
    BY <1>5
  <2>5. DOMAIN put \cap DOMAIN jobs[e].put = {}
        /\ \A v \in DOMAIN put, w \in DOMAIN jobs[e].put :
             put[v] # NoVehicle /\ jobs[e].put[w] # NoVehicle => put[v].plate # jobs[e].put[w].plate
    BY <1>1, <2>1 DEF Apart
  <2>6. Apart(e, jobs[e].put)'
    <3>1. PICK q : q = jobs'[e].put
      OBVIOUS
    <3>2. q = jobs[e].put
      BY <2>1, <2>4, <3>1
    <3>3. \A v \in DOMAIN q : q[v] # NoVehicle => \A w \in Saved' : vehicles'[w].plate = q[v].plate => w = v
      BY <1>2, <1>6, <2>2, <2>5, <3>2 DEF Apart
    <3>4. Apart(e, q)'
      BY <2>1, <2>2, <2>3, <2>4, <3>2, <3>3 DEF Apart
    <3>5. QED
      BY <3>1, <3>4
  <2>7. KeysOK(e, jobs[e])'
    <3>1. PICK k : k = jobs'[e]
      OBVIOUS
    <3>2. k.at = jobs[e].at /\ k.key = jobs[e].key
      BY <2>1, <2>4, <3>1
    <3>3. JobOK(jobs[e]) /\ jobs[e].key \in Garage
      BY <2>1 DEF VehicleInv, JobOK, Busy
    <3>4. k.at = "insert" => vehicles'[k.key] = NoVehicle
      BY <1>1, <1>2, <2>1, <2>2, <3>2, <3>3 DEF KeysOK, put
    <3>5. k.put = jobs[e].put /\ \A v \in DOMAIN jobs[e].put : v = k.key \/ vehicles'[v] # NoVehicle
      BY <1>2, <2>1, <2>2, <2>4, <2>5, <3>1, <3>2, <3>3 DEF KeysOK, VehicleInv, JobOK, Busy
    <3>7. KeysOK(e, k)'
      BY <2>2, <2>3, <2>4, <3>2, <3>4, <3>5 DEF KeysOK
    <3>6. QED
      BY <3>1, <3>7
  <2>8. QED
    BY <1>5, <2>1, <2>6, <2>7
<1>10. \A e \in Drivers : JobOK(jobs[e])'
  <2> SUFFICES ASSUME NEW e \in Drivers PROVE JobOK(jobs'[e])
    BY DEF JobOK
  <2>1. QED
    BY <1>4, <1>5
<1>11. QED
  BY <1>4, <1>7, <1>8, <1>9, <1>10 DEF VehicleInv

LEMMA JobBegins ==
  ASSUME VehicleInv, NEW d \in Drivers, NEW at \in {"insert", "update", "delete"}, NEW key \in Garage,
         NEW loaded \in VehicleRows \cup {NoVehicle}, NEW row \in VehicleRows \cup {NoVehicle},
         Undertake(d, at, key, loaded, row),
         at \in {"insert", "update"} => row \in VehicleRows,
         at \in {"update", "delete"} => loaded \in VehicleRows /\ loaded = vehicles[key],
         at = "delete" => row = NoVehicle,
         at = "insert" =>
           /\ vehicles[key] = NoVehicle
           /\ \A e \in Drivers : Busy(e) => jobs[e].key # key
  PROVE  VehicleInv'
<1> DEFINE put == [v \in {} |-> row]
           j == [at |-> at, key |-> key, loaded |-> loaded, row |-> row, found |-> {}, put |-> put, raced |-> FALSE]
<1>1. DOMAIN put = {}
  OBVIOUS
<1>2. DOMAIN jobs' = Drivers /\ jobs'[d] = j /\ (\A e \in Drivers \ {d} : jobs'[e] = jobs[e]) /\ UNCHANGED vehicles
  BY DEF Undertake, VehicleInv
<1> HIDE DEF put
<1>3. j.at = at /\ j.key = key /\ j.loaded = loaded /\ j.row = row /\ j.found = {} /\ j.put = put /\ j.raced = FALSE
      /\ DOMAIN j = {"at", "key", "loaded", "row", "found", "put", "raced"}
  OBVIOUS
<1> HIDE DEF j
<1>4. JobOK(j)
  BY <1>1, <1>3 DEF JobOK, JobSteps
<1>5. Apart(d, j.put)
  BY <1>1, <1>3 DEF Apart
<1>6. KeysOK(d, j)
  <2> SUFFICES ASSUME at = "insert", NEW e \in Drivers \ {d}, Busy(e) PROVE jobs[e].key # key /\ key \notin DOMAIN jobs[e].put
    BY <1>1, <1>3 DEF KeysOK
  <2>1. QED
    BY DEF VehicleInv, KeysOK, Busy
<1>7. Informed(j)
  BY <1>3 DEF Informed
<1>8. \A e \in Drivers \ {d} : jobs[e].at = "insert" /\ j.at # "none" =>
        j.key # jobs[e].key /\ jobs[e].key \notin DOMAIN j.put
  <2>1. NoVehicle \notin VehicleRows
    BY GarageAssumption DEF VehicleRows
  <2>2. QED
    BY <1>1, <1>3, <2>1 DEF VehicleInv, KeysOK, Busy
<1>9. QED
  BY <1>2, <1>4, <1>5, <1>6, <1>7, <1>8, JobMoves

LEMMA NoRow == NoVehicle \notin VehicleRows
BY GarageAssumption DEF VehicleRows

LEMMA InsertsOne == ASSUME VehicleInv, NEW d \in Drivers, InsertVehicle(d) PROVE VehicleInv'
<1> DEFINE job == jobs[d]
<1>1. job.at = "insert" /\ Busy(d) /\ JobOK(job) /\ KeysOK(d, job) /\ ~Claimed(d, job.row.plate)
  BY DEF InsertVehicle, VehicleInv, Busy
<1>2. CASE Registered(job.row.plate) # {}
  BY <1>2, JobLeaves DEF InsertVehicle
<1>3. CASE Registered(job.row.plate) = {}
  <2> DEFINE at == AfterFlush(d)
             put == [v \in {job.key} |-> job.row]
             j == [at |-> at, key |-> job.key, loaded |-> job.loaded, row |-> job.row,
                   found |-> {}, put |-> put, raced |-> job.raced]
  <2>1. WriteRow(d, at, job.row)
    BY <1>3 DEF InsertVehicle
  <2>2. at = (IF job.row.default THEN "look" ELSE "commit")
    BY DEF AfterFlush
  <2>3. job.row \in VehicleRows /\ job.key \in Garage /\ job.loaded \in VehicleRows \cup {NoVehicle} /\ job.raced \in BOOLEAN
    BY <1>1 DEF JobOK
  <2>4. DOMAIN put = {job.key} /\ put[job.key] = job.row
    OBVIOUS
  <2>5. j.at = at /\ j.key = job.key /\ j.loaded = job.loaded /\ j.row = job.row /\ j.found = {} /\ j.put = put
        /\ j.raced = job.raced /\ DOMAIN j = {"at", "key", "loaded", "row", "found", "put", "raced"}
    OBVIOUS
  <2>6. j = [at |-> at, key |-> jobs[d].key, loaded |-> jobs[d].loaded, row |-> jobs[d].row,
             found |-> {}, put |-> [v \in {jobs[d].key} |-> job.row], raced |-> jobs[d].raced]
    OBVIOUS
  <2> HIDE DEF j, put, at
  <2>7. at \in {"look", "commit"} /\ (at = "look" <=> job.row.default)
    BY <2>2
  <2>8. JobOK(j)
    BY <2>3, <2>4, <2>5, <2>7 DEF JobOK, JobSteps
  <2>9. Informed(j)
    <3>1. job.row # NoVehicle
      BY <2>3, NoRow
    <3>2. job.row.default => j.key \in DefaultsAfter(j)
      BY <2>3, <2>4, <2>5, <3>1 DEF DefaultsAfter, SavedAfter, After
    <3>3. QED
      BY <2>5, <2>7, <3>1, <3>2 DEF Informed, Heir
  <2>10. \A w \in Saved : vehicles[w].plate # job.row.plate
    BY <1>3 DEF Registered
  <2>11. at # "insert"
    BY <2>7
  <2>12. \A e \in Drivers \ {d} : Busy(e) => jobs[d].key \notin DOMAIN jobs[e].put
    BY <1>1 DEF KeysOK
  <2>13. \A e \in Drivers \ {d} : Busy(e) => \A w \in DOMAIN jobs[e].put :
           jobs[e].put[w] # NoVehicle => jobs[e].put[w].plate # job.row.plate
    BY <1>1, ClaimedIs
  <2>14. QED
    BY <1>1, <2>1, <2>3, <2>6, <2>8, <2>9, <2>10, <2>11, <2>12, <2>13, JobWrites
<1>4. QED
  BY <1>2, <1>3

LEMMA UpdatesOne == ASSUME VehicleInv, NEW d \in Drivers, UpdateVehicle(d) PROVE VehicleInv'
<1> DEFINE job == jobs[d]
           at == AfterFlush(d)
<1>1. job.at = "update" /\ Busy(d) /\ JobOK(job) /\ Informed(job)
  BY DEF UpdateVehicle, VehicleInv, Busy
<1>2. /\ job.row \in VehicleRows /\ job.loaded \in VehicleRows /\ job.key \in Garage /\ job.raced \in BOOLEAN
      /\ DOMAIN job.put = {}
  BY <1>1 DEF JobOK
<1>3. at \in {"look", "commit"} /\ (at = "look" <=> job.row.default)
  BY DEF AfterFlush
<1>4. at # "insert" /\ job.row # NoVehicle
  BY <1>2, <1>3, NoRow
<1>5. CASE job.row = job.loaded
  <2> DEFINE j == [at |-> at, key |-> job.key, loaded |-> job.loaded, row |-> job.row,
                   found |-> {}, put |-> job.put, raced |-> job.raced]
  <2>1. Advance(d, at, {}, job.put)
    BY <1>1, <1>5 DEF UpdateVehicle, KeepRows
  <2>2. j.at = at /\ j.key = job.key /\ j.loaded = job.loaded /\ j.row = job.row /\ j.found = {} /\ j.put = job.put
        /\ j.raced = job.raced /\ DOMAIN j = {"at", "key", "loaded", "row", "found", "put", "raced"}
    OBVIOUS
  <2>3. j = [at |-> at, key |-> jobs[d].key, loaded |-> jobs[d].loaded, row |-> jobs[d].row,
             found |-> {}, put |-> jobs[d].put, raced |-> jobs[d].raced]
    OBVIOUS
  <2> HIDE DEF j, at
  <2>4. JobOK(j)
    BY <1>2, <1>3, <2>2 DEF JobOK, JobSteps
  <2>5. ASSUME ~job.raced, job.row.default PROVE job.key \in DefaultsAfter(j)
    BY <1>1, <1>2, <1>4, <1>5, <2>2, <2>5 DEF Informed, DefaultsAfter, SavedAfter, After
  <2>6. Informed(j)
    BY <1>3, <1>4, <2>2, <2>5 DEF Informed, Heir
  <2>7. QED
    BY <1>1, <1>4, <2>1, <2>3, <2>4, <2>6, JobStays
<1>6. CASE job.row # job.loaded /\ (job.key \notin Saved \/ ~(Registered(Edited(job).plate) \subseteq {job.key}))
  BY <1>6, JobLeaves DEF UpdateVehicle
<1>7. CASE job.row # job.loaded /\ job.key \in Saved /\ Registered(Edited(job).plate) \subseteq {job.key}
  <2> DEFINE row == Edited(job)
             put == [v \in {job.key} |-> row]
             j == [at |-> at, key |-> job.key, loaded |-> job.loaded, row |-> job.row,
                   found |-> {}, put |-> put, raced |-> job.raced]
  <2>1. WriteRow(d, at, row)
    BY <1>7 DEF UpdateVehicle
  <2>2. job.key \notin Locked(d) /\ (job.row.plate # job.loaded.plate => ~Claimed(d, job.row.plate))
    BY <1>7 DEF UpdateVehicle
  <2>3. vehicles[job.key] \in VehicleRows
    BY <1>2, <1>7 DEF VehicleInv, Saved
  <2>4. /\ row \in VehicleRows
        /\ row.plate = IF job.row.plate # job.loaded.plate THEN job.row.plate ELSE vehicles[job.key].plate
    BY <1>2, <2>3 DEF Edited, VehicleRows
  <2>5. ~job.raced => row.default = job.row.default
    BY <1>1, <1>2 DEF Edited, Informed, VehicleRows
  <2>6. DOMAIN put = {job.key} /\ put[job.key] = row
    OBVIOUS
  <2>7. j.at = at /\ j.key = job.key /\ j.loaded = job.loaded /\ j.row = job.row /\ j.found = {} /\ j.put = put
        /\ j.raced = job.raced /\ DOMAIN j = {"at", "key", "loaded", "row", "found", "put", "raced"}
    OBVIOUS
  <2>8. j = [at |-> at, key |-> jobs[d].key, loaded |-> jobs[d].loaded, row |-> jobs[d].row,
             found |-> {}, put |-> [v \in {jobs[d].key} |-> row], raced |-> jobs[d].raced]
    OBVIOUS
  <2>9. \A w \in Saved : vehicles[w].plate = row.plate => w = job.key
    BY <1>7 DEF Registered
  <2> HIDE DEF j, at, row, put
  <2>10. JobOK(j)
    BY <1>2, <1>3, <2>4, <2>6, <2>7 DEF JobOK, JobSteps
  <2>11. ASSUME ~job.raced, job.row.default PROVE job.key \in DefaultsAfter(j)
    BY <1>2, <2>4, <2>5, <2>6, <2>7, <2>11, NoRow DEF DefaultsAfter, SavedAfter, After
  <2>12. Informed(j)
    BY <1>3, <1>4, <2>7, <2>11 DEF Informed, Heir
  <2>13. \A e \in Drivers \ {d} : Busy(e) => job.key \notin DOMAIN jobs[e].put
    BY <2>2, LockedIs
  <2>14. \A e \in Drivers \ {d} : Busy(e) => \A w \in DOMAIN jobs[e].put :
           jobs[e].put[w] # NoVehicle => jobs[e].put[w].plate # row.plate
    <3>1. CASE job.row.plate # job.loaded.plate
      BY <2>2, <2>4, <3>1, ClaimedIs
    <3>2. CASE job.row.plate = job.loaded.plate
      BY <1>7, <2>4, <2>13, <3>2 DEF VehicleInv, Apart
    <3>3. QED
      BY <3>1, <3>2
  <2>15. QED
    BY <1>1, <1>4, <2>1, <2>4, <2>8, <2>9, <2>10, <2>12, <2>13, <2>14, JobWrites
<1>8. QED
  BY <1>5, <1>6, <1>7

LEMMA LooksOne == ASSUME VehicleInv, NEW d \in Drivers, LookForDefaults(d) PROVE VehicleInv'
<1> DEFINE job == jobs[d]
           found == Others(job.key)
           j == [at |-> "clear", key |-> job.key, loaded |-> job.loaded, row |-> job.row,
                 found |-> found, put |-> job.put, raced |-> job.raced]
<1>1. job.at = "look" /\ Busy(d) /\ JobOK(job) /\ Informed(job) /\ Advance(d, "clear", found, job.put)
  BY DEF LookForDefaults, VehicleInv, Busy
<1>2. found = Defaults \ {job.key} /\ found \subseteq Garage
  BY DEF Others, Defaults, Saved
<1> HIDE DEF found
<1>3. j.at = "clear" /\ j.key = job.key /\ j.loaded = job.loaded /\ j.row = job.row /\ j.found = found
      /\ j.put = job.put /\ j.raced = job.raced
      /\ DOMAIN j = {"at", "key", "loaded", "row", "found", "put", "raced"}
  OBVIOUS
<1>4. j = [at |-> "clear", key |-> jobs[d].key, loaded |-> jobs[d].loaded, row |-> jobs[d].row,
           found |-> found, put |-> jobs[d].put, raced |-> jobs[d].raced]
  OBVIOUS
<1> HIDE DEF j
<1>5. JobOK(j)
  BY <1>1, <1>2, <1>3 DEF JobOK, JobSteps
<1>6. DefaultsAfter(j) = DefaultsAfter(job)
  BY <1>3 DEF DefaultsAfter, SavedAfter, After
<1>7. Informed(j)
  BY <1>1, <1>2, <1>3, <1>6 DEF Informed
<1>8. QED
  BY <1>1, <1>4, <1>5, <1>7, JobStays

LEMMA ClearsThem == ASSUME VehicleInv, NEW d \in Drivers, ClearDefaults(d) PROVE VehicleInv'
<1> DEFINE job == jobs[d]
           these == job.found \cap Defaults
           put == [v \in these \cup DOMAIN job.put |->
                     IF v \in these THEN [plate |-> vehicles[v].plate, default |-> FALSE] ELSE job.put[v]]
           j == [at |-> "commit", key |-> job.key, loaded |-> job.loaded, row |-> job.row,
                 found |-> {}, put |-> put, raced |-> job.raced]
<1>1. /\ job.at = "clear" /\ Busy(d) /\ JobOK(job) /\ Informed(job) /\ MarkRows(d, these, FALSE)
      /\ job.found \cap Locked(d) = {}
  BY DEF ClearDefaults, VehicleInv, Busy
<1>2. these \subseteq Saved /\ these \cap Locked(d) = {}
  BY <1>1 DEF Defaults
<1>3. /\ DOMAIN put = these \cup DOMAIN job.put
      /\ \A v \in these : put[v].default = FALSE
      /\ \A v \in DOMAIN job.put \ these : put[v] = job.put[v]
  OBVIOUS
<1>4. j.at = "commit" /\ j.key = job.key /\ j.row = job.row /\ j.put = put /\ j.raced = job.raced
  OBVIOUS
<1>5. put = [v \in these \cup DOMAIN jobs[d].put |->
               IF v \in these THEN [plate |-> vehicles[v].plate, default |-> FALSE] ELSE jobs[d].put[v]]
  OBVIOUS
<1>6. j = [at |-> "commit", key |-> jobs[d].key, loaded |-> jobs[d].loaded, row |-> jobs[d].row,
           found |-> {}, put |-> put, raced |-> jobs[d].raced]
  OBVIOUS
<1>7. DOMAIN job.put \subseteq {job.key} /\ job.row \in VehicleRows /\ job.key \in Garage
  BY <1>1 DEF JobOK
<1> HIDE DEF j, put
<1>8. ASSUME ~job.raced PROVE DefaultsAfter(j) = {job.key}
  <2>1. job.key \in DefaultsAfter(job) /\ these = Defaults \ {job.key}
    BY <1>1, <1>8 DEF Informed
  <2>2. job.key \in DefaultsAfter(j)
    BY <1>3, <1>4, <2>1 DEF DefaultsAfter, SavedAfter, After
  <2>3. ASSUME NEW v \in DefaultsAfter(j), v # job.key PROVE FALSE
    <3>1. v \in Garage /\ v \notin DOMAIN job.put
      BY <1>7, <2>3 DEF DefaultsAfter, SavedAfter
    <3>2. CASE v \in these
      BY <1>3, <1>4, <2>3, <3>1, <3>2 DEF DefaultsAfter, After
    <3>3. CASE v \notin these
      BY <1>3, <1>4, <2>1, <2>3, <3>1, <3>3 DEF DefaultsAfter, SavedAfter, After, Defaults, Saved
    <3>4. QED
      BY <3>2, <3>3
  <2>4. QED
    BY <2>2, <2>3
<1>9. Informed(j)
  BY <1>4, <1>7, <1>8, NoRow DEF Informed, Heir
<1>10. QED
  BY <1>1, <1>2, <1>5, <1>6, <1>9, JobMarks

LEMMA DeletesOne == ASSUME VehicleInv, NEW d \in Drivers, DeleteVehicle(d) PROVE VehicleInv'
<1> DEFINE job == jobs[d]
           at == IF job.loaded.default THEN "replace" ELSE "commit"
<1>1. /\ job.at = "delete" /\ Busy(d) /\ JobOK(job) /\ Informed(job) /\ job.key \notin Locked(d)
      /\ IF job.key \in Saved THEN WriteRow(d, at, NoVehicle) ELSE KeepRows(d, at)
  BY DEF DeleteVehicle, VehicleInv, Busy
<1>2. /\ job.row = NoVehicle /\ job.loaded \in VehicleRows /\ job.key \in Garage /\ job.raced \in BOOLEAN
      /\ DOMAIN job.put = {}
  BY <1>1 DEF JobOK
<1>3. at \in {"replace", "commit"} /\ (at = "replace" <=> job.loaded.default)
  OBVIOUS
<1> HIDE DEF at
<1>4. at # "insert"
  BY <1>3
<1>5. ASSUME NEW j, j.at = at, j.row = NoVehicle, j.key = job.key, j.loaded = job.loaded, j.raced = job.raced,
             ~job.raced => DOMAIN j.put = {job.key} /\ j.put[job.key] = NoVehicle
      PROVE  Informed(j)
  <2>1. ~job.raced /\ ~job.loaded.default => job.key \notin Defaults
    BY <1>1 DEF Informed, Defaults
  <2>2. QED
    BY <1>1, <1>3, <1>5, <2>1 DEF Informed, Heir
<1>6. CASE job.key \in Saved
  <2> DEFINE put == [v \in {job.key} |-> NoVehicle]
             j == [at |-> at, key |-> job.key, loaded |-> job.loaded, row |-> job.row,
                   found |-> {}, put |-> put, raced |-> job.raced]
  <2>1. DOMAIN put = {job.key} /\ put[job.key] = NoVehicle
    OBVIOUS
  <2>2. j.at = at /\ j.key = job.key /\ j.loaded = job.loaded /\ j.row = job.row /\ j.found = {} /\ j.put = put
        /\ j.raced = job.raced /\ DOMAIN j = {"at", "key", "loaded", "row", "found", "put", "raced"}
    OBVIOUS
  <2>3. j = [at |-> at, key |-> jobs[d].key, loaded |-> jobs[d].loaded, row |-> jobs[d].row,
             found |-> {}, put |-> [v \in {jobs[d].key} |-> NoVehicle], raced |-> jobs[d].raced]
    OBVIOUS
  <2> HIDE DEF j, put
  <2>4. JobOK(j)
    BY <1>2, <1>3, <2>1, <2>2 DEF JobOK, JobSteps
  <2>5. Informed(j)
    BY <1>2, <1>5, <2>1, <2>2
  <2>6. \A e \in Drivers \ {d} : Busy(e) => job.key \notin DOMAIN jobs[e].put
    BY <1>1, LockedIs
  <2>7. WriteRow(d, at, NoVehicle)
    BY <1>1, <1>6
  <2>8. QED
    BY <1>1, <1>4, <2>3, <2>4, <2>5, <2>6, <2>7, JobWrites
<1>7. CASE job.key \notin Saved
  <2> DEFINE j == [at |-> at, key |-> job.key, loaded |-> job.loaded, row |-> job.row,
                   found |-> {}, put |-> job.put, raced |-> job.raced]
  <2>1. Advance(d, at, {}, job.put)
    BY <1>1, <1>7 DEF KeepRows
  <2>2. j.at = at /\ j.key = job.key /\ j.loaded = job.loaded /\ j.row = job.row /\ j.found = {} /\ j.put = job.put
        /\ j.raced = job.raced /\ DOMAIN j = {"at", "key", "loaded", "row", "found", "put", "raced"}
    OBVIOUS
  <2>3. j = [at |-> at, key |-> jobs[d].key, loaded |-> jobs[d].loaded, row |-> jobs[d].row,
             found |-> {}, put |-> jobs[d].put, raced |-> jobs[d].raced]
    OBVIOUS
  <2> HIDE DEF j
  <2>4. JobOK(j)
    BY <1>2, <1>3, <2>2 DEF JobOK, JobSteps
  <2>5. job.raced
    BY <1>1, <1>2, <1>7, NoRow DEF Informed, Saved
  <2>6. Informed(j)
    BY <2>2, <2>5 DEF Informed
  <2>7. QED
    BY <1>1, <1>4, <2>1, <2>3, <2>4, <2>6, JobStays
<1>8. QED
  BY <1>6, <1>7

LEMMA LeastKey ==
  ASSUME NEW S, S \subseteq Garage, S # {}
  PROVE  Min(S) \in S
<1>1. \E m \in S : \A n \in S : m <= n
  BY LeastOf, GarageAssumption
<1>2. QED
  BY <1>1 DEF Min

LEMMA FindsHeir == ASSUME VehicleInv, NEW d \in Drivers, ReplaceDefault(d) PROVE VehicleInv'
<1> DEFINE job == jobs[d]
           left == Saved \ {job.key}
           none == left = {} \/ vehicles[Min(left)].default
           at == IF none THEN "commit" ELSE "promote"
           found == IF none THEN {} ELSE {Min(left)}
           j == [at |-> at, key |-> job.key, loaded |-> job.loaded, row |-> job.row,
                 found |-> found, put |-> job.put, raced |-> job.raced]
<1>1. /\ job.at = "replace" /\ Busy(d) /\ JobOK(job) /\ Informed(job)
      /\ Advance(d, at, found, job.put)
  BY DEF ReplaceDefault, KeepRows, VehicleInv, Busy
<1>2. left # {} => Min(left) \in left
  BY LeastKey DEF Saved
<1>3. found \subseteq left /\ (at = "promote" => left # {} /\ found = {Min(left)}) /\ at \in {"commit", "promote"}
  BY <1>2
<1>4. at = "commit" => left = {} \/ \E n \in left : vehicles[n].default
  BY <1>2
<1>5. left \subseteq Saved /\ job.key \notin left /\ left = Saved \ {job.key}
  OBVIOUS
<1>6. j.at = at /\ j.key = job.key /\ j.loaded = job.loaded /\ j.row = job.row /\ j.found = found /\ j.put = job.put
      /\ j.raced = job.raced /\ DOMAIN j = {"at", "key", "loaded", "row", "found", "put", "raced"}
  OBVIOUS
<1>7. j = [at |-> at, key |-> jobs[d].key, loaded |-> jobs[d].loaded, row |-> jobs[d].row,
           found |-> found, put |-> jobs[d].put, raced |-> jobs[d].raced]
  OBVIOUS
<1> HIDE DEF j, at, found, none, left
<1>8. JobOK(j)
  BY <1>1, <1>3, <1>5, <1>6 DEF JobOK, JobSteps, Saved
<1>9. Informed(j)
  <2>1. ASSUME ~job.raced, at = "commit" PROVE Heir(j)
    <3>1. job.row = NoVehicle /\ DOMAIN job.put = {job.key} /\ job.put[job.key] = NoVehicle
      BY <1>1, <2>1 DEF Informed, JobOK
    <3>2. CASE \E n \in left : vehicles[n].default
      BY <1>5, <1>6, <3>1, <3>2 DEF Heir, Defaults
    <3>3. CASE left = {}
      BY <1>5, <1>6, <3>1, <3>3 DEF Heir, DefaultsAfter, SavedAfter, After, Saved
    <3>4. QED
      BY <1>4, <2>1, <3>2, <3>3
  <2>2. ASSUME ~job.raced, at = "promote" PROVE \E n \in Saved \ {job.key} : found = {n}
    BY <1>2, <1>3, <1>5, <2>2
  <2>3. QED
    BY <1>1, <1>3, <1>6, <2>1, <2>2 DEF Informed
<1>10. at # "insert"
  BY <1>3
<1>11. QED
  BY <1>1, <1>7, <1>8, <1>9, <1>10, JobStays

LEMMA Promotes == ASSUME VehicleInv, NEW d \in Drivers, PromoteVehicle(d) PROVE VehicleInv'
<1> DEFINE job == jobs[d]
           these == job.found
           put == [v \in these \cup DOMAIN job.put |->
                     IF v \in these THEN [plate |-> vehicles[v].plate, default |-> TRUE] ELSE job.put[v]]
           j == [at |-> "commit", key |-> job.key, loaded |-> job.loaded, row |-> job.row,
                 found |-> {}, put |-> put, raced |-> job.raced]
<1>1. /\ job.at = "promote" /\ Busy(d) /\ JobOK(job) /\ Informed(job) /\ these \cap Locked(d) = {}
      /\ IF these \subseteq Saved THEN MarkRows(d, these, TRUE) ELSE Give(d)
  BY DEF PromoteVehicle, VehicleInv, Busy
<1>2. CASE ~(these \subseteq Saved)
  BY <1>1, <1>2, JobLeaves
<1>3. CASE these \subseteq Saved
  <2>1. /\ DOMAIN put = these \cup DOMAIN job.put
        /\ \A v \in these : put[v].default = TRUE /\ put[v] \in VehicleRows
    BY <1>3 DEF VehicleInv, Saved, VehicleRows
  <2>2. j.at = "commit" /\ j.key = job.key /\ j.row = job.row /\ j.put = put /\ j.raced = job.raced
    OBVIOUS
  <2>3. put = [v \in these \cup DOMAIN jobs[d].put |->
                 IF v \in these THEN [plate |-> vehicles[v].plate, default |-> TRUE] ELSE jobs[d].put[v]]
    OBVIOUS
  <2>4. j = [at |-> "commit", key |-> jobs[d].key, loaded |-> jobs[d].loaded, row |-> jobs[d].row,
             found |-> {}, put |-> put, raced |-> jobs[d].raced]
    OBVIOUS
  <2> HIDE DEF j, put
  <2>5. ASSUME ~job.raced PROVE Heir(j)
    <3>1. PICK n \in Saved : these = {n}
      BY <1>1, <2>5 DEF Informed
    <3>2. n \in SavedAfter(j) /\ n \in DefaultsAfter(j)
      BY <2>1, <2>2, <3>1, NoRow DEF DefaultsAfter, SavedAfter, After, Saved
    <3>3. job.row = NoVehicle
      BY <1>1 DEF JobOK
    <3>4. QED
      BY <2>2, <3>2, <3>3 DEF Heir
  <2>6. Informed(j)
    BY <2>2, <2>5 DEF Informed
  <2>7. MarkRows(d, these, TRUE)
    BY <1>1, <1>3
  <2>8. QED
    BY <1>1, <1>3, <2>3, <2>4, <2>6, <2>7, JobMarks
<1>4. QED
  BY <1>2, <1>3

LEMMA VehicleInvStep == VehicleInv /\ [VehicleNext]_vehicleVars => VehicleInv'
<1> SUFFICES ASSUME VehicleInv, [VehicleNext]_vehicleVars PROVE VehicleInv'
  OBVIOUS
<1>1. ASSUME NEW d \in Drivers, NEW v \in Garage, NEW plate \in Plates, NEW default \in BOOLEAN,
             SaveVehicle(d, v, plate, default)
      PROVE  VehicleInv'
  <2> DEFINE row == [plate |-> plate, default |-> default \/ Saved = {}]
  <2>1. row \in VehicleRows
    BY DEF VehicleRows
  <2>2. Undertake(d, "insert", v, NoVehicle, row) /\ vehicles[v] = NoVehicle
        /\ \A e \in Drivers : Busy(e) => jobs[e].key # v
    BY <1>1 DEF SaveVehicle, Busy
  <2> HIDE DEF row
  <2>3. QED
    BY <2>1, <2>2, JobBegins
<1>2. ASSUME NEW d \in Drivers, NEW v \in Garage, NEW plate \in Plates, NEW default \in BOOLEAN,
             EditVehicle(d, v, plate, default)
      PROVE  VehicleInv'
  <2> DEFINE row == [plate |-> plate, default |-> default]
  <2>1. row \in VehicleRows
    BY DEF VehicleRows
  <2>2. Undertake(d, "update", v, vehicles[v], row) /\ vehicles[v] \in VehicleRows
    BY <1>2 DEF EditVehicle, Saved, VehicleInv
  <2> HIDE DEF row
  <2>3. QED
    BY <2>1, <2>2, JobBegins
<1>3. ASSUME NEW d \in Drivers, NEW v \in Garage, RemoveVehicle(d, v) PROVE VehicleInv'
  <2>1. Undertake(d, "delete", v, vehicles[v], NoVehicle) /\ vehicles[v] \in VehicleRows
    BY <1>3 DEF RemoveVehicle, Saved, VehicleInv
  <2>2. QED
    BY <2>1, JobBegins
<1>4. ASSUME NEW d \in Drivers, JobDies(d) PROVE VehicleInv'
  BY <1>4, JobLeaves DEF JobDies
<1>5. CASE UNCHANGED vehicleVars
  <2>1. vehicles' = vehicles /\ jobs' = jobs
    BY <1>5 DEF vehicleVars
  <2>2. CASE Drivers = {}
    BY <2>1, <2>2 DEF VehicleInv, OneRowPerPlate, Saved
  <2>3. ASSUME NEW d \in Drivers PROVE VehicleInv'
    <3>1. PICK j : j = jobs[d]
      OBVIOUS
    <3>2. DOMAIN jobs' = Drivers /\ jobs'[d] = j /\ \A e \in Drivers \ {d} : jobs'[e] = jobs[e]
      BY <2>1, <3>1 DEF VehicleInv
    <3>3. JobOK(j) /\ (j.at # "none" => Apart(d, j.put) /\ KeysOK(d, j) /\ Informed(j))
      BY <3>1 DEF VehicleInv, Busy
    <3>4. \A e \in Drivers \ {d} : jobs[e].at = "insert" /\ j.at # "none" =>
            j.key # jobs[e].key /\ jobs[e].key \notin DOMAIN j.put
      BY <3>1 DEF VehicleInv, KeysOK, Busy
    <3>5. QED
      BY <2>1, <3>2, <3>3, <3>4, JobMoves
  <2>4. QED
    BY <2>2, <2>3
<1>6. QED
  BY <1>1, <1>2, <1>3, <1>4, <1>5, InsertsOne, UpdatesOne, LooksOne, ClearsThem, DeletesOne, FindsHeir, Promotes,
     JobCommits
  DEF VehicleNext

(* "The same plate can't be saved twice by one renter" (Vehicle), whatever *)
(* requests run at the same time.                                          *)
THEOREM VehiclesWellFormed == VehicleSpec => []VehicleTypeOK
<1>1. VehicleInv => VehicleTypeOK
  <2> SUFFICES ASSUME VehicleInv PROVE VehicleTypeOK
    OBVIOUS
  <2>1. ASSUME NEW plate \in Plates PROVE Cardinality(Registered(plate)) <= 1
    <3>1. CASE Registered(plate) = {}
      BY <3>1, FS_EmptySet
    <3>2. CASE Registered(plate) # {}
      <4>1. PICK v : v \in Registered(plate)
        BY <3>2
      <4>2. Registered(plate) = {v}
        BY <4>1 DEF Registered, VehicleInv, OneRowPerPlate
      <4>3. Cardinality({v}) = 1
        BY FS_Singleton
      <4>4. QED
        BY <4>2, <4>3
    <3>3. QED
      BY <3>1, <3>2
  <2>2. QED
    BY <2>1 DEF VehicleInv, VehicleTypeOK, VehicleRows, JobOK
<1>2. QED
  BY <1>1, VehicleInvInit, VehicleInvStep, PTL DEF VehicleSpec

(* One vehicle is preselected: a request that no other overtook leaves the *)
(* one it makes the default the only one, and hands the default on.        *)
THEOREM OneVehicleIsTheDefault == VehicleSpec => SoleDefault
<1> DEFINE Left(d) ==
      LET job == jobs[d]
      IN  job.at = "commit" /\ ~job.raced /\ jobs'[d] = NoJob /\ vehicles' # vehicles =>
            IF job.row # NoVehicle
            THEN job.row.default => Defaults' = {job.key}
            ELSE Defaults = {job.key} => (Defaults' = {} <=> Saved' = {})
<1>1. ASSUME VehicleInv, [VehicleNext]_vehicleVars PROVE [\A d \in Drivers : Left(d)]_vehicleVars
  <2> SUFFICES ASSUME VehicleNext, NEW d \in Drivers, jobs[d].at = "commit", ~jobs[d].raced, jobs'[d] = NoJob,
                      vehicles' # vehicles
               PROVE  IF jobs[d].row # NoVehicle
                      THEN jobs[d].row.default => Defaults' = {jobs[d].key}
                      ELSE Defaults = {jobs[d].key} => (Defaults' = {} <=> Saved' = {})
    BY <1>1
  <2>1. PICK e \in Drivers : CommitVehicle(e)
    BY DEF VehicleNext, SaveVehicle, EditVehicle, RemoveVehicle, Undertake, InsertVehicle, UpdateVehicle,
           LookForDefaults, ClearDefaults, DeleteVehicle, ReplaceDefault, PromoteVehicle, JobDies,
           Give, WriteRow, MarkRows, KeepRows, Advance
  <2>2. e = d
    <3>1. ASSUME e # d PROVE jobs'[d] = [jobs[d] EXCEPT !.raced = TRUE]
      BY <2>1, <3>1 DEF CommitVehicle
    <3>2. ASSUME e # d PROVE jobs'[d].at = "commit"
      BY <1>1, <3>1, <3>2 DEF VehicleInv, JobOK
    <3>3. QED
      BY <3>2 DEF NoJob
  <2>3. vehicles' = After(jobs[d])
    BY <2>1, <2>2 DEF CommitVehicle, After
  <2>4. Saved' = SavedAfter(jobs[d]) /\ Defaults' = DefaultsAfter(jobs[d])
    BY <2>3 DEF Saved, Defaults, SavedAfter, DefaultsAfter
  <2>5. Heir(jobs[d])
    BY <1>1 DEF VehicleInv, Informed, Busy
  <2>6. QED
    BY <2>4, <2>5 DEF Heir
<1>2. QED
  BY <1>1, VehicleInvInit, VehicleInvStep, PTL DEF VehicleSpec, SoleDefault

-----------------------------------------------------------------------------
(* A behaviour of the composition is a behaviour of each of its parts.     *)
LEMMA OfficeRunsItsParts ==
  Spec => /\ ArrivalSpec /\ ListingSpec /\ SessionSpec /\ ReviewSpec
          /\ VehicleSpec /\ SettingsSpec /\ WebSpec
<1>1. Init => /\ ArrivalInit /\ ListingInit /\ SessionInit /\ ReviewInit
              /\ VehicleInit /\ SettingsInit /\ WebInit
  BY DEF Init
<1>2. [Next]_vars => [ArrivalNext]_arrivalVars
  BY DEF Next, vars
<1>3. [Next]_vars => [ListingNext]_listingVars
  BY DEF Next, vars
<1>4. [Next]_vars => [SessionNext]_sessionVars
  BY DEF Next, vars
<1>5. [Next]_vars => [ReviewNext]_reviewVars
  BY DEF Next, vars
<1>6. [Next]_vars => [VehicleNext]_vehicleVars
  BY DEF Next, vars
<1>7. [Next]_vars => [SettingsNext]_settingsVars
  BY DEF Next, vars
<1>8. [Next]_vars => [WebNext]_webVars
  BY DEF Next, vars
<1>9. QED
  BY <1>1, <1>2, <1>3, <1>4, <1>5, <1>6, <1>7, <1>8, PTL
  DEF Spec, ArrivalSpec, ListingSpec, SessionSpec, ReviewSpec, VehicleSpec, SettingsSpec, WebSpec

(* The rows of every part stay well-formed, and whoever is on the way      *)
(* holds what its next step needs.                                         *)
THEOREM OfficeWellFormed ==
  ASSUME NEW u, Revokers = {u}
  PROVE  Spec => []OfficeTypeOK
<1>1. SessionSpec => []SessionTypeOK
  BY TokensWellFormed
<1>2. QED
  BY <1>1, OfficeRunsItsParts, CodesWellFormed, ListingsWellFormed, ReviewsWellFormed, VehiclesWellFormed,
     RulesInForceAreAccepted, ClientWellFormed, PTL DEF OfficeTypeOK
=============================================================================
