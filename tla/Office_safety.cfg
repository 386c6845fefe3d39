CONSTANTS
  Visits = {v1, v2}
  Codes = {c1, c2}
  NoCode = NoCode
  MaxAttempts = 2
  Ttl = 1
  EndAt = 2
  MaxClock = 3
  MaxJudged = 6
  Editors = {e1, e2}
  Seekers = {s1}
  Staff = {a1}
  MaxTotal = 2
  NoListing = NoListing
  Clients = {k1, k2}
  Revokers = {u1}
  Restorers = {u2}
  MaxVersion = 3
  Authors = {w1, w2}
  Trips = {t1, t2, t3}
  Ratings = {1, 2, 3}
  Drivers = {d1, d2}
  Plates = {p1, p2}
  Garage = {1, 2}
  NoVehicle = NoVehicle
  Admins = {s1, s2}
  Touched = {"booking_slot_minutes", "payment_hold_minutes", "overstay_max_hours"}
  Offers = {20, 7}
  NotStored = NotStored
  Hooks = {h1, h2}
  Signalled = {h1}
  MaxRuns = 2
  MaxTokens = 2
SPECIFICATION Spec
INVARIANT OfficeTypeOK
INVARIANT GuessesBounded
INVARIANT HistorySurvives
INVARIANT RevokedStaysOut
INVARIANT FreshAnswerShown
INVARIANT RetryWithNewToken
INVARIANT UpdatesNeverDeadlock
PROPERTY LiveCodeKept
PROPERTY CheckInWithLiveCode
 
PROPERTY StrandedByRaceOrReturn
PROPERTY SummaryStaleOnlyInRace
PROPERTY SoleDefault
\* the bounds end a run of the web client and the reviews
CHECK_DEADLOCK FALSE
