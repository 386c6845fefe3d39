SPECIFICATION FairSpec
CONSTANTS
  Sessions = {t1}
  Sweepers = {w1}
  Nobody = Nobody
  MaxTime = 4
  StartAt = 1
  EndAt = 2
  HoldFor = 1
  Grace = 1
  MaxOverstay = 2
  Increment = 1
  ReminderLead = 1
  ArrivalEarly = 1
  CancelStarted = FALSE
  Gated = TRUE
INVARIANT
  RemindedOnce
PROPERTIES
  LateNeverFree
  HoldsLapse
  BayReleased
CHECK_DEADLOCK FALSE
