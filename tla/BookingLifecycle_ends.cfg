SPECIFICATION Spec
CONSTANTS
  Sessions = {t1}
  Sweepers = {w1}
  Nobody = Nobody
  MaxTime = 5
  StartAt = 1
  EndAt = 2
  HoldFor = 1
  Grace = 1
  MaxOverstay = 3
  Increment = 1
  ReminderLead = 1
  ArrivalEarly = 1
  CancelStarted = FALSE
  Gated = FALSE
PROPERTY
  EndsOnlySettled
CHECK_DEADLOCK FALSE
