SPECIFICATION Spec
CONSTANTS
  Sessions = {t1, t2}
  Sweepers = {w1}
  Nobody = Nobody
  MaxTime = 4
  StartAt = 1
  EndAt = 2
  HoldFor = 1
  Grace = 1
  MaxOverstay = 2
  Increment = 1
  ReminderLead = 0
  ArrivalEarly = 1
  CancelStarted = FALSE
  Gated = FALSE
SYMMETRY SessionSymmetry
INVARIANTS
  TypeOK
  PaidBeforeUse
PROPERTIES
  ExpiryTakesOnlyLapsed
  PaymentNeverForgotten
CHECK_DEADLOCK FALSE
