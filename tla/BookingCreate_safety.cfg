SPECIFICATION Spec
CONSTANTS
  Requests = {r1, r2, r3}
  NumSlots = 2
  Windows <- MCWindows
  MaxSlotRetries = 2
  NoBay = NoBay
  AskedBays <- OneNamed
  Disputable <- AllRows
  SwitchedBays = {0}
  ReferencesCollide = FALSE
SYMMETRY RequestSymmetry
INVARIANTS
  TypeOK
  NoDoubleBooking
  NamedBayOrNothing
  RefusalHasWinner
PROPERTY ImplementsCalendar
CHECK_DEADLOCK FALSE
