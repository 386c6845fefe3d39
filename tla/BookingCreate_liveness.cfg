SPECIFICATION FairSpec
CONSTANTS
  Requests = {r1, r2, r3}
  NumSlots = 1
  Windows <- OneWindow
  MaxSlotRetries = 2
  NoBay = NoBay
  AskedBays <- AllBays
  Disputable <- AllRows
  SwitchedBays = {0}
  ReferencesCollide = TRUE
PROPERTY EveryRequestAnswered
CHECK_DEADLOCK FALSE
