SPECIFICATION Spec
CONSTANTS
  Orders = {o1, o2}
  TopUps = {o2}
  Total = 2
  TopUpAmount = 1
  PartRefund = 1
  MaxGiven = 4
  Kinds = {"failed", "captured"}
  Sessions = {s1, s2}
  Nobody = Nobody
SYMMETRY SessionSymmetry
INVARIANTS
  TypeOK
  RefundWithinPayment
  ConfirmedWasCharged
CHECK_DEADLOCK FALSE
