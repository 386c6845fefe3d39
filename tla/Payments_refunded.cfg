CONSTANTS
  Orders = {o1}
  TopUps = {}
  Total = 2
  TopUpAmount = 1
  PartRefund = 1
  MaxGiven = 4
  Kinds = {"failed", "captured", "paid"}
  Sessions = {s1}
  Nobody = Nobody
  o1 = o1
  s1 = s1
SPECIFICATION Spec
INVARIANT NeverRefundUncancelled
\* one booking: when it is over there is nothing left to do
CHECK_DEADLOCK FALSE
