CONSTANTS
  Orders = {o1}
  TopUps = {}
  Total = 2
  TopUpAmount = 1
  PartRefund = 1
  MaxGiven = 2
  Kinds = {"failed", "captured"}
  Sessions = {s1, s2}
  Nobody = Nobody
  o1 = o1
  s1 = s1
  s2 = s2
SPECIFICATION FairSpec
PROPERTY CaptureReachesTheBooks
\* one booking: when it is over there is nothing left to do
CHECK_DEADLOCK FALSE
