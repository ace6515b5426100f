CONSTANTS
  Full = 5
  Minimum = 0
  GridPrices = {2}
  FeedIn = 1
  Confirm = 3
  Grace = 1
  Continuous = 3
  EvidenceAge = 2
  Gaps = {1, 4}
  Far = 5
  MaxEvents = 2
  None = None
SPECIFICATION LedgerSpec
INVARIANT TransientKeepsLedger
CHECK_DEADLOCK FALSE
