SPECIFICATION Spec
CONSTANTS
  None = None
  Oversize = Oversize
  E1 = E1
  E2 = E2
  B1 = B1
  B2 = B2
  C1 = C1
  C2 = C2
  A1 = A1
  A2 = A2
  Card = Card
  Item <- MCItem
  Formats = {Card}
  Answers = {A1, A2}
  MinSlice = 1
  MaxNodeShare <- MCQuarter
  PeriodFraction <- MCWhole
  Floor = 1000
  MaxBid = 9000
  Budget = 16
  TakeRateBps = 1500
  HoldoutIds = {"held"}
  LineItems = {1, 2}
  Entities = {E1, E2}
  BundleIds = {}
  Creatives = {C1, C2}
  Tiers = {0, 1}
  Requests <- HostedRequests
  Receipts <- HostedReceipts
  MaxPlacements = 2
  MaxRequests = 2
  MaxReceipts = 2
INVARIANT TierVerified
