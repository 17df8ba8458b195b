SPECIFICATION ServerSpec
CONSTANTS
  None = None
  Oversize = Oversize
  E1 = E1
  B1 = B1
  C1 = C1
  A1 = A1
  A2 = A2
  Card = Card
  T1 = T1
  T2 = T2
  Threads = {T1}
  Item <- MCItem
  LineItems = {1}
  Entities = {E1}
  BundleIds = {B1}
  Formats = {Card}
  Creatives = {C1}
  Answers = {A1, A2}
  Tiers = {1}
  Requests <- MCRequests
  Receipts <- MCReceipts
  MinSlice = 1
  MaxNodeShare <- MCQuarter
  PeriodFraction <- MCWhole
  Floor = 1000
  MaxBid = 3000
  TakeRateBps = 1500
  HoldoutIds = {"held"}
  MaxPlacements = 1
  MaxRequests = 1
  MaxReceipts = 3
PROPERTY ImplementsExchange
