SPECIFICATION FairSpec
CONSTANTS
  None = None
  Capped1 = Capped1
  Free1 = Free1
  T1 = T1
  T2 = T2
  LineItems = {Capped1, Free1}
  Capped = {Capped1}
  Contents <- MCOneEach
  Threads <- MCOneThread
  MaxTurns = 2
  MaxBundles = 2
  MaxCrashes = 1
  MaxDelayed = 1
  SliceSizes = {1}
INVARIANTS
  EachImpressionOwnNonce
  InsideSliceIsPaid
PROPERTIES
  DecidedOnce
  NoReceiptDropped
  EveryReceiptAnswered
