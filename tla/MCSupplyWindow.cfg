SPECIFICATION Spec
CONSTANTS
  None = None
  Capped1 = Capped1
  Free1 = Free1
  T1 = T1
  T2 = T2
  LineItems = {Capped1, Free1}
  Capped = {Capped1}
  Contents <- MCCapped
  Threads <- MCOneThread
  MaxTurns = 2
  MaxBundles = 2
  MaxCrashes = 0
  MaxDelayed = 0
  SliceSizes = {1}
INVARIANT
  NoSliceNoServe
