SPECIFICATION SpecCalls
CONSTANTS
  None = None
  Oversize = Oversize
  S1 = S1
  S2 = S2
  Catalogue <- MCCatalogue
  Turns <- MCTurns
  MaxBid = 30
  Floors <- MCFloors
  A = A
  B = B
  C = C
  D = D
  MinSlice = 2
  MaxNodeShare <- MCHalf
  Nodes = {A, B, C, D}
  Deliveries = {0, 2, 3, 7}
  Budgets = {0, 3, 5, 9, 14, 25, 48}
  Prices = {0, 1000, 1500}
  Fractions <- MCFractions
  MaxDepth = 2
  MaxTerms = 3
  Missing = Missing
  Unhashable = Unhashable
  Predicates <- MCPredicates
  Signals <- MCSignals
  MaxHops = 2
  Undeclared = Undeclared
  Chains <- MCChains
  Declarations <- MCDeclarations
  MinSample = 3
  Unreported = Unreported
  Batches <- MCBatches
  MinNeedle = 1
  Raises = Raises
  Tokens <- MCTokens
  Answers <- MCAnswers
  Decisions <- MCDecisions
  SurfaceRenderers = {"markdown", "plaintext", "voice", "html"}
  Modulus = 16
  MaxWidth = 8
  Absent = Absent
  Specs <- MCSpecs
  GradientSpec <- MCGradientSpec
  People = {"u", "v"}
  Observed <- MCObserved
  Reports <- MCReports
  Told = {1, 3}
INVARIANTS
  TraceNamesTheWinner
  PriceIgnoresOwnBid
  WinnerCoversItsPrice
  NeverOverBudget
  CapAndRamps
  RampsIntact
  ReadingsAgree
  WrongNeverWidensUnnegated
  AcceptedIsVouchedFor
  RepeatingClearsNothing
  StripRecoversAnswer
  VerifierTellsWhatChanged
  InfluenceBounded
  ReleasedIsTheTotal
SYMMETRY MCNodesSymmetry
CHECK_DEADLOCK FALSE
