SPECIFICATION FairSpec
CONSTANTS
  U = U
  V = V
  L = L
  None = None
  Users = {U, V}
  Strippers = {U}
  Topics = {"intent", "sensitive", "plain", "parts"}
  Replies = {"plain", "noncanonical", "list"}
  LineItems = {L}
  Limit <- MCLimit
  AdSays <- MCAdSays
  AdEvery = 2
  MaxTurns <- MCTurns
INVARIANTS
  SensitiveStaysSilent
  StrippedContextIsOrganic
PROPERTIES
  EveryRequestAnswered
CHECK_DEADLOCK FALSE
