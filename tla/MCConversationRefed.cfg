SPECIFICATION Spec
CONSTANTS
  U = U
  V = V
  L = L
  None = None
  Users = {U}
  Strippers = {}
  Topics = {"intent", "sensitive", "plain", "parts"}
  Replies = {"plain", "noncanonical", "list"}
  LineItems = {L}
  Limit <- MCLimit
  AdSays <- MCAdSays
  AdEvery = 1
  MaxTurns <- MCTurns
INVARIANTS
  NothingReachesUpstream
CHECK_DEADLOCK FALSE
