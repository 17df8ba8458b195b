SPECIFICATION Spec
CONSTANTS
  None = None
  Brand = Brand
  Home = Home
  Fit = Fit
  L1 = L1
  L2 = L2
  C1 = C1
  C2 = C2
  R1 = R1
  R2 = R2
  Campaigns = {C1, C2}
  LineItems = {L1, L2}
  Creatives = {R1, R2}
  Advertisers = {Brand}
  Domains = {Home}
  Clicks = {k1}
  Events = {e1}
  Advertiser <- MCAdvertiser
  Contents = {Fit}
  Flaws <- MCFlaws
  Host <- MCHost
INVARIANT
  ServedIsApproved
