SPECIFICATION Spec
CONSTANTS
  Adv = Adv
  P1 = P1
  P2 = P2
  TakeRateBps = 1500
  Advertisers = {Adv}
  Payees = {P1, P2}
  OnHold = {}
  Minimum = 10
  Amounts = {20}
  Adjustments = {0}
  Withholdings = {0, 2}
  MaxAccruals = 1
  MaxInvoices = 1
  MaxPayouts = 1
  MaxDisputes = 2
  Makes = {20000}
INVARIANT
  ImbalanceZero
SYMMETRY MCSymmetry
