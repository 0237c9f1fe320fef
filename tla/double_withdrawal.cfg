SPECIFICATION Spec
CONSTANTS
  Bidders = {b1, b2}
  Requests = {r1, r2, r3, r4}
  Offers = {2, 3}
  StartPrice = 2
  PriceStep = 1
  Commission = 50
  StoredFormat = 42
  ChainFormat = 42
  Faults = {}
  PatientBidders = FALSE
  PromptTransactions = TRUE
  Market = Market
  Seller = Seller
  Nobody = Nobody
SYMMETRY Symmetry
CHECK_DEADLOCK FALSE
INVARIANT WithdrawnOnce
