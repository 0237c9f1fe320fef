SPECIFICATION Spec
CONSTANTS
  Bidders = {b1, b2}
  Requests = {r1, r2, r3}
  Offers = {1, 2, 3}
  StartPrice = 2
  PriceStep = 1
  Commission = 50
  StoredFormat = 42
  ChainFormat = 42
  Faults = {"bidFails", "transferFails", "tokenFails", "watchLost", "rpcFails", "apiCrash", "closerCrash"}
  PatientBidders = FALSE
  PromptTransactions = FALSE
  Market = Market
  Seller = Seller
  Nobody = Nobody
SYMMETRY Symmetry
CHECK_DEADLOCK FALSE
INVARIANTS TypeOK FinishedIsPaid PriceCovers CancelledHasNoBids SellerNeverHasBoth
PROPERTIES SellerPaidOnce NoUndercut OvertakeByStep
