SPECIFICATION FairSpec
CONSTANTS
  Bidders = {b1, b2}
  Requests = {r1, r2, r3}
  Offers = {2, 3}
  StartPrice = 2
  PriceStep = 1
  Commission = 50
  StoredFormat = 42
  ChainFormat = 42
  Faults = {"bidFails"}
  PatientBidders = FALSE
  PromptTransactions = FALSE
  Market = Market
  Seller = Seller
  Nobody = Nobody

CHECK_DEADLOCK FALSE
PROPERTIES AuctionCloses
