SPECIFICATION ListingSpec
CONSTANTS
  Tokens = {t1, t2}
  Requests = {r1, r2}
  Contract = Contract
  MaxCalls = 2
  MaxActors = 3
  Faults = {"dispatchFails", "watchLost", "dropped", "fetchFails", "payFails"}
SYMMETRY Symmetry
CHECK_DEADLOCK FALSE
INVARIANTS AuctionBacked AuctionHasAsk NothingStranded OffersIndexed
