SPECIFICATION DatabaseSpec
CONSTANTS
  Described <- MCDescribed
  Accounts = {"alice", "bob"}
  Buyers = {"bob"}
  Listed <- MCListed
  Listings <- MCListings
  OfferFilters <- MCOfferFilters
  TradeFilters <- MCTradeFilters
  Sorts <- MCSorts
  PageSize = 1
  MaxOffers = 4
  MaxWrites = 3
CHECK_DEADLOCK FALSE
INVARIANTS SchemaServed OnlyTheseRefusals WalkIsComplete CountsAgree
PROPERTIES OldTradesKept
