SPECIFICATION Spec
CONSTANTS
  Users = {u1, u2}
  Tokens = {t1}
  Prices = {2}
  Amounts = {2}
  MaxKSM = 0
  Coins = 0
  Contract = Contract
  Nobody = Nobody
  Commission = 100
  MaxUniqueCalls = 2
  MaxKusamaCalls = 0
  MaxRestarts = 0
  Allowed = {"sharedBlocks"}
SYMMETRY Symmetry
INVARIANT OffersListed
