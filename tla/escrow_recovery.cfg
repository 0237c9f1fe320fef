SPECIFICATION Spec
CONSTANTS
  Users = {u1, u2}
  Tokens = {t1}
  Prices = {2}
  Amounts = {2}
  MaxKSM = 0
  Coins = 0
  Contract = Contract
  Nobody = Nobody
  Commission = 100
  MaxUniqueCalls = 3
  MaxKusamaCalls = 1
  MaxRestarts = 1
  Allowed = {"crash", "contractFails", "kusamaFails", "watchLost"}
SYMMETRY Symmetry
INVARIANTS RowSentOnce StatusIsTrue DepositsRecorded OffersListed NoSaleForgotten
