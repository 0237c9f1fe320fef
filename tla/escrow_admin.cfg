SPECIFICATION Spec
CONSTANTS
  Users = {u1, u2}
  Tokens = {t1}
  Prices = {2}
  Amounts = {2}
  MaxKSM = 0
  Coins = 2
  Contract = Contract
  Nobody = Nobody
  Commission = 100
  MaxUniqueCalls = 2
  MaxKusamaCalls = 1
  MaxRestarts = 0
  Allowed = {"scanFails", "edit", "massCancel", "disable", "sharedBlocks", "direct"}
SYMMETRY Symmetry
INVARIANTS NoTradeTwice NoPayoutTwice OfferedIsHeld
PROPERTIES OnlyOwnerReopens ImplementsExchange
VIEW Live
