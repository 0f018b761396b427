CONSTANTS
  Traders = {t1, t2}
  Amounts = {1, 2}
  Prices = {2}
  MaxIds = 2
  MaxOwn = 1
  FeeUnit = 1
  FeeMin = 1
  FeeMax = 3
  StartBank = 2
  StartPurse = 3
  StartStash = 1
  StartLocker = 1
  DbFails = FALSE
  NoOffer = NoOffer
SPECIFICATION MarketSpec
CHECK_DEADLOCK FALSE
INVARIANT ExpiryWillNotClone
