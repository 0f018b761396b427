CONSTANTS
  p1 = p1  p2 = p2  p3 = p3  bag = bag  coin = coin  sword = sword
  Players = {p1, p2, p3}
  Items = {bag, coin, sword}
  Bags = {bag}
  Stackable = {coin}
  HasStack = {p1}
  Perishable = {coin}
  Slots = 1
  BagSize = 1
  Positions = {0, 1, 3}
  Blocked <- BlockedPairs
  GroundSpot = 0
  Ground = Ground
  None = None
  o1 = o1  gd = gd
  Owners = {o1}
  Guilds = {gd}
  Denied = {}
  Rate = 2
  StackSize = 2
  PurseSize = 2
  Sums = {3, 13}
  Savings = {0, 13}
  MaxBalance = 13
  t1 = t1  t2 = t2
  Traders = {t1, t2}
  Amounts = {1, 2}
  Prices = {1, 2}
  MaxIds = 2
  MaxOwn = 1
  FeeUnit = 1
  FeeMin = 1
  FeeMax = 3
  StartBank = 3
  StartPurse = 3
  StartStash = 1
  StartLocker = 1
  DbFails = TRUE
  NoOffer = NoOffer
  f1 = f1  f2 = f2  f3 = f3  f4 = f4  h1 = h1  h2 = h2  h3 = h3  h4 = h4
  Folk = {f1, f2, f3, f4}
  Parties = {h1, h2, h3, h4}
  NoParty = NoParty
  NoLeader = NoLeader
  m1 = m1  m2 = m2  qa = qa  qb = qb  hall = hall
  Talkers = {m1, m2}
  Groups = {qa, qb}
  NoGroup = NoGroup
  Normal = {hall}
  Private = {100, 101}
  NoOwner = NoOwner
  r1 = r1  r2 = r2  lamp = lamp
  Residents = {r1, r2}
  Belongings = {lamp}
  MaxWarnings = 2
  Nobody = Nobody
  NoTransfer = NoTransfer
SYMMETRY Alike
SPECIFICATION Spec
CHECK_DEADLOCK FALSE
INVARIANTS     HouseIsKept
PROPERTIES   PartyLivesOn
