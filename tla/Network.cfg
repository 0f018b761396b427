CONSTANTS
  ServerSendsFirst = {TRUE, FALSE}
  MaxMessages = 3
  MaxPackets = 3
  c1 = c1  c2 = c2  c3 = c3
  Clients = {c1, c2, c3}
  MaxPlayers = 2
  NoClient = NoClient
  ReplaceKick = {TRUE, FALSE}
  g1 = g1  g2 = g2  g3 = g3  gm = gm
  Guests = {g1, g2, g3, gm}
  Staff = {gm}
  MaxOnline = 1
  MaxSkew = 2
  Nobody = Nobody
SPECIFICATION Spec
CHECK_DEADLOCK FALSE
INVARIANTS ConnectionIsSafe 
PROPERTIES ConnectionEnds  QueueIsFair
