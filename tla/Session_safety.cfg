\* Two clients and two players, one of them with premium time, one place in
\* the game: the second always waits.
CONSTANTS
  p1 = p1
  p2 = p2
  c1 = c1
  c2 = c2
  Player = {p1, p2}
  None = None
  Gone = Gone
  MaxPlayers = 1
  MaxOrders = 1
  ShutdownAtGlobalSave = FALSE
  Premium = {p2}
  PremiumSkips = FALSE
  AlwaysLogin = {}
  Machine = {c1, c2}
  Attempts <- MCAttempts
SPECIFICATION SessionSpec
INVARIANTS SessionTypeOK SessionsAreTrue 
PROPERTIES WaitingIsFair ClosingsEnd
CHECK_DEADLOCK FALSE
