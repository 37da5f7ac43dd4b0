\* Three players, of whom two may be gamemasters, have to do with the house, and
\* p2 may edit every house.
CONSTANTS
  p1 = p1
  p2 = p2
  p3 = p3
  Player = {p1, p2, p3}
  AlwaysLogin = {}
  None = None
  Address = {a1, a2}
  ChannelId = {100, 101}
  Gamemaster = {p1, p2}
  Tenant = {p1, p2}
  Bed = {b1, b2}
  Editor = {p2}
  Renter = {p1, p2}
  Period = 2
  WarningsLimit = 2
  LastDay = 6
  Funds = 1
  raidOfNobody = raidOfNobody
  raidOnce = raidOnce
  raidInTurn = raidInTurn
  Raid = {raidOfNobody, raidOnce, raidInTurn}
  RefType <- MCRefType
  Steps = 2
  Invader = {i1, i2, i3}
  Block = {k1, k2}
  Beast = {m1, m2, m3, m4}
  RateSpawn = 1
  Hunter = {p1}
  Monster = {m1, m2}
  Trainer = {p1, p2}
  Killer = {p1}
  WhiteTime = 1
  RedTime = 2
  BlackTime = 2
  ToRed <- MCToRed
  ToBlack <- MCToBlack
  DayLength = 1
  WeekDays = 2
  MonthDays = 3
  YearDays = 3
  LastHour = 3
  MaxFrags = 3
  Good = {g1, g2}
  unlit = unlit
  lit = lit
  stub = stub
  sconce = sconce
  corpse = corpse
  bones = bones
  Type = {unlit, lit, stub, sconce, corpse, bones}
  DecayTo <- MCDecayTo
  DecayTime <- MCDecayTime
  StopTime = {unlit}
  Kind <- MCKind
  Uses <- MCUses
  Vanishes = Vanishes
  Lasts = Lasts
  Buckets = 3
  Entries = 2
  MaxRounds = 2
  MaxTicks = 2
  MaxTogether = 2
  MaxSoon = 1
  Pokemon = {q1, q2}
  Spare = {"left", "ammo"}
  MaxOut = 2
  bag = bag
  pouch = pouch
  Carrier = p1
  Onlooker = {p2}
  Bag = {bag, pouch}
  Ball = Ball
  Capacity <- MCCapacity
  MaxStack = 2
  MaxBalls = 1
  About = 3
  Cid <- MCCid
SPECIFICATION WorldSpec
VIEW WorldView
INVARIANTS
  WorldTypeOK PartiesAreWhole ChannelsAreSound ReportsAreTrue 
  RaidsAreOrderly SpawnsAreExact CreaturesAreKept MarksAreTrue
  DecayIsTrue AilmentsPass  BelongingsAreTrue
PROPERTIES LettersKeepTheirWord DefendersStayInnocent
CHECK_DEADLOCK FALSE
