SPECIFICATION Spec
CONSTANTS
  None = None
  ash = ash
  brock = brock
  misty = misty
  coin = coin
  bag = bag
  box = box
  hut = hut
  lodge = lodge
  Player = {ash, brock, misty}
  Item = {coin}
  Bag = {}
  House = {hut, lodge}
  Spot <- Street
  HouseSpot <- InsideOf
  Entry <- DoorOf
  Slots = 1
  BagSlots = 1
INVARIANT OneHouseEach
