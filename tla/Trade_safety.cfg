SPECIFICATION Spec
CONSTANTS
  None = None
  ash = ash
  brock = brock
  misty = misty
  coin = coin
  bag = bag
  box = box
  hut = hut
  lodge = lodge
  Player = {ash, brock, misty}
  Item = {coin, bag, box}
  Bag = {bag, box}
  House = {hut}
  Spot <- Line
  HouseSpot <- InsideOf
  Entry <- DoorOf
  Slots = 2
  BagSlots = 1
INVARIANTS TypeOK  OffersStand
PROPERTIES SwapIsWhole
SYMMETRY Symmetry
