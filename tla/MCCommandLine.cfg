SPECIFICATION FairSpec
CONSTANTS
  near = near  lan = lan  key = key
  None = None
  Remote <- MCRemote
  Room <- MCRoom
  Ip = lan
  Registered <- Nothing
  RoomsOf <- MCRoomsOf
  Wanted <- MCWanted
  MaxLives <- MCLives
  MaxDrops = 1
  MaxPairings = 1
  MaxBacklog = 2
INVARIANTS TypeOK  QuietMeansListed
PROPERTIES Stops
CHECK_DEADLOCK FALSE
