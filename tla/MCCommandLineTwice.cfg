SPECIFICATION Spec
CONSTANTS
  near = near  lan = lan  key = key
  None = None
  Remote <- MCRemote
  Room <- MCRoom
  Ip = lan
  Registered <- Nothing
  RoomsOf <- MCRoomsOf
  Wanted <- MCWantedAlways
  MaxLives <- MCLives
  MaxDrops = 0
  MaxPairings = 0
  MaxBacklog = 2
INVARIANTS SentAtMostOnce
CHECK_DEADLOCK FALSE
