SPECIFICATION FairSpec
CONSTANTS
  b = b  lan = lan  pair = pair
  Remote <- OneRemote
  Room <- MCRoom
  Limits <- MCLimits
INVARIANTS TypeOK OneConnection PeersAreOfThisSession ListedWhereShared
PROPERTIES EventuallyCaughtUp
CHECK_DEADLOCK FALSE
