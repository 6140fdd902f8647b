SPECIFICATION Spec
CONSTANTS
  a = a  b = b  f = f  g = g  empty = empty
  None = None
  Peer <- MCPeer
  File <- MCFile
  Size <- MCSize
  Batches <- TwoBatches
  Senders <- MCPeer
  AutoAccept <- OnlyB
  PartitionSize = 2
  ProgressSteps = 2
  MaxRequests = 3
  MaxFaults = 1
  MaxDrops = 1
INVARIANTS TypeOK SavedIntact ManifestHonoured
PROPERTIES ImplementsFileDelivery
CHECK_DEADLOCK FALSE
