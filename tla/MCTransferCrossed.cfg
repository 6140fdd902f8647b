SPECIFICATION Spec
CONSTANTS
  a = a  b = b  f = f  g = g  empty = empty
  None = None
  Peer <- MCPeer
  File <- MCFile
  Size <- SmallSize
  Batches <- OneFileBatches
  Senders <- MCPeer
  AutoAccept <- Nobody
  PartitionSize = 1
  ProgressSteps = 1
  MaxRequests = 7
  MaxFaults = 2
  MaxDrops = 0
INVARIANT FinishedMeansSaved
CHECK_DEADLOCK FALSE
