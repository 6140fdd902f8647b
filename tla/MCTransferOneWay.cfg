SPECIFICATION FairSpec
CONSTANTS
  a = a  b = b  f = f  g = g  empty = empty
  None = None
  Peer <- MCPeer
  File <- MCFile
  Size <- MCSize
  Batches <- MCBatches
  Senders <- OnlyA
  AutoAccept <- Nobody
  PartitionSize = 2
  ProgressSteps = 2
  MaxRequests = 3
  MaxFaults = 2
  MaxDrops = 1
INVARIANTS FinishedMeansSaved QuietMeansAgreed BusyRowIsBusy OnePartitionInFlight
PROPERTIES RequestConcludes ReceivingConcludes
CHECK_DEADLOCK FALSE
