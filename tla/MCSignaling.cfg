SPECIFICATION FairSpec
CONSTANTS
  None = None
  MaxAttempts = 3
  MaxSends = 2
  MaxFrames = 2
  MaxFailures = 4
INVARIANTS OneIdentity GivesUpInTime StopsDialling
PROPERTIES EndsWhenAsked KeepsConnecting
CHECK_DEADLOCK FALSE
