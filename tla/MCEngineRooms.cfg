SPECIFICATION FairSpec
CONSTANTS
  a = a  b = b  r = r  s = s  lan = lan  wan = wan
  None = None
  Device <- MCDevice
  Secret <- MCSecret
  Ip <- MCIp
  Homes <- Either
  InitiallyHeld <- OneSecret
  Settles = TRUE
  Limits <- RoomLimits
INVARIANTS QuietMeansConnected UntrustedIsPrompted
PROPERTIES EventuallyConnected
CHECK_DEADLOCK FALSE
