SPECIFICATION Spec
CONSTANTS
  a = a  b = b  r = r  s = s  lan = lan  wan = wan
  None = None
  Device <- MCDevice
  Secret <- MCSecret
  Ip <- MCIp
  Homes <- Apart
  InitiallyHeld <- OneSecret
  Settles = FALSE
  Limits <- FaultLimits
INVARIANTS TypeOK NoSessionIsLeaked
CHECK_DEADLOCK FALSE
