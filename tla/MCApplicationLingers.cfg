SPECIFICATION Spec
CONSTANTS
  phone = phone  home = home  f = f  g = g
  None = None  Empty = Empty  Unusable = Unusable
  Peer <- OnlyPhone
  Address <- OnlyHome
  Folder <- TwoFolders
  Settings <- SomeSettings
  MaxRequests = 0
  Limits <- NoRequests
  MaxBacklog = 0
INVARIANT NoneLinger
CHECK_DEADLOCK FALSE
