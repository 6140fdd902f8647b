SPECIFICATION FairSpec
CONSTANTS
  phone = phone  home = home  f = f  g = g
  None = None  Empty = Empty  Unusable = Unusable
  Peer <- OnlyPhone
  Address <- OnlyHome
  Folder <- TwoFolders
  Settings <- SomeSettings
  MaxRequests = 2
  Limits <- Few
  MaxBacklog = 1
INVARIANTS RowsCatchUp RequestsCanBeAnswered ReceivesWhatWasAccepted
  SettingsAreInForce BannerIsTrue
PROPERTIES Settles
CHECK_DEADLOCK FALSE
