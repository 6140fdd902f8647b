SPECIFICATION FairSpec
CONSTANTS
  a = a  b = b  r = r  s = s
  None = None
  Device <- MCDevice
  Secret <- TwoSecrets
  MaxLoadFailures = 1
  MaxDeleteFailures = 1
  Limits <- MCLimits
INVARIANTS TypeOK RegisteredWherePaired UnsavedIsReported ForgottenStaysForgotten
PROPERTIES EventuallyRegistered
CHECK_DEADLOCK FALSE
