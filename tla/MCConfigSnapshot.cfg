SPECIFICATION Spec
CONSTANTS
  wide = wide
  narrow = narrow
  broken = broken
  direct = direct
  ag1 = ag1
  cl1 = cl1
  watcher = watcher
  http = http
  q1 = q1
  effort = effort
  NoReloader = NoReloader
  Contents <- MCContents
  Unloadable <- MCUnloadable
  Invalid <- MCInvalid
  NoProxy <- MCNoProxy
  StartContent <- MCStartContent
  Creds <- MCCreds
  KindOf <- MCKindOf
  CredsOf <- MCCredsOf
  Reloaders <- MCReloaders
  HttpReloaders <- MCHttpReloaders
  Requests <- MCRequests
  Features <- MCFeatures
  MaxCalls = 2
  MaxVersion = 2
INVARIANTS
  UnfitFlagsFromCurrentConfig
  DroppedStayOut
PROPERTIES
  ReloadsPublishInLoadOrder
  ImplementsPublishedConfig
  ReloadReturns
CHECK_DEADLOCK FALSE
