CONSTANTS
  MaxRememberedNetworks = 2
  Ssids = {home, shop}
  Empty = Empty
  Torn = Torn
  MaxConnectTime = 2
  ClockMod = 3
  MaxLoopTime = 1
SPECIFICATION FairSpec
INVARIANTS
  TypeOK
  RetryHasTarget
  RadioFollowsState
  SsidsUnique
  ConnectEnds
PROPERTIES
  ConnectGetsItsTime
  ReconnectsToSame
  RestartKeepsNetworks
  NeverStuckConnecting
