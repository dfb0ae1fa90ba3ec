CONSTANTS
  MaxRememberedNetworks = 1
  Ssids = {home}
  Empty = Empty
  Torn = Torn
  MaxConnectTime = 2
  ClockMod = 4
  MaxLoopTime = 1
SPECIFICATION Spec
PROPERTIES
  StopDisconnects
