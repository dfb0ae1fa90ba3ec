CONSTANTS
  MaxRememberedNetworks = 1
  Ssids = {home}
  Empty = Empty
  Torn = Torn
  MaxConnectTime = 3
  ClockMod = 6
  MaxLoopTime = 2
SPECIFICATION HistorySpec
PROPERTIES
  ReconnectGetsItsTime
