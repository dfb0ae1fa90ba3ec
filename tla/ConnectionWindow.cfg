CONSTANTS
  MaxConnections = 1
  Pcbs = {p1, p2}
  NoPcb = NoPcb
  Ports = {80}
  TCP_MSS = 3
  TCP_WND = 6
  TCP_SND_BUF = 3
  MaxDataLength = 4
  MaxWriteTime = 1
  MaxAckTime = 1
  ClockMod = 2
  MaxLoopTime = 1
SYMMETRY PcbSymmetry
SPECIFICATION Spec
INVARIANTS
  ChainShape
  WindowConserved
  NoWindowStall
  AckAccounting
  WriteFits
PROPERTIES
  ImplementsContract
