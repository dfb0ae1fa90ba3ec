CONSTANTS
  MaxConnections = 2
  Pcbs = {p1, p2}
  NoPcb = NoPcb
  Ports = {20, 80}
  TCP_MSS = 1
  TCP_WND = 1
  TCP_SND_BUF = 1
  MaxDataLength = 1
  MaxWriteTime = 1
  MaxAckTime = 1
  ClockMod = 3
  MaxLoopTime = 1
  MaxListeners = 2
  IPADDR_ANY = any
  Addresses = {}
  Protocols = {0, 3}
  protocolFtpData = 3
  MaxConns = 1
SYMMETRY PcbSymmetry
SPECIFICATION ServerSpec
INVARIANTS
  ServerTypeOK
  Ownership
  QuietAfterStop
  FtpDataOnce
  PortLimit
VIEW LiveView
