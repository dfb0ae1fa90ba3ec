CONSTANTS
  MaxConnections = 2
  Pcbs = {p1, p2}
  NoPcb = NoPcb
  Ports = {80}
  TCP_MSS = 1
  TCP_WND = 1
  TCP_SND_BUF = 1
  MaxDataLength = 1
  MaxWriteTime = 1
  MaxAckTime = 2
  ClockMod = 5
  MaxLoopTime = 1
SPECIFICATION FairAgeSpec
INVARIANTS
  TypeOK
  PcbOwnership
  NoBufferLeak
  CloseBounded
PROPERTIES
  GracefulClose
  ReleasedOnlyBySam
  NotAbortedEarly
  ImplementsFairContract
  CloseCompletes
