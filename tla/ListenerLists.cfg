CONSTANTS
  MaxListeners = 5
  Ports = {21, 80}
  IPADDR_ANY = any
  Addresses = {a, b}
  Protocols = {0, 2, 3}
  protocolFtpData = 3
  MaxConns = 1
SPECIFICATION MdnsSpec
VIEW ActiveView
INVARIANTS
  ListenerTypeOK
  ListsPartition
  ActiveMeansListening
  NoOverlap
  HeapBounded
  AdvertisesListener
