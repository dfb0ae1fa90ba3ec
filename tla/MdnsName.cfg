CONSTANTS
  MaxListeners = 2
  Ports = {21}
  IPADDR_ANY = any
  Addresses = {}
  Protocols = {0, 1, 3}
  protocolFtpData = 3
  MaxConns = 1
SPECIFICATION MdnsSpec
INVARIANT AdvertisedByProtocol
