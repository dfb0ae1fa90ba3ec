CONSTANTS
  MaxListeners = 5
  Ports = {21, 80}
  IPADDR_ANY = any
  Addresses = {a, b}
  Protocols = {1, 3}
  protocolFtpData = 3
  MaxConns = 1
SPECIFICATION ListenerSpec
PROPERTIES
  StopsWhenAsked
