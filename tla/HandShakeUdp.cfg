SPECIFICATION HandShakeFairSpec
CONSTANTS
  Transports = {"udp"}
  Strays = 0
  MaxHellos = 2
PROPERTIES BeginReturns
CHECK_DEADLOCK FALSE
