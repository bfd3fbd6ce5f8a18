SPECIFICATION I2CSpec
CONSTANTS
  BufferSize = 1
  I2CBase = 256
  Address = {1}
  MaxQuantity = 1
PROPERTIES BusReleased
CHECK_DEADLOCK FALSE
