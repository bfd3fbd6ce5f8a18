SPECIFICATION SPISpec
CONSTANTS
  LengthBytes = {2}
  Base = 2
  Frequency = {30000000}
  MaxCount = 2
  MaxLateSPI = 1
INVARIANTS ReceivedByte
