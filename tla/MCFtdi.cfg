CONSTANTS
  Pin = {0, 1, 8, 9}
  Wirings <- ThreeWirings
  MaxBegun = 5
  BufferSize = 2
  I2CBase = 16
  Address = {0, 1}
  MaxQuantity = 3
  LengthBytes = {1, 2}
  Base = 2
  Frequency = {30000000, 7500001}
  MaxCount = 5
  MaxLateSPI = 1
SPECIFICATION MCSpec
INVARIANTS WriteSurvives NoUseAfterFree DeviceAgrees OpenMeansClaimed ReleasedWhenEnded
  NoFalseSuccess AnswersInPlace ClockNearRequest
CHECK_DEADLOCK FALSE
