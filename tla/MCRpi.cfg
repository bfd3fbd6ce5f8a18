CONSTANTS
  Setup = {remote, wired, ftdi, rpi}
  Remote = {remote, wired}
  Nobody = Nobody
  Api = {"v1", "v2"}
  Object = {"o1", "o2"}
  Device = {"d1", "d2"}
  Pin = {1, 2}
  Frequency = {40}
  Bits = {10}
  PwmPin = {12, 18}
  Second = 1000000
  PwmWord = 4294967
  ServoId = {"s"}
  OtherPin = {7}
  PulseRange <- OneRange
  Pulse = {90}
  Slave = {a, b}
  MaxWrites = 2
  MaxLen = 2
  Mode = {0, 1}
  Speed = {500000, 1000000}
  MaxOpen = 2
SPECIFICATION MCSpec
SYMMETRY AlikeSlaves
INVARIANTS DefaultsAlive HeldIsMapped PwmAsCommanded PulseAsWritten BytesAccounted
PROPERTIES WriteReaches TransferAsSettings
CHECK_DEADLOCK FALSE
