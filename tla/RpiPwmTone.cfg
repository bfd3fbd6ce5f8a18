SPECIFICATION RpiPwmSpec
CONSTANTS
  Frequency = {50, 4000}
  Bits = {8}
  PwmPin = {12}
  Second = 1000000
  PwmWord = 4294967
PROPERTIES ToneHasFrequency
