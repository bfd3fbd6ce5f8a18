SPECIFICATION FtdiGpioSpec
CONSTANTS
  Pin = {0, 8}
  Wirings <- BothChannels
INVARIANTS RightChannel
