CONSTANTS
  Links <- UdpLink
  MaxCalls = 2
SPECIFICATION Spec
PROPERTIES NoAnswerMissed
CHECK_DEADLOCK FALSE
