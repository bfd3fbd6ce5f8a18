CONSTANTS
  Links <- BothLinks
  MaxCalls = 3
  Transports = {"stream", "udp"}
  Strays = 1
  MaxHellos = 3
  CharSigned = {TRUE, FALSE}
  Fd = {0}
  TimeOut = {0, 1}
  MaxNbBytes = 2
  MaxTime = 2
  Pin = {0}
  Wirings <- FailingPwm
SPECIFICATION MCFairSpec
INVARIANTS Accounted QuietCallIsAnswered ReadsOneLine OneReadPerByte ReadErrorReported
PROPERTIES EveryCallReturns CleanBeginReturns TimedCallReturns EndReturns
CHECK_DEADLOCK FALSE
