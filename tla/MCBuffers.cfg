CONSTANTS
  Byte <- MCByte
  max_len = 3
  MaxArray = 3
  Char <- MCChar
  Unset = 0
  MaxChars = 3
  MaxSize = 3
  MD5Byte = {"a", "b"}
  Block = 4
  LengthBytes = 1
  HexChunk = 2
  StreamChunk = 2
  MaxAdded = 3
  MaxMessage = 5
  TcpByte = {"0", "x"}
  Zero = "0"
  Garbage = "?"
  TcpBufferSize = 2
  MaxTcpArray = 2
  MaxTcpWritten = 3
  MaxTcpReceived = 2
  MaxConnects = 2
  SerialBufferSize = 2
  max_buffer_len = 2
  MaxSerialWritten = 3
  MaxSerialArray = 2
  MaxSerialReceived = 3
  MaxIncoming = 1
SPECIFICATION MCSpec
INVARIANTS IInv DigestOfMessage PeerGetsWritten ReadsInOrder SentInOrder ReadInOrder
PROPERTIES ImplementsFifo ImplementsCharFifo
CHECK_DEADLOCK FALSE
