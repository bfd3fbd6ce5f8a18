CONSTANTS
  Host = {board, other}
  NoHost = NoHost
  Peer = {board}
  Class = {"EthernetUDP", "WiFiUDPStream"}
  TxSize = 2
  MaxWrites = 3
  MaxPackets = 2
  MaxBegins = 2
  Fd = {1, 2, 3}
  Impl = {i1, i2, i3}
  Handle = {h1, h2, h3}
  Server = {s1}
  Nobody = Nobody
  Sketches <- ThreeSketches
  Socket = {"s1", "s2", "s3"}
  MaxContexts = 3
SPECIFICATION MCSpec
INVARIANTS NoWriteToNull NoSocketLeak AtMostOnceInOrder FlushSendsOnce NoForeign NoLeak
  ContextServesAll
SYMMETRY Alike
CHECK_DEADLOCK FALSE
