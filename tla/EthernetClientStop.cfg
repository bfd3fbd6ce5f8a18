SPECIFICATION ClientSpec
CONSTANTS
  Fd = {1, 2}
  Impl = {i1, i2}
  Handle = {h1, h2}
  Server = {}
  Nobody = Nobody
  Sketches <- StoppingSketch
INVARIANTS StopTouchesNobodyElse
