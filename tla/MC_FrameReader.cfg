CONSTANTS
  Conns = {c1, c2}
  Streams <- MCStreams
  ByteMax = 2
  MaxRequestSize = 60
  HttpThreshold = 40
  HttpReadahead = 7
  HttpVerbSizes = {54}
  HttpMarker <- MCMarker
  MaxMemory = 2
  MaxSlabs = 2
SPECIFICATION Spec
INVARIANTS TypeOK FramesIntact MemoryAccounted
PROPERTIES AllFramesDelivered
CHECK_DEADLOCK FALSE
