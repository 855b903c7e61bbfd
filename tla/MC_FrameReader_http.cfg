CONSTANTS
  Conns = {c1}
  Streams <- MCShortHttp
  ByteMax = 2
  MaxRequestSize = 60
  HttpThreshold = 40
  HttpReadahead = 7
  HttpVerbSizes = {54}
  HttpMarker <- MCMarker
  MaxMemory = 2
  MaxSlabs = 2
SPECIFICATION Spec
INVARIANT TeapotOnlyForHttp
CHECK_DEADLOCK FALSE
