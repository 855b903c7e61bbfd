\* One worker: the conversion against the mapping of spec.md 4.7.
CONSTANTS
  Workers = {w1}
  Formats = {"prometheus", "text"}
  NoServiceId = NoServiceId
  ServiceId = "s1"
  Volume = "/srv"
  Namespace = "ns"
  StatNames <- MCStatNames
  Snapshots <- MCSnapshots
SPECIFICATION Spec
INVARIANT PrometheusMatchesSpec
