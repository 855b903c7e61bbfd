\* Two workers answering STATS concurrently share the static body.
CONSTANTS
  Workers = {w1, w2}
  Formats = {"prometheus"}
  NoServiceId = NoServiceId
  ServiceId = NoServiceId
  Volume = "/srv"
  Namespace = "ns"
  StatNames <- MCStatNames
  Snapshots <- MCRaceSnapshots
SPECIFICATION Spec
INVARIANT ReplyCarriesOwnBody
