\* The claim of engine.go:363 on two plays and one place in the client.
SPECIFICATION Spec
CONSTANTS
  Play = {p1, p2}
  Warm = {}
  Infohash = {a, b}
  MaxTorrents = 1
  WarmCap = 1
  IdleTimeout = 1
  MaxClock = 2
  None = None
SYMMETRY Symmetry
PROPERTIES
  EvictSparesStreams
