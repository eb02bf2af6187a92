\* The claim of engine.go:341 on three plays: one adds, one evicts, one fills
\* the only place in the client. The clock stands still.
SPECIFICATION Spec
CONSTANTS
  Play = {p1, p2, p3}
  Warm = {}
  Infohash = {a, b}
  MaxTorrents = 1
  WarmCap = 1
  IdleTimeout = 0
  MaxClock = 0
  None = None
SYMMETRY Symmetry
PROPERTIES
  EvictSparesAdds
