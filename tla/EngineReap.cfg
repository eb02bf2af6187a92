\* The claim of engine.go:940 on two plays. Bounds: one tick of the clock,
\* which is past an idle timeout of none.
SPECIFICATION Spec
CONSTANTS
  Play = {p1, p2}
  Warm = {}
  Infohash = {a, b}
  MaxTorrents = 1
  WarmCap = 1
  IdleTimeout = 0
  MaxClock = 1
  None = None
SYMMETRY Symmetry
PROPERTIES
  ReapSparesStreams
