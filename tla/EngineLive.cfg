\* One play and one warm that compete for one place in the client, with
\* fairness. Bounds: two ticks of the clock, one more than the idle timeout.
SPECIFICATION FairSpec
CONSTANTS
  Play = {p1}
  Warm = {w1}
  Infohash = {a, b}
  MaxTorrents = 1
  WarmCap = 1
  IdleTimeout = 1
  MaxClock = 2
  None = None
PROPERTIES
  EnsureReturns
  WarmEnds
  IdleIsReaped
  RecordComesBack
