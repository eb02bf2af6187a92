\* Two plays that may overlap on one of two infohashes or fight for the
\* single place in the client, and a warm. Bounds: two ticks of the clock, so
\* that a record can be older than the idle timeout of one.
SPECIFICATION Spec
CONSTANTS
  Play = {p1, p2}
  Warm = {w1}
  Infohash = {a, b}
  MaxTorrents = 1
  WarmCap = 1
  IdleTimeout = 1
  MaxClock = 2
  None = None
SYMMETRY Symmetry
INVARIANTS
  TypeOK
  ReadersExact
  AddingHasOwner
  WarmSlotsExact
PROPERTIES
  CondemnSparesReaders
  OnlyReapOrphansReaders
