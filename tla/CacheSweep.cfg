\* One play beside two sweeps of a torrent and two foreign names, on a volume
\* of five bytes, two to an entry. Bounds: the clock stops at 2, so that an entry
\* left at 0 can outlive a retention of one tick; a second sweep meets what a
\* failed removal of the first left. The system may stop: the clock and the
\* sweeps are bounded.
SPECIFICATION Spec
CONSTANTS
  Play = {p1}
  Infohash = {a}
  Foreign = {f, g}
  None = None
  Configs <- MCConfigs
  Volume = 5
  Full = 2
  MaxClock = 2
  MaxSweeps = 2
SYMMETRY MCSymmetry
CHECK_DEADLOCK FALSE
INVARIANTS
  LocksKeepRecords
PROPERTIES
  StatsMatchDisk
  PlanMeetsPolicy
  RemovalSparesEarlierStreams
