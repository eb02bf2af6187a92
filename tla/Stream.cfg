\* Eight torrents and five ways to ask; files of up to three chunks. Bounds:
\* ages stop at 4; the idle time is 3 or 4 ticks against 2 of the throttle.
SPECIFICATION FairSpec
CONSTANTS
  Torrents <- MCTorrents
  Asks <- MCAsks
  MaxSize = 3
  IdleLimits = {3, 4}
  Throttle = 2
  MaxAge = 4
INVARIANTS
  ServedFits
  ServedIsRange
PROPERTIES
  ExpiryNeedsSilence
  StalledEnds
  GoneEnds
