\* The same search, for what the comment on the filter says of it.
SPECIFICATION FairSpec
CONSTANTS
  a = a  b = b  c = c  t1 = t1  t2 = t2  t3 = t3  t4 = t4  t5 = t5  r1 = r1  r2 = r2
  Req = {r1, r2}
  Searching = {r1}
  Title = {t1, t2, t3, t4, t5}
  None = None
  NoHash = NoHash
  Rows = 2
  Episodes <- MCEpisodes
  Asked <- MCAsked
  Kinds <- MCKinds
  NQueries = 2
  Worlds <- MCWorlds
  EpCap = 2
PROPERTIES
  FilterNeedsMatch
