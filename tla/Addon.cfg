\* One request followed through its search, one that only uses the list cache.
\* Bounds: a list cache of two for five titles, so that two requests can take it
\* beyond its own bound; a list of two rows; three sources in three worlds.
\* Requests come again and again.
SPECIFICATION FairSpec
CONSTANTS
  a = a  b = b  c = c  t1 = t1  t2 = t2  t3 = t3  t4 = t4  t5 = t5  r1 = r1  r2 = r2
  Req = {r1, r2}
  Searching = {r1}
  Title = {t1, t2, t3, t4, t5}
  None = None
  NoHash = NoHash
  Rows = 2
  Episodes <- MCEpisodes
  Asked <- MCAsked
  Kinds <- MCKinds
  NQueries = 2
  Worlds <- MCWorlds
  EpCap = 2
INVARIANTS
  EpisodesBounded
PROPERTIES
  AnswersBest
  SourcesEnd
  EpisodeRemapped
