----------------------------- MODULE SearchMerge -----------------------------
(***************************************************************************)
(* What searchAll of indexers.go makes of the answers it hears, and what   *)
(* remapEpisode of addon.go makes of an episode number.  Pure.             *)
(*                                                                         *)
(* A result is [ih, seeders, score, sig]: score is scoreResult of it, sig  *)
(* is episodeSignal of its title for the episode searched, NoHash an empty *)
(* infohash.  An episode is <<season, number>>, <<0, 0>> for a film.       *)
(***************************************************************************)
EXTENDS Integers, Sequences, FiniteSets, SequencesExt

CONSTANTS NoHash, Rows   \* Rows: 40 in the code

Index(all, ih) == {i \in DOMAIN all : all[i].ih = ih}

\* Mutant of Merge: the first copy of a release stays, whatever it reports.
MergeFirst(all, r) ==
  IF r.ih = NoHash \/ Index(all, r.ih) # {} THEN all ELSE Append(all, r)

\* One result: a copy with more seeders takes the place of the one kept.
Merge(all, r) ==
  LET i == CHOOSE k \in Index(all, r.ih) : TRUE IN
  IF r.ih = NoHash THEN all
  ELSE IF Index(all, r.ih) = {} THEN Append(all, r)
  ELSE IF r.seeders > all[i].seeders THEN [all EXCEPT ![i] = r]
  ELSE all

\* A film is <<0, 0>>: it has no season to fit.
Fits(r, episode) == episode[1] = 0 \/ r.sig >= 0

\* The results of the episode searched, in a loop as those after it.
KeepFitting(s, r, episode) == IF Fits(r, episode) THEN Append(s, r) ELSE s
Matching(rs, episode) == FoldLeft(LAMBDA s, r : KeepFitting(s, r, episode), <<>>, rs)

\* sortResults: each result goes behind those that score as much.
Insert(s, r) == InsertAt(s, 1 + Cardinality({i \in DOMAIN s : s[i].score >= r.score}), r)
Sorted(rs)   == FoldLeft(Insert, <<>>, rs)

KeepLive(s, r) == IF r.seeders > 0 THEN Append(s, r) ELSE s
DropDead(rs) ==
  LET live == FoldLeft(KeepLive, <<>>, rs) IN
  IF live = <<>> THEN rs ELSE live

\* The list for the player.
Ranked(all, episode) ==
  LET rs == DropDead(Sorted(Matching(all, episode))) IN
  SubSeq(rs, 1, IF Len(rs) < Rows THEN Len(rs) ELSE Rows)

----------------------------------------------------------------------------
(* The same, said without the order the answers came in.                   *)

Best(heard, ih) ==
  {r \in heard : r.ih = ih /\ \A s \in heard : s.ih = ih => s.seeders <= r.seeders}

\* A release is missing for a reason: a best copy is of another episode, is
\* dead beside live ones, or scores no more than a full list.
MayMiss(rows, heard, episode, ih) ==
  \E r \in Best(heard, ih) :
    \/ ~Fits(r, episode)
    \/ ~(r.seeders > 0) /\ \E i \in DOMAIN rows : rows[i].seeders > 0
    \/ Len(rows) = Rows /\ \A i \in DOMAIN rows : rows[i].score >= r.score

IsBestOf(rows, heard, episode) ==
  LET shown == {rows[i].ih : i \in DOMAIN rows} IN
  /\ Cardinality(shown) = Len(rows) /\ Len(rows) <= Rows
  /\ \A i \in DOMAIN rows : /\ rows[i] \in Best(heard, rows[i].ih)
                            /\ Fits(rows[i], episode)
  /\ \A i, j \in DOMAIN rows : /\ i < j => rows[i].score >= rows[j].score
                               /\ (rows[i].seeders > 0) = (rows[j].seeders > 0)
  /\ NoHash \notin shown
  /\ \A ih \in {r.ih : r \in heard} \ (shown \cup {NoHash}) :
       MayMiss(rows, heard, episode, ih)

----------------------------------------------------------------------------
\* Mutant of RemapEpisode: absolute numbers count from zero.
RemapEpisodeFromZero(eps, e) ==
  LET inSeason == Cardinality({i \in DOMAIN eps : eps[i][1] = e[1]}) IN
  IF eps = <<>> \/ e[1] # eps[1][1] \/ e[2] <= inSeason THEN e
  ELSE IF e[2] < Len(eps) THEN eps[e[2] + 1] ELSE e

\* A number the first season has no room for counts through all seasons.
RemapEpisode(eps, e) ==
  IF eps = <<>> THEN e
  ELSE IF e[1] # eps[1][1] \/ e[2] <= Cardinality({i \in DOMAIN eps : eps[i][1] = e[1]}) THEN e
  ELSE IF e[2] <= Len(eps) THEN eps[e[2]]
  ELSE e

----------------------------------------------------------------------------
(* The same, said without a count of the season.                           *)

\* Episode x for e: it keeps its number as far as the first season goes without a
\* gap; it leaves it only for the episode in that place of the show, which is of a
\* later season; and a number past the last of the season goes there, if the list
\* names nothing twice.
SettlesOn(eps, e, x) ==
  /\ \/ x = e
     \/ /\ e[2] \in DOMAIN eps /\ e[1] = eps[1][1]
        /\ x = eps[e[2]] /\ x[1] > e[1]
  /\ (\A n \in 1..e[2] : <<e[1], n>> \in ToSet(eps)) => x = e
  /\ /\ e[2] \in DOMAIN eps /\ e[1] = eps[1][1] /\ IsInjective(eps)
     /\ \A i \in DOMAIN eps : eps[i][1] = e[1] => eps[i][2] < e[2]
     => x = eps[e[2]]
=============================================================================
