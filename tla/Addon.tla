-------------------------------- MODULE Addon --------------------------------
(***************************************************************************)
(* handleStream of addon.go: a title is looked up, its episode list goes   *)
(* into the list cache and settles the episode number, the indexers are    *)
(* asked all at once, and what has answered by the soft deadline is merged *)
(* into the list (searchAll of indexers.go).                               *)
(*                                                                         *)
(* Requests come again and again.  Two searches share nothing and touch no *)
(* list, so a behaviour is about one or the other: in a world of sources   *)
(* only the requests of Searching come, in the world None all of them, and *)
(* their searches are left out.                                            *)
(***************************************************************************)
EXTENDS Integers, Sequences, FiniteSets, SequencesExt, SearchMerge

CONSTANTS
  Req, Searching, \* requests under way at a time, and those that come to search
  Title,
  None,
  Episodes,       \* title -> its list of episodes
  Asked,          \* request -> the episodes it may ask for
  Kinds,          \* kinds of the enabled indexers, one of each
  NQueries,       \* names the title goes by
  Worlds,         \* what the sources have: functions from Source to results
  EpCap           \* 4096 in the code

ASSUME AddonAssumption ==
  /\ IsFiniteSet(Req) /\ Searching \subseteq Req
  /\ None \notin Title
  /\ IsFiniteSet(Kinds) /\ NQueries \in Nat
  /\ EpCap \in Nat \ {0}

\* What resolveMeta keeps of a list, in order, and what strconv.Atoi makes of a request.
ASSUME EpisodesAssumption ==
  /\ Episodes \in [Title -> Seq((Nat \ {0}) \X (Nat \ {0}))]
  /\ \A t \in Title : \A i, j \in DOMAIN Episodes[t] :
       i < j => Episodes[t][i][1] <= Episodes[t][j][1]
  /\ Asked \in [Req -> SUBSET (Int \X Int)]

\* queriesFor, of at most six queries.
QueriesFor(kind) ==
  LET n    == IF NQueries > 6 THEN 6 ELSE NQueries
      most == CASE kind \in {"eztv", "yts", "torrentio"}   -> 1
                [] kind \in {"nyaa", "apibay", "animetosho"} -> 3
                [] OTHER -> n
  IN  1..(IF n < most THEN n ELSE most)

\* The goroutines of one search.
Source == UNION {{k} \X QueriesFor(k) : k \in Kinds}

\* What the sources have. A score stands for its place among the float64s: a source
\* that reports less than -1 seeders, whose math.Log1p is not a number, is left out.
Results == UNION {ToSet(w[s]) : w \in Worlds, s \in Source}

ASSUME ResultsAssumption ==
  /\ Rows \in Nat \ {0}
  /\ \A w \in Worlds, s \in Source : w[s] \in Seq(Results)
  /\ \A r \in Results : r.seeders \in Int /\ r.score \in Int

VARIABLES
  world,
  epCache, epN,   \* titles with a list, and the counter beside them
  pc, id,         \* requests: control point, title
  episode,        \* the episode, as asked until Fix and as settled after it
  src,            \* of a search: its sources, "ask", "ok", "failed" or "over"
  ch,             \* its channel, of [src, ok]
  all,            \* the results merged so far
  heard,          \* history: what was received
  rows            \* the list it answered with

listVars == <<epCache, epN>>
findVars == <<src, ch, all, heard, rows>>
vars == <<world, listVars, pc, id, episode, findVars>>

Goto(r, l) == pc' = [pc EXCEPT ![r] = l]
Idle == [s \in Source |-> "over"]

----------------------------------------------------------------------------
(* The title and its episodes.                                             *)

Arrive(r) ==
  /\ pc[r] = "idle" /\ (world = None \/ r \in Searching)
  /\ Goto(r, "meta")
  /\ \E t \in Title, e \in Asked[r] :
       /\ id' = [id EXCEPT ![r] = t]
       /\ episode' = [episode EXCEPT ![r] = e]
  /\ UNCHANGED <<world, listVars, findVars>>

\* resolveMeta fails: no list.
NoMeta(r) ==
  /\ pc[r] = "meta"
  /\ Goto(r, "done")
  /\ UNCHANGED <<world, listVars, id, episode, findVars>>

\* It knows the title, from the meta cache or from Cinemeta; storeEpisodeList
\* looks whether the list is new.
Meta(r) ==
  /\ pc[r] = "meta"
  /\ Goto(r, IF id[r] \in epCache THEN "keep" ELSE "count")
  /\ UNCHANGED <<world, listVars, id, episode, findVars>>

Count(r) ==
  /\ pc[r] = "count"
  /\ epN' = epN + 1
  /\ Goto(r, IF epN' > EpCap THEN "clear" ELSE "keep")
  /\ UNCHANGED <<world, epCache, id, episode, findVars>>

Clear(r) ==
  /\ pc[r] = "clear"
  /\ epCache' = {}
  /\ Goto(r, "reset")
  /\ UNCHANGED <<world, epN, id, episode, findVars>>

\* Mutant of Reset: the counter is set to none, as if its own list came later.
ResetToZero(r) ==
  /\ pc[r] = "reset"
  /\ epN' = 0
  /\ Goto(r, "keep")
  /\ UNCHANGED <<world, epCache, id, episode, findVars>>

Reset(r) ==
  /\ pc[r] = "reset"
  /\ epN' = 1
  /\ Goto(r, "keep")
  /\ UNCHANGED <<world, epCache, id, episode, findVars>>

Keep(r) ==
  /\ pc[r] = "keep"
  /\ epCache' = epCache \cup {id[r]}
  /\ Goto(r, "fix")
  /\ UNCHANGED <<world, epN, id, episode, findVars>>

\* fixEpisodeNumber, from the cache: the list may be gone again. The title has
\* served its purpose.
Fix(r) ==
  /\ pc[r] = "fix"
  /\ episode' = [episode EXCEPT ![r] =
       IF @[1] > 0 /\ @[2] > 0 /\ id[r] \in epCache THEN RemapEpisode(Episodes[id[r]], @)
                                                    ELSE @]
  /\ id' = [id EXCEPT ![r] = None]
  /\ Goto(r, IF world # None THEN "search" ELSE "done")
  /\ UNCHANGED <<world, listVars, findVars>>

----------------------------------------------------------------------------
(* The search.                                                             *)

\* Mutant of ChanCap: one place for each indexer.
ChanCapPerIndexer == Cardinality(Kinds)

ChanCap == Cardinality(Kinds) * NQueries

Search(r) ==
  /\ pc[r] = "search"
  /\ src' = [src EXCEPT ![r] = [s \in Source |-> "ask"]]
  /\ Goto(r, "wait")
  /\ UNCHANGED <<world, listVars, id, episode, ch, all, heard, rows>>

\* searchIndexer: a cached or a fresh answer, an error, or its own timeout.
Answer(r, s) ==
  /\ src[r][s] = "ask"
  /\ \E a \in {"ok", "failed"} : src' = [src EXCEPT ![r][s] = a]
  /\ UNCHANGED <<world, listVars, pc, id, episode, ch, all, heard, rows>>

\* The send, and wg.Done after it.
Send(r, s) ==
  /\ src[r][s] \in {"ok", "failed"}
  /\ Len(ch[r]) < ChanCap
  /\ ch' = [ch EXCEPT ![r] = Append(@, [src |-> s, ok |-> src[r][s] = "ok"])]
  /\ src' = [src EXCEPT ![r][s] = "over"]
  /\ UNCHANGED <<world, listVars, pc, id, episode, all, heard, rows>>

AllDone(r) == src[r] = Idle

Done(r) ==
  /\ pc[r] = "wait" /\ AllDone(r)
  /\ Goto(r, "drainAll")
  /\ UNCHANGED <<world, listVars, id, episode, findVars>>

Deadline(r) ==
  /\ pc[r] = "wait"
  /\ Goto(r, "drain")
  /\ UNCHANGED <<world, listVars, id, episode, findVars>>

Receive(r) ==
  /\ pc[r] \in {"drain", "drainAll"} /\ ch[r] # <<>>
  /\ ch' = [ch EXCEPT ![r] = Tail(@)]
  /\ heard' = [heard EXCEPT ![r] = @ \cup {Head(ch[r])}]
  /\ all' = IF Head(ch[r]).ok
            THEN [all EXCEPT ![r] = FoldLeft(Merge, @, world[Head(ch[r]).src])]
            ELSE all
  /\ UNCHANGED <<world, listVars, pc, id, episode, src, rows>>

\* Nothing more is there at this moment: the list.
Drained(r) ==
  /\ pc[r] \in {"drain", "drainAll"} /\ ch[r] = <<>>
  /\ rows' = [rows EXCEPT ![r] = Ranked(all[r], episode[r])]
  /\ all' = [all EXCEPT ![r] = <<>>]
  /\ heard' = [heard EXCEPT ![r] = {}]
  /\ Goto(r, "done")
  /\ UNCHANGED <<world, listVars, id, episode, src, ch>>

\* The request is over, here with its last source.
Leave(r) ==
  /\ pc[r] = "done" /\ AllDone(r)
  /\ Goto(r, "idle")
  /\ id' = [id EXCEPT ![r] = None]
  /\ episode' = [episode EXCEPT ![r] = <<0, 0>>]
  /\ ch' = [ch EXCEPT ![r] = <<>>]
  /\ rows' = [rows EXCEPT ![r] = <<>>]
  /\ UNCHANGED <<world, listVars, src, all, heard>>

Init ==
  /\ world \in Worlds \cup {None}
  /\ epCache = {} /\ epN = 0
  /\ pc = [r \in Req |-> "idle"] /\ id = [r \in Req |-> None]
  /\ episode = [r \in Req |-> <<0, 0>>]
  /\ src = [r \in Req |-> Idle] /\ ch = [r \in Req |-> <<>>]
  /\ all = [r \in Req |-> <<>>] /\ heard = [r \in Req |-> {}]
  /\ rows = [r \in Req |-> <<>>]

Handle(r) ==
  \/ NoMeta(r) \/ Meta(r) \/ Count(r) \/ Clear(r) \/ Reset(r) \/ Keep(r) \/ Fix(r)
  \/ Search(r) \/ Done(r) \/ Deadline(r) \/ Receive(r) \/ Drained(r) \/ Leave(r)

Ask(r, s) == Answer(r, s) \/ Send(r, s)

Next == \E r \in Req : Arrive(r) \/ Handle(r) \/ \E s \in Source : Ask(r, s)

\* Handlers go on, and every source has a timeout of its own.
FairSpec ==
  /\ Init /\ [][Next]_vars
  /\ \A r \in Req : WF_vars(Handle(r)) /\ \A s \in Source : WF_vars(Ask(r, s))

----------------------------------------------------------------------------
(* Properties.                                                             *)

\* The list is the best of what was heard, whatever the order it came in: one
\* row for a release, of the copy with most seeders, in order of score, living
\* releases if there is one, nothing missing without a reason.  A search that
\* did not run into the deadline has heard every source (indexers.go:117-196).
AnswersBest ==
  [][\A r \in Req : pc[r] \in {"drain", "drainAll"} /\ pc'[r] = "done" =>
       LET said == UNION {ToSet(world[o.src]) : o \in {h \in heard[r] : h.ok}} IN
       /\ IsBestOf(rows'[r], said, episode[r])
       /\ pc[r] = "drainAll" => {o.src : o \in heard[r]} = Source]_vars

\* Every source comes to its end, also one that answers after the list was sent
\* and nobody receives any more (indexers.go:100-103, 119-120).
SourcesEnd ==
  \A r \in Searching, s \in Source : src[r][s] = "ask" ~> src[r][s] = "over"

\* The list cache holds at most EpCap lists for each request that may be under
\* way: requests that clear it together set the counter back once each, and what
\* came between two of these is not counted.  The excess does not add up from one
\* clearing to the next (addon.go:405-417).
EpisodesBounded == Cardinality(epCache) <= EpCap * Cardinality(Req)

\* With its list at hand, a request keeps the number asked for or leaves the first
\* season for the episode in that place of the show, and does either where it must,
\* whatever gaps the list has (addon.go:112-147).
EpisodeRemapped ==
  [][\A r \in Req : pc[r] = "fix" /\ pc'[r] # "fix" /\ id[r] \in epCache =>
       SettlesOn(Episodes[id[r]], episode[r], episode'[r])]_vars

----------------------------------------------------------------------------
(* What a comment says beyond that, and the code does not do.              *)

\* "If we know which episode we want and some release matches it, drop the ones
\* that are clearly a different episode or a season pack" (indexers.go:177-178):
\* when no release heard matches, none is dropped for its episode.
FilterNeedsMatch ==
  [][\A r \in Req : pc[r] \in {"drain", "drainAll"} /\ pc'[r] = "done" =>
       LET said == UNION {ToSet(world[o.src]) : o \in {h \in heard[r] : h.ok}} IN
       (\A x \in said : x.sig <= 0 /\ x.ih # NoHash) => (said = {} \/ rows'[r] # <<>>)]_vars
=============================================================================
