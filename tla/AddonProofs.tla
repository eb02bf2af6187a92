----------------------------- MODULE AddonProofs -----------------------------
(***************************************************************************)
(* What holds of handleStream for any number of requests, titles and       *)
(* indexers: the bound of the list cache, the episode a request is settled *)
(* on, the channel of a search, and the list a search answers with.        *)
(***************************************************************************)
EXTENDS Addon, FiniteSetTheorems, SequenceTheorems, WellFoundedInduction, TLAPS

----------------------------------------------------------------------------
(* The list cache.  The counter and the lists agree but for what requests  *)
(* between Clear and Reset undo: each of them will set the counter back    *)
(* once, and EpCap lists more may then come.                               *)

Resetting == {r \in Req : pc[r] = "reset"}
Adding    == {r \in Req : pc[r] = "keep" /\ id[r] \notin epCache}
Counted   == IF epN < EpCap THEN epN ELSE EpCap

Points == {"idle", "meta", "count", "clear", "reset", "keep", "fix", "search", "wait",
           "drain", "drainAll", "done"}

ListTypes ==
  /\ epCache \in SUBSET Title /\ IsFiniteSet(epCache)
  /\ epN \in Nat
  /\ pc \in [Req -> Points]
  /\ id \in [Req -> Title \cup {None}]
  /\ \A r \in Req : pc[r] \in {"meta", "count", "clear", "reset", "keep", "fix"} => id[r] \in Title

CountedFirst == \A r \in Req : pc[r] \in {"clear", "reset"} => epN >= 1

Room ==
  IF Resetting = Req THEN epCache = {}
  ELSE Cardinality(epCache) + Cardinality(Adding)
         <= Counted + EpCap * (Cardinality(Req) - 1 - Cardinality(Resetting))

ListInv == ListTypes /\ CountedFirst /\ Room

LEMMA Products ==
  \A c \in Nat \ {0}, k \in Nat : c * k \in Nat /\ c * (k + 1) = c * k + c /\ k <= c * k
<1> SUFFICES ASSUME NEW c \in Nat \ {0}, NEW k \in Nat
             PROVE  c * k \in Nat /\ c * (k + 1) = c * k + c /\ k <= c * k
  OBVIOUS
<1>1. PICK d \in Nat : c = d + 1
  BY c - 1 \in Nat
<1>2. d * k \in Nat
  OBVIOUS
<1>3. c * k = d * k + k
  BY <1>1
<1> QED BY <1>2, <1>3

\* The sets counted are finite, and no more requests reset than there are.
LEMMA Finite ==
  ASSUME ListTypes
  PROVE  /\ IsFiniteSet(Resetting) /\ IsFiniteSet(Adding)
         /\ Cardinality(Req) \in Nat /\ Cardinality(epCache) \in Nat
         /\ Cardinality(Resetting) \in Nat /\ Cardinality(Adding) \in Nat
         /\ Resetting # Req => Cardinality(Resetting) < Cardinality(Req)
<1>1. IsFiniteSet(Req) /\ Resetting \subseteq Req /\ Adding \subseteq Req
  BY AddonAssumption DEF Resetting, Adding
<1>2. IsFiniteSet(Resetting) /\ IsFiniteSet(Adding)
  BY <1>1, FS_Subset
<1>3. Resetting # Req => Cardinality(Resetting) < Cardinality(Req)
  BY <1>1, FS_Subset, FS_CardinalityType
<1> QED BY <1>1, <1>2, <1>3, FS_CardinalityType DEF ListTypes

\* With the invariant, a list cache within the bound.
LEMMA RoomBounds == ListInv => EpisodesBounded
<1> SUFFICES ASSUME ListInv PROVE EpisodesBounded
  OBVIOUS
<1> DEFINE n == Cardinality(Req)  k == n - 1 - Cardinality(Resetting)
<1>1. /\ n \in Nat /\ Cardinality(Resetting) \in Nat
      /\ Cardinality(epCache) \in Nat /\ Cardinality(Adding) \in Nat
      /\ Resetting # Req => Cardinality(Resetting) < n
  BY Finite DEF ListInv
<1>2. EpCap \in Nat \ {0} /\ EpCap * n \in Nat
  BY <1>1, AddonAssumption, Products
<1>3. CASE Resetting = Req
  BY <1>2, <1>3, FS_EmptySet DEF ListInv, Room, EpisodesBounded
<1>4. CASE Resetting # Req
  <2>1. k \in Nat /\ k + 1 <= n
    BY <1>1, <1>4
  <2>2. PICK j \in Nat : n = (k + 1) + j
    BY <2>1, <1>1, n - (k + 1) \in Nat
  <2>3. EpCap * n = EpCap * (k + 1) + EpCap * j
    BY <2>1, <2>2, <1>2
  <2>4. /\ EpCap * (k + 1) = EpCap * k + EpCap
        /\ EpCap * k \in Nat /\ EpCap * j \in Nat
    BY <2>1, <2>2, <1>2, Products
  <2>5. Cardinality(epCache) + Cardinality(Adding) <= Counted + EpCap * k
    BY <1>4 DEF ListInv, Room
  <2>6. Counted \in Nat /\ Counted <= EpCap
    BY <1>2 DEF Counted, ListInv, ListTypes
  <2> HIDE DEF n, k
  <2>7. Cardinality(epCache) <= EpCap * n
    BY <2>3, <2>4, <2>5, <2>6, <1>1, <1>2
  <2> QED BY <2>7 DEF EpisodesBounded, n
<1> QED BY <1>3, <1>4

LEMMA GrowsByOne ==
  ASSUME NEW S, NEW T, NEW x, IsFiniteSet(S), T \subseteq S \cup {x}
  PROVE  /\ IsFiniteSet(T) /\ Cardinality(T) \in Nat
         /\ Cardinality(T) <= Cardinality(S) + 1
<1>1. /\ IsFiniteSet(S \cup {x})
      /\ Cardinality(S) \in Nat /\ Cardinality(S \cup {x}) \in Nat
      /\ Cardinality(S \cup {x}) <= Cardinality(S) + 1
  BY FS_AddElement, FS_CardinalityType
<1>2. IsFiniteSet(T) /\ Cardinality(T) <= Cardinality(S \cup {x})
  BY <1>1, FS_Subset
<1> QED BY <1>1, <1>2, FS_CardinalityType

LEMMA Complement ==
  ASSUME NEW S, NEW T, IsFiniteSet(S), T \subseteq S
  PROVE  /\ Cardinality(S) \in Nat /\ Cardinality(T) \in Nat
         /\ T # S => Cardinality(T) < Cardinality(S)
         /\ Cardinality(S \ T) = Cardinality(S) - Cardinality(T)
<1>1. IsFiniteSet(T) /\ IsFiniteSet(S \ T)
  BY FS_Subset
<1>2. T # S => Cardinality(T) < Cardinality(S)
  BY <1>1, FS_Subset, FS_CardinalityType
<1>3. T \cup (S \ T) = S /\ T \cap (S \ T) = {}
  OBVIOUS
<1>4. /\ Cardinality(T) \in Nat /\ Cardinality(S \ T) \in Nat
      /\ Cardinality(T \cap (S \ T)) = 0
  BY <1>1, <1>3, FS_EmptySet, FS_CardinalityType
<1>5. Cardinality(S) = Cardinality(T) + Cardinality(S \ T)
  <2>1. Cardinality(T \cup (S \ T))
          = Cardinality(T) + Cardinality(S \ T) - Cardinality(T \cap (S \ T))
    BY <1>1, FS_Union
  <2> QED BY <2>1, <1>3, <1>4
<1> QED BY <1>2, <1>4, <1>5, FS_CardinalityType

LEMMA CapTimes ==
  ASSUME ListTypes
  PROVE  /\ EpCap \in Nat \ {0}
         /\ Counted \in Nat /\ Counted <= EpCap
         /\ Resetting # Req =>
              EpCap * (Cardinality(Req) - 1 - Cardinality(Resetting)) \in Nat
<1>1. EpCap \in Nat \ {0} /\ Counted \in Nat /\ Counted <= EpCap
  BY AddonAssumption DEF Counted, ListTypes
<1>2. ASSUME Resetting # Req
      PROVE  EpCap * (Cardinality(Req) - 1 - Cardinality(Resetting)) \in Nat
  <2>1. Cardinality(Req) - 1 - Cardinality(Resetting) \in Nat
    BY <1>2, Finite
  <2> QED BY <1>1, <2>1, Products
<1> QED BY <1>1, <1>2

\* A step that changes neither the lists nor who adds or resets them.
LEMMA ListsKept ==
  ASSUME ListInv, UNCHANGED listVars, ListTypes', CountedFirst',
         Resetting' = Resetting, Adding' = Adding
  PROVE  ListInv'
BY DEF ListInv, Room, Counted, listVars

LEMMA ListInit == Init => ListInv
<1> SUFFICES ASSUME Init PROVE ListInv
  OBVIOUS
<1>1. ListTypes /\ CountedFirst
  <2>1. IsFiniteSet(epCache)
    BY FS_EmptySet DEF Init
  <2>2. \A r \in Req : pc[r] = "idle" /\ id[r] = None
    BY DEF Init
  <2> QED BY <2>1, <2>2 DEF Init, ListTypes, CountedFirst, Points
<1>2. Resetting = {} /\ Adding = {}
  BY DEF Init, Resetting, Adding
<1>3. Room
  <2>1. CASE Req = {}
    BY <2>1, <1>2 DEF Room, Init
  <2>2. CASE Req # {}
    <3>1. Cardinality(Req) \in Nat \ {0}
      BY <2>2, AddonAssumption, FS_CardinalityType, FS_EmptySet
    <3>2. EpCap * (Cardinality(Req) - 1) \in Nat
      BY <3>1, AddonAssumption, Products, Cardinality(Req) - 1 \in Nat
    <3> QED BY <3>1, <3>2, <2>2, <1>2, AddonAssumption, FS_EmptySet DEF Room, Init, Counted
  <2> QED BY <2>1, <2>2
<1> QED BY <1>1, <1>3 DEF ListInv

LEMMA ListStep == ListInv /\ [Next]_vars => ListInv'
<1> SUFFICES ASSUME ListInv, [Next]_vars PROVE ListInv'
  OBVIOUS
<1> USE DEF ListInv, ListTypes, CountedFirst, Points
<1>1. ASSUME UNCHANGED vars PROVE ListInv'
  BY <1>1 DEF vars, listVars, findVars, Room, Counted, Resetting, Adding
<1>2. ASSUME NEW r \in Req, Arrive(r) \/ NoMeta(r) \/ Meta(r) \/ Fix(r)
      PROVE  ListInv'
  <2>1. UNCHANGED listVars
    BY <1>2 DEF Arrive, NoMeta, Meta, Fix
  <2>2. ListTypes' /\ CountedFirst'
    BY <1>2 DEF Arrive, NoMeta, Meta, Fix, Goto, listVars
  <2>3. Resetting' = Resetting
    BY <1>2 DEF Arrive, NoMeta, Meta, Fix, Goto, listVars, Resetting
  <2>4. Adding' = Adding
    BY <1>2 DEF Arrive, NoMeta, Meta, Fix, Goto, listVars, Adding
  <2> QED BY <2>1, <2>2, <2>3, <2>4, ListsKept
<1>3. ASSUME NEW r \in Req,
             Search(r) \/ Done(r) \/ Deadline(r) \/ Receive(r) \/ Drained(r) \/ Leave(r)
      PROVE  ListInv'
  <2>1. UNCHANGED listVars
    BY <1>3 DEF Search, Done, Deadline, Receive, Drained, Leave
  <2>2. ListTypes' /\ CountedFirst'
    BY <1>3 DEF Search, Done, Deadline, Receive, Drained, Leave, Goto, listVars
  <2>3. Resetting' = Resetting
    BY <1>3 DEF Search, Done, Deadline, Receive, Drained, Leave, Goto, listVars, Resetting
  <2>4. Adding' = Adding
    BY <1>3 DEF Search, Done, Deadline, Receive, Drained, Leave, Goto, listVars, Adding
  <2> QED BY <2>1, <2>2, <2>3, <2>4, ListsKept
<1>4. ASSUME NEW r \in Req, NEW s \in Source, Ask(r, s) PROVE ListInv'
  BY <1>4 DEF Ask, Answer, Send, listVars, Room, Counted, Resetting, Adding
<1>5. ASSUME NEW r \in Req, Count(r) PROVE ListInv'
  <2>1. ListTypes' /\ CountedFirst'
    BY <1>5 DEF Count, Goto
  <2>2. Resetting' = Resetting
    BY <1>5 DEF Count, Goto, Resetting
  <2>3. CASE epN < EpCap
    <3>1. Adding' \subseteq Adding \cup {r}
      BY <1>5 DEF Count, Goto, Adding
    <3>2. Cardinality(Adding') \in Nat /\ Cardinality(Adding') <= Cardinality(Adding) + 1
      BY <3>1, GrowsByOne, Finite
    <3>3. Counted' = Counted + 1
      BY <1>5, <2>3, AddonAssumption DEF Count, Counted
    <3>4. ASSUME Resetting # Req PROVE Room'
      <4> DEFINE m == EpCap * (Cardinality(Req) - 1 - Cardinality(Resetting))
      <4>1. Cardinality(epCache) + Cardinality(Adding) <= Counted + m
        BY <3>4 DEF Room
      <4>2. m \in Nat /\ Counted \in Nat
        BY <3>4, CapTimes
      <4> HIDE DEF m
      <4>3. Cardinality(epCache) + Cardinality(Adding') <= Counted' + m
        BY <4>1, <4>2, <3>2, <3>3, Finite
      <4> QED BY <1>5, <2>2, <3>4, <4>3 DEF Room, Count, m
    <3> QED BY <1>5, <2>1, <2>2, <3>4 DEF Room, Count
  <2>4. CASE epN >= EpCap
    <3>1. Adding' = Adding
      BY <1>5, <2>4, AddonAssumption DEF Count, Goto, Adding
    <3>2. Counted' = Counted
      BY <1>5, <2>4, AddonAssumption DEF Count, Counted
    <3> QED BY <1>5, <2>1, <2>2, <3>1, <3>2 DEF Room, Count
  <2> QED BY <2>3, <2>4, AddonAssumption
<1>6. ASSUME NEW r \in Req, Clear(r) PROVE ListInv'
  <2>1. ListTypes' /\ CountedFirst'
    BY <1>6, FS_EmptySet DEF Clear, Goto
  <2>2. CASE Resetting' = Req
    BY <1>6, <2>1, <2>2 DEF Clear, Room
  <2>3. CASE Resetting' # Req
    <3> DEFINE k == Cardinality(Req) - 1 - Cardinality(Resetting')
    <3>1. /\ IsFiniteSet(Req) /\ Resetting' \subseteq Req
          /\ Adding' \subseteq Req \ Resetting'
      BY AddonAssumption DEF Resetting, Adding
    <3>2. /\ Cardinality(Req) \in Nat /\ Cardinality(Resetting') \in Nat
          /\ Cardinality(Resetting') < Cardinality(Req)
          /\ Cardinality(Req \ Resetting') = Cardinality(Req) - Cardinality(Resetting')
      BY <3>1, <2>3, Complement
    <3>3. IsFiniteSet(Req \ Resetting')
      BY <3>1, FS_Subset
    <3>4. Cardinality(Adding') \in Nat /\ Cardinality(Adding') <= k + 1
      BY <3>1, <3>2, <3>3, FS_Subset, FS_CardinalityType
    <3>5. k \in Nat /\ EpCap * k \in Nat /\ k <= EpCap * k
      BY <3>2, AddonAssumption, Products
    <3>6. Counted' \in Nat /\ Counted' >= 1 /\ Cardinality(epCache') = 0
      BY <1>6, <2>1, AddonAssumption, FS_EmptySet DEF Clear, Counted
    <3>7. Cardinality(epCache') + Cardinality(Adding') <= Counted' + EpCap * k
      <4> HIDE DEF k
      <4> QED BY <3>4, <3>5, <3>6
    <3> QED BY <2>1, <2>3, <3>7 DEF Room
  <2> QED BY <2>2, <2>3
<1>7. ASSUME NEW r \in Req, Reset(r) PROVE ListInv'
  <2> DEFINE n == Cardinality(Req)  k == n - 1 - Cardinality(Resetting')
  <2>1. ListTypes' /\ CountedFirst'
    BY <1>7 DEF Reset, Goto
  <2>2. r \in Resetting /\ Resetting' = Resetting \ {r} /\ Resetting' # Req
    BY <1>7 DEF Reset, Goto, Resetting
  <2>3. Adding' \subseteq Adding \cup {r}
    BY <1>7 DEF Reset, Goto, Adding
  <2>4. /\ Cardinality(Resetting) \in Nat /\ Cardinality(Resetting) >= 1
        /\ Cardinality(Resetting') = Cardinality(Resetting) - 1
    <3>1. IsFiniteSet(Resetting) /\ Cardinality(Resetting) \in Nat
      BY Finite
    <3>2. Cardinality(Resetting \ {r}) = Cardinality(Resetting) - 1
      BY <3>1, <2>2, FS_RemoveElement
    <3>3. Cardinality(Resetting) # 0
      BY <3>1, <2>2, FS_EmptySet
    <3> QED BY <2>2, <3>1, <3>2, <3>3
  <2>5. /\ Cardinality(Adding') \in Nat /\ Cardinality(Adding) \in Nat
        /\ Cardinality(Adding') <= Cardinality(Adding) + 1
    BY <2>3, GrowsByOne, Finite
  <2>6. Counted' = 1 /\ epCache' = epCache /\ Cardinality(epCache) \in Nat
    BY <1>7, AddonAssumption, Finite DEF Reset, Counted
  <2>7. Cardinality(epCache) + Cardinality(Adding') <= 1 + EpCap * k
    <3>1. CASE Resetting = Req
      <4>1. Adding = {} /\ epCache = {}
        BY <3>1 DEF Resetting, Adding, Room
      <4>2. Cardinality(Adding) = 0 /\ Cardinality(epCache) = 0
        BY <4>1, FS_EmptySet
      <4>3. k = 0
        BY <3>1, <2>4
      <4>4. EpCap * k = 0
        BY <4>3, AddonAssumption
      <4> HIDE DEF k
      <4> QED BY <4>2, <4>4, <2>5
    <3>2. CASE Resetting # Req
      <4> DEFINE j == n - 1 - Cardinality(Resetting)
      <4>1. j \in Nat /\ k = j + 1
        BY <3>2, <2>4, Finite
      <4>2. EpCap * j \in Nat /\ EpCap * k = EpCap * j + EpCap
        BY <4>1, AddonAssumption, Products
      <4>3. Cardinality(epCache) + Cardinality(Adding) <= Counted + EpCap * j
        BY <3>2 DEF Room
      <4> HIDE DEF j, k
      <4> QED BY <4>2, <4>3, <2>5, <2>6, CapTimes
    <3> QED BY <3>1, <3>2
  <2> QED BY <2>1, <2>2, <2>6, <2>7 DEF Room
<1>8. ASSUME NEW r \in Req, Keep(r) PROVE ListInv'
  <2> DEFINE k == Cardinality(Req) - 1 - Cardinality(Resetting)
  <2>1. IsFiniteSet(epCache')
    BY <1>8, FS_AddElement DEF Keep
  <2>2. ListTypes' /\ CountedFirst'
    BY <1>8, <2>1 DEF Keep, Goto
  <2>3. Resetting' = Resetting /\ Resetting # Req /\ Counted' = Counted
    BY <1>8 DEF Keep, Goto, Resetting, Counted
  <2>4. Cardinality(epCache) + Cardinality(Adding) <= Counted + EpCap * k
    BY <2>3 DEF Room
  <2>5. CASE id[r] \in epCache
    <3>1. epCache' = epCache /\ Adding' = Adding
      BY <1>8, <2>5 DEF Keep, Goto, Adding
    <3> QED BY <2>2, <2>3, <2>4, <3>1 DEF Room
  <2>6. CASE id[r] \notin epCache
    <3>1. r \in Adding /\ Adding' \subseteq Adding \ {r}
      BY <1>8, <2>6 DEF Keep, Goto, Adding
    <3>2. Cardinality(epCache') = Cardinality(epCache) + 1
      BY <1>8, <2>6, FS_AddElement DEF Keep
    <3>3. /\ Cardinality(Adding') \in Nat
          /\ Cardinality(Adding') + 1 <= Cardinality(Adding)
      BY <3>1, Finite, FS_RemoveElement, FS_Subset, FS_CardinalityType
    <3>4. EpCap * k \in Nat
      BY <2>3, CapTimes
    <3>5. Cardinality(epCache') + Cardinality(Adding') <= Counted + EpCap * k
      <4> HIDE DEF k
      <4> QED BY <2>4, <3>2, <3>3, <3>4, CapTimes, Finite
    <3> QED BY <2>2, <2>3, <3>5 DEF Room
  <2> QED BY <2>5, <2>6
<1> QED BY <1>1, <1>2, <1>3, <1>4, <1>5, <1>6, <1>7, <1>8 DEF Next, Handle

\* Concurrent clearings of the list cache cost EpCap lists for each request that
\* may be under way, and no more however long it goes on (addon.go:405-417).
THEOREM ListCacheBounded == FairSpec => []EpisodesBounded
<1>1. FairSpec => []ListInv
  BY ListInit, ListStep, PTL DEF FairSpec
<1> QED BY <1>1, RoomBounds, PTL
----------------------------------------------------------------------------
(* The episode.                                                            *)

EpisodeInv == episode \in [Req -> Int \X Int]

\* What remapEpisode makes of a number that it is given.
LEMMA Remapped ==
  ASSUME NEW list \in Seq((Nat \ {0}) \X (Nat \ {0})), NEW e \in Int \X Int
  PROVE  /\ RemapEpisode(list, e) \in Int \X Int
         /\ list = <<>> \/ e[1] # list[1][1] \/ e[2] \notin DOMAIN list
              => RemapEpisode(list, e) = e
         /\ RemapEpisode(list, e) # e => e[2] \in DOMAIN list /\ RemapEpisode(list, e) = list[e[2]]
<1> DEFINE season == {i \in DOMAIN list : list[i][1] = e[1]}
<1>1. PICK n \in Nat : n = Len(list) /\ DOMAIN list = 1..n
  OBVIOUS
<1>2. PICK k : k = Cardinality(season)
  OBVIOUS
<1>3. k \in Nat /\ k <= n
  <2>1. IsFiniteSet(1..n) /\ Cardinality(1..n) = n
    BY FS_Interval
  <2>2. season \subseteq 1..n
    BY <1>1
  <2> QED BY <2>1, <2>2, <1>2, FS_Subset, FS_CardinalityType
<1>4. e[2] \in Int
  OBVIOUS
<1>5. RemapEpisode(list, e) = IF list = <<>> THEN e
                              ELSE IF e[1] # list[1][1] \/ e[2] <= k THEN e
                              ELSE IF e[2] <= n THEN list[e[2]]
                              ELSE e
  BY <1>1, <1>2 DEF RemapEpisode
<1>6. \A j \in 1..n : list[j] \in Int \X Int
  <2>1. \A j \in 1..n : list[j] \in (Nat \ {0}) \X (Nat \ {0})
    BY <1>1
  <2> QED BY <2>1
<1> HIDE DEF season
<1>7. e[2] \in 1..n \/ e[2] <= 0 \/ e[2] > n
  BY <1>4
<1> QED BY <1>1, <1>3, <1>4, <1>5, <1>6, <1>7

LEMMA EpisodeStep == ListTypes /\ EpisodeInv /\ [Next]_vars => EpisodeInv'
<1> SUFFICES ASSUME ListTypes, EpisodeInv, [Next]_vars PROVE EpisodeInv'
  OBVIOUS
<1> USE DEF EpisodeInv
<1>1. ASSUME NEW r \in Req, Arrive(r) PROVE EpisodeInv'
  <2>1. PICK e \in Asked[r] : episode' = [episode EXCEPT ![r] = e]
    BY <1>1 DEF Arrive
  <2>2. e \in Int \X Int
    <3>1. Asked[r] \in SUBSET (Int \X Int)
      BY EpisodesAssumption
    <3> QED BY <3>1
  <2> QED BY <2>1, <2>2
<1>2. ASSUME NEW r \in Req, Fix(r) PROVE EpisodeInv'
  <2>1. id[r] \in Title
    BY <1>2 DEF Fix, ListTypes
  <2>2. Episodes[id[r]] \in Seq((Nat \ {0}) \X (Nat \ {0}))
    BY <2>1, EpisodesAssumption
  <2>3. RemapEpisode(Episodes[id[r]], episode[r]) \in Int \X Int
    BY <2>2, Remapped
  <2> QED BY <1>2, <2>3 DEF Fix
<1>3. ASSUME NEW r \in Req, Leave(r) PROVE EpisodeInv'
  BY <1>3 DEF Leave
<1>4. CASE UNCHANGED episode
  BY <1>4
<1> QED
  BY <1>1, <1>2, <1>3, <1>4 DEF Next, Handle, vars, NoMeta, Meta, Count, Clear, Reset, Keep,
     Search, Done, Deadline, Receive, Drained, Ask, Answer, Send

\* The places of a season in a list, and how many they are.
Places(list, season) == {i \in DOMAIN list : list[i][1] = season}

Lists == Seq((Nat \ {0}) \X (Nat \ {0}))

LEMMA PlacesFinite ==
  ASSUME NEW list \in Lists, NEW season
  PROVE  /\ IsFiniteSet(Places(list, season)) /\ Cardinality(Places(list, season)) \in Nat
         /\ \A i \in DOMAIN list : /\ list[i][1] \in Nat \ {0} /\ list[i][2] \in Nat \ {0}
                                   /\ list[i] = <<list[i][1], list[i][2]>>
<1>1. PICK n \in Nat : DOMAIN list = 1..n
  BY DEF Lists
<1>2. IsFiniteSet(1..n) /\ Places(list, season) \in SUBSET (1..n)
  BY <1>1, FS_Interval DEF Places
<1>3. \A i \in DOMAIN list : list[i] \in (Nat \ {0}) \X (Nat \ {0})
  BY DEF Lists
<1>4. \A i \in DOMAIN list : /\ list[i][1] \in Nat \ {0} /\ list[i][2] \in Nat \ {0}
                            /\ list[i] = <<list[i][1], list[i][2]>>
  BY <1>3
<1> QED BY <1>2, <1>4, FS_Subset, FS_CardinalityType

\* The first season of a list in order stands at its beginning: its places are
\* those up to its size, whatever its numbers.
LEMMA SeasonFirst ==
  ASSUME NEW list \in Lists, \A i, j \in DOMAIN list : i < j => list[i][1] <= list[j][1],
         NEW k \in DOMAIN list, list[k][1] = list[1][1]
  PROVE  k <= Cardinality(Places(list, list[1][1]))
<1>1. PICK n \in Nat : DOMAIN list = 1..n
  BY DEF Lists
<1>2. PICK l \in Nat : l = k
  BY <1>1
<1>3. (1..l) \in SUBSET Places(list, list[1][1])
  <2>1. ASSUME NEW i \in 1..l PROVE i \in Places(list, list[1][1])
    <3>1. i \in 1..n /\ 1 \in 1..n /\ l \in 1..n
      BY <1>1, <1>2
    <3>2. i = l \/ list[i][1] <= list[l][1]
      BY <1>1, <3>1
    <3>3. i = 1 \/ list[1][1] <= list[i][1]
      BY <1>1, <3>1
    <3>4. list[i][1] \in Nat /\ list[1][1] \in Nat
      BY <1>1, <3>1, PlacesFinite
    <3>5. list[i][1] = list[1][1]
      BY <1>2, <3>2, <3>3, <3>4
    <3> QED BY <1>1, <3>1, <3>5 DEF Places
  <2> QED BY <2>1
<1>4. Cardinality(1..l) = l
  BY FS_Interval
<1> QED BY <1>2, <1>3, <1>4, PlacesFinite, FS_Subset

\* A season with all the numbers up to one has as many places.
LEMMA SeasonReaches ==
  ASSUME NEW list \in Lists, NEW season, NEW k \in Nat,
         \A m \in 1..k : \E i \in DOMAIN list : list[i] = <<season, m>>
  PROVE  k <= Cardinality(Places(list, season))
<1>1. Cardinality(1..k) = k
  BY FS_Interval
<1>2. IsFiniteSet(Places(list, season))
  BY PlacesFinite
<1> DEFINE f == [m \in 1..k |-> CHOOSE i \in DOMAIN list : list[i] = <<season, m>>]
<1>3. \A m \in 1..k : f[m] \in DOMAIN list /\ list[f[m]] = <<season, m>>
  OBVIOUS
<1>4. f \in [1..k -> Places(list, season)]
  <2>1. \A m \in 1..k : f[m] \in Places(list, season)
    BY <1>3 DEF Places
  <2>2. f = [m \in 1..k |-> f[m]]
    OBVIOUS
  <2> HIDE DEF f
  <2> QED BY <2>1, <2>2
<1> HIDE DEF f
<1>5. \A x, y \in 1..k : f[x] = f[y] => x = y
  <2>1. SUFFICES ASSUME NEW x \in 1..k, NEW y \in 1..k, f[x] = f[y] PROVE x = y
    OBVIOUS
  <2>2. <<season, x>> = <<season, y>>
    BY <1>3, <2>1
  <2> QED BY <2>2
<1>6. f \in Injection(1..k, Places(list, season))
  BY <1>4, <1>5 DEF Injection, IsInjective
<1>7. Cardinality(1..k) <= Cardinality(Places(list, season))
  BY <1>2, <1>6, FS_Injection
<1> QED BY <1>1, <1>7

\* A season whose numbers all lie below one has fewer places, unless it names
\* an episode twice.
LEMMA SeasonEnds ==
  ASSUME NEW list \in Lists, IsInjective(list), NEW season, NEW k \in Nat \ {0},
         \A i \in DOMAIN list : list[i][1] = season => list[i][2] < k
  PROVE  Cardinality(Places(list, season)) < k
<1>1. PICK l \in Nat : k = l + 1
  <2>1. k - 1 \in Nat /\ k = (k - 1) + 1
    OBVIOUS
  <2> QED BY <2>1
<1>2. IsFiniteSet(1..l) /\ Cardinality(1..l) = l
  BY FS_Interval
<1> DEFINE f == [i \in Places(list, season) |-> list[i][2]]
<1>3. f \in [Places(list, season) -> 1..l]
  <2>1. ASSUME NEW i \in Places(list, season) PROVE list[i][2] \in 1..l
    <3>1. i \in DOMAIN list /\ list[i][2] < k
      BY <2>1 DEF Places
    <3>2. list[i][2] \in Nat \ {0}
      BY <3>1, PlacesFinite
    <3> QED BY <1>1, <3>1, <3>2
  <2> QED BY <2>1
<1>4. \A x, y \in Places(list, season) : f[x] = f[y] => x = y
  <2>1. SUFFICES ASSUME NEW x \in Places(list, season), NEW y \in Places(list, season),
                        f[x] = f[y]
        PROVE  x = y
    OBVIOUS
  <2>2. x \in DOMAIN list /\ y \in DOMAIN list /\ list[x][1] = list[y][1] /\ list[x][2] = list[y][2]
    BY <2>1 DEF Places
  <2>3. list[x] = <<list[x][1], list[x][2]>> /\ list[y] = <<list[y][1], list[y][2]>>
    BY <2>2, PlacesFinite
  <2>4. list[x] = list[y]
    BY <2>2, <2>3
  <2> QED BY <2>2, <2>4 DEF IsInjective
<1> HIDE DEF f
<1>5. f \in Injection(Places(list, season), 1..l)
  BY <1>3, <1>4 DEF Injection, IsInjective
<1>6. Cardinality(Places(list, season)) <= l
  BY <1>2, <1>5, FS_Injection
<1> QED BY <1>1, <1>6, PlacesFinite

LEMMA RemapSettles ==
  ASSUME NEW t \in Title, NEW e \in Int \X Int
  PROVE  SettlesOn(Episodes[t], e, IF e[1] > 0 /\ e[2] > 0 THEN RemapEpisode(Episodes[t], e) ELSE e)
<1>1. PICK list \in Lists :
        list = Episodes[t] /\ \A i, j \in DOMAIN list : i < j => list[i][1] <= list[j][1]
  BY EpisodesAssumption DEF Lists
<1>2. PICK n \in Nat : n = Len(list) /\ DOMAIN list = 1..n
  BY DEF Lists
<1>3. \A i \in 1..n : list[i][1] \in Nat \ {0} /\ list[i][2] \in Nat \ {0}
  BY <1>2, PlacesFinite
<1>4. e[1] \in Int /\ e[2] \in Int
  OBVIOUS
<1> DEFINE k == Cardinality(Places(list, e[1]))
           x == IF e[1] > 0 /\ e[2] > 0 THEN RemapEpisode(list, e) ELSE e
<1>5. k \in Nat
  BY PlacesFinite
<1>6. x = IF n > 0 /\ e[1] = list[1][1] /\ e[2] > k /\ e[2] <= n THEN list[e[2]] ELSE e
  <2>1. list = <<>> <=> n = 0
    BY <1>2 DEF Lists
  <2>2. n > 0 => list[1][1] > 0
    BY <1>3
  <2>3. RemapEpisode(list, e) = IF list = <<>> THEN e
                                ELSE IF e[1] # list[1][1] \/ e[2] <= k THEN e
                                ELSE IF e[2] <= n THEN list[e[2]]
                                ELSE e
    BY <1>2 DEF RemapEpisode, Places
  <2> HIDE DEF k
  <2> QED BY <1>2, <1>4, <1>5, <2>1, <2>2, <2>3
<1> HIDE DEF k
<1>7. n > 0 /\ e[1] = list[1][1] /\ e[2] > k /\ e[2] <= n =>
        e[2] \in 1..n /\ list[e[2]][1] > e[1]
  <2>1. SUFFICES ASSUME n > 0, e[1] = list[1][1], e[2] > k, e[2] <= n
        PROVE  e[2] \in 1..n /\ list[e[2]][1] > e[1]
    OBVIOUS
  <2>2. PICK m \in 1..n : m = e[2]
    BY <1>4, <1>5, <2>1
  <2>3. list[m][1] # list[1][1]
    <3>1. list[m][1] = list[1][1] => m <= Cardinality(Places(list, list[1][1]))
      BY <1>1, <1>2, SeasonFirst
    <3>2. k = Cardinality(Places(list, list[1][1]))
      BY <2>1 DEF k
    <3> QED BY <1>5, <2>1, <2>2, <3>1, <3>2
  <2>4. list[1][1] <= list[m][1]
    <3>1. 1 \in 1..n /\ 1 < m
      BY <2>1, <2>3
    <3> QED BY <1>1, <1>2, <3>1
  <2>5. list[m][1] \in Nat /\ list[1][1] \in Nat
    BY <1>3, <2>1
  <2>6. list[m][1] > list[1][1]
    BY <2>3, <2>4, <2>5
  <2> QED BY <2>1, <2>2, <2>6
<1>8. (\A m \in 1..e[2] : <<e[1], m>> \in ToSet(list)) => e[2] <= k
  <2>1. SUFFICES ASSUME \A m \in 1..e[2] : <<e[1], m>> \in ToSet(list), e[2] > 0 PROVE e[2] <= k
    BY <1>4, <1>5
  <2>2. PICK l \in Nat : l = e[2]
    BY <1>4, <2>1
  <2>3. \A m \in 1..l : \E i \in DOMAIN list : list[i] = <<e[1], m>>
    BY <2>1, <2>2 DEF ToSet
  <2>4. l <= Cardinality(Places(list, e[1]))
    BY <2>3, SeasonReaches
  <2> QED BY <2>2, <2>4 DEF k
<1>9. /\ e[2] \in DOMAIN list /\ IsInjective(list)
      /\ \A i \in DOMAIN list : list[i][1] = e[1] => list[i][2] < e[2]
      => e[2] > k
  <2>1. SUFFICES ASSUME e[2] \in 1..n, IsInjective(list),
                        \A i \in DOMAIN list : list[i][1] = e[1] => list[i][2] < e[2]
        PROVE  e[2] > k
    BY <1>2
  <2>2. PICK l \in Nat \ {0} : l = e[2]
    BY <2>1
  <2>3. \A i \in DOMAIN list : list[i][1] = e[1] => list[i][2] < l
    BY <2>1, <2>2
  <2>4. Cardinality(Places(list, e[1])) < l
    BY <2>1, <2>3, SeasonEnds
  <2> QED BY <1>5, <2>2, <2>4 DEF k
<1> HIDE DEF x
<1>10. SettlesOn(list, e, x)
  <2>1. \/ x = e
        \/ /\ e[2] \in DOMAIN list /\ e[1] = list[1][1]
           /\ x = list[e[2]] /\ x[1] > e[1]
    BY <1>2, <1>6, <1>7
  <2>2. (\A m \in 1..e[2] : <<e[1], m>> \in ToSet(list)) => x = e
    BY <1>4, <1>5, <1>6, <1>8
  <2>3. /\ e[2] \in DOMAIN list /\ e[1] = list[1][1] /\ IsInjective(list)
        /\ \A i \in DOMAIN list : list[i][1] = e[1] => list[i][2] < e[2]
        => x = list[e[2]]
    BY <1>2, <1>4, <1>5, <1>6, <1>9
  <2> QED BY <2>1, <2>2, <2>3 DEF SettlesOn
<1> QED BY <1>1, <1>10 DEF x

\* Whatever the lists, with gaps or without, a request that finds its list keeps
\* the number asked for or leaves the first season for the episode in that place of
\* the show, and does either where it must (addon.go:112-147).
THEOREM EpisodesSettled == FairSpec => EpisodeRemapped
<1> DEFINE Settled == \A r \in Req : pc[r] = "fix" /\ pc'[r] # "fix" /\ id[r] \in epCache =>
       SettlesOn(Episodes[id[r]], episode[r], episode'[r])
<1>1. Init => EpisodeInv
  BY DEF Init, EpisodeInv
<1>2. FairSpec => [](ListInv /\ EpisodeInv)
  BY <1>1, ListInit, ListStep, EpisodeStep, PTL DEF FairSpec, ListInv
<1>3. ListInv /\ EpisodeInv /\ [Next]_vars => [Settled]_vars
  <2> SUFFICES ASSUME ListInv, EpisodeInv, Next,
                      NEW r \in Req, pc[r] = "fix", pc'[r] # "fix", id[r] \in epCache
               PROVE  SettlesOn(Episodes[id[r]], episode[r], episode'[r])
    BY DEF vars
  <2>1. Fix(r)
    <3> USE DEF Goto, ListInv, ListTypes
    <3>1. PICK p \in Req : Arrive(p) \/ Handle(p) \/ \E s \in Source : Ask(p, s)
      BY DEF Next
    <3>2. pc[p] = pc'[p] \/ pc[p] # "fix" \/ Fix(p)
      BY <3>1 DEF Handle, Arrive, NoMeta, Meta, Count, Clear, Reset, Keep, Search, Done,
                  Deadline, Receive, Drained, Leave, Ask, Answer, Send
    <3>3. p = r
      BY <3>1 DEF Handle, Arrive, NoMeta, Meta, Count, Clear, Reset, Keep, Fix, Search, Done,
                  Deadline, Receive, Drained, Leave, Ask, Answer, Send
    <3> QED BY <3>2, <3>3
  <2>2. id[r] \in Title /\ episode[r] \in Int \X Int
    BY DEF ListInv, ListTypes, EpisodeInv
  <2>3. episode'[r] = IF episode[r][1] > 0 /\ episode[r][2] > 0
                      THEN RemapEpisode(Episodes[id[r]], episode[r]) ELSE episode[r]
    BY <2>1 DEF Fix, EpisodeInv
  <2>4. SettlesOn(Episodes[id[r]], episode[r],
                  IF episode[r][1] > 0 /\ episode[r][2] > 0
                  THEN RemapEpisode(Episodes[id[r]], episode[r]) ELSE episode[r])
    BY <2>2, RemapSettles
  <2> QED BY <2>3, <2>4
<1> QED BY <1>2, <1>3, PTL DEF FairSpec, EpisodeRemapped

----------------------------------------------------------------------------
(* The channel of a search.  What lies in it and what is still to come     *)
(* take no more places than it has, and a source that is over has been     *)
(* received or lies in it.                                                 *)

Out    == [src : Source, ok : BOOLEAN]
Coming(r) == {s \in Source : src[r][s] # "over"}
Known(r)  == {o.src : o \in heard[r]} \cup {ch[r][i].src : i \in DOMAIN ch[r]}

SearchTypes ==
  /\ pc \in [Req -> Points]
  /\ src \in [Req -> [Source -> {"ask", "ok", "failed", "over"}]]
  /\ ch \in [Req -> Seq(Out)]
  /\ heard \in [Req -> SUBSET Out]

Quiet(r)   == ch[r] = <<>> /\ src[r] = Idle
HasRoom(r) == Len(ch[r]) + Cardinality(Coming(r)) <= ChanCap
Tracked(r) == Coming(r) \cup Known(r) = Source

SearchOf(r) ==
  /\ pc[r] \notin {"wait", "drain", "drainAll", "done"} => Quiet(r)
  /\ HasRoom(r)
  /\ pc[r] \in {"wait", "drain", "drainAll"} => Tracked(r)
  /\ pc[r] = "drainAll" => src[r] = Idle

SearchInv == SearchTypes /\ \A r \in Req : SearchOf(r)

\* A channel has a place for every source (indexers.go:100).
LEMMA Sources ==
  /\ ChanCap \in Nat
  /\ IsFiniteSet(Source) /\ Cardinality(Source) <= ChanCap
<1>1. Source \subseteq Kinds \X (1..NQueries)
  <2>1. ASSUME NEW k \in Kinds PROVE QueriesFor(k) \subseteq 1..NQueries
    BY AddonAssumption DEF QueriesFor
  <2> QED BY <2>1 DEF Source
<1>2. IsFiniteSet(1..NQueries) /\ Cardinality(1..NQueries) = NQueries
  BY AddonAssumption, FS_Interval
<1>3. /\ IsFiniteSet(Kinds \X (1..NQueries))
      /\ Cardinality(Kinds \X (1..NQueries)) = ChanCap
  BY <1>2, AddonAssumption, FS_Product DEF ChanCap
<1> QED BY <1>1, <1>3, FS_Subset, FS_CardinalityType
LEMMA QuietHasRoom ==
  ASSUME NEW r \in Req, Quiet(r)
  PROVE  HasRoom(r) /\ Coming(r) = {}
<1>1. Coming(r) = {}
  BY DEF Quiet, Idle, Coming
<1>2. Len(ch[r]) = 0 /\ Cardinality(Coming(r)) = 0
  BY <1>1, FS_EmptySet DEF Quiet
<1> QED BY <1>1, <1>2, Sources DEF HasRoom

\* What another request does is nothing to this one.
LEMMA SearchKept ==
  ASSUME NEW r, SearchOf(r),
         pc'[r] = pc[r], src'[r] = src[r], ch'[r] = ch[r], heard'[r] = heard[r]
  PROVE  SearchOf(r)'
BY DEF SearchOf, Quiet, HasRoom, Tracked, Coming, Known

LEMMA SearchInit == Init => SearchInv
<1> SUFFICES ASSUME Init PROVE SearchInv
  OBVIOUS
<1>1. SearchTypes
  BY DEF Init, SearchTypes, Points, Idle
<1>2. ASSUME NEW r \in Req PROVE SearchOf(r)
  <2>1. Quiet(r) /\ pc[r] = "idle"
    BY DEF Init, Quiet
  <2> QED BY <2>1, QuietHasRoom DEF SearchOf
<1> QED BY <1>1, <1>2 DEF SearchInv

LEMMA SearchStep == SearchInv /\ [Next]_vars => SearchInv'
<1> SUFFICES ASSUME SearchInv, [Next]_vars PROVE SearchInv'
  OBVIOUS
<1> USE DEF SearchInv, SearchTypes
<1>1. ASSUME UNCHANGED vars PROVE SearchInv'
  BY <1>1, SearchKept DEF vars, findVars
<1>2. ASSUME NEW p \in Req,
             \/ Arrive(p) \/ NoMeta(p) \/ Meta(p) \/ Count(p) \/ Clear(p) \/ Reset(p)
             \/ Keep(p) \/ Fix(p)
      PROVE  SearchInv'
  <2> USE <1>2 DEF Arrive, NoMeta, Meta, Count, Clear, Reset, Keep, Fix, Goto, findVars
  <2>1. SearchTypes' /\ UNCHANGED <<src, ch, heard>>
    BY DEF Points
  <2>2. /\ \A r \in Req \ {p} : pc'[r] = pc[r]
        /\ pc[p] \notin {"wait", "drain", "drainAll", "done"}
        /\ pc'[p] \notin {"wait", "drain", "drainAll"}
    OBVIOUS
  <2>3. Quiet(p)' /\ HasRoom(p)'
    BY ONLY <2>1, <2>2, SearchInv, p \in Req DEF SearchInv, SearchOf, Quiet, HasRoom, Coming
  <2>4. SearchOf(p)'
    BY ONLY <2>2, <2>3 DEF SearchOf
  <2>5. ASSUME NEW r \in Req \ {p} PROVE SearchOf(r)'
    BY ONLY <2>1, <2>2, <2>5, SearchInv, SearchKept DEF SearchInv
  <2> QED BY ONLY <2>1, <2>4, <2>5 DEF SearchInv
<1>3. ASSUME NEW p \in Req, Search(p) \/ Done(p) \/ Deadline(p) \/ Drained(p) \/ Leave(p)
      PROVE  SearchInv'
  <2> USE DEF Search, Done, Deadline, Drained, Leave, Goto, findVars
  <2>1. SearchTypes'
    <3>1. pc' \in [Req -> Points]
      BY <1>3 DEF Points
    <3>2. src' \in [Req -> [Source -> {"ask", "ok", "failed", "over"}]]
      <4>1. src' = src \/ src' = [src EXCEPT ![p] = [s \in Source |-> "ask"]]
        BY <1>3
      <4> QED BY ONLY <4>1, SearchInv DEF SearchInv, SearchTypes
    <3>3. heard' \in [Req -> SUBSET Out]
      BY <1>3
    <3>4. ch' \in [Req -> Seq(Out)]
      <4>1. <<>> \in Seq(Out)
        OBVIOUS
      <4>2. ch' = ch \/ ch' = [ch EXCEPT ![p] = <<>>]
        BY <1>3
      <4> QED BY <4>1, <4>2
    <3> QED BY <3>1, <3>2, <3>3, <3>4
  <2>2. \A r \in Req \ {p} : /\ pc'[r] = pc[r] /\ src'[r] = src[r]
                              /\ ch'[r] = ch[r] /\ heard'[r] = heard[r]
    BY <1>3
  <2>3. SearchOf(p)'
    <3>1. CASE Search(p)
      <4>1. Coming(p)' = Source /\ ch'[p] = <<>> /\ pc'[p] = "wait"
        BY <3>1 DEF SearchOf, Quiet, Coming
      <4>2. HasRoom(p)'
        <5>1. Len(ch'[p]) = 0 /\ Cardinality(Coming(p)') = Cardinality(Source)
          BY <4>1
        <5> QED BY <5>1, Sources, FS_CardinalityType DEF HasRoom
      <4>3. Tracked(p)'
        <5>1. heard'[p] \subseteq Out /\ DOMAIN ch'[p] = {}
          BY <4>1, <2>1
        <5> QED BY <4>1, <5>1 DEF Tracked, Known, Out
      <4> QED BY <4>1, <4>2, <4>3 DEF SearchOf
    <3>2. CASE Done(p) \/ Deadline(p)
      <4>1. /\ pc[p] = "wait" /\ pc'[p] \in {"drain", "drainAll"}
            /\ pc'[p] = "drainAll" => src[p] = Idle
            /\ UNCHANGED <<src, ch, heard>>
        BY <3>2 DEF AllDone
      <4> QED BY ONLY <4>1, SearchInv, p \in Req
              DEF SearchInv, SearchOf, HasRoom, Tracked, Coming, Known
    <3>3. CASE Drained(p)
      <4>1. pc'[p] = "done" /\ UNCHANGED <<src, ch>>
        BY <3>3
      <4> QED BY ONLY <4>1, SearchInv, p \in Req DEF SearchInv, SearchOf, HasRoom, Coming
    <3>4. CASE Leave(p)
      <4>1. Quiet(p)' /\ pc'[p] = "idle"
        BY <3>4 DEF Quiet, AllDone
      <4>2. HasRoom(p)'
        <5>1. Coming(p)' = {}
          BY <4>1 DEF Quiet, Coming, Idle
        <5>2. Cardinality(Coming(p)') = 0
          BY <5>1, FS_EmptySet
        <5>3. Len(ch'[p]) = 0
          BY <4>1 DEF Quiet
        <5> QED BY ONLY <5>2, <5>3, Sources DEF HasRoom
      <4> QED BY <4>1, <4>2 DEF SearchOf
    <3> QED BY <1>3, <3>1, <3>2, <3>3, <3>4
  <2>4. ASSUME NEW r \in Req \ {p} PROVE SearchOf(r)'
    BY ONLY <2>2, <2>4, SearchInv, SearchKept DEF SearchInv
  <2> QED BY ONLY <2>1, <2>3, <2>4 DEF SearchInv
<1>4. ASSUME NEW p \in Req, NEW s \in Source, Answer(p, s) PROVE SearchInv'
  <2> USE <1>4 DEF Answer
  <2>1. SearchTypes' /\ UNCHANGED <<pc, ch, heard>>
    BY DEF Points
  <2>2. \A r \in Req \ {p} : src'[r] = src[r]
    OBVIOUS
  <2>3. Coming(p)' = Coming(p) /\ src[p] # Idle /\ src'[p] # Idle
    BY DEF Coming, Idle
  <2>4. SearchOf(p)'
    BY ONLY <2>1, <2>3, SearchInv, p \in Req
    DEF SearchInv, SearchOf, Quiet, HasRoom, Tracked, Known
  <2>5. ASSUME NEW r \in Req \ {p} PROVE SearchOf(r)'
    BY ONLY <2>1, <2>2, <2>5, SearchInv, SearchKept DEF SearchInv
  <2> QED BY ONLY <2>1, <2>4, <2>5 DEF SearchInv
<1>5. ASSUME NEW p \in Req, NEW s \in Source, Send(p, s) PROVE SearchInv'
  <2> DEFINE o == [src |-> s, ok |-> src[p][s] = "ok"]
  <2>1. /\ ch' = [ch EXCEPT ![p] = Append(@, o)] /\ src' = [src EXCEPT ![p][s] = "over"]
        /\ UNCHANGED <<pc, heard>> /\ src[p][s] # "over"
    BY <1>5 DEF Send
  <2>2. o \in Out /\ o.src = s
    BY DEF Out
  <2>3. SearchTypes'
    BY <2>1, <2>2
  <2>4. \A r \in Req \ {p} : src'[r] = src[r] /\ ch'[r] = ch[r]
    BY <2>1
  <2>5. Coming(p)' = Coming(p) \ {s} /\ s \in Coming(p)
    BY <2>1 DEF Coming
  <2>6. Known(p)' = Known(p) \cup {s}
    <3>1. PICK c \in Seq(Out) : c = ch[p]
      OBVIOUS
    <3>2. ch'[p] = Append(c, o)
      BY <2>1, <3>1
    <3>3. {ch'[p][i].src : i \in DOMAIN ch'[p]} = {c[i].src : i \in DOMAIN c} \cup {s}
      <4>1. PICK n \in Nat : n = Len(c)
        OBVIOUS
      <4>2. /\ DOMAIN c = 1..n /\ DOMAIN Append(c, o) = 1..(n + 1)
            /\ \A i \in 1..n : Append(c, o)[i] = c[i]
            /\ Append(c, o)[n + 1] = o
        BY <4>1, <2>2
      <4>3. PICK d : d = Append(c, o)
        OBVIOUS
      <4>4. /\ \A i \in 1..(n + 1) : i \in 1..n \/ i = n + 1
            /\ 1..n \subseteq 1..(n + 1) /\ n + 1 \in 1..(n + 1)
        OBVIOUS
      <4>5. {d[i].src : i \in 1..(n + 1)} = {c[i].src : i \in 1..n} \cup {s}
        <5>1. (\A i \in 1..n : d[i] = c[i]) /\ d[n + 1].src = s
          BY <4>2, <4>3, <2>2
        <5> HIDE DEF o
        <5> QED BY ONLY <5>1, <4>4
      <4> QED BY ONLY <3>2, <4>2, <4>3, <4>5
    <3> QED BY <2>1, <3>1, <3>3 DEF Known
  <2>7. HasRoom(p)'
    <3>1. IsFiniteSet(Coming(p))
      BY Sources, FS_Subset DEF Coming
    <3>2. Cardinality(Coming(p)') = Cardinality(Coming(p)) - 1 /\ Cardinality(Coming(p)) \in Nat
      BY <3>1, <2>5, FS_RemoveElement, FS_CardinalityType
    <3>3. Len(ch'[p]) = Len(ch[p]) + 1 /\ Len(ch[p]) \in Nat
      BY <2>1, <2>2
    <3>4. Len(ch[p]) + Cardinality(Coming(p)) <= ChanCap
      BY DEF SearchOf, HasRoom
    <3> QED BY <3>2, <3>3, <3>4, Sources DEF HasRoom
  <2>8. src[p] # Idle
    BY <2>1 DEF Idle
  <2>9. SearchOf(p)'
    BY <2>1, <2>5, <2>6, <2>7, <2>8 DEF SearchOf, Quiet, Tracked
  <2>10. ASSUME NEW r \in Req \ {p} PROVE SearchOf(r)'
    BY ONLY <2>1, <2>4, <2>10, SearchInv, SearchKept DEF SearchInv
  <2> QED BY ONLY <2>3, <2>9, <2>10 DEF SearchInv
<1>6. ASSUME NEW p \in Req, Receive(p) PROVE SearchInv'
  <2>1. PICK c \in Seq(Out) : c = ch[p] /\ c # <<>>
    BY <1>6 DEF Receive
  <2>2. /\ ch' = [ch EXCEPT ![p] = Tail(c)] /\ heard' = [heard EXCEPT ![p] = @ \cup {Head(c)}]
        /\ UNCHANGED <<pc, src>>
    BY <1>6, <2>1 DEF Receive
  <2>3. PICK n \in Nat : n = Len(Tail(c)) /\ Len(c) = n + 1
    <3>1. Tail(c) \in Seq(Out) /\ Len(Tail(c)) = Len(c) - 1 /\ Len(c) \in Nat
      BY <2>1, HeadTailProperties
    <3>2. Len(Tail(c)) \in Nat
      BY <3>1
    <3>3. Len(c) = Len(Tail(c)) + 1
      BY <3>1, <3>2
    <3> QED BY ONLY <3>2, <3>3
  <2>4. /\ Head(c) \in Out /\ Tail(c) \in Seq(Out) /\ Head(c) = c[1]
        /\ \A i \in 1..n : Tail(c)[i] = c[i + 1]
    BY <2>1, <2>3, HeadTailProperties
  <2>5. SearchTypes'
    BY <2>2, <2>4
  <2>6. \A r \in Req \ {p} : ch'[r] = ch[r] /\ heard'[r] = heard[r]
    BY <2>2
  <2>7. Known(p)' = Known(p)
    <3>1. DOMAIN c = 1..(n + 1) /\ DOMAIN Tail(c) = 1..n
      BY <2>1, <2>3, <2>4
    <3>2. PICK t : t = Tail(c)
      OBVIOUS
    <3>3. {c[i].src : i \in 1..(n + 1)} = {t[i].src : i \in 1..n} \cup {c[1].src}
      <4>1. \A i \in 1..(n + 1) : i = 1 \/ \E j \in 1..n : i = j + 1
        <5>1. \A i \in 1..(n + 1) : i = 1 \/ (i - 1 \in 1..n /\ i = (i - 1) + 1)
          OBVIOUS
        <5> QED BY <5>1
      <4>2. 1 \in 1..(n + 1) /\ \A j \in 1..n : j + 1 \in 1..(n + 1)
        OBVIOUS
      <4>3. \A i \in 1..n : t[i] = c[i + 1]
        BY <2>4, <3>2
      <4> DEFINE A == {c[i].src : i \in 1..(n + 1)}  B == {t[i].src : i \in 1..n} \cup {c[1].src}
      <4>4. ASSUME NEW x \in A PROVE x \in B
        <5>1. PICK i \in 1..(n + 1) : x = c[i].src
          OBVIOUS
        <5>2. i = 1 \/ \E k \in 1..n : i = k + 1
          BY <4>1
        <5> QED BY ONLY <5>1, <5>2, <4>3
      <4>5. ASSUME NEW x \in B PROVE x \in A
        <5>1. x = c[1].src \/ \E i \in 1..n : x = c[i + 1].src
          BY <4>3
        <5> QED BY ONLY <5>1, <4>2
      <4> QED BY <4>4, <4>5
    <3>4. ch'[p] = t /\ heard'[p] = heard[p] \cup {c[1]} /\ ch[p] = c
      BY <2>1, <2>2, <2>4, <3>2
    <3>5. /\ Known(p)' = {x.src : x \in heard[p]} \cup ({t[i].src : i \in 1..n} \cup {c[1].src})
          /\ Known(p)  = {x.src : x \in heard[p]} \cup {c[i].src : i \in 1..(n + 1)}
      BY ONLY <3>1, <3>2, <3>4 DEF Known
    <3> QED BY ONLY <3>3, <3>5
  <2>8. Len(ch'[p]) + 1 = Len(ch[p]) /\ Len(ch[p]) \in Nat
    BY <2>1, <2>2, <2>3
  <2>9. Coming(p)' = Coming(p) /\ Cardinality(Coming(p)) \in Nat
    BY <2>2, Sources, FS_Subset, FS_CardinalityType DEF Coming
  <2>10. HasRoom(p)'
    <3>1. Len(ch[p]) + Cardinality(Coming(p)) <= ChanCap
      BY DEF SearchOf, HasRoom
    <3> QED BY <3>1, <2>8, <2>9, Sources DEF HasRoom
  <2>11. SearchOf(p)'
    BY <1>6, <2>2, <2>7, <2>9, <2>10 DEF SearchOf, Quiet, Tracked, Receive
  <2>12. ASSUME NEW r \in Req \ {p} PROVE SearchOf(r)'
    BY ONLY <2>2, <2>6, <2>12, SearchInv, SearchKept DEF SearchInv
  <2> QED BY ONLY <2>5, <2>11, <2>12 DEF SearchInv
<1> QED BY ONLY [Next]_vars, <1>1, <1>2, <1>3, <1>4, <1>5, <1>6 DEF Next, Handle, Ask

\* A goroutine that has an answer never waits for a place in the channel, also
\* when nobody receives any more (indexers.go:100-103, 119-120).
RoomToSend ==
  \A r \in Req, s \in Source : src[r][s] \in {"ok", "failed"} => Len(ch[r]) < ChanCap

THEOREM SendersNeverWait == FairSpec => []RoomToSend
<1>1. SearchInv => RoomToSend
  <2> SUFFICES ASSUME SearchInv, NEW r \in Req, NEW s \in Source, src[r][s] \in {"ok", "failed"}
               PROVE  Len(ch[r]) < ChanCap
    BY DEF RoomToSend
  <2>1. s \in Coming(r) /\ IsFiniteSet(Coming(r))
    BY Sources, FS_Subset DEF Coming
  <2>2. Cardinality(Coming(r)) \in Nat \ {0}
    BY <2>1, FS_CardinalityType, FS_EmptySet
  <2>3. Len(ch[r]) \in Nat /\ Len(ch[r]) + Cardinality(Coming(r)) <= ChanCap
    BY DEF SearchInv, SearchTypes, SearchOf, HasRoom
  <2> QED BY <2>2, <2>3, Sources
<1> QED BY <1>1, SearchInit, SearchStep, PTL DEF FairSpec

\* A search that no deadline cut off has heard every source when it answers
\* (indexers.go:117-151).
AllHeard ==
  \A r \in Req : pc[r] = "drainAll" /\ ch[r] = <<>> => {o.src : o \in heard[r]} = Source

LEMMA HeardAll == SearchInv => AllHeard
<1> SUFFICES ASSUME SearchInv, NEW r \in Req, pc[r] = "drainAll", ch[r] = <<>>
             PROVE  {o.src : o \in heard[r]} = Source
  BY DEF AllHeard
<1>1. Coming(r) = {} /\ Tracked(r)
  BY DEF SearchInv, SearchOf, Coming, Idle
<1> QED BY <1>1 DEF Tracked, Known

THEOREM UndisturbedSearchHearsAll == FairSpec => []AllHeard
BY HeardAll, SearchInit, SearchStep, PTL DEF FairSpec

----------------------------------------------------------------------------
(* The loops over results: merging, the episode, the living, the sorting.  *)

\* Every nonempty set of numbers has a least one.
LEMMA LeastNatural ==
  ASSUME NEW T \in SUBSET Nat, T # {}
  PROVE  \E x \in T : \A y \in T : x <= y
<1> DEFINE R == {ss \in Nat \X Nat : ss[1] < ss[2]}
<1>1. IsWellFoundedOn(R, Nat)
  BY NatLessThanWellFounded DEF OpToRel
<1> HIDE DEF R
<1>2. PICK x \in T : \A y \in T : ~(<<y, x>> \in R)
  BY <1>1, WFMin
<1>3. \A y, z \in Nat : y < z => <<y, z>> \in R
  BY DEF R
<1>4. \A y \in T : ~(y < x)
  BY <1>2, <1>3
<1> QED BY <1>4

\* Induction over an initial segment, for a set of numbers.
LEMMA Induction ==
  ASSUME NEW n \in Nat, NEW T, 0 \in T, \A k \in 0..(n - 1) : k \in T => k + 1 \in T
  PROVE  \A k \in 0..n : k \in T
<1> DEFINE B == {k \in 0..n : k \notin T}
<1>1. SUFFICES ASSUME B # {} PROVE FALSE
  OBVIOUS
<1>2. PICK m \in B : \A k \in B : m <= k
  BY <1>1, LeastNatural, B \in SUBSET Nat
<1>3. m \in 1..n
  BY <1>2
<1>4. m - 1 \in 0..(n - 1) /\ m - 1 \notin B
  BY <1>2, <1>3
<1> QED BY <1>3, <1>4, <1>2

LEMMA MaxIs ==
  ASSUME NEW i \in Nat, NEW s \in SUBSET (1..i), i \in s
  PROVE  Max(s) = i
<1>1. \A y \in s : i >= y /\ y \in Nat
  OBVIOUS
<1>2. \E x \in s : \A y \in s : x >= y
  BY <1>1
<1>3. Max(s) \in s /\ \A y \in s : Max(s) >= y
  BY <1>2 DEF Max
<1>4. PICK m : m = Max(s) /\ m \in s /\ m >= i
  BY <1>3
<1> QED BY <1>1, <1>4

\* A loop over the results o, from base on: c is [kind, o, base, episode].
Turn(c, s, r) ==
  CASE c.kind = "merge" -> Merge(s, r)
    [] c.kind = "match" -> KeepFitting(s, r, c.episode)
    [] c.kind = "live"  -> KeepLive(s, r)
    [] c.kind = "sort"  -> Insert(s, r)

LoopResult(c) ==
  CASE c.kind = "merge" -> FoldLeft(Merge, c.base, c.o)
    [] c.kind = "match" -> Matching(c.o, c.episode)
    [] c.kind = "live"  -> FoldLeft(KeepLive, c.base, c.o)
    [] c.kind = "sort"  -> FoldLeft(Insert, c.base, c.o)

Loops == {"merge", "match", "live", "sort"}

\* What FoldLeft unfolds to on a set of sets of indices.
Unfolds(f, D, c) ==
  f = [s \in D |-> IF s = {} THEN c.base ELSE Turn(c, f[s \ {Max(s)}], c.o[Max(s)])]

LEMMA FoldExists ==
  ASSUME NEW n \in Nat, NEW c
  PROVE  \E f : Unfolds(f, SUBSET (1..n), c)
<1> DEFINE T == {k \in Nat : \E f : Unfolds(f, SUBSET (1..k), c)}
<1>1. 0 \in T
  <2> DEFINE f == [s \in SUBSET (1..0) |-> c.base]
  <2>1. \A s \in SUBSET (1..0) : s = {}
    OBVIOUS
  <2>2. Unfolds(f, SUBSET (1..0), c)
    BY <2>1 DEF Unfolds
  <2> QED BY <2>2
<1>2. ASSUME NEW k \in 0..(n - 1), k \in T PROVE k + 1 \in T
  <2>1. PICK f : Unfolds(f, SUBSET (1..k), c)
    BY <1>2
  <2> DEFINE g == [s \in SUBSET (1..(k + 1)) |->
                     IF k + 1 \in s THEN Turn(c, f[s \ {k + 1}], c.o[k + 1]) ELSE f[s]]
  <2>2. \A s \in SUBSET (1..(k + 1)) : k + 1 \notin s => s \in SUBSET (1..k)
    OBVIOUS
  <2>3. \A s \in SUBSET (1..(k + 1)) : k + 1 \in s =>
          Max(s) = k + 1 /\ s # {} /\ s \ {k + 1} \in SUBSET (1..k)
    BY MaxIs
  <2>4. \A s \in SUBSET (1..k) : g[s] = f[s] /\ s \in SUBSET (1..(k + 1))
    OBVIOUS
  <2>5. ASSUME NEW s \in SUBSET (1..(k + 1))
        PROVE  g[s] = IF s = {} THEN c.base ELSE Turn(c, g[s \ {Max(s)}], c.o[Max(s)])
    <3>1. CASE k + 1 \in s
      <4>1. g[s] = Turn(c, f[s \ {k + 1}], c.o[k + 1])
        BY <3>1
      <4> HIDE DEF g
      <4> QED BY <2>3, <2>4, <3>1, <4>1
    <3>2. CASE k + 1 \notin s
      <4>1. s \in SUBSET (1..k) /\ s \ {Max(s)} \in SUBSET (1..k)
        BY <2>2, <3>2
      <4>2. g[s] = f[s] /\ g[s \ {Max(s)}] = f[s \ {Max(s)}]
        BY <2>4, <4>1
      <4> HIDE DEF g
      <4> QED BY <2>1, <4>1, <4>2 DEF Unfolds
    <3> QED BY <3>1, <3>2
  <2>6. Unfolds(g, SUBSET (1..(k + 1)), c)
    BY <2>5 DEF Unfolds
  <2> HIDE DEF g
  <2>7. \E h : Unfolds(h, SUBSET (1..(k + 1)), c)
    BY <2>6
  <2> QED BY <2>7
<1>3. n \in T
  <2> HIDE DEF T
  <2> QED BY <1>1, <1>2, Induction
<1> QED BY <1>3

LEMMA LoopFolds ==
  ASSUME NEW n \in Nat, NEW c, c.kind \in Loops, DOMAIN c.o = 1..n,
         c.kind = "match" => c.base = <<>>
  PROVE  \E f : Unfolds(f, SUBSET (1..n), c) /\ LoopResult(c) = f[1..n]
<1>1. \E f : Unfolds(f, SUBSET (1..n), c)
  BY FoldExists
<1>2. CASE c.kind = "merge"
  <2> DEFINE P(f) == f = [s \in SUBSET (1..n) |->
                            IF s = {} THEN c.base ELSE Merge(f[s \ {Max(s)}], c.o[Max(s)])]
  <2>1. \A f : P(f) <=> Unfolds(f, SUBSET (1..n), c)
    BY <1>2 DEF Unfolds, Turn
  <2>2. LoopResult(c) = (CHOOSE f : P(f))[1..n]
    BY <1>2 DEF LoopResult, FoldLeft, MapThenFoldSet
  <2> HIDE DEF P
  <2>3. P(CHOOSE f : P(f))
    BY <1>1, <2>1
  <2> QED BY <2>1, <2>2, <2>3
<1>3. CASE c.kind = "match"
  <2> DEFINE P(f) == f = [s \in SUBSET (1..n) |->
                            IF s = {} THEN <<>>
                            ELSE KeepFitting(f[s \ {Max(s)}], c.o[Max(s)], c.episode)]
  <2>1. \A f : P(f) <=> Unfolds(f, SUBSET (1..n), c)
    BY <1>3 DEF Unfolds, Turn
  <2>2. LoopResult(c) = (CHOOSE f : P(f))[1..n]
    BY <1>3 DEF LoopResult, Matching, FoldLeft, MapThenFoldSet
  <2> HIDE DEF P
  <2>3. P(CHOOSE f : P(f))
    BY <1>1, <2>1
  <2> QED BY <2>1, <2>2, <2>3
<1>4. CASE c.kind = "live"
  <2> DEFINE P(f) == f = [s \in SUBSET (1..n) |->
                            IF s = {} THEN c.base ELSE KeepLive(f[s \ {Max(s)}], c.o[Max(s)])]
  <2>1. \A f : P(f) <=> Unfolds(f, SUBSET (1..n), c)
    BY <1>4 DEF Unfolds, Turn
  <2>2. LoopResult(c) = (CHOOSE f : P(f))[1..n]
    BY <1>4 DEF LoopResult, FoldLeft, MapThenFoldSet
  <2> HIDE DEF P
  <2>3. P(CHOOSE f : P(f))
    BY <1>1, <2>1
  <2> QED BY <2>1, <2>2, <2>3
<1>5. CASE c.kind = "sort"
  <2> DEFINE P(f) == f = [s \in SUBSET (1..n) |->
                            IF s = {} THEN c.base ELSE Insert(f[s \ {Max(s)}], c.o[Max(s)])]
  <2>1. \A f : P(f) <=> Unfolds(f, SUBSET (1..n), c)
    BY <1>5 DEF Unfolds, Turn
  <2>2. LoopResult(c) = (CHOOSE f : P(f))[1..n]
    BY <1>5 DEF LoopResult, FoldLeft, MapThenFoldSet
  <2> HIDE DEF P
  <2>3. P(CHOOSE f : P(f))
    BY <1>1, <2>1
  <2> QED BY <2>1, <2>2, <2>3
<1> QED BY <1>2, <1>3, <1>4, <1>5 DEF Loops

\* The loop's states, one turn for every result.
Turns(q, n, c) ==
  /\ q[0] = c.base /\ LoopResult(c) = q[n]
  /\ \A i \in 1..n : q[i] = Turn(c, q[i - 1], c.o[i])

LEMMA LoopTurns ==
  ASSUME NEW n \in Nat, NEW c, c.kind \in Loops, DOMAIN c.o = 1..n,
         c.kind = "match" => c.base = <<>>
  PROVE  \E q : Turns(q, n, c)
<1>1. PICK f : Unfolds(f, SUBSET (1..n), c) /\ LoopResult(c) = f[1..n]
  BY LoopFolds
<1>2. PICK q : q = [i \in 0..n |-> f[1..i]]
  OBVIOUS
<1>3. q[0] = c.base /\ q[n] = f[1..n]
  <2>1. 1..0 = {} /\ {} \in SUBSET (1..n)
    OBVIOUS
  <2>2. f[{}] = c.base
    BY <1>1, <2>1 DEF Unfolds
  <2>3. q[0] = f[1..0] /\ q[n] = f[1..n]
    BY <1>2
  <2> QED BY <2>1, <2>2, <2>3
<1>4. ASSUME NEW i \in 1..n PROVE q[i] = Turn(c, q[i - 1], c.o[i])
  <2>1. (1..i) \ {i} = 1..(i - 1)
    OBVIOUS
  <2>0. n \in Nat /\ i \in 1..n
    OBVIOUS
  <2>2. 1..i \in SUBSET (1..n) /\ 1..i # {} /\ i \in 1..i
    BY ONLY <2>0
  <2>3. Max(1..i) = i
    BY <2>2, MaxIs
  <2>4. f[1..i] = Turn(c, f[1..(i - 1)], c.o[i])
    BY <1>1, <2>1, <2>2, <2>3 DEF Unfolds
  <2> QED BY <1>2, <2>4
<1>5. Turns(q, n, c)
  BY <1>1, <1>3, <1>4 DEF Turns
<1> QED BY <1>5

----------------------------------------------------------------------------
(* What each loop keeps.                                                   *)

\* One row for a release; in order of score.
Distinct(s) == \A i, j \in 1..Len(s) : s[i].ih = s[j].ih => i = j
Ordered(s)  == \A i, j \in 1..Len(s) : i < j => s[i].score >= s[j].score

\* What the first k results of o leave in s, of those in Good.
Picked(s, o, k, Good) ==
  /\ s \in Seq(Results) /\ Distinct(s)
  /\ \A i \in 1..Len(s) : \E j \in 1..k : s[i] = o[j] /\ o[j] \in Good
  /\ \A j \in 1..k : o[j] \in Good => \E i \in 1..Len(s) : s[i] = o[j]

\* The results in S, merged: a best copy of every release.
Merged(s, S) ==
  /\ s \in Seq(Results) /\ Distinct(s)
  /\ \A i \in 1..Len(s) : s[i].ih # NoHash /\ s[i] \in Best(S, s[i].ih)
  /\ \A r \in S : r.ih # NoHash => \E i \in 1..Len(s) : s[i].ih = r.ih

LEMMA Numbers ==
  \A r \in Results : r.seeders \in Int /\ r.score \in Int
BY ResultsAssumption

LEMMA Appended ==
  ASSUME NEW s \in Seq(Results), NEW r \in Results, NEW z, z = Append(s, r)
  PROVE  /\ z \in Seq(Results) /\ Len(z) = Len(s) + 1 /\ Len(s) \in Nat
         /\ \A i \in 1..Len(s) : z[i] = s[i] /\ i \in 1..Len(z)
         /\ z[Len(s) + 1] = r /\ Len(s) + 1 \in 1..Len(z)
         /\ \A i \in 1..Len(z) : i \in 1..Len(s) \/ i = Len(s) + 1
OBVIOUS

LEMMA AppendDistinct ==
  ASSUME NEW s \in Seq(Results), NEW r \in Results, Distinct(s),
         \A i \in 1..Len(s) : s[i].ih # r.ih
  PROVE  Distinct(Append(s, r))
<1>1. PICK z : z = Append(s, r)
  OBVIOUS
<1>2. PICK n : n = Len(s)
  OBVIOUS
<1>3. /\ \A i \in 1..n : z[i] = s[i]
      /\ z[n + 1] = r
      /\ \A i \in 1..Len(z) : i \in 1..n \/ i = n + 1
  BY <1>1, <1>2, Appended
<1>4. ASSUME NEW i \in 1..Len(z), NEW j \in 1..Len(z), z[i].ih = z[j].ih PROVE i = j
  <2>1. CASE i \in 1..n /\ j \in 1..n
    BY <1>2, <1>3, <1>4, <2>1 DEF Distinct
  <2>2. CASE i \in 1..n /\ j = n + 1
    BY <1>2, <1>3, <1>4, <2>2
  <2>3. CASE i = n + 1 /\ j \in 1..n
    BY <1>2, <1>3, <1>4, <2>3
  <2> QED BY <1>3, <2>1, <2>2, <2>3
<1> QED BY <1>1, <1>4 DEF Distinct

\* A result kept by a loop that appends.
LEMMA PickedAppend ==
  ASSUME NEW n \in Nat, NEW o \in Seq(Results), n = Len(o), Distinct(o),
         NEW k \in 0..(n - 1), NEW s, NEW Good, Picked(s, o, k, Good)
  PROVE  Picked(IF o[k + 1] \in Good THEN Append(s, o[k + 1]) ELSE s, o, k + 1, Good)
<1>1. k \in Nat /\ k + 1 \in 1..n /\ k + 1 \notin 1..k /\ \A j \in 1..(k + 1) : j \in 1..k \/ j = k + 1
  OBVIOUS
<1>2. \A j \in 1..k : j \in 1..n /\ j \in 1..(k + 1)
  OBVIOUS
<1>3. PICK r : r = o[k + 1] /\ r \in Results
  BY <1>1
<1>4. s \in Seq(Results) /\ Distinct(s)
  BY DEF Picked
<1>5. CASE r \in Good
  <2>1. \A i \in 1..Len(s) : s[i].ih # r.ih
    <3>1. \A j \in 1..k : o[j].ih # r.ih
      BY <1>1, <1>2, <1>3 DEF Distinct
    <3> QED BY <3>1 DEF Picked
  <2>2. PICK z : z = Append(s, r)
    OBVIOUS
  <2>3. z \in Seq(Results) /\ Distinct(z)
    BY <1>3, <1>4, <2>1, <2>2, Appended, AppendDistinct
  <2>4. /\ \A i \in 1..Len(s) : z[i] = s[i] /\ i \in 1..Len(z)
        /\ z[Len(s) + 1] = r /\ Len(s) + 1 \in 1..Len(z)
        /\ \A i \in 1..Len(z) : i \in 1..Len(s) \/ i = Len(s) + 1
    BY <1>3, <1>4, <2>2, Appended
  <2>5. \A i \in 1..Len(z) : \E j \in 1..(k + 1) : z[i] = o[j] /\ o[j] \in Good
    <3>1. \A i \in 1..Len(s) : \E j \in 1..k : s[i] = o[j] /\ o[j] \in Good
      BY DEF Picked
    <3>2. k + 1 \in 1..(k + 1)
      BY <1>1
    <3> QED BY <1>2, <1>3, <1>5, <2>4, <3>1, <3>2
  <2>6. \A j \in 1..(k + 1) : o[j] \in Good => \E i \in 1..Len(z) : z[i] = o[j]
    <3>1. \A j \in 1..k : o[j] \in Good => \E i \in 1..Len(s) : s[i] = o[j]
      BY DEF Picked
    <3> QED BY <1>1, <1>3, <2>4, <3>1
  <2> QED BY <1>3, <1>5, <2>2, <2>3, <2>5, <2>6 DEF Picked
<1>6. CASE r \notin Good
  <2>1. \A i \in 1..Len(s) : \E j \in 1..(k + 1) : s[i] = o[j] /\ o[j] \in Good
    BY <1>2 DEF Picked
  <2>2. \A j \in 1..(k + 1) : o[j] \in Good => \E i \in 1..Len(s) : s[i] = o[j]
    BY <1>1, <1>3, <1>6 DEF Picked
  <2> QED BY <1>3, <1>4, <1>6, <2>1, <2>2 DEF Picked
<1> QED BY <1>5, <1>6

\* What comes last scores least.
LEMMA OrderedAppend ==
  ASSUME NEW n \in Nat, NEW o \in Seq(Results), n = Len(o), Ordered(o),
         NEW k \in 0..(n - 1), NEW s, NEW Good, Picked(s, o, k, Good), Ordered(s)
  PROVE  Ordered(IF o[k + 1] \in Good THEN Append(s, o[k + 1]) ELSE s)
<1>1. k \in Nat /\ k + 1 \in 1..n /\ \A j \in 1..k : j < k + 1 /\ j \in 1..n
  OBVIOUS
<1>2. PICK r : r = o[k + 1] /\ r \in Results
  BY <1>1
<1>3. \A i \in 1..Len(s) : s[i].score >= r.score
  <2>1. \A j \in 1..k : o[j].score >= r.score
    BY <1>1, <1>2 DEF Ordered
  <2> QED BY <2>1 DEF Picked
<1>4. PICK z, m : z = Append(s, r) /\ m = Len(s)
  OBVIOUS
<1>5. /\ m \in Nat /\ \A i \in 1..m : z[i] = s[i]
      /\ z[m + 1] = r
      /\ \A i \in 1..Len(z) : i \in 1..m \/ i = m + 1
  BY <1>2, <1>4, Appended DEF Picked
<1>6. ASSUME NEW i \in 1..Len(z), NEW j \in 1..Len(z), i < j PROVE z[i].score >= z[j].score
  <2>1. i \in 1..m
    <3>1. j <= m + 1 /\ i \in Int /\ j \in Int
      BY <1>5
    <3>2. i # m + 1
      BY <1>5, <1>6, <3>1
    <3> QED BY <1>5, <3>2
  <2>2. CASE j \in 1..m
    BY <1>4, <1>5, <1>6, <2>1, <2>2 DEF Ordered
  <2>3. CASE j = m + 1
    BY <1>3, <1>4, <1>5, <2>1, <2>3
  <2> QED BY <1>5, <2>2, <2>3
<1>7. Ordered(z)
  BY <1>6 DEF Ordered
<1> QED BY <1>2, <1>4, <1>7

\* One result merged.
LEMMA MergeOne ==
  ASSUME NEW S \in SUBSET Results, NEW s, Merged(s, S), NEW r \in Results
  PROVE  Merged(Merge(s, r), S \cup {r})
<1>1. s \in Seq(Results) /\ Distinct(s)
  BY DEF Merged
<1>2. \A x \in S \cup {r} : x.seeders \in Int
  BY Numbers
<1>3. \A ih : ih # r.ih => Best(S \cup {r}, ih) = Best(S, ih)
  BY DEF Best
<1>4. DOMAIN s = 1..Len(s)
  BY <1>1
<1>5. CASE r.ih = NoHash
  <2>1. Merge(s, r) = s
    BY <1>5 DEF Merge
  <2>2. \A i \in 1..Len(s) : s[i].ih # NoHash /\ s[i] \in Best(S \cup {r}, s[i].ih)
    BY <1>3, <1>5 DEF Merged
  <2> QED BY <1>1, <1>5, <2>1, <2>2 DEF Merged
<1>6. CASE r.ih # NoHash /\ Index(s, r.ih) = {}
  <2>1. \A i \in 1..Len(s) : s[i].ih # r.ih
    BY <1>6, <1>4 DEF Index
  <2>2. \A x \in S : x.ih # r.ih
    BY <1>6, <2>1 DEF Merged
  <2>3. r \in Best(S \cup {r}, r.ih)
    BY <1>2, <2>2 DEF Best
  <2>4. PICK z : z = Append(s, r)
    OBVIOUS
  <2>5. /\ z \in Seq(Results) /\ Distinct(z) /\ Merge(s, r) = z
        /\ \A i \in 1..Len(s) : z[i] = s[i] /\ i \in 1..Len(z)
        /\ z[Len(s) + 1] = r /\ Len(s) + 1 \in 1..Len(z)
        /\ \A i \in 1..Len(z) : i \in 1..Len(s) \/ i = Len(s) + 1
    BY <1>1, <1>6, <2>1, <2>4, Appended, AppendDistinct DEF Merge
  <2>6. \A i \in 1..Len(z) : z[i].ih # NoHash /\ z[i] \in Best(S \cup {r}, z[i].ih)
    <3>1. \A i \in 1..Len(s) : s[i].ih # NoHash /\ s[i] \in Best(S \cup {r}, s[i].ih)
      BY <1>3, <2>1 DEF Merged
    <3> QED BY <1>6, <2>3, <2>5, <3>1
  <2>7. \A x \in S \cup {r} : x.ih # NoHash => \E i \in 1..Len(z) : z[i].ih = x.ih
    <3>1. \A x \in S : x.ih # NoHash => \E i \in 1..Len(s) : s[i].ih = x.ih
      BY DEF Merged
    <3> QED BY <2>5, <3>1
  <2> QED BY <2>5, <2>6, <2>7 DEF Merged
<1>7. CASE r.ih # NoHash /\ Index(s, r.ih) # {}
  <2>1. PICK i : i = CHOOSE k \in Index(s, r.ih) : TRUE
    OBVIOUS
  <2>2. i \in 1..Len(s) /\ s[i].ih = r.ih
    BY <1>7, <1>4, <2>1 DEF Index
  <2>3. PICK z : z = Merge(s, r)
    OBVIOUS
  <2>4. z = IF r.seeders > s[i].seeders THEN [s EXCEPT ![i] = r] ELSE s
    BY <1>7, <2>1, <2>3 DEF Merge
  <2>5. /\ z \in Seq(Results) /\ Len(z) = Len(s)
        /\ \A j \in 1..Len(s) : z[j].ih = s[j].ih /\ (j # i => z[j] = s[j])
        /\ z[i] = IF r.seeders > s[i].seeders THEN r ELSE s[i]
    BY <1>1, <2>2, <2>4
  <2>6. Distinct(z)
    BY <1>1, <2>5 DEF Distinct
  <2>7. z[i] \in Best(S \cup {r}, r.ih)
    <3>1. s[i] \in Best(S, r.ih)
      BY <2>2 DEF Merged
    <3>2. PICK x : x = s[i] /\ x \in S /\ x.ih = r.ih /\ \A y \in S : y.ih = r.ih => y.seeders <= x.seeders
      BY <3>1 DEF Best
    <3>3. CASE r.seeders > x.seeders
      <4>1. \A y \in S \cup {r} : y.ih = r.ih => y.seeders <= r.seeders
        BY <1>2, <3>2, <3>3
      <4> QED BY <2>5, <3>2, <3>3, <4>1 DEF Best
    <3>4. CASE ~(r.seeders > x.seeders)
      <4>1. \A y \in S \cup {r} : y.ih = r.ih => y.seeders <= x.seeders
        BY <1>2, <3>2, <3>4
      <4> QED BY <2>5, <3>2, <3>4, <4>1 DEF Best
    <3> QED BY <3>3, <3>4
  <2>8. \A j \in 1..Len(z) : z[j].ih # NoHash /\ z[j] \in Best(S \cup {r}, z[j].ih)
    <3> SUFFICES ASSUME NEW j \in 1..Len(s)
                 PROVE  z[j].ih # NoHash /\ z[j] \in Best(S \cup {r}, z[j].ih)
      BY <2>5
    <3>1. s[j].ih # NoHash /\ s[j] \in Best(S, s[j].ih)
      BY DEF Merged
    <3>2. CASE j = i
      BY <1>7, <2>2, <2>5, <2>7, <3>2
    <3>3. CASE j # i
      <4>1. s[j].ih # r.ih
        BY <1>1, <2>2, <3>3 DEF Distinct
      <4> QED BY <1>3, <2>5, <3>1, <3>3, <4>1
    <3> QED BY <3>2, <3>3
  <2>9. \A x \in S \cup {r} : x.ih # NoHash => \E j \in 1..Len(z) : z[j].ih = x.ih
    <3>1. \A x \in S : x.ih # NoHash => \E j \in 1..Len(s) : s[j].ih = x.ih
      BY DEF Merged
    <3> QED BY <2>2, <2>5, <3>1
  <2> QED BY <2>3, <2>5, <2>6, <2>8, <2>9 DEF Merged
<1> QED BY <1>5, <1>6, <1>7

----------------------------------------------------------------------------
(* The place of a result in the sorted list.                               *)

\* Positions that are closed below are the first ones.
LEMMA Lowest ==
  ASSUME NEW n \in Nat, NEW G \in SUBSET (1..n),
         \A i \in G : \A j \in 1..n : j < i => j \in G
  PROVE  Cardinality(G) \in 0..n /\ G = 1..Cardinality(G)
<1> DEFINE T == {k \in 0..n : k + 1 \notin G}
<1>1. T \in SUBSET Nat /\ n \in T
  OBVIOUS
<1>2. PICK m \in T : \A k \in T : m <= k
  BY <1>1, LeastNatural
<1>3. m \in 0..n /\ m + 1 \notin G
  OBVIOUS
<1>4. \A k \in 0..n : k < m => k + 1 \in G
  BY <1>2
<1> HIDE DEF T
<1>5. \A i \in 1..m : i \in G
  <2>1. \A i \in 1..m : i - 1 \in 0..n /\ i - 1 < m /\ (i - 1) + 1 = i
    BY <1>3
  <2> QED BY <1>4, <2>1
<1>6. \A i \in G : i \in 1..m
  <2> SUFFICES ASSUME NEW i \in G, ~(i \in 1..m) PROVE FALSE
    OBVIOUS
  <2>1. i \in 1..n /\ i # m + 1
    BY <1>3
  <2>2. m + 1 < i /\ m + 1 \in 1..n
    BY <1>3, <2>1
  <2> QED BY <1>3, <2>2
<1>7. G = 1..m
  BY <1>5, <1>6
<1>8. Cardinality(1..m) = m
  BY <1>3, FS_Interval
<1> QED BY <1>3, <1>7, <1>8

\* The sequence with an element put in after the m-th.
With(s, m, r) == SubSeq(s, 1, m) \o <<r>> \o SubSeq(s, m + 1, Len(s))

\* Insert puts a result behind those that score as much.
LEMMA InsertPlace ==
  ASSUME NEW s \in Seq(Results), Ordered(s), NEW r \in Results
  PROVE  \E m \in 0..Len(s) :
           /\ \A i \in 1..Len(s) : s[i].score >= r.score <=> i <= m
           /\ Insert(s, r) = With(s, m, r)
<1>1. PICK n : n = Len(s)
  OBVIOUS
<1>2. n \in Nat /\ DOMAIN s = 1..n /\ \A i \in 1..n : s[i] \in Results
  BY <1>1
<1>3. PICK G : G = {i \in DOMAIN s : s[i].score >= r.score}
  OBVIOUS
<1>4. \A i \in 1..n : s[i].score \in Int
  BY <1>2, Numbers
<1>5. r.score \in Int
  BY Numbers
<1>6. \A i \in G : \A j \in 1..n : j < i => j \in G
  <2> SUFFICES ASSUME NEW i \in G, NEW j \in 1..n, j < i PROVE j \in G
    OBVIOUS
  <2>1. i \in 1..n /\ s[i].score >= r.score
    BY <1>2, <1>3
  <2>2. s[j].score >= s[i].score
    BY <1>1, <2>1 DEF Ordered
  <2>3. s[j].score >= r.score
    BY <1>4, <1>5, <2>1, <2>2
  <2> QED BY <1>2, <1>3, <2>3
<1>7. PICK m : m = Cardinality(G)
  OBVIOUS
<1>8. m \in 0..n /\ G = 1..m
  BY <1>2, <1>3, <1>6, <1>7, Lowest
<1>9. \A i \in 1..n : s[i].score >= r.score <=> i <= m
  BY <1>2, <1>3, <1>8
<1>10. Insert(s, r) = With(s, m, r)
  <2>1. Insert(s, r) = InsertAt(s, 1 + m, r)
    BY <1>3, <1>7 DEF Insert
  <2>2. (1 + m) - 1 = m /\ 1 + m = m + 1
    BY <1>8
  <2> QED BY <1>1, <2>1, <2>2 DEF InsertAt, With
<1> QED BY <1>1, <1>8, <1>9, <1>10

LEMMA Joined ==
  ASSUME NEW w \in Seq(Results), NEW y \in Seq(Results)
  PROVE  /\ w \o y \in Seq(Results) /\ Len(w \o y) = Len(w) + Len(y)
         /\ \A i \in 1..(Len(w) + Len(y)) :
              (w \o y)[i] = IF i <= Len(w) THEN w[i] ELSE y[i - Len(w)]
OBVIOUS

LEMMA PutIn ==
  ASSUME NEW s \in Seq(Results), NEW r \in Results, NEW m \in 0..Len(s)
  PROVE  /\ With(s, m, r) \in Seq(Results) /\ Len(With(s, m, r)) = Len(s) + 1
         /\ \A i \in 1..m : With(s, m, r)[i] = s[i]
         /\ With(s, m, r)[m + 1] = r
         /\ \A i \in (m + 2)..(Len(s) + 1) : With(s, m, r)[i] = s[i - 1]
<1>1. PICK n, z : n = Len(s) /\ z = With(s, m, r)
  OBVIOUS
<1>2. n \in Nat /\ m \in 0..n
  BY <1>1
<1>3. PICK x, y, w : x = SubSeq(s, 1, m) /\ y = SubSeq(s, m + 1, n) /\ w = x \o <<r>>
  OBVIOUS
<1>4. /\ x \in Seq(Results) /\ Len(x) = m
      /\ \A i \in 1..m : x[i] = s[i]
  BY <1>1, <1>2, <1>3
<1>5. /\ y \in Seq(Results) /\ Len(y) = n - m
      /\ \A i \in 1..(n - m) : y[i] = s[m + i]
  BY <1>1, <1>2, <1>3
<1>6. /\ w \in Seq(Results) /\ Len(w) = m + 1
      /\ \A i \in 1..m : w[i] = s[i]
      /\ w[m + 1] = r
  BY <1>2, <1>3, <1>4
<1>7. z = w \o y
  BY <1>1, <1>3 DEF With
<1>8. /\ z \in Seq(Results) /\ Len(z) = n + 1
      /\ \A i \in 1..(m + 1) : z[i] = w[i]
      /\ \A i \in (m + 2)..(n + 1) : z[i] = y[i - (m + 1)]
  <2>1. /\ z \in Seq(Results) /\ Len(z) = (m + 1) + (n - m)
        /\ \A i \in 1..((m + 1) + (n - m)) :
             z[i] = IF i <= m + 1 THEN w[i] ELSE y[i - (m + 1)]
    <3>1. w \in Seq(Results) /\ y \in Seq(Results) /\ Len(w) = m + 1 /\ Len(y) = n - m
      BY <1>5, <1>6
    <3>2. z \in Seq(Results)
      BY ONLY <3>1, <1>7, Joined
    <3>3. Len(z) = (m + 1) + (n - m)
      <4>1. Len(w \o y) = Len(w) + Len(y)
        BY ONLY <3>1, Joined
      <4> QED BY <3>1, <4>1, <1>7
    <3>4. \A i \in 1..((m + 1) + (n - m)) :
             z[i] = IF i <= m + 1 THEN w[i] ELSE y[i - (m + 1)]
      <4>1. \A i \in 1..(Len(w) + Len(y)) : z[i] = IF i <= Len(w) THEN w[i] ELSE y[i - Len(w)]
        BY ONLY <3>1, <1>7, Joined
      <4> QED BY ONLY <3>1, <4>1
    <3> QED BY <3>2, <3>3, <3>4
  <2>2. (m + 1) + (n - m) = n + 1
    BY <1>2
  <2>3. \A i \in 1..(m + 1) : i \in 1..(n + 1) /\ i <= m + 1
    BY <1>2
  <2>4. \A i \in (m + 2)..(n + 1) : i \in 1..(n + 1) /\ ~(i <= m + 1)
    BY <1>2
  <2> QED BY <2>1, <2>2, <2>3, <2>4
<1>9. \A i \in (m + 2)..(n + 1) : i - (m + 1) \in 1..(n - m) /\ m + (i - (m + 1)) = i - 1
  BY <1>2
<1>10. \A i \in (m + 2)..(n + 1) : z[i] = s[i - 1]
  BY <1>5, <1>8, <1>9
<1>11. \A i \in 1..m : i \in 1..(m + 1)
  BY <1>2
<1>12. m + 1 \in 1..(m + 1)
  BY <1>2
<1> QED BY <1>1, <1>6, <1>8, <1>10, <1>11, <1>12

\* One result put in its place.
LEMMA InsertOne ==
  ASSUME NEW s \in Seq(Results), Ordered(s), Distinct(s), NEW r \in Results,
         \A i \in 1..Len(s) : s[i].ih # r.ih
  PROVE  /\ Insert(s, r) \in Seq(Results) /\ Ordered(Insert(s, r)) /\ Distinct(Insert(s, r))
         /\ \A i \in 1..Len(Insert(s, r)) :
              Insert(s, r)[i] = r \/ \E j \in 1..Len(s) : Insert(s, r)[i] = s[j]
         /\ \E i \in 1..Len(Insert(s, r)) : Insert(s, r)[i] = r
         /\ \A j \in 1..Len(s) : \E i \in 1..Len(Insert(s, r)) : Insert(s, r)[i] = s[j]
<1>1. PICK n, z : n = Len(s) /\ z = Insert(s, r)
  OBVIOUS
<1>2. PICK m \in 0..n :
           /\ \A i \in 1..n : s[i].score >= r.score <=> i <= m
           /\ z = With(s, m, r)
  BY <1>1, InsertPlace
<1>3. /\ z \in Seq(Results) /\ Len(z) = n + 1
      /\ \A i \in 1..m : z[i] = s[i]
      /\ z[m + 1] = r
      /\ \A i \in (m + 2)..(n + 1) : z[i] = s[i - 1]
  <2>1. m \in 0..Len(s) /\ z = With(s, m, r)
    BY <1>1, <1>2
  <2>2. s \in Seq(Results) /\ r \in Results
    OBVIOUS
  <2>3. /\ z \in Seq(Results) /\ Len(z) = Len(s) + 1
        /\ \A i \in 1..m : z[i] = s[i]
        /\ z[m + 1] = r
        /\ \A i \in (m + 2)..(Len(s) + 1) : z[i] = s[i - 1]
    BY ONLY <2>1, <2>2, PutIn
  <2> QED BY <1>1, <2>3
<1>4. n \in Nat /\ m \in Nat /\ m <= n
  BY <1>1
<1>5. \A i \in 1..(n + 1) : \/ i \in 1..m /\ i \in 1..n
                            \/ i = m + 1
                            \/ i \in (m + 2)..(n + 1) /\ i - 1 \in 1..n
  BY <1>4
<1>6. \A i \in 1..n : s[i].score \in Int
  BY <1>1, Numbers
<1>7. r.score \in Int
  BY Numbers
\* Where an element of z comes from.
<1>8. PICK from : from = [i \in 1..(n + 1) |-> IF i <= m THEN i ELSE IF i = m + 1 THEN 0 ELSE i - 1]
  OBVIOUS
<1>9. \A i \in 1..(n + 1) : /\ from[i] \in 0..n
                            /\ i <= m => from[i] = i
                            /\ i = m + 1 => from[i] = 0
                            /\ i > m + 1 => from[i] = i - 1
  <2> SUFFICES ASSUME NEW i \in 1..(n + 1)
               PROVE  /\ from[i] \in 0..n
                      /\ i <= m => from[i] = i
                      /\ i = m + 1 => from[i] = 0
                      /\ i > m + 1 => from[i] = i - 1
    OBVIOUS
  <2>1. from[i] = IF i <= m THEN i ELSE IF i = m + 1 THEN 0 ELSE i - 1
    BY <1>8
  <2> QED BY <1>4, <2>1
<1>10. \A i \in 1..(n + 1) : IF from[i] = 0 THEN z[i] = r /\ i = m + 1
                             ELSE from[i] \in 1..n /\ z[i] = s[from[i]]
  BY <1>3, <1>4, <1>5, <1>9
<1>11. ASSUME NEW i \in 1..(n + 1), NEW j \in 1..(n + 1), from[i] = from[j] PROVE i = j
  <2>1. /\ from[i] \in 0..n
        /\ \/ i <= m /\ from[i] = i
           \/ i = m + 1 /\ from[i] = 0
           \/ i > m + 1 /\ from[i] = i - 1
    BY <1>4, <1>9
  <2>2. /\ from[j] \in 0..n
        /\ \/ j <= m /\ from[j] = j
           \/ j = m + 1 /\ from[j] = 0
           \/ j > m + 1 /\ from[j] = j - 1
    BY <1>4, <1>9
  <2>3. PICK x, y : x = from[i] /\ y = from[j] /\ x = y
    BY <1>11
  <2>4. i \in Int /\ j \in Int /\ i > 0 /\ j > 0
    BY <1>4
  <2> QED BY ONLY <1>4, <2>1, <2>2, <2>3, <2>4
<1>12. ASSUME NEW i \in 1..(n + 1), NEW j \in 1..(n + 1), z[i].ih = z[j].ih PROVE i = j
  <2>1. CASE from[i] = 0 /\ from[j] = 0
    BY <1>11, <2>1
  <2>2. CASE from[i] # 0 /\ from[j] # 0
    <3>1. from[i] = from[j]
      BY <1>1, <1>10, <1>12, <2>2 DEF Distinct
    <3> QED BY <1>11, <3>1
  <2>3. CASE from[i] = 0 /\ from[j] # 0
    BY <1>1, <1>10, <1>12, <2>3
  <2>4. CASE from[i] # 0 /\ from[j] = 0
    BY <1>1, <1>10, <1>12, <2>4
  <2> QED BY <2>1, <2>2, <2>3, <2>4
<1>13. ASSUME NEW i \in 1..(n + 1), NEW j \in 1..(n + 1), i < j PROVE z[i].score >= z[j].score
  <2>1. CASE j <= m
    <3>1. i \in 1..n /\ j \in 1..n /\ from[i] = i /\ from[j] = j /\ i # 0 /\ j # 0
      BY <1>4, <1>9, <1>13, <2>1
    <3> QED BY <1>1, <1>10, <1>13, <3>1 DEF Ordered
  <2>2. CASE j = m + 1
    <3>1. i \in 1..n /\ i <= m /\ from[i] = i /\ from[j] = 0 /\ i # 0
      BY <1>4, <1>9, <1>13, <2>2
    <3> QED BY <1>2, <1>10, <3>1
  <2>3. CASE j > m + 1 /\ i = m + 1
    <3>1. j - 1 \in 1..n /\ ~(j - 1 <= m) /\ from[j] = j - 1 /\ from[i] = 0 /\ j - 1 # 0
      BY <1>4, <1>9, <1>13, <2>3
    <3>2. z[i] = r /\ z[j] = s[j - 1] /\ ~(s[j - 1].score >= r.score)
      BY <1>2, <1>10, <3>1
    <3> QED BY <1>6, <1>7, <3>1, <3>2
  <2>4. CASE j > m + 1 /\ i <= m
    <3>1. i \in 1..n /\ j - 1 \in 1..n /\ from[i] = i /\ from[j] = j - 1 /\ i < j - 1 /\ i # 0 /\ j - 1 # 0
      BY <1>4, <1>9, <1>13, <2>4
    <3> QED BY <1>1, <1>10, <3>1 DEF Ordered
  <2>5. CASE j > m + 1 /\ i > m + 1
    <3>1. i - 1 \in 1..n /\ j - 1 \in 1..n /\ from[i] = i - 1 /\ from[j] = j - 1 /\ i - 1 < j - 1
          /\ i - 1 # 0 /\ j - 1 # 0
      BY <1>4, <1>9, <1>13, <2>5
    <3> QED BY <1>1, <1>10, <3>1 DEF Ordered
  <2>6. j <= m \/ j = m + 1 \/ j > m + 1
    BY <1>4
  <2>7. i <= m \/ i = m + 1 \/ i > m + 1
    BY <1>4
  <2> QED BY <2>1, <2>2, <2>3, <2>4, <2>5, <2>6, <2>7
<1>14. Ordered(z) /\ Distinct(z)
  BY <1>3, <1>12, <1>13 DEF Ordered, Distinct
<1>15. \A i \in 1..(n + 1) : z[i] = r \/ \E j \in 1..n : z[i] = s[j]
  BY <1>10
<1>16. m + 1 \in 1..(n + 1) /\ z[m + 1] = r
  BY <1>3, <1>4
<1>17. ASSUME NEW j \in 1..n PROVE \E i \in 1..(n + 1) : z[i] = s[j]
  <2>1. CASE j <= m
    <3>1. j \in 1..m /\ j \in 1..(n + 1)
      BY <1>4, <2>1
    <3> QED BY <1>3, <3>1
  <2>2. CASE ~(j <= m)
    <3>1. j + 1 \in (m + 2)..(n + 1) /\ (j + 1) - 1 = j /\ j + 1 \in 1..(n + 1)
      BY <1>4, <2>2
    <3> QED BY <1>3, <3>1
  <2> QED BY <2>1, <2>2
<1> QED BY <1>1, <1>3, <1>14, <1>15, <1>16, <1>17

----------------------------------------------------------------------------
(* The loops, from their first turn to their last.                         *)

\* Every answer merged.
LEMMA MergeAll ==
  ASSUME NEW S \in SUBSET Results, NEW s, Merged(s, S), NEW o \in Seq(Results)
  PROVE  Merged(FoldLeft(Merge, s, o), S \cup ToSet(o))
<1>1. PICK n, c : n = Len(o) /\ c = [kind |-> "merge", o |-> o, base |-> s, episode |-> <<0, 0>>]
  OBVIOUS
<1>2. n \in Nat /\ DOMAIN o = 1..n /\ \A i \in 1..n : o[i] \in Results
  BY <1>1
<1>3. c.kind = "merge" /\ c.o = o /\ c.base = s
  BY <1>1
<1>4. PICK q : Turns(q, n, c)
  BY <1>2, <1>3, LoopTurns DEF Loops
<1>5. /\ q[0] = s /\ FoldLeft(Merge, s, o) = q[n]
      /\ \A i \in 1..n : q[i] = Merge(q[i - 1], o[i])
  BY <1>3, <1>4 DEF Turns, LoopResult, Turn
<1> DEFINE Heard(k) == {o[j] : j \in 1..k}
           T == {k \in 0..n : Merged(q[k], S \cup Heard(k))}
<1>6. 0 \in T
  <2>1. Heard(0) = {}
    OBVIOUS
  <2> HIDE DEF Heard
  <2>2. S \cup Heard(0) = S
    BY <2>1
  <2>3. Merged(q[0], S)
    BY <1>5
  <2>4. 0 \in 0..n
    BY <1>2
  <2> QED BY <2>2, <2>3, <2>4
<1>7. ASSUME NEW k \in 0..(n - 1), k \in T PROVE k + 1 \in T
  <2>1. k + 1 \in 1..n /\ (k + 1) - 1 = k /\ k + 1 \in 0..n /\ k \in Nat
    BY <1>2
  <2>2. Heard(k + 1) = Heard(k) \cup {o[k + 1]}
    <3>1. \A j \in 1..(k + 1) : j \in 1..k \/ j = k + 1
      BY <2>1
    <3>2. k + 1 \in 1..(k + 1) /\ \A j \in 1..k : j \in 1..(k + 1)
      BY <2>1
    <3> QED BY <3>1, <3>2
  <2>3. Heard(k) \in SUBSET Results
    <3>1. \A j \in 1..k : j \in 1..n
      BY <1>2, <2>1
    <3> QED BY <1>2, <3>1
  <2> HIDE DEF Heard
  <2>4. Merged(q[k], S \cup Heard(k)) /\ S \cup Heard(k) \in SUBSET Results /\ o[k + 1] \in Results
    BY <1>2, <1>7, <2>1, <2>3
  <2>5. Merged(Merge(q[k], o[k + 1]), (S \cup Heard(k)) \cup {o[k + 1]})
    BY <2>4, MergeOne
  <2>6. q[k + 1] = Merge(q[k], o[k + 1])
    BY <1>5, <2>1
  <2>7. (S \cup Heard(k)) \cup {o[k + 1]} = S \cup Heard(k + 1)
    BY <2>2
  <2> QED BY <2>1, <2>5, <2>6, <2>7
<1>8. n \in T
  <2> HIDE DEF T
  <2>1. \A k \in 0..(n - 1) : k \in T => k + 1 \in T
    BY <1>7
  <2>2. \A k \in 0..n : k \in T
    BY ONLY <1>2, <1>6, <2>1, Induction
  <2> QED BY <1>2, <2>2
<1>9. Heard(n) = ToSet(o)
  BY <1>2 DEF ToSet
<1> QED BY <1>5, <1>8, <1>9

\* A loop that keeps the results in Good, in the order they come.
Keeps(q, o, n, Good) ==
  /\ n = Len(o) /\ q[0] = <<>>
  /\ \A i \in 1..n : q[i] = IF o[i] \in Good THEN Append(q[i - 1], o[i]) ELSE q[i - 1]

LEMMA KeepAll ==
  ASSUME NEW o \in Seq(Results), Distinct(o), NEW q, NEW n, NEW Good, Keeps(q, o, n, Good)
  PROVE  Picked(q[n], o, n, Good) /\ (Ordered(o) => Ordered(q[n]))
<1>1. n \in Nat /\ n = Len(o)
  BY DEF Keeps
<1> DEFINE T == {k \in 0..n : Picked(q[k], o, k, Good) /\ (Ordered(o) => Ordered(q[k]))}
<1>2. 0 \in T
  <2>1. Picked(<<>>, o, 0, Good) /\ Ordered(<<>>)
    BY DEF Picked, Ordered, Distinct
  <2> QED BY <1>1, <2>1 DEF Keeps
<1>3. ASSUME NEW k \in 0..(n - 1), k \in T PROVE k + 1 \in T
  <2>1. k + 1 \in 1..n /\ (k + 1) - 1 = k /\ k + 1 \in 0..n
    BY <1>1
  <2>2. q[k + 1] = IF o[k + 1] \in Good THEN Append(q[k], o[k + 1]) ELSE q[k]
    BY <2>1 DEF Keeps
  <2>3. Picked(q[k], o, k, Good) /\ (Ordered(o) => Ordered(q[k]))
    BY <1>3
  <2>4. Picked(q[k + 1], o, k + 1, Good)
    BY <1>1, <2>2, <2>3, PickedAppend
  <2>5. Ordered(o) => Ordered(q[k + 1])
    BY <1>1, <2>2, <2>3, OrderedAppend
  <2> QED BY <2>1, <2>4, <2>5
<1>4. n \in T
  <2> HIDE DEF T
  <2>1. \A k \in 0..(n - 1) : k \in T => k + 1 \in T
    BY <1>3
  <2>2. \A k \in 0..n : k \in T
    BY ONLY <1>1, <1>2, <2>1, Induction
  <2> QED BY <1>1, <2>2
<1> QED BY <1>4

\* The results of the episode.
LEMMA MatchingPicks ==
  ASSUME NEW o \in Seq(Results), Distinct(o), NEW e
  PROVE  Picked(Matching(o, e), o, Len(o), {r \in Results : Fits(r, e)})
<1>1. PICK n, c : n = Len(o) /\ c = [kind |-> "match", o |-> o, base |-> <<>>, episode |-> e]
  OBVIOUS
<1>2. n \in Nat /\ DOMAIN o = 1..n /\ \A i \in 1..n : o[i] \in Results
  BY <1>1
<1>3. c.kind = "match" /\ c.o = o /\ c.base = <<>> /\ c.episode = e
  BY <1>1
<1>4. PICK q : Turns(q, n, c)
  BY <1>2, <1>3, LoopTurns DEF Loops
<1>5. q[0] = <<>> /\ Matching(o, e) = q[n]
  BY <1>3, <1>4 DEF Turns, LoopResult
<1>6. \A i \in 1..n : q[i] = KeepFitting(q[i - 1], o[i], e)
  BY <1>3, <1>4 DEF Turns, Turn
<1>7. PICK Good : Good = {r \in Results : Fits(r, e)}
  OBVIOUS
<1>8. \A i \in 1..n : q[i] = IF o[i] \in Good THEN Append(q[i - 1], o[i]) ELSE q[i - 1]
  BY <1>2, <1>6, <1>7 DEF KeepFitting
<1>9. Keeps(q, o, n, Good)
  BY <1>1, <1>5, <1>8 DEF Keeps
<1> QED BY <1>1, <1>5, <1>7, <1>9, KeepAll

\* The living.
LEMMA LivePicks ==
  ASSUME NEW o \in Seq(Results), Distinct(o), Ordered(o)
  PROVE  LET live == FoldLeft(KeepLive, <<>>, o) IN
         Picked(live, o, Len(o), {r \in Results : r.seeders > 0}) /\ Ordered(live)
<1>1. PICK n, c : n = Len(o) /\ c = [kind |-> "live", o |-> o, base |-> <<>>, episode |-> <<0, 0>>]
  OBVIOUS
<1>2. n \in Nat /\ DOMAIN o = 1..n /\ \A i \in 1..n : o[i] \in Results
  BY <1>1
<1>3. c.kind = "live" /\ c.o = o /\ c.base = <<>>
  BY <1>1
<1>4. PICK q : Turns(q, n, c)
  BY <1>2, <1>3, LoopTurns DEF Loops
<1>5. q[0] = <<>> /\ FoldLeft(KeepLive, <<>>, o) = q[n]
  BY <1>3, <1>4 DEF Turns, LoopResult
<1>6. \A i \in 1..n : q[i] = KeepLive(q[i - 1], o[i])
  BY <1>3, <1>4 DEF Turns, Turn
<1>7. PICK Good : Good = {r \in Results : r.seeders > 0}
  OBVIOUS
<1>8. \A i \in 1..n : q[i] = IF o[i] \in Good THEN Append(q[i - 1], o[i]) ELSE q[i - 1]
  BY <1>2, <1>6, <1>7 DEF KeepLive
<1>9. Keeps(q, o, n, Good)
  BY <1>1, <1>5, <1>8 DEF Keeps
<1> QED BY <1>1, <1>5, <1>7, <1>9, KeepAll

\* Insertion, of all of them.
LEMMA SortedPicks ==
  ASSUME NEW o \in Seq(Results), Distinct(o)
  PROVE  Picked(Sorted(o), o, Len(o), Results) /\ Ordered(Sorted(o))
<1>1. PICK n, c : n = Len(o) /\ c = [kind |-> "sort", o |-> o, base |-> <<>>, episode |-> <<0, 0>>]
  OBVIOUS
<1>2. n \in Nat /\ DOMAIN o = 1..n /\ \A i \in 1..n : o[i] \in Results
  BY <1>1
<1>3. c.kind = "sort" /\ c.o = o /\ c.base = <<>>
  BY <1>1
<1>4. PICK q : Turns(q, n, c)
  BY <1>2, <1>3, LoopTurns DEF Loops
<1>5. q[0] = <<>> /\ Sorted(o) = q[n]
  BY <1>3, <1>4 DEF Turns, LoopResult, Sorted
<1>6. \A i \in 1..n : q[i] = Insert(q[i - 1], o[i])
  BY <1>3, <1>4 DEF Turns, Turn
<1> DEFINE T == {k \in 0..n : Picked(q[k], o, k, Results) /\ Ordered(q[k])}
<1>7. 0 \in T
  <2>1. Picked(<<>>, o, 0, Results) /\ Ordered(<<>>)
    BY DEF Picked, Ordered, Distinct
  <2> QED BY <1>2, <1>5, <2>1
<1>8. ASSUME NEW k \in 0..(n - 1), k \in T PROVE k + 1 \in T
  <2>1. k + 1 \in 1..n /\ (k + 1) - 1 = k /\ k + 1 \in 0..n /\ k \in Nat /\ k + 1 \notin 1..k
    BY <1>2
  <2>2. PICK s, r, z : s = q[k] /\ r = o[k + 1] /\ z = q[k + 1] /\ z = Insert(s, r) /\ r \in Results
    BY <1>2, <1>6, <2>1
  <2>3. Picked(s, o, k, Results) /\ Ordered(s)
    BY <1>8, <2>2
  <2>4. s \in Seq(Results) /\ Distinct(s)
    BY <2>3 DEF Picked
  <2>5. \A i \in 1..Len(s) : s[i].ih # r.ih
    <3>1. \A j \in 1..k : j \in 1..n /\ j # k + 1
      BY <1>2, <2>1
    <3>2. \A j \in 1..k : o[j].ih # r.ih
      BY <1>1, <2>1, <2>2, <3>1 DEF Distinct
    <3> QED BY <2>3, <3>2 DEF Picked
  <2>6. /\ z \in Seq(Results) /\ Ordered(z) /\ Distinct(z)
        /\ \A i \in 1..Len(z) : z[i] = r \/ \E j \in 1..Len(s) : z[i] = s[j]
        /\ \E i \in 1..Len(z) : z[i] = r
        /\ \A j \in 1..Len(s) : \E i \in 1..Len(z) : z[i] = s[j]
    <3>1. r \in Results
      BY <2>2
    <3>2. Ordered(s)
      BY <2>3
    <3>3. z = Insert(s, r)
      BY <2>2
    <3> QED BY ONLY <2>4, <2>5, <3>1, <3>2, <3>3, InsertOne
  <2>7. \A j \in 1..(k + 1) : j \in 1..k \/ j = k + 1
    BY <2>1
  <2>8. k + 1 \in 1..(k + 1) /\ \A j \in 1..k : j \in 1..(k + 1)
    BY <2>1
  <2>9. r = o[k + 1] /\ r \in Results
    BY <2>2
  <2>10. \A i \in 1..Len(z) : \E j \in 1..(k + 1) : z[i] = o[j] /\ o[j] \in Results
    <3>1. \A i \in 1..Len(s) : \E j \in 1..k : s[i] = o[j] /\ o[j] \in Results
      BY <2>3 DEF Picked
    <3> SUFFICES ASSUME NEW i \in 1..Len(z)
                 PROVE  \E j \in 1..(k + 1) : z[i] = o[j] /\ o[j] \in Results
      OBVIOUS
    <3>2. CASE z[i] = r
      BY <2>8, <2>9, <3>2
    <3>3. CASE \E h \in 1..Len(s) : z[i] = s[h]
      <4>1. PICK h \in 1..Len(s) : z[i] = s[h]
        BY <3>3
      <4>2. PICK j \in 1..k : s[h] = o[j] /\ o[j] \in Results
        BY <3>1
      <4> QED BY <2>8, <4>1, <4>2
    <3> QED BY <2>6, <3>2, <3>3
  <2>11. \A j \in 1..(k + 1) : o[j] \in Results => \E i \in 1..Len(z) : z[i] = o[j]
    <3>1. \A j \in 1..k : o[j] \in Results => \E i \in 1..Len(s) : s[i] = o[j]
      BY <2>3 DEF Picked
    <3> SUFFICES ASSUME NEW j \in 1..(k + 1) PROVE \E i \in 1..Len(z) : z[i] = o[j]
      OBVIOUS
    <3>2. CASE j \in 1..k
      <4>1. o[j] \in Results
        BY <1>2, <2>1, <3>2
      <4>2. PICK i \in 1..Len(s) : s[i] = o[j]
        BY ONLY <3>1, <3>2, <4>1
      <4> QED BY <2>6, <4>2
    <3>3. CASE j = k + 1
      BY <2>6, <2>9, <3>3
    <3> QED BY <2>7, <3>2, <3>3
  <2>12. Picked(z, o, k + 1, Results)
    BY <2>6, <2>10, <2>11 DEF Picked
  <2> QED BY <2>1, <2>2, <2>6, <2>12
<1>9. n \in T
  <2> HIDE DEF T
  <2>1. \A k \in 0..(n - 1) : k \in T => k + 1 \in T
    BY <1>8
  <2>2. \A k \in 0..n : k \in T
    BY ONLY <1>2, <1>7, <2>1, Induction
  <2> QED BY <1>2, <2>2
<1> QED BY <1>1, <1>5, <1>9

----------------------------------------------------------------------------
(* The list.                                                               *)

\* The list before it is cut, of the results merged: those of the episode,
\* living or dead all of them, in order.
Drawn(rs, rest, e) ==
  /\ rs \in Seq(Results) /\ Distinct(rs) /\ Ordered(rs)
  /\ \A i \in 1..Len(rs) : \E j \in 1..Len(rest) : rs[i] = rest[j] /\ Fits(rest[j], e)
  /\ \A i, j \in 1..Len(rs) : (rs[i].seeders > 0) = (rs[j].seeders > 0)
  /\ \A j \in 1..Len(rest) :
       \/ ~Fits(rest[j], e)
       \/ \E i \in 1..Len(rs) : rs[i] = rest[j]
       \/ ~(rest[j].seeders > 0) /\ 1 \in 1..Len(rs) /\ rs[1].seeders > 0

LEMMA DropDeadDraws ==
  ASSUME NEW rest \in Seq(Results), Distinct(rest), NEW e
  PROVE  Drawn(DropDead(Sorted(Matching(rest, e))), rest, e)
<1>1. PICK mt : mt = Matching(rest, e)
  OBVIOUS
<1>2. PICK sd : sd = Sorted(mt)
  OBVIOUS
<1>3. PICK live : live = FoldLeft(KeepLive, <<>>, sd)
  OBVIOUS
<1>4. Picked(mt, rest, Len(rest), {r \in Results : Fits(r, e)})
  BY <1>1, MatchingPicks
<1>5. mt \in Seq(Results) /\ Distinct(mt)
  BY <1>4 DEF Picked
<1>6. Picked(sd, mt, Len(mt), Results) /\ Ordered(sd)
  BY <1>2, <1>5, SortedPicks
<1>7. sd \in Seq(Results) /\ Distinct(sd)
  BY <1>6 DEF Picked
<1>8. Picked(live, sd, Len(sd), {r \in Results : r.seeders > 0}) /\ Ordered(live)
  BY <1>3, <1>6, <1>7, LivePicks
<1>9. live \in Seq(Results) /\ Distinct(live)
  BY <1>8 DEF Picked
<1>10. \A i \in 1..Len(mt) : \E j \in 1..Len(rest) : mt[i] = rest[j] /\ Fits(rest[j], e)
  BY <1>4 DEF Picked
<1>11. \A j \in 1..Len(rest) : Fits(rest[j], e) => \E i \in 1..Len(mt) : mt[i] = rest[j]
  <2>1. \A j \in 1..Len(rest) : rest[j] \in Results
    OBVIOUS
  <2> QED BY <1>4, <2>1 DEF Picked
<1>12. \A i \in 1..Len(sd) : \E j \in 1..Len(mt) : sd[i] = mt[j]
  BY <1>6 DEF Picked
<1>13. \A j \in 1..Len(mt) : \E i \in 1..Len(sd) : sd[i] = mt[j]
  <2>1. \A j \in 1..Len(mt) : mt[j] \in Results
    BY <1>5
  <2> QED BY <1>6, <2>1 DEF Picked
<1>14. \A i \in 1..Len(sd) : \E j \in 1..Len(rest) : sd[i] = rest[j] /\ Fits(rest[j], e)
  <2> SUFFICES ASSUME NEW i \in 1..Len(sd)
               PROVE  \E j \in 1..Len(rest) : sd[i] = rest[j] /\ Fits(rest[j], e)
    OBVIOUS
  <2>1. PICK h \in 1..Len(mt) : sd[i] = mt[h]
    BY <1>12
  <2> QED BY <1>10, <2>1
<1>15. \A j \in 1..Len(rest) : Fits(rest[j], e) => \E i \in 1..Len(sd) : sd[i] = rest[j]
  <2> SUFFICES ASSUME NEW j \in 1..Len(rest), Fits(rest[j], e)
               PROVE  \E i \in 1..Len(sd) : sd[i] = rest[j]
    OBVIOUS
  <2>1. PICK h \in 1..Len(mt) : mt[h] = rest[j]
    BY <1>11
  <2> QED BY <1>13, <2>1
<1>16. \A i \in 1..Len(live) : live[i].seeders > 0 /\ \E j \in 1..Len(sd) : live[i] = sd[j]
  BY <1>8 DEF Picked
<1>17. \A j \in 1..Len(sd) : sd[j].seeders > 0 => \E i \in 1..Len(live) : live[i] = sd[j]
  <2>1. \A j \in 1..Len(sd) : sd[j] \in Results
    BY <1>7
  <2> QED BY <1>8, <2>1 DEF Picked
<1>18. CASE live = <<>>
  <2>1. DropDead(sd) = sd
    BY <1>3, <1>18 DEF DropDead
  <2>2. \A j \in 1..Len(sd) : ~(sd[j].seeders > 0)
    <3>1. 1..Len(live) = {}
      BY <1>18
    <3> QED BY <1>17, <3>1
  <2>3. Drawn(sd, rest, e)
    <3>1. \A i, j \in 1..Len(sd) : (sd[i].seeders > 0) = (sd[j].seeders > 0)
      BY <2>2
    <3>2. Ordered(sd)
      BY <1>6
    <3> QED BY <1>7, <1>14, <1>15, <3>1, <3>2 DEF Drawn
  <2> QED BY <1>1, <1>2, <2>1, <2>3
<1>19. CASE live # <<>>
  <2>1. DropDead(sd) = live
    BY <1>3, <1>19 DEF DropDead
  <2>2. 1 \in 1..Len(live)
    BY <1>9, <1>19
  <2>3. \A i \in 1..Len(live) : \E j \in 1..Len(rest) : live[i] = rest[j] /\ Fits(rest[j], e)
    <3> SUFFICES ASSUME NEW i \in 1..Len(live)
                 PROVE  \E j \in 1..Len(rest) : live[i] = rest[j] /\ Fits(rest[j], e)
      OBVIOUS
    <3>1. PICK h \in 1..Len(sd) : live[i] = sd[h]
      BY <1>16
    <3> QED BY <1>14, <3>1
  <2>4. ASSUME NEW j \in 1..Len(rest)
        PROVE  \/ ~Fits(rest[j], e)
               \/ \E i \in 1..Len(live) : live[i] = rest[j]
               \/ ~(rest[j].seeders > 0) /\ 1 \in 1..Len(live) /\ live[1].seeders > 0
    <3>1. CASE Fits(rest[j], e) /\ rest[j].seeders > 0
      <4>1. PICK h \in 1..Len(sd) : sd[h] = rest[j]
        BY <1>15, <3>1
      <4>2. \E i \in 1..Len(live) : live[i] = sd[h]
        BY <1>17, <3>1, <4>1
      <4> QED BY <4>1, <4>2
    <3>2. CASE Fits(rest[j], e) /\ ~(rest[j].seeders > 0)
      BY <1>16, <2>2, <3>2
    <3> QED BY <3>1, <3>2
  <2>5. \A i, j \in 1..Len(live) : (live[i].seeders > 0) = (live[j].seeders > 0)
    BY <1>16
  <2>6. Drawn(live, rest, e)
    BY <1>8, <1>9, <2>3, <2>4, <2>5 DEF Drawn
  <2> QED BY <1>1, <1>2, <2>1, <2>6
<1> QED BY <1>18, <1>19

\* The list, cut.
LEMMA Cut ==
  ASSUME NEW rs \in Seq(Results), NEW z,
         z = SubSeq(rs, 1, IF Len(rs) < Rows THEN Len(rs) ELSE Rows)
  PROVE  \E k \in 0..Len(rs) :
           /\ k <= Rows /\ (k = Len(rs) \/ k = Rows)
           /\ z \in Seq(Results) /\ Len(z) = k /\ DOMAIN z = 1..k
           /\ \A i \in 1..k : i \in 1..Len(rs) /\ z[i] = rs[i]
<1>1. Rows \in Nat
  BY ResultsAssumption
<1>2. PICK k : k = IF Len(rs) < Rows THEN Len(rs) ELSE Rows
  OBVIOUS
<1>3. Len(rs) \in Nat /\ k \in 0..Len(rs) /\ k <= Rows /\ (k = Len(rs) \/ k = Rows)
  BY <1>1, <1>2
<1>4. z = SubSeq(rs, 1, k)
  BY <1>2
<1>5. z \in Seq(Results) /\ Len(z) = k /\ DOMAIN z = 1..k
  <2>1. rs \in Seq(Results) /\ k \in 0..Len(rs) /\ Len(rs) \in Nat
    BY <1>3
  <2> QED BY ONLY <1>4, <2>1
<1>6. \A i \in 1..k : i \in 1..Len(rs) /\ z[i] = rs[i]
  <2>1. rs \in Seq(Results) /\ k \in 0..Len(rs) /\ Len(rs) \in Nat
    BY <1>3
  <2> QED BY ONLY <1>4, <2>1
<1> QED BY <1>3, <1>5, <1>6

\* As many releases as rows.
LEMMA OneRowEach ==
  ASSUME NEW z \in Seq(Results), Distinct(z)
  PROVE  Cardinality({z[i].ih : i \in DOMAIN z}) = Len(z)
<1>1. PICK n, Sh : n = Len(z) /\ Sh = {z[i].ih : i \in DOMAIN z}
  OBVIOUS
<1>2. n \in Nat /\ DOMAIN z = 1..n
  BY <1>1
<1>3. PICK f : f = [i \in 1..n |-> z[i].ih]
  OBVIOUS
<1>4. f \in Bijection(1..n, Sh)
  <2>1. f \in [1..n -> Sh]
    BY <1>1, <1>2, <1>3
  <2>2. \A i, j \in 1..n : f[i] = f[j] => i = j
    BY <1>1, <1>3 DEF Distinct
  <2>3. \A x \in Sh : \E i \in 1..n : f[i] = x
    BY <1>1, <1>2, <1>3
  <2>4. f \in Injection(1..n, Sh)
    BY <2>1, <2>2 DEF Injection, IsInjective
  <2>5. f \in Surjection(1..n, Sh)
    BY <2>1, <2>3 DEF Surjection
  <2> QED BY <2>4, <2>5 DEF Bijection
<1>5. ExistsBijection(1..n, Sh)
  BY <1>4 DEF ExistsBijection
<1>6. IsFiniteSet(1..n) /\ Cardinality(1..n) = n
  BY <1>2, FS_Interval
<1>7. Cardinality(1..n) = Cardinality(Sh)
  BY <1>5, <1>6, FS_Bijection
<1> QED BY <1>1, <1>6, <1>7

\* The best of what was merged.
LEMMA RankedIsBest ==
  ASSUME NEW S \in SUBSET Results, NEW rest, Merged(rest, S), NEW e
  PROVE  IsBestOf(Ranked(rest, e), S, e)
<1>1. rest \in Seq(Results) /\ Distinct(rest)
  BY DEF Merged
<1>2. PICK rs, z : rs = DropDead(Sorted(Matching(rest, e))) /\ z = Ranked(rest, e)
  OBVIOUS
<1>3. Drawn(rs, rest, e)
  BY <1>1, <1>2, DropDeadDraws
<1>4. /\ rs \in Seq(Results) /\ Distinct(rs) /\ Ordered(rs)
      /\ z = SubSeq(rs, 1, IF Len(rs) < Rows THEN Len(rs) ELSE Rows)
  BY <1>2, <1>3 DEF Drawn, Ranked
<1>5. PICK n : n = Len(rs) /\ n \in Nat
  BY <1>4
<1>6. PICK k \in 0..n :
        /\ k <= Rows /\ (k = n \/ k = Rows)
        /\ z \in Seq(Results) /\ Len(z) = k /\ DOMAIN z = 1..k
        /\ \A i \in 1..k : i \in 1..n /\ z[i] = rs[i]
  <2>1. \E k \in 0..Len(rs) :
           /\ k <= Rows /\ (k = Len(rs) \/ k = Rows)
           /\ z \in Seq(Results) /\ Len(z) = k /\ DOMAIN z = 1..k
           /\ \A i \in 1..k : i \in 1..Len(rs) /\ z[i] = rs[i]
    BY ONLY <1>4, Cut
  <2> QED BY <2>1, <1>5
<1>7. PICK shown : shown = {z[i].ih : i \in DOMAIN z}
  OBVIOUS
<1>8. Distinct(z) /\ Ordered(z)
  BY <1>4, <1>5, <1>6 DEF Distinct, Ordered
<1>9. Cardinality(shown) = k
  BY <1>6, <1>7, <1>8, OneRowEach
\* A row is a merged result of the episode.
<1>10. \A i \in 1..k : \E j \in 1..Len(rest) : z[i] = rest[j] /\ Fits(rest[j], e)
  BY <1>3, <1>5, <1>6 DEF Drawn
<1>11. \A i \in 1..k : z[i] \in Best(S, z[i].ih) /\ z[i].ih # NoHash /\ Fits(z[i], e)
  BY <1>10 DEF Merged
<1>12. NoHash \notin shown
  BY <1>6, <1>7, <1>11
<1>13. \A i, j \in 1..k : (z[i].seeders > 0) = (z[j].seeders > 0)
  <2>1. \A i, j \in 1..n : (rs[i].seeders > 0) = (rs[j].seeders > 0)
    BY <1>3, <1>5 DEF Drawn
  <2> QED BY <1>6, <2>1
<1>14. ASSUME NEW ih \in {r.ih : r \in S} \ (shown \cup {NoHash})
       PROVE  MayMiss(z, S, e, ih)
  <2>1. PICK j \in 1..Len(rest) : rest[j].ih = ih
    BY <1>14 DEF Merged
  <2>2. PICK r : r = rest[j] /\ r.ih = ih /\ r \in Best(S, ih)
    BY <2>1 DEF Merged
  <2>3. \/ ~Fits(r, e)
        \/ \E i \in 1..n : rs[i] = r
        \/ ~(r.seeders > 0) /\ 1 \in 1..n /\ rs[1].seeders > 0
    BY <1>3, <1>5, <2>2 DEF Drawn
  <2>4. CASE ~Fits(r, e)
    BY <2>2, <2>4 DEF MayMiss
  <2>5. CASE ~(r.seeders > 0) /\ 1 \in 1..n /\ rs[1].seeders > 0
    <3>1. 1 \in 1..k
      BY <1>5, <1>6, <2>5, ResultsAssumption
    <3>2. z[1].seeders > 0
      BY <1>6, <2>5, <3>1
    <3> QED BY <1>6, <2>2, <2>5, <3>1, <3>2 DEF MayMiss
  <2>6. CASE \E i \in 1..n : rs[i] = r
    <3>1. PICK p \in 1..n : rs[p] = r
      BY <2>6
    <3>2. p \notin 1..k
      <4>1. \A i \in 1..k : z[i].ih \in shown
        BY <1>6, <1>7
      <4> QED BY <1>6, <1>14, <2>2, <3>1, <4>1
    <3>3. k = Rows /\ \A i \in 1..k : i < p /\ i \in 1..n
      BY <1>5, <1>6, <3>1, <3>2
    <3>4. \A i \in 1..k : z[i].score >= r.score
      BY <1>4, <1>5, <1>6, <3>1, <3>3 DEF Ordered
    <3> QED BY <1>6, <2>2, <3>3, <3>4 DEF MayMiss
  <2> QED BY <2>3, <2>4, <2>5, <2>6
<1>15. \A i, j \in 1..k : i < j => z[i].score >= z[j].score
  BY <1>6, <1>8 DEF Ordered
<1>16. IsBestOf(z, S, e)
  BY <1>6, <1>7, <1>9, <1>11, <1>12, <1>13, <1>14, <1>15 DEF IsBestOf
<1> QED BY <1>2, <1>16

----------------------------------------------------------------------------
(* What a search has merged is what it has heard.                          *)

Draining == {"drain", "drainAll"}
Said(r)  == UNION {ToSet(world[o.src]) : o \in {h \in heard[r] : h.ok}}

MergedOf(r) ==
  /\ pc[r] \in {"search", "wait"} \cup Draining => world \in Worlds
  /\ IF pc[r] \in Draining THEN Merged(all[r], Said(r)) ELSE all[r] = <<>> /\ heard[r] = {}

MergeInv ==
  /\ world \in Worlds \cup {None} /\ DOMAIN all = Req /\ DOMAIN rows = Req
  /\ \A r \in Req : MergedOf(r)

LEMMA AnswersOf ==
  ASSUME NEW w \in Worlds, NEW s \in Source
  PROVE  w[s] \in Seq(Results) /\ ToSet(w[s]) \in SUBSET Results
<1>1. w[s] \in Seq(Results)
  BY ResultsAssumption
<1> QED BY <1>1 DEF ToSet

LEMMA SaidResults ==
  ASSUME world \in Worlds, NEW r, heard[r] \subseteq Out
  PROVE  Said(r) \in SUBSET Results
<1>1. \A o \in heard[r] : o.src \in Source
  BY DEF Out
<1>2. \A o \in heard[r] : ToSet(world[o.src]) \in SUBSET Results
  BY <1>1, AnswersOf
<1> QED BY <1>2 DEF Said

\* What another request does is nothing to this one.
LEMMA MergedKept ==
  ASSUME NEW r, MergedOf(r), world' = world,
         pc'[r] = pc[r], all'[r] = all[r], heard'[r] = heard[r]
  PROVE  MergedOf(r)'
<1>1. Said(r)' = Said(r)
  BY DEF Said
<1> QED BY <1>1 DEF MergedOf, Merged, Distinct, Best

LEMMA MergeInit == Init => MergeInv
BY DEF Init, MergeInv, MergedOf, Draining

LEMMA MergeStep == SearchInv /\ MergeInv /\ [Next]_vars => MergeInv'
<1> SUFFICES ASSUME SearchInv, MergeInv, [Next]_vars PROVE MergeInv'
  OBVIOUS
<1>0. /\ DOMAIN pc = Req /\ DOMAIN heard = Req /\ DOMAIN rows = Req /\ \A r \in Req : heard[r] \subseteq Out
      /\ DOMAIN all = Req /\ world \in Worlds \cup {None} /\ \A r \in Req : MergedOf(r)
  BY DEF SearchInv, SearchTypes, MergeInv
<1>1. ASSUME UNCHANGED <<world, all, heard>>, DOMAIN rows' = Req, NEW p \in Req,
             \A r \in Req \ {p} : pc'[r] = pc[r], MergedOf(p)'
      PROVE  MergeInv'
  <2>1. ASSUME NEW r \in Req PROVE MergedOf(r)'
    <3>1. CASE r = p
      BY <1>1, <3>1
    <3>2. CASE r # p
      BY <1>0, <1>1, <3>2, MergedKept
    <3> QED BY <3>1, <3>2
  <2> QED BY <1>0, <1>1, <2>1 DEF MergeInv
<1>2. ASSUME UNCHANGED vars PROVE MergeInv'
  <2>1. \A r \in Req : MergedOf(r)'
    BY <1>0, <1>2, MergedKept DEF vars, findVars
  <2> QED BY <1>0, <1>2, <2>1 DEF MergeInv, vars, findVars
<1>3. ASSUME NEW p \in Req,
             \/ Arrive(p) \/ NoMeta(p) \/ Meta(p) \/ Count(p) \/ Clear(p) \/ Reset(p)
             \/ Keep(p) \/ Fix(p) \/ Search(p) \/ Leave(p)
      PROVE  MergeInv'
  <2> USE DEF Arrive, NoMeta, Meta, Count, Clear, Reset, Keep, Fix, Search, Leave, Goto, findVars
  <2>1. UNCHANGED <<world, all, heard>>
    BY <1>3
  <2>2. DOMAIN rows' = Req /\ \A r \in Req \ {p} : pc'[r] = pc[r]
    BY <1>0, <1>3
  <2>3. pc[p] \notin Draining /\ pc'[p] \notin Draining
    BY <1>0, <1>3 DEF Draining
  <2>4. pc'[p] \in {"search", "wait"} => world \in Worlds
    BY <1>0, <1>3 DEF MergedOf
  <2>5. MergedOf(p)'
    BY ONLY <1>0, <2>1, <2>3, <2>4, p \in Req DEF MergedOf
  <2> QED BY ONLY <1>1, <2>1, <2>2, <2>5, p \in Req
<1>4. ASSUME NEW p \in Req, Done(p) \/ Deadline(p) PROVE MergeInv'
  <2>1. UNCHANGED <<world, all, heard>>
    BY <1>4 DEF Done, Deadline, findVars
  <2>2. DOMAIN rows' = Req /\ \A r \in Req \ {p} : pc'[r] = pc[r]
    BY <1>0, <1>4 DEF Done, Deadline, Goto, findVars
  <2>3. pc[p] = "wait" /\ pc'[p] \in Draining
    BY <1>0, <1>4 DEF Done, Deadline, Goto, Draining
  <2>4. world \in Worlds /\ all[p] = <<>> /\ heard[p] = {}
    BY <1>0, <2>3 DEF MergedOf, Draining
  <2>5. Said(p)' = {} /\ all'[p] = <<>>
    BY <2>1, <2>4 DEF Said
  <2>6. Merged(<<>>, {})
    BY DEF Merged, Distinct
  <2>7. Merged(all[p], Said(p))'
    BY <2>5, <2>6 DEF Merged, Distinct, Best
  <2>8. MergedOf(p)'
    BY <2>1, <2>3, <2>4, <2>7 DEF MergedOf
  <2> QED BY ONLY <1>1, <2>1, <2>2, <2>8, p \in Req
<1>5. ASSUME NEW p \in Req, NEW s \in Source, Ask(p, s) PROVE MergeInv'
  <2>1. UNCHANGED <<world, pc, all, heard, rows>>
    BY <1>5 DEF Ask, Answer, Send
  <2>2. \A r \in Req : MergedOf(r)'
    BY <1>0, <2>1, MergedKept
  <2> QED BY <1>0, <2>1, <2>2 DEF MergeInv
<1>6. ASSUME NEW p \in Req, Receive(p) PROVE MergeInv'
  <2>1. PICK h : h = Head(ch[p])
    OBVIOUS
  <2>2. h \in Out
    <3>1. ch[p] \in Seq(Out) /\ ch[p] # <<>>
      BY <1>6 DEF Receive, SearchInv, SearchTypes
    <3> QED BY <2>1, <3>1, HeadTailProperties
  <2>3. h.src \in Source
    BY <2>2 DEF Out
  <2>4. pc[p] \in Draining /\ world \in Worlds /\ Merged(all[p], Said(p))
    BY <1>0, <1>6 DEF Receive, Draining, MergedOf
  <2>5. PICK o : o = world[h.src]
    OBVIOUS
  <2>6. o \in Seq(Results)
    BY <2>3, <2>4, <2>5, AnswersOf
  <2>7. /\ world' = world /\ pc' = pc /\ rows' = rows
        /\ heard'[p] = heard[p] \cup {h} /\ DOMAIN all' = Req
        /\ all'[p] = IF h.ok THEN FoldLeft(Merge, all[p], o) ELSE all[p]
        /\ \A r \in Req \ {p} : all'[r] = all[r] /\ heard'[r] = heard[r]
    BY <1>0, <1>6, <2>1, <2>5 DEF Receive
  <2>8. Said(p)' = Said(p) \cup (IF h.ok THEN ToSet(o) ELSE {})
    BY <2>5, <2>7 DEF Said
  <2>9. Said(p) \in SUBSET Results
    BY <1>0, <2>4, SaidResults
  <2>10. PICK all1, said1 : all1 = all'[p] /\ said1 = Said(p)'
    OBVIOUS
  <2>11. Merged(all1, said1)
    <3>1. CASE h.ok
      <4>1. Merged(FoldLeft(Merge, all[p], o), Said(p) \cup ToSet(o))
        BY <2>4, <2>6, <2>9, MergeAll
      <4> QED BY <2>7, <2>8, <2>10, <3>1, <4>1
    <3>2. CASE ~h.ok
      <4>1. said1 = Said(p) /\ all1 = all[p]
        BY <2>7, <2>8, <2>10, <3>2
      <4> QED BY <2>4, <4>1
    <3> QED BY <3>1, <3>2
  <2>12. Merged(all[p], Said(p))'
    BY <2>10, <2>11 DEF Merged, Distinct, Best
  <2>13. MergedOf(p)'
    BY <2>4, <2>7, <2>12 DEF MergedOf
  <2>14. ASSUME NEW r \in Req PROVE MergedOf(r)'
    <3>1. CASE r = p
      BY <2>13, <3>1
    <3>2. CASE r # p
      BY <1>0, <2>7, <3>2, MergedKept
    <3> QED BY <3>1, <3>2
  <2> QED BY <1>0, <2>7, <2>14 DEF MergeInv
<1>7. ASSUME NEW p \in Req, Drained(p) PROVE MergeInv'
  <2>1. /\ world' = world /\ pc'[p] = "done" /\ all'[p] = <<>> /\ heard'[p] = {}
        /\ DOMAIN all' = Req /\ DOMAIN rows' = Req
        /\ \A r \in Req \ {p} : all'[r] = all[r] /\ heard'[r] = heard[r] /\ pc'[r] = pc[r]
    BY <1>0, <1>7 DEF Drained, Goto
  <2>2. MergedOf(p)'
    BY <2>1 DEF MergedOf, Draining
  <2>3. ASSUME NEW r \in Req PROVE MergedOf(r)'
    <3>1. CASE r = p
      BY <2>2, <3>1
    <3>2. CASE r # p
      BY <1>0, <2>1, <3>2, MergedKept
    <3> QED BY <3>1, <3>2
  <2> QED BY <1>0, <2>1, <2>3 DEF MergeInv
<1> QED BY ONLY [Next]_vars, <1>2, <1>3, <1>4, <1>5, <1>6, <1>7 DEF Next, Handle

\* The list is the best of what was heard, in whatever order it came in, and an
\* undisturbed search has heard everything (searchAll, indexers.go:117-196).
THEOREM AnswersAreBest == FairSpec => AnswersBest
<1> DEFINE Right == \A r \in Req : pc[r] \in {"drain", "drainAll"} /\ pc'[r] = "done" =>
       LET said == UNION {ToSet(world[o.src]) : o \in {h \in heard[r] : h.ok}} IN
       /\ IsBestOf(rows'[r], said, episode[r])
       /\ pc[r] = "drainAll" => {o.src : o \in heard[r]} = Source
<1>1. FairSpec => [](SearchInv /\ MergeInv)
  BY SearchInit, SearchStep, MergeInit, MergeStep, PTL DEF FairSpec
<1>2. SearchInv /\ MergeInv /\ [Next]_vars => [Right]_vars
  <2> SUFFICES ASSUME SearchInv, MergeInv, Next,
                      NEW r \in Req, pc[r] \in Draining, pc'[r] = "done"
               PROVE  /\ IsBestOf(rows'[r], Said(r), episode[r])
                      /\ pc[r] = "drainAll" => {o.src : o \in heard[r]} = Source
    BY DEF vars, Said, Draining
  <2>1. Drained(r)
    <3>1. PICK p \in Req : Arrive(p) \/ Handle(p) \/ \E s \in Source : Ask(p, s)
      BY DEF Next
    <3> USE DEF Goto, SearchInv, SearchTypes, Draining
    <3>2. pc'[p] # "done" \/ pc[p] \notin Draining \/ Drained(p)
      BY <3>1 DEF Handle, Arrive, NoMeta, Meta, Count, Clear, Reset, Keep, Fix, Search, Done,
                  Deadline, Receive, Leave, Ask, Answer, Send
    <3>3. p = r
      BY <3>1 DEF Handle, Arrive, NoMeta, Meta, Count, Clear, Reset, Keep, Fix, Search, Done,
                  Deadline, Receive, Drained, Leave, Ask, Answer, Send
    <3> QED BY <3>2, <3>3
  <2>2. rows'[r] = Ranked(all[r], episode[r]) /\ ch[r] = <<>>
    BY <2>1 DEF Drained, MergeInv
  <2>3. Merged(all[r], Said(r)) /\ world \in Worlds
    BY DEF MergeInv, MergedOf, Draining
  <2>4. Said(r) \in SUBSET Results
    BY <2>3, SaidResults DEF SearchInv, SearchTypes
  <2>5. IsBestOf(rows'[r], Said(r), episode[r])
    BY <2>2, <2>3, <2>4, RankedIsBest
  <2>6. pc[r] = "drainAll" => {o.src : o \in heard[r]} = Source
    BY <2>2, HeardAll DEF AllHeard
  <2> QED BY <2>5, <2>6
<1> QED BY <1>1, <1>2, PTL DEF FairSpec, AnswersBest
=============================================================================
