----------------------------- MODULE StreamProofs -----------------------------
(***************************************************************************)
(* What holds of one stream for every torrent and request: the file it     *)
(* picks, the range it sends, and when its watcher may find it idle.       *)
(***************************************************************************)
EXTENDS Stream, FiniteSetTheorems, TLAPS

----------------------------------------------------------------------------
(* Extrema of finite sets, from the well-foundedness of the order.         *)

LEMMA LeastNatural ==
  ASSUME NEW T \in SUBSET Nat, T # {}
  PROVE  \E x \in T : \A y \in T : x <= y
<1> DEFINE R == {ss \in Nat \X Nat : ss[1] < ss[2]}
<1>1. IsWellFoundedOn(R, Nat)
  BY NatLessThanWellFounded DEF OpToRel
<1> HIDE DEF R
<1>2. PICK x \in T : \A y \in T : ~(<<y, x>> \in R)
  BY <1>1, WFMin
<1>3. \A y, z \in Nat : y < z => <<y, z>> \in R
  BY DEF R
<1>4. \A y \in T : ~(y < x)
  BY <1>2, <1>3
<1> QED BY <1>4

LEMMA MinOf ==
  ASSUME NEW T \in SUBSET Nat, T # {}
  PROVE  Min(T) \in T /\ \A y \in T : Min(T) <= y
BY LeastNatural DEF Min

\* The largest of a finite set by any measure: an element with the fewest above.
LEMMA HasLargest ==
  ASSUME NEW S, IsFiniteSet(S), S # {}, NEW f, \A i \in S : f[i] \in Int
  PROVE  \E i \in S : \A j \in S : f[j] <= f[i]
<1> DEFINE Above(i) == {j \in S : f[j] > f[i]}
           F == {Above(i) : i \in S}
           R == StrictSubsetOrdering(S)
<1>1. IsWellFoundedOn(R, FiniteSubsetsOf(S))
  BY FS_StrictSubsetOrderingWellFounded
<1>2. F \subseteq FiniteSubsetsOf(S) /\ F # {}
  <2>1. \A i \in S : Above(i) \subseteq S /\ IsFiniteSet(Above(i))
    BY FS_Subset
  <2> QED BY <2>1 DEF FiniteSubsetsOf
<1>3. PICK T \in F : \A U \in F : ~(<<U, T>> \in R)
  <2> HIDE DEF F, R
  <2> QED BY <1>1, <1>2, WFMin
<1>4. PICK i \in S : T = Above(i)
  OBVIOUS
<1>5. ASSUME NEW j \in S, f[j] > f[i] PROVE FALSE
  <2>1. Above(j) \subseteq T /\ j \in T /\ j \notin Above(j)
    BY <1>4, <1>5
  <2>2. <<Above(j), T>> \in R
    BY <2>1 DEF StrictSubsetOrdering
  <2> QED BY <2>2, <1>3
<1> QED BY <1>5
----------------------------------------------------------------------------
(* The choosers.                                                           *)

Files(pack) ==
  /\ pack \in Seq({pack[i] : i \in DOMAIN pack})
  /\ \A i \in DOMAIN pack : pack[i].size \in Nat

Fitting(files, a, i) ==
  ByTitle(a) \/ a.want \notin DOMAIN files =>
    /\ a.ep > 0 =>
         /\ files[i].video => FileSignal(files[i], a.ep) >= 0
         /\ (\E k \in Videos(files) : FileSignal(files[k], a.ep) > 0)
              => FileSignal(files[i], a.ep) > 0
    /\ a.ep = 0 =>
         \A k \in Videos(files) : Hits(files, k, a.hint) <= Hits(files, i, a.hint)

LEMMA FileNumbers ==
  ASSUME NEW pack, Files(pack)
  PROVE  /\ IsFiniteSet(DOMAIN pack) /\ DOMAIN pack \subseteq Nat \ {0}
         /\ pack # <<>> => DOMAIN pack # {}
<1>1. PICK T : pack \in Seq(T)
  BY DEF Files
<1>2. PICK n \in Nat : n = Len(pack) /\ DOMAIN pack = 1..n
  BY <1>1
<1>3. IsFiniteSet(1..n)
  BY FS_Interval
<1>4. pack # <<>> => n # 0
  BY <1>1, <1>2
<1> QED BY <1>2, <1>3, <1>4

LEMMA LargestIn ==
  ASSUME NEW pack, Files(pack), NEW S \in SUBSET (DOMAIN pack), S # {}
  PROVE  Largest(pack, S) \in S
<1> DEFINE T == {i \in S : \A j \in S : pack[j].size <= pack[i].size}
           f == [i \in S |-> pack[i].size]
<1>1. IsFiniteSet(S) /\ T \in SUBSET Nat
  BY FileNumbers, FS_Subset
<1>2. \A i \in S : f[i] \in Int /\ f[i] = pack[i].size
  BY DEF Files
<1>3. \E i \in S : \A j \in S : f[j] <= f[i]
  <2> HIDE DEF f
  <2> QED BY <1>1, <1>2, HasLargest
<1>4. T # {}
  BY <1>2, <1>3
<1>5. Min(T) \in T
  <2> HIDE DEF T
  <2> QED BY <1>1, <1>4, MinOf
<1> QED BY <1>5 DEF Largest

LEMMA ChooseFileIn ==
  ASSUME NEW pack, Files(pack), NEW want
  PROVE  ChooseFile(pack, want) \in DOMAIN pack \cup {NoFile}
<1> DEFINE main == {i \in Videos(pack) : ~(pack[i].sample /\ Len(pack) > 1)}
           S == IF main # {} THEN main ELSE DOMAIN pack
<1>1. pack # <<>> => S \in SUBSET (DOMAIN pack) /\ S # {}
  BY FileNumbers DEF Videos
<1>2. pack # <<>> => Largest(pack, S) \in DOMAIN pack
  <2> HIDE DEF S
  <2> QED BY <1>1, LargestIn
<1> QED BY <1>2 DEF ChooseFile

\* A signal is one of three, so a file that says neither says nothing.
LEMMA SignalValues ==
  \A f, ep : FileSignal(f, ep) \in {-1, 0, 1}
BY DEF FileSignal

LEMMA EpisodeChoice ==
  ASSUME NEW pack, Files(pack), NEW want, NEW ep \in Int
  PROVE  LET i == ChooseFileForEpisode(pack, want, ep) IN
         /\ i \in DOMAIN pack \cup {NoFile}
         /\ ep > 0 /\ want \notin DOMAIN pack /\ i # NoFile =>
              /\ pack[i].video => FileSignal(pack[i], ep) >= 0
              /\ (\E k \in Videos(pack) : FileSignal(pack[k], ep) > 0) => FileSignal(pack[i], ep) > 0
<1> DEFINE hits     == {i \in Videos(pack) : FileSignal(pack[i], ep) > 0}
           numbered == {i \in Videos(pack) : FileSignal(pack[i], ep) < 0}
           i        == ChooseFileForEpisode(pack, want, ep)
<1>1. CASE want \in DOMAIN pack
  BY <1>1 DEF ChooseFileForEpisode
<1>2. CASE want \notin DOMAIN pack /\ ep > 0 /\ hits # {}
  <2>1. i = Min(hits)
    BY <1>2 DEF ChooseFileForEpisode
  <2>2. hits \in SUBSET Nat /\ hits \subseteq DOMAIN pack
    BY FileNumbers DEF Videos
  <2>3. Min(hits) \in hits
    <3> HIDE DEF hits
    <3> QED BY <1>2, <2>2, MinOf
  <2>4. i \in DOMAIN pack /\ FileSignal(pack[i], ep) > 0
    BY <2>1, <2>2, <2>3
  <2> HIDE DEF i
  <2>5. FileSignal(pack[i], ep) >= 0
    BY <2>4, SignalValues
  <2> QED BY <2>4, <2>5 DEF i
<1>3. CASE want \notin DOMAIN pack /\ ep > 0 /\ hits = {}
           /\ (numbered # {} \/ Cardinality(Videos(pack)) > 3)
  <2>1. i = NoFile
    BY <1>3 DEF ChooseFileForEpisode
  <2> QED BY <2>1
<1>4. CASE want \notin DOMAIN pack /\ ep > 0 /\ hits = {} /\ numbered = {}
           /\ ~(Cardinality(Videos(pack)) > 3)
  <2>1. i = ChooseFile(pack, want)
    BY <1>4 DEF ChooseFileForEpisode
  <2>2. i \in DOMAIN pack \cup {NoFile}
    BY <2>1, ChooseFileIn
  <2>3. \A k \in Videos(pack) : ~(FileSignal(pack[k], ep) > 0) /\ ~(FileSignal(pack[k], ep) < 0)
    BY <1>4
  <2>4. \A k \in Videos(pack) : FileSignal(pack[k], ep) >= 0
    BY <2>3, SignalValues
  <2>5. i # NoFile /\ pack[i].video => i \in Videos(pack)
    BY <2>2 DEF Videos
  <2> HIDE DEF i
  <2> QED BY <2>2, <2>3, <2>4, <2>5 DEF i
<1>5. CASE want \notin DOMAIN pack /\ ~(ep > 0)
  <2>1. i = ChooseFile(pack, want)
    BY <1>5 DEF ChooseFileForEpisode
  <2> QED BY <1>5, <2>1, ChooseFileIn
<1> QED BY <1>1, <1>2, <1>3, <1>4, <1>5

LEMMA HitsAreNatural ==
  ASSUME NEW pack, NEW i, NEW hint, IsFiniteSet(hint)
  PROVE  /\ Hits(pack, i, hint) \in Nat
         /\ hint = {} => Hits(pack, i, hint) = 0
<1>1. Discriminating(pack, hint) \cap pack[i].words \subseteq hint
  BY DEF Discriminating
<1>2. IsFiniteSet(Discriminating(pack, hint) \cap pack[i].words)
  BY <1>1, FS_Subset
<1>3. hint = {} => Discriminating(pack, hint) \cap pack[i].words = {}
  BY <1>1
<1> QED BY <1>2, <1>3, FS_CardinalityType, FS_EmptySet DEF Hits

LEMMA TitleChoice ==
  ASSUME NEW pack, Files(pack), NEW hint, IsFiniteSet(hint)
  PROVE  LET i == ChooseFileForTitle(pack, 0, hint) IN
         /\ i \in DOMAIN pack \cup {NoFile}
         /\ i # NoFile => \A k \in Videos(pack) : Hits(pack, k, hint) <= Hits(pack, i, hint)
<1> DEFINE hit  == {i \in Videos(pack) : Hits(pack, i, hint) > 0}
           best == {i \in hit : \A j \in hit : Hits(pack, j, hint) <= Hits(pack, i, hint)}
           f    == [i \in hit |-> Hits(pack, i, hint)]
           i    == ChooseFileForTitle(pack, 0, hint)
<1>1. hit \subseteq DOMAIN pack /\ best \subseteq hit /\ 0 \notin DOMAIN pack /\ IsFiniteSet(hit)
  <2>1. hit \subseteq DOMAIN pack
    BY DEF Videos
  <2> QED BY <2>1, FileNumbers, FS_Subset
<1>2. hit # {} => best # {}
  <2>1. \A k \in hit : f[k] \in Int /\ f[k] = Hits(pack, k, hint)
    BY HitsAreNatural
  <2>2. hit # {} => \E k \in hit : \A j \in hit : f[j] <= f[k]
    <3> HIDE DEF hit, f
    <3> QED BY <1>1, <2>1, HasLargest
  <2> QED BY <2>1, <2>2
<1>3. \A k \in Videos(pack) : k \in hit \/ Hits(pack, k, hint) = 0
  BY HitsAreNatural
<1>4. CASE best # {}
  <2>1. i = Largest(pack, best)
    BY <1>1, <1>4 DEF ChooseFileForTitle
  <2>2. Largest(pack, best) \in best
    <3>1. best \in SUBSET (DOMAIN pack)
      BY <1>1
    <3> HIDE DEF best
    <3> QED BY <3>1, <1>4, LargestIn
  <2>3. i \in hit /\ \A j \in hit : Hits(pack, j, hint) <= Hits(pack, i, hint)
    BY <2>1, <2>2
  <2> HIDE DEF i, hit
  <2> QED BY <1>1, <1>3, <2>3, HitsAreNatural DEF i
<1>5. CASE best = {}
  <2>1. i = ChooseFile(pack, 0)
    BY <1>1, <1>5 DEF ChooseFileForTitle
  <2>2. \A k \in Videos(pack) : Hits(pack, k, hint) = 0
    BY <1>2, <1>3, <1>5
  <2> HIDE DEF i
  <2> QED BY <2>1, <2>2, ChooseFileIn, HitsAreNatural DEF i
<1> QED BY <1>4, <1>5

\* Whatever is picked is a file of the torrent that answers the request.
LEMMA PickFits ==
  ASSUME NEW files \in Torrents, NEW a \in Asks
  PROVE  /\ Pick(files, a) \in DOMAIN files \cup {NoFile}
         /\ Pick(files, a) # NoFile => Fitting(files, a, Pick(files, a))
<1>1. Files(files)
  <2>1. files \in Seq({files[i] : i \in DOMAIN files})
    BY RequestAssumption
  <2>2. \A i \in DOMAIN files : files[i].size \in 0..MaxSize
    BY RequestAssumption
  <2>3. 0..MaxSize \subseteq Nat
    BY StreamAssumption
  <2> QED BY <2>1, <2>2, <2>3, Zenon DEF Files
<1>2. a.ep \in Int /\ IsFiniteSet(a.hint)
  BY RequestAssumption
<1>3. CASE ByTitle(a)
  <2>1. Pick(files, a) = ChooseFileForTitle(files, 0, a.hint) /\ a.ep = 0
    BY <1>3 DEF Pick, ByTitle
  <2>2. PICK i : i = Pick(files, a)
    OBVIOUS
  <2> QED BY <2>1, <2>2, <1>1, <1>2, TitleChoice DEF Fitting
<1>4. CASE ~ByTitle(a)
  <2>1. PICK i : i = Pick(files, a) /\ i = ChooseFileForEpisode(files, a.want, a.ep)
    BY <1>4 DEF Pick
  <2>2. /\ i \in DOMAIN files \cup {NoFile}
        /\ a.ep > 0 /\ a.want \notin DOMAIN files /\ i # NoFile =>
             /\ files[i].video => FileSignal(files[i], a.ep) >= 0
             /\ (\E k \in Videos(files) : FileSignal(files[k], a.ep) > 0)
                  => FileSignal(files[i], a.ep) > 0
    BY <2>1, <1>1, <1>2, EpisodeChoice
  <2>3. a.ep = 0 => a.hint = {}
    BY <1>4 DEF ByTitle
  <2>4. a.ep = 0 => \A k \in Videos(files) : Hits(files, k, a.hint) <= Hits(files, i, a.hint)
    BY <2>3, <1>2, HitsAreNatural
  <2> QED BY <1>4, <2>1, <2>2, <2>4 DEF Fitting
<1> QED BY <1>3, <1>4
----------------------------------------------------------------------------
(* The range.  Until Serve nothing has moved; from then on both readers    *)
(* stand behind what was sent and what is in the buffer.                   *)

Types ==
  /\ pc \in {"choose", "sniff", "serve", "read", "write", "block", "end", "done"}
  /\ kind \in {"unknown", "video", "other"}
  /\ size \in Nat /\ start \in Nat /\ left \in Nat /\ have \in Nat /\ sent \in Nat
  /\ billed \in Nat
  /\ at \in [under : Nat, pos : Nat]

Chosen ==
  pc \in {"sniff", "serve"} => /\ fs \in Torrents /\ ask \in Asks
                              /\ idx \in DOMAIN fs /\ Fitting(fs, ask, idx)

Untouched ==
  pc \in {"choose", "sniff", "serve"} =>
    at = [under |-> 0, pos |-> 0] /\ start = 0 /\ have = 0 /\ sent = 0 /\ billed = 0

Copied ==
  /\ Serving => /\ at.under = at.pos /\ at.pos = start + sent + have
                /\ at.pos <= size /\ have <= left /\ billed = 0
  /\ pc = "read" => have = 0
  /\ pc = "end" => start + sent <= size /\ billed = 0
  /\ pc = "done" => start + sent <= size /\ billed = sent

FileInv == Types /\ Chosen /\ Untouched /\ Copied

LEMMA FileInit == Init => FileInv
BY DEF Init, FileInv, Types, Chosen, Untouched, Copied, Serving

\* Steps of the watcher and of the environment.
LEMMA FileKept ==
  ASSUME FileInv, UNCHANGED <<pc, fileVars, copyVars, billed>>
  PROVE  FileInv'
BY DEF FileInv, Types, Chosen, Untouched, Copied, Serving, fileVars, copyVars

LEMMA FileStep == FileInv /\ [Next]_vars => FileInv'
<1> SUFFICES ASSUME FileInv, [Next]_vars PROVE FileInv'
  OBVIOUS
<1>1. CASE UNCHANGED vars \/ Watcher \/ Tick \/ Player \/ SetIdle
  <2>1. UNCHANGED <<pc, fileVars, copyVars, billed>>
    BY <1>1 DEF vars, Watcher, WatchFinds, WatchExpires, WatchCancels, WatchDone, Tick, Player,
                SetIdle
  <2> QED BY <2>1, FileKept
<1> USE DEF FileInv, Types, Chosen, Untouched, Copied, Serving
<1>2. CASE Choose
  <2>1. PICK files \in Torrents, a \in Asks :
          fs' = files /\ ask' = a /\ idx' = Pick(files, a)
    BY <1>2 DEF Choose
  <2>2. /\ idx' \in DOMAIN files \cup {NoFile}
        /\ idx' # NoFile => Fitting(files, a, idx')
    BY <2>1, PickFits
  <2>3. idx' # NoFile => files[idx'].size \in Nat
    <3>1. \A i \in DOMAIN files : files[i].size \in 0..MaxSize
      BY RequestAssumption
    <3> QED BY <3>1, <2>2, StreamAssumption
  <2>4. pc = "choose" /\ UNCHANGED copyVars /\ billed' = billed
    BY <1>2 DEF Choose
  <2>5. CASE idx' = NoFile
    <3>1. pc' = "done" /\ UNCHANGED <<size, kind>>
      BY <1>2, <2>5 DEF Choose
    <3> QED BY <3>1, <2>4 DEF copyVars
  <2>6. CASE idx' # NoFile
    <3>1. /\ size' = files[idx'].size /\ pc' \in {"sniff", "serve"}
          /\ kind' \in {"unknown", "video", "other"}
      BY <1>2, <2>1, <2>6 DEF Choose, KindsOf
    <3> QED BY <3>1, <2>1, <2>2, <2>3, <2>4, <2>6 DEF copyVars
  <2> QED BY <2>5, <2>6
<1>3. CASE Sniff
  BY <1>3 DEF Sniff
<1>4. CASE Refuse
  BY <1>4 DEF Refuse, copyVars
<1>5. CASE Serve
  <2>1. at = [under |-> 0, pos |-> 0] /\ start = 0 /\ have = 0 /\ sent = 0 /\ billed = 0
    BY <1>5 DEF Serve
  <2>2. SeekTo(SeekTo(at, size), 0) = [under |-> 0, pos |-> 0]
    BY <2>1 DEF SeekTo, Least
  <2>3. UNCHANGED <<size, kind, have, sent, billed>> /\ pc = "serve"
    BY <1>5 DEF Serve
  <2>4. PICK s \in 0..MaxSize :
          IF s >= size /\ s > 0
          THEN pc' = "end" /\ at' = SeekTo(SeekTo(at, size), 0) /\ UNCHANGED <<start, left>>
          ELSE \E n \in 0..(size - s) :
                 /\ n > 0 \/ size = 0
                 /\ pc' = "read" /\ at' = SeekTo(SeekTo(SeekTo(at, size), 0), s)
                 /\ start' = s /\ left' = n
    BY <1>5 DEF Serve
  <2>5. CASE s >= size /\ s > 0
    BY <2>1, <2>2, <2>3, <2>4, <2>5
  <2>6. CASE ~(s >= size /\ s > 0)
    <3>1. PICK n \in 0..(size - s) :
            /\ pc' = "read" /\ at' = SeekTo([under |-> 0, pos |-> 0], s)
            /\ start' = s /\ left' = n
      BY <2>2, <2>4, <2>6
    <3>2. s \in Nat /\ s <= size /\ n \in Nat
      BY <2>6, StreamAssumption
    <3>3. at' = [under |-> s, pos |-> s]
      BY <3>1, <3>2 DEF SeekTo, Least
    <3> QED BY <2>1, <2>3, <3>1, <3>2, <3>3
  <2> QED BY <2>5, <2>6
<1>6. CASE Read
  <2>1. PICK n \in 1..Least(left, size - at.pos) :
          at' = [under |-> at.under + n, pos |-> at.pos + n] /\ have' = n
    BY <1>6 DEF Read
  <2>2. n \in Nat /\ n <= left /\ at.pos + n <= size
    BY <2>1, <1>6 DEF Least, Read
  <2> QED BY <1>6, <2>1, <2>2 DEF Read, fileVars
<1>7. CASE ReadStops
  <2>1. /\ pc = "read" /\ pc' = "end"
        /\ UNCHANGED <<fs, ask, idx, size, kind, at, start, left, have, sent, billed>>
    BY <1>7 DEF ReadStops, fileVars, copyVars
  <2>2. start + sent <= size
    BY <2>1
  <2> QED BY ONLY <2>1, <2>2, FileInv DEF FileInv, Types, Chosen, Untouched, Copied, Serving
<1>8. CASE WriteBegin
  BY <1>8 DEF WriteBegin, fileVars, copyVars
<1>9. CASE Write
  <2>1. /\ pc = "block" /\ pc' = "read"
        /\ UNCHANGED <<fs, ask, idx, size, kind, at, start, billed>>
        /\ sent' = sent + have /\ left' = left - have /\ have' = 0
    BY <1>9 DEF Write, fileVars
  <2>2. left' \in Nat /\ sent' \in Nat
    BY <2>1
  <2> QED BY ONLY <2>1, <2>2, FileInv DEF FileInv, Types, Chosen, Untouched, Copied, Serving
<1>10. CASE WriteFails
  BY <1>10 DEF WriteFails, fileVars, copyVars
<1>11. CASE End
  BY <1>11 DEF End, fileVars, copyVars
<1> QED BY <1>1, <1>2, <1>3, <1>4, <1>5, <1>6, <1>7, <1>8, <1>9, <1>10, <1>11 DEF Next, Handler

\* What is served is a file that answers the request, whichever rule picked it
\* (engine.go: the choosers and their callers).
THEOREM ServedFileFits == FairSpec => []ServedFits
<1>1. FileInv => ServedFits
  BY DEF FileInv, Chosen, Fitting, ServedFits
<1> QED BY <1>1, FileInit, FileStep, PTL DEF FairSpec, Spec

\* The player gets its range from the start and in order, and the key is billed
\* what was sent, wherever the copy is cut (handlePlay, sizedReader,
\* countingWriter).
THEOREM RangeIsServed == FairSpec => []ServedIsRange
<1>1. FileInv => ServedIsRange
  BY DEF FileInv, Copied, ServedIsRange
<1> QED BY <1>1, FileInit, FileStep, PTL DEF FairSpec, Spec

----------------------------------------------------------------------------
(* The idle time.  A refresh through either wrapper resets both ages, so   *)
(* lastActivity is never older than a stamp, and a byte that did not       *)
(* refresh came within Throttle of one that did.                           *)

Ages ==
  /\ idle \in IdleLimits
  /\ seen \in 0..MaxAge /\ readSeen \in 0..MaxAge /\ writeSeen \in 0..MaxAge
  /\ silent \in 0..MaxAge

AgeInv ==
  /\ Ages
  /\ seen <= readSeen /\ seen <= writeSeen
  /\ seen <= silent + Throttle - 1

LEMMA AgeInit == Init => AgeInv
BY StreamAssumption DEF Init, AgeInv, Ages

LEMMA AgeStep == AgeInv /\ [Next]_vars => AgeInv'
<1> SUFFICES ASSUME AgeInv, [Next]_vars PROVE AgeInv'
  OBVIOUS
<1> USE StreamAssumption DEF AgeInv, Ages
<1>1. CASE UNCHANGED <<idle, seen, readSeen, writeSeen, silent>>
  BY <1>1
<1>2. CASE Serve
  BY <1>2 DEF Serve
<1>3. CASE Read
  BY <1>3 DEF Read, Touched
<1>4. CASE Write
  BY <1>4 DEF Write, Touched
<1>5. CASE Tick
  BY <1>5 DEF Tick, Aged
<1>6. CASE SetIdle
  BY <1>6 DEF SetIdle, ageVars
<1> QED BY <1>1, <1>2, <1>3, <1>4, <1>5, <1>6
        DEF Next, Handler, Watcher, vars, ageVars, Choose, Sniff, Refuse, ReadStops, WriteBegin,
            WriteFails, End, WatchFinds, WatchExpires, WatchCancels, WatchDone, Player

\* No stream is expired that moved a byte within the limit less the two seconds
\* between refreshes (the watcher of handlePlay, sizedReader.Read,
\* countingWriter.Write).
THEOREM ExpiredWasSilent == FairSpec => ExpiryNeedsSilence
<1>1. AgeInv /\ [Next]_vars =>
        [watch = "wait" /\ watch' = "expire" => silent > idle - Throttle]_vars
  <2> SUFFICES ASSUME AgeInv, Next, watch = "wait", watch' = "expire"
               PROVE  silent > idle - Throttle
    OBVIOUS
  <2>1. WatchFinds
    BY DEF Next, Handler, Watcher, Choose, Sniff, Refuse, Serve, Read, ReadStops, WriteBegin,
           Write, WriteFails, End, WatchFinds, WatchExpires, WatchCancels, WatchDone, Tick, Player,
           SetIdle
  <2>2. idle \in Int /\ seen >= idle
    BY <2>1, StreamAssumption DEF WatchFinds, AgeInv, Ages
  <2> QED BY <2>2, StreamAssumption DEF AgeInv, Ages
<1> QED BY <1>1, AgeInit, AgeStep, PTL DEF FairSpec, Spec, ExpiryNeedsSilence
=============================================================================
