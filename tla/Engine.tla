------------------------------- MODULE Engine -------------------------------
(***************************************************************************)
(* The life of a torrent in engine.go: the goroutines that ask for one     *)
(* (a play request, a background warm), the per-infohash add lock, the     *)
(* eviction that makes room for it, the readers counted on its activity    *)
(* record, and the janitor's pass that drops what is idle.                 *)
(*                                                                         *)
(* One action is one critical section of e.mu, one call on the torrent     *)
(* client, or one acquisition of an add lock; everything between two of    *)
(* them is local to its goroutine.  A request is one goroutine and runs    *)
(* once.                                                                   *)
(*                                                                         *)
(* Pointers.  A map entry that is deleted never comes back: activity()     *)
(* and lockFor() allocate afresh.  A goroutine's *activity is therefore    *)
(* modelled by one bit, "the record I hold is still the mapped one"        *)
(* (ptr), and a *torrent.Torrent by the bit "the torrent I hold is still   *)
(* the client's" (live).  An add lock is named by the request whose        *)
(* lockFor() allocated it.                                                 *)
(***************************************************************************)
EXTENDS Integers, FiniteSets

CONSTANTS
  Play,         \* play requests (handlePlay)
  Warm,         \* background warms (Engine.Warm)
  Infohash,
  None,
  MaxTorrents,  \* e.maxTorrents
  WarmCap,      \* cap(e.warmSem)
  IdleTimeout,  \* e.idleTimeout, in ticks of the clock
  MaxClock      \* bound of the model on the clock

Request == Play \cup Warm

ASSUME EngineAssumption ==
  /\ IsFiniteSet(Play) /\ IsFiniteSet(Warm)
  /\ Play \cap Warm = {}
  /\ None \notin Infohash \cup Request
  /\ MaxTorrents \in Nat /\ WarmCap \in Nat
  /\ IdleTimeout \in Nat /\ MaxClock \in Nat

VARIABLES
  pc,         \* where each request stands
  ih,         \* the infohash it asks for
  ptr,        \* its *activity is the one e.act maps ih to
  live,       \* its *torrent.Torrent is still the client's
  victim,     \* the infohash its evictOldest has picked
  lk,         \* the add lock it waits for or holds
  cl,         \* infohashes of the torrents in the client
  act,        \* e.act; an unmapped infohash has the value Absent
  addLocks,   \* e.addLocks
  warmSlots,  \* len(e.warmSem)
  clock,
  jpc, jnow,  \* the janitor: where it stands, its "now"
  jtodo,      \* the torrents of its Torrents() snapshot still to visit
  jlive,      \* those of the snapshot that are still the client's
  jcur,       \* the one it is visiting
  jptr,       \* its *activity is the one e.act maps jcur to
  jold        \* that record was idle too long when activity() returned it

localVars   == <<ih, ptr, live, victim, lk>>
janitorVars == <<jpc, jnow, jtodo, jlive, jcur, jptr, jold>>
vars == <<pc, localVars, cl, act, addLocks, warmSlots, clock, janitorVars>>

Activity == [mapped : BOOLEAN, readers : Nat, adding : BOOLEAN, last : 0..MaxClock]
Absent == [mapped |-> FALSE, readers |-> 0, adding |-> FALSE, last |-> 0]
Fresh  == [mapped |-> TRUE, readers |-> 0, adding |-> FALSE, last |-> clock]

----------------------------------------------------------------------------
(* Control points.                                                         *)

InAdd   == {"cap", "pick", "lookup", "drop", "add", "added", "failed"}
Locked  == InAdd \cup {"mark"}
Control == Locked \cup
  {"start", "sem", "activity", "touch", "fast", "lockFor", "lock", "have",
   "pointer", "register", "stream", "recheck", "prebuffer", "done"}

Adding(p)    == pc[p] \in InAdd
Streaming(p) == pc[p] = "stream"
HoldsLock(p) == pc[p] \in Locked

Registered(i) == {p \in Play : Streaming(p) /\ ih[p] = i /\ ptr[p]}

\* e.streamBusy()
StreamBusy == \E i \in Infohash : act[i].readers > 0

\* Mutant of Evictable: the reader count is not looked at.
EvictableThoughRead == {i \in Infohash : act[i].mapped /\ ~act[i].adding}

\* What evictOldest may pick, and the ones it may pick first.
Evictable == {i \in Infohash :
                act[i].mapped /\ ~(act[i].readers > 0) /\ ~act[i].adding}
Oldest    == {i \in Evictable : \A j \in Evictable : act[i].last <= act[j].last}

(* The infohash of the torrent a request's handle is for.                  *)
HandleOf(p) == IF pc[p] = "drop" THEN victim[p] ELSE ih[p]

----------------------------------------------------------------------------
(* Pieces of actions.                                                      *)

Goto(p, label) == pc' = [pc EXCEPT ![p] = label]

\* Mutant of Finish: the deferred receive from warmSem is missing.
FinishKeepsSlot(p) ==
  /\ Goto(p, "done")
  /\ ih' = [ih EXCEPT ![p] = None]
  /\ ptr' = [ptr EXCEPT ![p] = FALSE]
  /\ live' = [live EXCEPT ![p] = FALSE]
  /\ lk' = [lk EXCEPT ![p] = None]
  /\ victim' = [victim EXCEPT ![p] = None]
  /\ UNCHANGED warmSlots

\* A request that returns: its locals are gone, a warm gives its slot back.
Finish(p) ==
  /\ Goto(p, "done")
  /\ ih' = [ih EXCEPT ![p] = None]
  /\ ptr' = [ptr EXCEPT ![p] = FALSE]
  /\ live' = [live EXCEPT ![p] = FALSE]
  /\ lk' = [lk EXCEPT ![p] = None]
  /\ victim' = [victim EXCEPT ![p] = None]
  /\ warmSlots' = IF p \in Warm THEN warmSlots - 1 ELSE warmSlots

\* e.activity(i): the record, allocated if there is none.
Created(i) == IF act[i].mapped THEN act[i] ELSE Fresh

\* delete(e.act, i); delete(e.addLocks, i): every pointer to the record dangles.
Forget(i) ==
  /\ act' = [act EXCEPT ![i] = Absent]
  /\ addLocks' = [addLocks EXCEPT ![i] = None]
  /\ ptr' = [q \in Request |-> ptr[q] /\ ih[q] # i]
  /\ jptr' = (jptr /\ jcur # i)

\* t.Drop() on the client's torrent for i: every handle to it goes stale.
Drop(i) ==
  /\ cl' = cl \ {i}
  /\ live' = [q \in Request |-> live[q] /\ HandleOf(q) # i]
  /\ jlive' = jlive \ {i}

----------------------------------------------------------------------------
(* Arrivals.                                                               *)

PlayArrive(p, i) ==
  /\ pc[p] = "start"
  /\ ih' = [ih EXCEPT ![p] = i]
  /\ Goto(p, "activity")
  /\ UNCHANGED <<ptr, live, victim, lk, cl, act, addLocks, warmSlots, clock,
                 janitorVars>>

\* Warm gives up at once while a stream is open.
WarmArrive(w, i) ==
  /\ pc[w] = "start"
  /\ IF StreamBusy
       THEN Goto(w, "done") /\ UNCHANGED ih
       ELSE Goto(w, "sem") /\ ih' = [ih EXCEPT ![w] = i]
  /\ UNCHANGED <<ptr, live, victim, lk, cl, act, addLocks, warmSlots, clock,
                 janitorVars>>

\* The non-blocking send on warmSem.
WarmAcquire(w) ==
  /\ pc[w] = "sem"
  /\ IF warmSlots < WarmCap
       THEN /\ warmSlots' = warmSlots + 1
            /\ Goto(w, "activity")
            /\ UNCHANGED ih
       ELSE /\ Goto(w, "done")
            /\ ih' = [ih EXCEPT ![w] = None]
            /\ UNCHANGED warmSlots
  /\ UNCHANGED <<ptr, live, victim, lk, cl, act, addLocks, clock, janitorVars>>

----------------------------------------------------------------------------
(* ensure.                                                                 *)

\* touch, first section: e.activity(ih).
TouchActivity(p) ==
  /\ pc[p] = "activity"
  /\ act' = [act EXCEPT ![ih[p]] = Created(ih[p])]
  /\ ptr' = [ptr EXCEPT ![p] = TRUE]
  /\ Goto(p, "touch")
  /\ UNCHANGED <<ih, live, victim, lk, cl, addLocks, warmSlots, clock,
                 janitorVars>>

\* touch, second section: stamps the record, which may have left the map.
TouchStamp(p) ==
  /\ pc[p] = "touch"
  /\ act' = IF ptr[p] THEN [act EXCEPT ![ih[p]].last = clock] ELSE act
  /\ ptr' = [ptr EXCEPT ![p] = FALSE]
  /\ Goto(p, "fast")
  /\ UNCHANGED <<ih, live, victim, lk, cl, addLocks, warmSlots, clock,
                 janitorVars>>

\* The first e.cl.Torrent(h), without the lock.
FastPath(p) ==
  /\ pc[p] = "fast"
  /\ IF ih[p] \in cl
       THEN Goto(p, "have") /\ live' = [live EXCEPT ![p] = TRUE]
       ELSE Goto(p, "lockFor") /\ UNCHANGED live
  /\ UNCHANGED <<ih, ptr, victim, lk, cl, act, addLocks, warmSlots, clock,
                 janitorVars>>

LockFor(p) ==
  /\ pc[p] = "lockFor"
  /\ addLocks' = [addLocks EXCEPT ![ih[p]] = IF @ = None THEN p ELSE @]
  /\ lk' = [lk EXCEPT ![p] = addLocks'[ih[p]]]
  /\ Goto(p, "lock")
  /\ UNCHANGED <<ih, ptr, live, victim, cl, act, warmSlots, clock, janitorVars>>

\* l.Lock() and the second e.cl.Torrent(h); when the torrent is there the
\* deferred unlock runs at once.
AcquireAdd(p) ==
  /\ pc[p] = "lock"
  /\ \A q \in Request : lk[q] = lk[p] => ~HoldsLock(q)
  /\ IF ih[p] \in cl
       THEN /\ Goto(p, "have")
            /\ live' = [live EXCEPT ![p] = TRUE]
            /\ lk' = [lk EXCEPT ![p] = None]
       ELSE /\ Goto(p, "mark")
            /\ UNCHANGED <<live, lk>>
  /\ UNCHANGED <<ih, ptr, victim, cl, act, addLocks, warmSlots, clock,
                 janitorVars>>

\* a.adding = b on the mapped record, if there is one.
SetAdding(i, b) ==
  act' = IF act[i].mapped THEN [act EXCEPT ![i].adding = b] ELSE act

MarkAdding(p) ==
  /\ pc[p] = "mark"
  /\ SetAdding(ih[p], TRUE)
  /\ Goto(p, "cap")
  /\ UNCHANGED <<localVars, cl, addLocks, warmSlots, clock, janitorVars>>

CheckCap(p) ==
  /\ pc[p] = "cap"
  /\ IF MaxTorrents > 0 /\ Cardinality(cl) >= MaxTorrents
       THEN Goto(p, "pick")
       ELSE Goto(p, "add")
  /\ UNCHANGED <<localVars, cl, act, addLocks, warmSlots, clock, janitorVars>>

\* evictOldest, the section that chooses and forgets; nothing to pick is
\* the "too many active torrents" error.
EvictPick(p) ==
  /\ pc[p] = "pick"
  /\ \E v \in Oldest :
       /\ Forget(v)
       /\ victim' = [victim EXCEPT ![p] = v]
       /\ Goto(p, "lookup")
  /\ UNCHANGED <<ih, live, lk, cl, warmSlots, clock,
                 jpc, jnow, jtodo, jlive, jcur, jold>>

\* Mutant of EvictNone: the search goes on until something can be picked.
EvictNoneRetries(p) ==
  /\ pc[p] = "pick"
  /\ Evictable = {}
  /\ UNCHANGED vars

EvictNone(p) ==
  /\ pc[p] = "pick"
  /\ Evictable = {}
  /\ Goto(p, "failed")
  /\ UNCHANGED <<localVars, cl, act, addLocks, warmSlots, clock, janitorVars>>

\* evictOldest, e.cl.Torrent(oldest): an entry without a torrent frees no
\* slot and the search continues.
EvictLookup(p) ==
  /\ pc[p] = "lookup"
  /\ IF victim[p] \in cl
       THEN /\ Goto(p, "drop")
            /\ live' = [live EXCEPT ![p] = TRUE]
            /\ UNCHANGED victim
       ELSE /\ Goto(p, "pick")
            /\ victim' = [victim EXCEPT ![p] = None]
            /\ UNCHANGED live
  /\ UNCHANGED <<ih, ptr, lk, cl, act, addLocks, warmSlots, clock, janitorVars>>

\* evictOldest, t.Drop(): nothing, on a torrent that was dropped meanwhile.
EvictDrop(p) ==
  /\ pc[p] = "drop"
  /\ IF live[p] THEN Drop(victim[p]) ELSE UNCHANGED <<cl, live, jlive>>
  /\ victim' = [victim EXCEPT ![p] = None]
  /\ Goto(p, "add")
  /\ UNCHANGED <<ih, ptr, lk, act, addLocks, warmSlots, clock,
                 jpc, jnow, jtodo, jcur, jptr, jold>>

\* AddMagnet returns the torrent the client already has, if it has one.
AddMagnet(p) ==
  /\ pc[p] = "add"
  /\ cl' = cl \cup {ih[p]}
  /\ live' = [live EXCEPT ![p] = TRUE]
  /\ Goto(p, "added")
  /\ UNCHANGED <<ih, ptr, victim, lk, act, addLocks, warmSlots, clock,
                 janitorVars>>

AddMagnetFails(p) ==
  /\ pc[p] = "add"
  /\ Goto(p, "failed")
  /\ UNCHANGED <<localVars, cl, act, addLocks, warmSlots, clock, janitorVars>>

\* The two deferred calls: adding = false on the record mapped by now, unlock.
EnsureReturn(p) ==
  /\ pc[p] = "added"
  /\ SetAdding(ih[p], FALSE)
  /\ lk' = [lk EXCEPT ![p] = None]
  /\ Goto(p, "have")
  /\ UNCHANGED <<ih, ptr, live, victim, cl, addLocks, warmSlots, clock,
                 janitorVars>>

\* Mutant of EnsureError: adding is cleared on success only.
EnsureErrorKeepsMark(p) ==
  /\ pc[p] = "failed"
  /\ Finish(p)
  /\ UNCHANGED <<cl, act, addLocks, clock, janitorVars>>

\* The same after an error, which ends the request.
EnsureError(p) ==
  /\ pc[p] = "failed"
  /\ SetAdding(ih[p], FALSE)
  /\ Finish(p)
  /\ UNCHANGED <<cl, addLocks, clock, janitorVars>>

----------------------------------------------------------------------------
(* After ensure.                                                           *)

\* waitInfo: the metadata arrives, and a file to play is found ...
InfoArrives(p) ==
  /\ pc[p] = "have"
  /\ Goto(p, IF p \in Play THEN "pointer" ELSE "recheck")
  /\ UNCHANGED <<localVars, cl, act, addLocks, warmSlots, clock, janitorVars>>

\* ... or the request gives up on it.
InfoFails(p) ==
  /\ pc[p] = "have"
  /\ Finish(p)
  /\ UNCHANGED <<cl, act, addLocks, clock, janitorVars>>

\* act := s.engine.activity(ih)
PlayActivity(p) ==
  /\ pc[p] = "pointer"
  /\ act' = [act EXCEPT ![ih[p]] = Created(ih[p])]
  /\ ptr' = [ptr EXCEPT ![p] = TRUE]
  /\ Goto(p, "register")
  /\ UNCHANGED <<ih, live, victim, lk, cl, addLocks, warmSlots, clock,
                 janitorVars>>

\* act.readers++ on the record it holds, mapped or not.
PlayRegister(p) ==
  /\ pc[p] = "register"
  /\ act' = IF ptr[p]
              THEN [act EXCEPT ![ih[p]].readers = @ + 1,
                               ![ih[p]].last = clock]
              ELSE act
  /\ Goto(p, "stream")
  /\ UNCHANGED <<localVars, cl, addLocks, warmSlots, clock, janitorVars>>

\* touchStream
PlayAccess(p) ==
  /\ Streaming(p)
  /\ ptr[p]
  /\ act' = [act EXCEPT ![ih[p]].last = clock]
  /\ UNCHANGED <<pc, localVars, cl, addLocks, warmSlots, clock, janitorVars>>

\* Mutant of PlayEnd: the record is looked up again instead of kept.
PlayEndByLookup(p) ==
  /\ Streaming(p)
  /\ act' = IF act[ih[p]].mapped
              THEN [act EXCEPT ![ih[p]].readers = @ - 1,
                               ![ih[p]].last = clock]
              ELSE act
  /\ Finish(p)
  /\ UNCHANGED <<cl, addLocks, clock, janitorVars>>

\* Mutant of PlayEnd: the reader is not counted out.
PlayEndStillCounted(p) ==
  /\ Streaming(p)
  /\ Finish(p)
  /\ UNCHANGED <<cl, act, addLocks, clock, janitorVars>>

\* The deferred act.readers--.
PlayEnd(p) ==
  /\ Streaming(p)
  /\ act' = IF ptr[p]
              THEN [act EXCEPT ![ih[p]].readers = @ - 1,
                               ![ih[p]].last = clock]
              ELSE act
  /\ Finish(p)
  /\ UNCHANGED <<cl, addLocks, clock, janitorVars>>

\* Mutant of WarmRecheck: it waits for the stream to end.
WarmRecheckWaits(w) ==
  /\ pc[w] = "recheck"
  /\ ~StreamBusy
  /\ Goto(w, "prebuffer")
  /\ UNCHANGED <<localVars, cl, act, addLocks, warmSlots, clock, janitorVars>>

\* Warm looks again before it pulls bytes.
WarmRecheck(w) ==
  /\ pc[w] = "recheck"
  /\ IF StreamBusy
       THEN Finish(w)
       ELSE Goto(w, "prebuffer") /\ UNCHANGED <<localVars, warmSlots>>
  /\ UNCHANGED <<cl, act, addLocks, clock, janitorVars>>

\* prebuffer ends: enough bytes, its timeout, an error or a stream.
PrebufferEnd(w) ==
  /\ pc[w] = "prebuffer"
  /\ Finish(w)
  /\ UNCHANGED <<cl, act, addLocks, clock, janitorVars>>

----------------------------------------------------------------------------
(* The janitor.                                                            *)

JanitorTick ==
  /\ jpc = "sleep"
  /\ jnow' = clock
  /\ jtodo' = cl
  /\ jlive' = cl
  /\ jpc' = "reap"
  /\ UNCHANGED <<pc, localVars, cl, act, addLocks, warmSlots, clock,
                 jcur, jptr, jold>>

\* reapIdle's test; idle is measured from the "now" the pass began with.
IdleRecord(r) == r.readers = 0 /\ jnow - r.last > IdleTimeout

\* Mutant of ReapLook: the visit counts as an access.
ReapLookTouches(i) ==
  /\ jpc = "reap"
  /\ i \in jtodo
  /\ act' = [act EXCEPT ![i] = [Created(i) EXCEPT !.last = clock]]
  /\ jpc' = "visit" /\ jcur' = i /\ jptr' = TRUE /\ jold' = FALSE
  /\ jtodo' = jtodo \ {i}
  /\ UNCHANGED <<pc, localVars, cl, addLocks, warmSlots, clock, jnow, jlive>>

\* Mutant of ReapLook: the record is looked up but not allocated.
ReapLookOnly(i) ==
  /\ jpc = "reap"
  /\ i \in jtodo
  /\ jpc' = "visit" /\ jcur' = i
  /\ jptr' = act[i].mapped
  /\ jold' = IdleRecord(act[i])
  /\ jtodo' = jtodo \ {i}
  /\ UNCHANGED <<pc, localVars, cl, act, addLocks, warmSlots, clock, jnow,
                 jlive>>

\* One turn of reapIdle: a := e.activity(ih) ...
ReapLook(i) ==
  /\ jpc = "reap"
  /\ i \in jtodo
  /\ act' = [act EXCEPT ![i] = Created(i)]
  /\ jpc' = "visit" /\ jcur' = i
  /\ jptr' = TRUE
  /\ jold' = IdleRecord(act'[i])
  /\ jtodo' = jtodo \ {i}
  /\ UNCHANGED <<pc, localVars, cl, addLocks, warmSlots, clock, jnow, jlive>>

\* Mutant of VisitOutcomes: the readers are not looked at.
OutcomesThoughRead ==
  IF jptr THEN {jnow - act[jcur].last > IdleTimeout} ELSE {FALSE, jold}

\* What the section that reads the record may find.  One that evictOldest
\* deleted in between is no better known than this: a request that also
\* holds it may have stamped it or counted itself in, or not.
VisitOutcomes == IF jptr THEN {IdleRecord(act[jcur])} ELSE {FALSE, jold}

\* ... and the section that reads it.
ReapDecide ==
  /\ jpc = "visit"
  /\ \E idle \in VisitOutcomes :
       IF idle THEN /\ jpc' = "drop"
                    /\ UNCHANGED <<jcur, jlive>>
               ELSE /\ jpc' = "reap"
                    /\ jcur' = None
                    /\ jlive' = jlive \ {jcur}
  /\ jptr' = FALSE /\ jold' = FALSE
  /\ UNCHANGED <<pc, localVars, cl, act, addLocks, warmSlots, clock, jnow,
                 jtodo>>

ReapDrop ==
  /\ jpc = "drop"
  /\ IF jcur \in jlive THEN Drop(jcur) ELSE UNCHANGED <<cl, live, jlive>>
  /\ jpc' = "forget"
  /\ UNCHANGED <<pc, ih, ptr, victim, lk, act, addLocks, warmSlots, clock,
                 jnow, jtodo, jcur, jptr, jold>>

ReapForget ==
  /\ jpc = "forget"
  /\ Forget(jcur)
  /\ jpc' = "reap"
  /\ jcur' = None
  /\ UNCHANGED <<pc, ih, live, victim, lk, cl, warmSlots, clock,
                 jnow, jtodo, jlive, jold>>

ReapDone ==
  /\ jpc = "reap"
  /\ jtodo = {}
  /\ jpc' = "sleep"
  /\ jnow' = 0
  /\ jlive' = {}
  /\ UNCHANGED <<pc, localVars, cl, act, addLocks, warmSlots, clock,
                 jtodo, jcur, jptr, jold>>

Tick ==
  /\ clock < MaxClock
  /\ clock' = clock + 1
  /\ UNCHANGED <<pc, localVars, cl, act, addLocks, warmSlots, janitorVars>>

----------------------------------------------------------------------------
Init ==
  /\ pc = [p \in Request |-> "start"]
  /\ ih = [p \in Request |-> None]
  /\ ptr = [p \in Request |-> FALSE]
  /\ live = [p \in Request |-> FALSE]
  /\ victim = [p \in Request |-> None]
  /\ lk = [p \in Request |-> None]
  /\ cl = {}
  /\ act = [i \in Infohash |-> Absent]
  /\ addLocks = [i \in Infohash |-> None]
  /\ warmSlots = 0
  /\ clock = 0
  /\ jpc = "sleep" /\ jnow = 0 /\ jtodo = {} /\ jlive = {} /\ jcur = None
  /\ jptr = FALSE /\ jold = FALSE

EvictOldest(p) ==
  EvictPick(p) \/ EvictNone(p) \/ EvictLookup(p) \/ EvictDrop(p)

Ensure(p) ==
  \/ TouchActivity(p) \/ TouchStamp(p) \/ FastPath(p) \/ LockFor(p)
  \/ AcquireAdd(p) \/ MarkAdding(p) \/ CheckCap(p) \/ EvictOldest(p)
  \/ AddMagnet(p) \/ AddMagnetFails(p) \/ EnsureReturn(p) \/ EnsureError(p)

WaitInfo(p) == InfoArrives(p) \/ InfoFails(p)

PlayNext(p) ==
  \/ \E i \in Infohash : PlayArrive(p, i)
  \/ PlayActivity(p) \/ PlayRegister(p) \/ PlayAccess(p) \/ PlayEnd(p)

WarmNext(w) ==
  \/ \E i \in Infohash : WarmArrive(w, i)
  \/ WarmAcquire(w) \/ WarmRecheck(w) \/ PrebufferEnd(w)

Janitor ==
  \/ JanitorTick \/ ReapDecide \/ ReapDrop \/ ReapForget \/ ReapDone
  \/ \E i \in Infohash : ReapLook(i)

Next ==
  \/ \E p \in Request : Ensure(p) \/ WaitInfo(p)
  \/ \E p \in Play : PlayNext(p)
  \/ \E w \in Warm : WarmNext(w)
  \/ Janitor
  \/ Tick

Spec == Init /\ [][Next]_vars

(* Goroutines are scheduled, so a request that can go on does; waitInfo    *)
(* and prebuffer carry timeouts.  Nothing makes a request arrive or a      *)
(* viewer stop: PlayArrive, WarmArrive, PlayAccess and PlayEnd are left    *)
(* without fairness.                                                       *)
Fairness ==
  /\ \A p \in Request : WF_vars(Ensure(p)) /\ WF_vars(WaitInfo(p))
  /\ \A p \in Play : WF_vars(PlayActivity(p)) /\ WF_vars(PlayRegister(p))
  /\ \A w \in Warm : /\ WF_vars(WarmAcquire(w)) /\ WF_vars(WarmRecheck(w))
                     /\ WF_vars(PrebufferEnd(w))
  /\ WF_vars(Janitor) /\ WF_vars(Tick)

FairSpec == Spec /\ Fairness

----------------------------------------------------------------------------
(* Properties.                                                             *)

(* Every variable stays in its set; in particular no reader count ever     *)
(* goes below zero.                                                        *)
TypeOK ==
  /\ pc \in [Request -> Control]
  /\ ih \in [Request -> Infohash \cup {None}]
  /\ ptr \in [Request -> BOOLEAN] /\ live \in [Request -> BOOLEAN]
  /\ victim \in [Request -> Infohash \cup {None}]
  /\ lk \in [Request -> Request \cup {None}]
  /\ cl \subseteq Infohash
  /\ act \in [Infohash -> Activity]
  /\ addLocks \in [Infohash -> Request \cup {None}]
  /\ warmSlots \in Nat
  /\ clock \in 0..MaxClock /\ jnow \in 0..MaxClock
  /\ jpc \in {"sleep", "reap", "visit", "drop", "forget"}
  /\ jtodo \subseteq Infohash /\ jlive \subseteq Infohash
  /\ jcur \in Infohash \cup {None} /\ jptr \in BOOLEAN /\ jold \in BOOLEAN

(* The reader count of the mapped record is the number of plays streaming  *)
(* through that very record: a play whose record was deleted under it      *)
(* (handlePlay keeps the pointer) never changes the count of the record    *)
(* that replaced it.                                                       *)
ReadersExact ==
  \A i \in Infohash : act[i].readers = Cardinality(Registered(i))

(* adding is set only while some ensure of that infohash is in flight: on  *)
(* every path, errors and deletions included, the flag that hides a record *)
(* from evictOldest goes away with the add.                                *)
AddingHasOwner ==
  \A i \in Infohash : act[i].adding => \E p \in Request : Adding(p) /\ ih[p] = i

(* A warm holds one slot of warmSem from its acquisition to its return,    *)
(* however it returns, so the slots neither leak nor exceed the capacity.  *)
WarmSlotsExact ==
  /\ warmSlots = Cardinality({w \in Warm : pc[w] \notin {"start", "sem", "done"}})
  /\ warmSlots <= WarmCap

(* Neither evictOldest, when it picks, nor reapIdle, when it decides to    *)
(* drop, condemns a torrent some play has registered as a reader of.  This *)
(* is as much as reapIdle can promise: a record evictOldest deleted after  *)
(* reapIdle fetched it says nothing of the readers of its successor.       *)
CondemnSparesReaders ==
  [][/\ \A p \in Request :
          victim'[p] \notin {None, victim[p]} => Registered(victim'[p]) = {}
     /\ jpc = "visit" /\ jpc' = "drop" /\ jptr => Registered(jcur) = {}]_vars

(* A streaming play loses its record only to reapIdle's late deletion: the *)
(* section in which evictOldest picks and deletes leaves no room for it.   *)
OnlyReapOrphansReaders ==
  [][\A p \in Play :
        Streaming(p) /\ ptr[p] /\ Streaming(p)' /\ ~ptr'[p] => jpc = "forget"]_vars

(* Every ensure returns: no caller waits for an add lock for ever, whoever *)
(* deletes that lock from the map, and evictOldest's search ends.          *)
EnsureReturns ==
  \A p \in Request : pc[p] = "touch" ~> pc[p] \in {"have", "pointer", "done"}

(* Every warm that took a slot gives it back.                              *)
WarmEnds == \A w \in Warm : pc[w] = "activity" ~> pc[w] = "done"

(* A torrent idle beyond the timeout leaves the client, unless a request   *)
(* for it comes first, or a drop that was already under way deletes its    *)
(* record (and the idle time starts anew: RecordComesBack).                *)
Idle(i) == /\ i \in cl /\ act[i].mapped /\ act[i].readers = 0
           /\ clock - act[i].last > IdleTimeout
IdleIsReaped ==
  \A i \in Infohash :
    Idle(i) ~> \/ i \notin cl \/ ~act[i].mapped
               \/ \E p \in Request : ih[p] = i

(* A torrent added after its record was deleted, which evictOldest cannot  *)
(* see, is given a record again by the janitor, or goes.                   *)
RecordComesBack ==
  \A i \in Infohash : i \in cl /\ ~act[i].mapped ~> i \notin cl \/ act[i].mapped

(* Claimed at engine.go:363 and 375: evictOldest drops a torrent nobody is *)
(* reading.                                                                *)
EvictSparesStreams ==
  [][\A p \in Request, q \in Play :
        EvictDrop(p) /\ Streaming(q) => live'[q] = live[q]]_vars

(* Claimed at engine.go:940: reapIdle drops torrents with no readers.      *)
ReapSparesStreams ==
  [][\A q \in Play : ReapDrop /\ Streaming(q) => live'[q] = live[q]]_vars

(* Claimed at engine.go:341-342: eviction never picks the torrent of an    *)
(* add in flight, nor deletes its lock.                                    *)
EvictSparesAdds ==
  [][\A p, q \in Request :
        EvictPick(p) /\ Adding(q) => victim'[p] # ih[q]]_vars
=============================================================================
