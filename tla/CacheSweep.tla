----------------------------- MODULE CacheSweep -----------------------------
(***************************************************************************)
(* sweepCache of cache.go beside the plays that use the same torrents,     *)
(* activity records and media_cache rows.  The sweep works from three      *)
(* looks taken one after the other: the directory (Scan), the client and   *)
(* the rows (Owners), and each owner's record (Peek); what it removes, it  *)
(* removes later, one entry after the other.                               *)
(*                                                                         *)
(* ensure() keeps the steps that change what the sweep changes too: touch,  *)
(* the lock entry, the add or its error.  Module Engine has the mutex, the *)
(* cap and its evictions.  Pointers are the bits ptr and live, as there.   *)
(***************************************************************************)
EXTENDS Integers, Sequences, FiniteSets, CachePlan

CONSTANTS
  Play, Infohash,
  Foreign,     \* names on disk that are no torrent's, nobody plays them
  None,
  Configs,     \* records [budget, reserve, grace, retain] to sweep under
  Volume,      \* size of the volume
  Full,        \* bytes of a complete entry
  MaxClock,    \* bound of the model on the clock
  MaxSweeps    \* bound of the model on the number of sweeps

Name == Infohash \cup Foreign

\* The plays of a run of the process, and the names in a directory, are finite,
\* and so are the sizes.
ASSUME SweepAssumption ==
  /\ IsFiniteSet(Play) /\ IsFiniteSet(Name)
  /\ Volume \in Int /\ Full \in Nat

VARIABLES
  clock, cfg,
  disk,       \* name -> [bytes, mod, part], for the names on disk: what scanCache
              \* keeps of an entry, part for "has a .part file"
  tor,        \* infohash -> "none", "meta" (no metadata yet) or "info"
  rows,       \* infohashes with a media_cache row
  act,        \* e.act
  addLocks,   \* the keys of e.addLocks
  pc, ih, ptr, live,      \* the plays
  spc, now,               \* the sweep: control point, its now
  snap, kind, units,      \* entries scanned, what owns them, the units built
  q, plan, freed,         \* the policy's arguments, decisions left, running sums
  stats,                  \* e.stats, with e.evictedBytes and e.evictedCount
  sweeps,
  \* History of the model:
  late,       \* plays that registered after the sweep had looked at their entry
  overtaken,  \* infohashes whose record Forget took from an ensure not yet at its lock
  quiet,      \* no stream wrote since the sweep's Scan
  gone        \* bytes that this sweep's removals, failed ones included, took

playVars  == <<pc, ih, ptr, live>>
sweepVars == <<spc, now, snap, kind, units, q, plan, freed, stats, sweeps>>
history   == <<late, overtaken, quiet, gone>>
vars == <<clock, cfg, disk, tor, rows, act, addLocks, playVars, sweepVars, history>>

Absent == [mapped |-> FALSE, readers |-> 0, last |-> 0]
Fresh  == [mapped |-> TRUE, readers |-> 0, last |-> clock]
NoSums == [bytes |-> 0, count |-> 0, orphans |-> 0, orphanBytes |-> 0, partialBytes |-> 0]
Empty  == [n \in {} |-> 0]
Bytes(d)   == MapThenSumSet(LAMBDA n : d[n].bytes, DOMAIN d)
Partial(e) == e.part

----------------------------------------------------------------------------
(* Plays.                                                                  *)

unlessPlay == <<cfg, sweepVars>>

\* ensure: touch.
Ask(p, i) ==
  /\ pc[p] = "idle"
  /\ pc' = [pc EXCEPT ![p] = "lookup"]
  /\ ih' = [ih EXCEPT ![p] = i]
  /\ act' = [act EXCEPT ![i] = IF @.mapped THEN [@ EXCEPT !.last = clock] ELSE Fresh]
  /\ UNCHANGED <<unlessPlay, clock, disk, tor, rows, addLocks, ptr, live, history>>

\* The client's handle, or lockFor.
Lookup(p) ==
  /\ pc[p] = "lookup"
  /\ IF tor[ih[p]] # "none"
     THEN /\ pc' = [pc EXCEPT ![p] = "wait"]
          /\ live' = [live EXCEPT ![p] = TRUE]
          /\ addLocks' = addLocks
     ELSE /\ pc' = [pc EXCEPT ![p] = "adding"]
          /\ live' = live
          /\ addLocks' = addLocks \cup {ih[p]}
  /\ UNCHANGED <<unlessPlay, clock, disk, tor, rows, act, ih, ptr, history>>

\* The second lookup, or AddMagnet.
Add(p) ==
  /\ pc[p] = "adding"
  /\ pc' = [pc EXCEPT ![p] = "wait"]
  /\ live' = [live EXCEPT ![p] = TRUE]
  /\ tor' = [tor EXCEPT ![ih[p]] = IF @ = "none" THEN "meta" ELSE @]
  /\ UNCHANGED <<unlessPlay, clock, disk, rows, act, addLocks, ih, ptr, history>>

\* No room under the cap, or AddMagnet's error: record and lock stay as they are.
AddFails(p) ==
  /\ pc[p] = "adding" /\ tor[ih[p]] = "none"
  /\ pc' = [pc EXCEPT ![p] = "done"]
  /\ ih' = [ih EXCEPT ![p] = None]
  /\ UNCHANGED <<unlessPlay, clock, disk, tor, rows, act, addLocks, ptr, live, history>>

\* A torrent gets its metadata, whoever waits for it.
InfoArrives(i) ==
  /\ tor[i] = "meta"
  /\ tor' = [tor EXCEPT ![i] = "info"]
  /\ UNCHANGED <<unlessPlay, clock, disk, rows, act, addLocks, playVars, history>>

\* waitInfo ends without: the handle was dropped, or the swarm is silent.
InfoFails(p) ==
  /\ pc[p] = "wait"
  /\ ~(live[p] /\ tor[ih[p]] = "info")
  /\ pc' = [pc EXCEPT ![p] = "done"]
  /\ ih' = [ih EXCEPT ![p] = None]
  /\ live' = [live EXCEPT ![p] = FALSE]
  /\ UNCHANGED <<unlessPlay, clock, disk, tor, rows, act, addLocks, ptr, history>>

RecordMedia(p) ==
  /\ pc[p] = "wait" /\ live[p] /\ tor[ih[p]] = "info"
  /\ pc' = [pc EXCEPT ![p] = "pointer"]
  /\ rows' = rows \cup {ih[p]}
  /\ UNCHANGED <<unlessPlay, clock, disk, tor, act, addLocks, ih, ptr, live, history>>

TakeRecord(p) ==
  /\ pc[p] = "pointer"
  /\ pc' = [pc EXCEPT ![p] = "register"]
  /\ act' = [act EXCEPT ![ih[p]] = IF @.mapped THEN @ ELSE Fresh]
  /\ ptr' = [ptr EXCEPT ![p] = TRUE]
  /\ UNCHANGED <<unlessPlay, clock, disk, tor, rows, addLocks, ih, live, history>>

Looked(i) == spc # "idle" /\ i \in {u.name : u \in units}

Register(p) ==
  /\ pc[p] = "register"
  /\ pc' = [pc EXCEPT ![p] = "stream"]
  /\ act' = IF ptr[p]
            THEN [act EXCEPT ![ih[p]].readers = @ + 1, ![ih[p]].last = clock]
            ELSE act
  /\ late' = IF Looked(ih[p]) THEN late \cup {p} ELSE late
  /\ UNCHANGED <<unlessPlay, clock, disk, tor, rows, addLocks, ih, ptr, live,
                 overtaken, quiet, gone>>

\* The stream makes progress: bytes it lacked come to disk, its record is touched.
Progress(p) ==
  LET i == ih[p]
      old == IF i \in DOMAIN disk THEN disk[i].bytes ELSE 0 IN
  /\ pc[p] = "stream" /\ live[p]
  /\ disk' = IF old < Full
             THEN [n \in DOMAIN disk \cup {i} |->
                     IF n = i
                     THEN [bytes |-> old + 1, mod |-> clock, part |-> old + 1 < Full]
                     ELSE disk[n]]
             ELSE disk
  /\ quiet' = (quiet /\ disk' = disk)
  /\ act' = IF ptr[p] THEN [act EXCEPT ![i].last = clock] ELSE act
  /\ UNCHANGED <<unlessPlay, clock, tor, rows, addLocks, playVars, late, overtaken,
                 gone>>

PlayEnd(p) ==
  /\ pc[p] = "stream"
  /\ act' = IF ptr[p]
            THEN [act EXCEPT ![ih[p]].readers = @ - 1, ![ih[p]].last = clock]
            ELSE act
  /\ pc' = [pc EXCEPT ![p] = "done"]
  /\ ih' = [ih EXCEPT ![p] = None]
  /\ ptr' = [ptr EXCEPT ![p] = FALSE]
  /\ live' = [live EXCEPT ![p] = FALSE]
  /\ late' = late \ {p}
  /\ UNCHANGED <<unlessPlay, clock, disk, tor, rows, addLocks, overtaken, quiet,
                 gone>>

----------------------------------------------------------------------------
(* The sweep.                                                              *)

shared == <<clock, cfg, tor, rows, act, addLocks, playVars>>

Scan ==
  /\ spc = "idle" /\ sweeps < MaxSweeps
  /\ spc' = "owners"
  /\ now' = clock
  /\ snap' = disk
  /\ quiet' = TRUE
  /\ UNCHANGED <<shared, disk, kind, units, q, plan, freed, stats, sweeps,
                 late, overtaken, gone>>

\* cacheOwners, over the names scanned. A torrent without metadata counts only
\* if media_cache knows it.
Kind(n) ==
  IF n \in Infohash /\ tor[n] = "info" THEN "owned"
  ELSE IF n \in Infohash /\ tor[n] = "meta" /\ n \in rows THEN "pending"
  ELSE "orphan"

Unit(n, readers, last) ==
  [name |-> n, bytes |-> snap[n].bytes, part |-> snap[n].part, loaded |-> kind'[n] = "owned",
   last |-> IF last > snap[n].mod THEN last ELSE snap[n].mod, readers |-> readers]

Owners ==
  /\ spc = "owners"
  /\ spc' = "peek"
  /\ kind' = [n \in DOMAIN snap |-> Kind(n)]
  /\ units' = {Unit(n, 0, -1) : n \in {m \in DOMAIN snap : kind'[m] = "orphan"}}
  /\ UNCHANGED <<shared, disk, now, snap, q, plan, freed, stats, sweeps, history>>

ToPeek == {n \in DOMAIN snap : kind[n] = "owned"} \ {u.name : u \in units}

\* peekActivity for one owned entry; no record is no reader and no last use.
Peek(n) ==
  /\ spc = "peek" /\ n \in ToPeek
  /\ kind' = kind
  /\ units' = units \cup {IF act[n].mapped THEN Unit(n, act[n].readers, act[n].last)
                                           ELSE Unit(n, 0, -1)}
  /\ UNCHANGED <<shared, disk, spc, now, snap, q, plan, freed, stats, sweeps, history>>

\* The probe of the volume may fail, and the sort leaves ties in any order.
Plan ==
  /\ spc = "peek" /\ ToPeek = {}
  /\ \E free \in {-1, Volume - Bytes(disk)}, o \in Orders(units) :
       /\ q' = [used |-> Bytes(snap), free |-> free, now |-> now, budget |-> cfg.budget,
                reserve |-> cfg.reserve, grace |-> cfg.grace, retain |-> cfg.retain]
       /\ plan' = PlanCache(o, q')
  /\ spc' = "apply"
  /\ freed' = NoSums
  /\ UNCHANGED <<shared, disk, now, snap, kind, units, stats, sweeps, history>>

Victim == Head(plan).unit

DropTorrent ==
  /\ spc = "apply" /\ plan # <<>>
  /\ spc' = "remove"
  /\ IF Victim.loaded
     THEN /\ tor' = [tor EXCEPT ![Victim.name] = "none"]
          /\ live' = [p \in Play |-> live[p] /\ ih[p] # Victim.name]
     ELSE UNCHANGED <<tor, live>>
  /\ UNCHANGED <<clock, cfg, disk, rows, act, addLocks, pc, ih, ptr, now, snap, kind,
                 units, q, plan, freed, stats, sweeps, history>>

\* The sums of one entry removed.
Counted(s, u) ==
  [bytes |-> s.bytes + u.bytes, count |-> s.count + 1,
   orphans      |-> s.orphans + (IF u.loaded THEN 0 ELSE 1),
   orphanBytes  |-> s.orphanBytes + (IF u.loaded THEN 0 ELSE u.bytes),
   partialBytes |-> s.partialBytes + (IF Partial(u) THEN u.bytes ELSE 0)]

\* Mutant of RemoveFails: what could not be removed is counted as freed.
RemoveFailsCounted ==
  /\ spc = "remove"
  /\ spc' = "apply"
  /\ plan' = Tail(plan)
  /\ freed' = Counted(freed, Victim)
  /\ UNCHANGED <<shared, disk, now, snap, kind, units, q, stats, sweeps, history>>

RemoveEntry ==
  /\ spc = "remove"
  /\ spc' = IF Victim.loaded THEN "forget" ELSE "next"
  /\ disk' = [n \in DOMAIN disk \ {Victim.name} |-> disk[n]]
  /\ freed' = Counted(freed, Victim)
  /\ gone' = gone + disk[Victim.name].bytes
  /\ UNCHANGED <<shared, now, snap, kind, units, q, plan, stats, sweeps,
                 late, overtaken, quiet>>

\* What RemoveAll may leave of an entry before it gives up: all of it, some of its
\* files, or the bare directory. Files that take no room are left out.
Remains(e) ==
  {e} \cup {x \in [bytes : 0..e.bytes - 1, mod : 0..e.mod, part : BOOLEAN] :
             IF x.bytes = 0 THEN x.mod = 0 /\ ~x.part ELSE x.part => e.part}

\* Record, lock and row of a torrent already dropped stay, nothing is counted.
RemoveFails ==
  LET n == Victim.name IN
  /\ spc = "remove"
  /\ spc' = "apply"
  /\ plan' = Tail(plan)
  /\ \E left \in Remains(disk[n]) :
       /\ disk' = [disk EXCEPT ![n] = left]
       /\ gone' = gone + (disk[n].bytes - left.bytes)
  /\ UNCHANGED <<shared, now, snap, kind, units, q, freed, stats, sweeps,
                 late, overtaken, quiet>>

Overtaken ==
  IF \E p \in Play : pc[p] = "lookup" /\ ih[p] = Victim.name
  THEN overtaken \cup {Victim.name} ELSE overtaken

\* Mutant of Forget: the add lock stays.
ForgetKeepsLock ==
  /\ spc = "forget"
  /\ spc' = "forgetMedia"
  /\ act' = [act EXCEPT ![Victim.name] = Absent]
  /\ ptr' = [p \in Play |-> ptr[p] /\ ih[p] # Victim.name]
  /\ overtaken' = Overtaken
  /\ UNCHANGED <<clock, cfg, disk, tor, rows, addLocks, pc, ih, live, now, snap, kind,
                 units, q, plan, freed, stats, sweeps, late, quiet, gone>>

\* Under e.mu: the record and the lock go, whoever has taken them up since.
Forget ==
  /\ spc = "forget"
  /\ spc' = "forgetMedia"
  /\ act' = [act EXCEPT ![Victim.name] = Absent]
  /\ addLocks' = addLocks \ {Victim.name}
  /\ ptr' = [p \in Play |-> ptr[p] /\ ih[p] # Victim.name]
  /\ overtaken' = Overtaken
  /\ UNCHANGED <<clock, cfg, disk, tor, rows, pc, ih, live, now, snap, kind,
                 units, q, plan, freed, stats, sweeps, late, quiet, gone>>

ForgetMedia ==
  /\ spc = "forgetMedia"
  /\ spc' = "next"
  /\ rows' = rows \ {Victim.name}
  /\ UNCHANGED <<clock, cfg, disk, tor, act, addLocks, playVars, now, snap, kind,
                 units, q, plan, freed, stats, sweeps, history>>

\* An orphan has no infohash: ForgetMedia("", "") deletes nothing.
NextEntry ==
  /\ spc = "next"
  /\ spc' = "apply"
  /\ plan' = Tail(plan)
  /\ UNCHANGED <<shared, disk, now, snap, kind, units, q, freed, stats, sweeps, history>>

Orphans == {n \in DOMAIN snap : kind[n] = "orphan"}
BytesOf(S) == MapThenSumSet(LAMBDA n : snap[n].bytes, S)

\* The panel's numbers; e.stats is replaced, the totals grow.
Publish ==
  /\ spc = "apply" /\ plan = <<>>
  /\ spc' = "idle"
  /\ sweeps' = sweeps + 1
  /\ stats' = [used    |-> q.used - freed.bytes,
               entries |-> Cardinality(DOMAIN snap) - freed.count,
               partial |-> BytesOf({n \in DOMAIN snap : Partial(snap[n])}) - freed.partialBytes,
               orphans |-> Cardinality(Orphans) - freed.orphans,
               orphanBytes |-> BytesOf(Orphans) - freed.orphanBytes,
               evictedBytes |-> stats.evictedBytes + freed.bytes]
  /\ now' = 0 /\ snap' = Empty /\ kind' = Empty /\ units' = {}
  /\ q' = <<>> /\ plan' = <<>> /\ freed' = NoSums
  /\ late' = {} /\ quiet' = FALSE /\ gone' = 0
  /\ UNCHANGED <<shared, disk, overtaken>>

Tick ==
  /\ clock < MaxClock
  /\ clock' = clock + 1
  /\ UNCHANGED <<cfg, disk, tor, rows, act, addLocks, playVars, sweepVars, history>>

----------------------------------------------------------------------------
\* A start: files and rows of earlier runs, of any age, no torrent, no record.
Init ==
  /\ clock = 1
  /\ cfg \in Configs
  /\ \E left \in SUBSET Name : 
       disk \in [left -> {e \in [bytes : 1..Full, mod : 0..1, part : BOOLEAN] :
                            e.part <=> e.bytes < Full}]
  /\ tor = [i \in Infohash |-> "none"]
  /\ rows \in SUBSET (Infohash \cap DOMAIN disk)
  /\ act = [i \in Infohash |-> Absent]
  /\ addLocks = {}
  /\ pc = [p \in Play |-> "idle"] /\ ih = [p \in Play |-> None]
  /\ ptr = [p \in Play |-> FALSE] /\ live = [p \in Play |-> FALSE]
  /\ spc = "idle" /\ now = 0
  /\ snap = Empty /\ kind = Empty /\ units = {}
  /\ q = <<>> /\ plan = <<>> /\ freed = NoSums
  /\ stats = [used |-> 0, entries |-> 0, partial |-> 0, orphans |-> 0,
              orphanBytes |-> 0, evictedBytes |-> 0]
  /\ sweeps = 0
  /\ late = {} /\ overtaken = {} /\ quiet = FALSE
  /\ gone = 0

PlayNext(p) ==
  \/ \E i \in Infohash : Ask(p, i)
  \/ Lookup(p) \/ Add(p) \/ AddFails(p)
  \/ InfoFails(p) \/ RecordMedia(p) \/ TakeRecord(p) \/ Register(p)
  \/ Progress(p) \/ PlayEnd(p)

Sweep ==
  \/ Scan \/ Owners \/ Plan \/ DropTorrent \/ RemoveEntry \/ RemoveFails
  \/ Forget \/ ForgetMedia \/ NextEntry \/ Publish
  \/ \E n \in Name : Peek(n)

Next ==
  \/ Tick \/ Sweep
  \/ \E i \in Infohash : InfoArrives(i)
  \/ \E p \in Play : PlayNext(p)

Spec == Init /\ [][Next]_vars

----------------------------------------------------------------------------
(* Properties.                                                             *)

\* planCache takes what retention and pressure ask for and no more, the least
\* recently used first, and nothing it must protect: the loops, the break and
\* the running sums of planCache against the policy its comment states.
PlanMeetsPolicy ==
  [][spc = "peek" /\ spc' = "apply" => MeetsPolicy(plan', units, q')]_vars

\* sweepCache never turns to removing the files of a stream that was registered,
\* on the mapped record of a torrent the client still has, when it looked at
\* their entry: only a play that registers afterwards can lose them.
RemovalSparesEarlierStreams ==
  [][spc = "apply" /\ spc' = "remove" =>
       \A p \in Play : pc[p] = "stream" /\ ih[p] = Victim.name /\ ptr[p] /\ live[p]
                         => p \in late]_vars

\* Every entry of addLocks has the activity record beside it by which the janitor,
\* the cap or a later sweep will release both: after a failed removal, after a
\* failed add and while one is at work too. The exception is a record that
\* sweepCache takes from an ensure between its touch and its lockFor.
LocksKeepRecords == \A i \in addLocks : act[i].mapped \/ i \in overtaken

\* A sweep never adds more to the total of evicted bytes than its removals took
\* from the disk. And when no stream wrote while it ran, the numbers it publishes
\* are those of the disk it leaves, pending entries and those that could not be
\* removed included; but for the bytes that failed removals took of their entries,
\* which are still in the bytes in use.
StatsMatchDisk ==
  [][spc = "apply" /\ spc' = "idle" =>
       LET evicted == stats'.evictedBytes - stats.evictedBytes IN
       /\ evicted <= gone
       /\ quiet =>
            /\ stats'.used = Bytes(disk) + (gone - evicted)
            /\ stats'.entries = Cardinality(DOMAIN disk)
            /\ gone = evicted =>
                 stats'.partial = MapThenSumSet(LAMBDA n : disk[n].bytes,
                                    {n \in DOMAIN disk : Partial(disk[n])})]_vars
=============================================================================
