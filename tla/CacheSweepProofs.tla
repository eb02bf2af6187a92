--------------------------- MODULE CacheSweepProofs ---------------------------
(***************************************************************************)
(* Theorems about the sweep of the cache beside the plays.                 *)
(***************************************************************************)
EXTENDS CacheSweep, CachePlanProofs

PlayStages ==
  {"idle", "lookup", "adding", "wait", "pointer", "register", "stream", "done"}
SweepStages == {"idle", "owners", "peek", "apply", "remove", "forget", "forgetMedia", "next"}

Types ==
  /\ tor \in [Infohash -> {"none", "meta", "info"}]
  /\ act \in [Infohash -> [mapped : BOOLEAN, readers : Int, last : Int]]
  /\ addLocks \subseteq Infohash
  /\ pc \in [Play -> PlayStages]
  /\ ih \in [Play -> Infohash \cup {None}]
  /\ \A p \in Play : pc[p] \notin {"idle", "done"} => ih[p] \in Infohash
  /\ ptr \in [Play -> BOOLEAN] /\ live \in [Play -> BOOLEAN]
  /\ clock \in Int
  /\ spc \in SweepStages

\* What is held of the directory, and the units made of it, are finite.
Finite ==
  /\ DOMAIN disk \subseteq Name /\ DOMAIN snap \subseteq Name
  /\ IsFiniteSet(units)

----------------------------------------------------------------------------
(* What a lock has beside it.                                              *)

\* An ensure comes to its lock with the record it touched, unless Forget took it.
Leaks ==
  /\ LocksKeepRecords
  /\ \A p \in Play : pc[p] = "lookup" => act[ih[p]].mapped \/ ih[p] \in overtaken

----------------------------------------------------------------------------
(* Streams and the units made of their entries.                            *)

Streaming(i) == {p \in Play : pc[p] = "stream" /\ ptr[p] /\ ih[p] = i}

\* A mapped record counts the streams that point to it, one that is not has none.
Registered ==
  /\ \A p \in Play : ptr[p] => pc[p] \in {"register", "stream"}
  /\ \A i \in Infohash : act[i].readers = Cardinality(Streaming(i))
  /\ \A i \in Infohash, p \in Play : ptr[p] /\ ih[p] = i => act[i].mapped

\* A play past waitInfo whose handle is live has the metadata.
Held ==
  \A p \in Play : pc[p] \in {"pointer", "register", "stream"} /\ live[p] =>
                    tor[ih[p]] = "info"

\* The unit of a stream that was there when the sweep looked has a reader.
Seen ==
  /\ spc \in {"idle", "owners"} => units = {}
  /\ \A p \in Play, u \in units :
       pc[p] = "stream" /\ ptr[p] /\ live[p] /\ u.name = ih[p] /\ p \notin late =>
         u.readers > 0

\* What is to be removed is a unit without one.
Spared ==
  /\ plan \in Seq([unit : units, reason : {"retention", "budget", "reserve"}])
  /\ \A k \in DOMAIN plan : ~(plan[k].unit.readers > 0)
  /\ spc \in {"remove", "forget", "forgetMedia", "next"} => plan # <<>>

SweepInv == Types /\ Finite /\ Leaks /\ Registered /\ Held /\ Seen /\ Spared

----------------------------------------------------------------------------
LEMMA InitHolds == Init => SweepInv
<1> SUFFICES ASSUME Init PROVE SweepInv
  OBVIOUS
<1>1. Types
  BY DEF Init, Types, Absent, PlayStages, SweepStages
<1>2. Finite
  BY FS_EmptySet DEF Init, Finite, Empty, Name
<1>3. Leaks
  BY DEF Init, Leaks, LocksKeepRecords
<1>4. Registered
  <2>1. \A i \in Infohash : Streaming(i) = {}
    BY DEF Init, Streaming
  <2> QED BY <2>1, FS_EmptySet DEF Init, Registered, Absent
<1>5. Held /\ Seen
  BY DEF Init, Held, Seen
<1>6. Spared
  BY EmptySeq DEF Init, Spared
<1> QED BY <1>1, <1>2, <1>3, <1>4, <1>5, <1>6 DEF SweepInv

LEMMA TypesStep == Types /\ [Next]_vars => Types'
<1> SUFFICES ASSUME Types, [Next]_vars PROVE Types'
  OBVIOUS
<1> USE DEF Types
<1>1. ASSUME NEW p \in Play, PlayNext(p) PROVE Types'
  <2>1. ASSUME NEW i \in Infohash, Ask(p, i) PROVE Types'
    BY <2>1 DEF Ask, Fresh, PlayStages, unlessPlay, sweepVars
  <2>2. CASE InfoFails(p)
    BY <2>2 DEF InfoFails, PlayStages, unlessPlay, sweepVars
  <2>3. CASE RecordMedia(p)
    BY <2>3 DEF RecordMedia, PlayStages, unlessPlay, sweepVars
  <2>4. CASE TakeRecord(p)
    BY <2>4 DEF TakeRecord, Fresh, PlayStages, unlessPlay, sweepVars
  <2>5. CASE Register(p)
    BY <2>5 DEF Register, PlayStages, unlessPlay, sweepVars
  <2>6. CASE Progress(p)
    BY <2>6 DEF Progress, playVars, unlessPlay, sweepVars
  <2>7. CASE PlayEnd(p)
    BY <2>7 DEF PlayEnd, PlayStages, unlessPlay, sweepVars
  <2>8. CASE Lookup(p)
    <3>1. CASE tor[ih[p]] # "none"
      BY <2>8, <3>1 DEF Lookup, PlayStages, unlessPlay, sweepVars
    <3>2. CASE ~(tor[ih[p]] # "none")
      BY <2>8, <3>2 DEF Lookup, PlayStages, unlessPlay, sweepVars
    <3> QED BY <3>1, <3>2
  <2>9. CASE Add(p)
    BY <2>9 DEF Add, PlayStages, unlessPlay, sweepVars
  <2>10. CASE AddFails(p)
    BY <2>10 DEF AddFails, PlayStages, unlessPlay, sweepVars
  <2> QED BY <1>1, <2>1, <2>2, <2>3, <2>4, <2>5, <2>6, <2>7, <2>8, <2>9, <2>10 DEF PlayNext
<1>2. CASE Sweep
  <2>1. CASE Scan \/ Owners \/ Plan \/ RemoveEntry \/ RemoveFails \/ NextEntry \/ Publish
             \/ \E n \in Name : Peek(n)
    BY <2>1 DEF Scan, Owners, Plan, RemoveEntry, RemoveFails, NextEntry, Publish, Peek,
                shared, playVars, SweepStages
  <2>2. CASE DropTorrent
    BY <2>2 DEF DropTorrent, SweepStages
  <2>3. CASE Forget
    <3>1. act' \in [Infohash -> [mapped : BOOLEAN, readers : Int, last : Int]]
      <4>1. PICK v : act' = [act EXCEPT ![v] = Absent]
        BY <2>3 DEF Forget
      <4>2. Absent \in [mapped : BOOLEAN, readers : Int, last : Int]
        BY DEF Absent
      <4> HIDE DEF Absent
      <4> QED BY ONLY Types, <4>1, <4>2 DEF Types
    <3>2. ptr' \in [Play -> BOOLEAN]
      BY <2>3, Zenon DEF Forget
    <3> QED BY <2>3, <3>1, <3>2 DEF Forget, SweepStages
  <2>4. CASE ForgetMedia
    BY <2>4 DEF ForgetMedia, playVars, SweepStages
  <2> QED BY <1>2, <2>1, <2>2, <2>3, <2>4 DEF Sweep
<1>3. ASSUME NEW i \in Infohash, InfoArrives(i) PROVE Types'
  BY <1>3 DEF InfoArrives, unlessPlay, playVars, sweepVars
<1>4. CASE Tick
  BY <1>4 DEF Tick, playVars, sweepVars
<1>5. CASE UNCHANGED vars
  BY <1>5 DEF vars, playVars, sweepVars
<1> QED BY <1>1, <1>2, <1>3, <1>4, <1>5 DEF Next

LEMMA FiniteStep == Types /\ Finite /\ [Next]_vars => Finite'
<1> SUFFICES ASSUME Types, Finite, [Next]_vars PROVE Finite'
  OBVIOUS
<1>1. CASE UNCHANGED <<disk, snap, units>>
  BY <1>1 DEF Finite
<1>2. ASSUME NEW p \in Play, Progress(p) PROVE Finite'
  <2>1. DOMAIN disk' \subseteq Name
    BY <1>2 DEF Progress, Finite, Types, Name
  <2> QED BY <1>2, <2>1 DEF Progress, Finite, unlessPlay, sweepVars
<1>3. CASE Scan
  BY <1>3 DEF Scan, Finite
<1>4. CASE Owners
  <2> DEFINE O == {m \in DOMAIN snap : kind'[m] = "orphan"}
  <2>1. IsFiniteSet(O)
    BY SweepAssumption, FS_Subset DEF Finite
  <2>2. units' = {Unit(n, 0, -1) : n \in O}
    BY <1>4 DEF Owners
  <2> HIDE DEF O
  <2> DEFINE f == [n \in O |-> Unit(n, 0, -1)]
  <2>4. f \in Surjection(O, units')
    BY <2>2 DEF Surjection
  <2>3. IsFiniteSet(units')
    BY <2>1, <2>4, FS_Surjection
  <2> QED BY <1>4, <2>2, <2>3 DEF Owners, Finite
<1>5. ASSUME NEW n \in Name, Peek(n) PROVE Finite'
  BY <1>5, FS_AddElement DEF Peek, Finite
<1>6. CASE Publish
  BY <1>6, FS_EmptySet DEF Publish, Finite, Empty
<1>7. CASE RemoveEntry \/ RemoveFails
  BY <1>7 DEF RemoveEntry, RemoveFails, Finite
<1>8. ASSUME NEW p \in Play, PlayNext(p), ~Progress(p) PROVE UNCHANGED <<disk, snap, units>>
  BY <1>8 DEF PlayNext, Ask, Lookup, Add, AddFails, InfoFails, RecordMedia, TakeRecord, Register, PlayEnd,
              unlessPlay, sweepVars
<1>9. ASSUME Sweep, ~Scan, ~Owners, ~\E n \in Name : Peek(n), ~Publish, ~RemoveEntry,
             ~RemoveFails
      PROVE  UNCHANGED <<disk, snap, units>>
  BY <1>9 DEF Sweep, Plan, DropTorrent, Forget, ForgetMedia, NextEntry
<1>10. ASSUME \/ Tick \/ UNCHANGED vars \/ \E i \in Infohash : InfoArrives(i)
       PROVE  UNCHANGED <<disk, snap, units>>
  BY <1>10 DEF Tick, InfoArrives, vars, unlessPlay, sweepVars
<1> QED BY <1>1, <1>2, <1>3, <1>4, <1>5, <1>6, <1>7, <1>8, <1>9, <1>10 DEF Next

LEMMA LeaksKept ==
  Leaks /\ addLocks' \subseteq addLocks /\ overtaken \subseteq overtaken'
    /\ (\A i : act[i].mapped => act'[i].mapped)
    /\ (\A p \in Play : pc'[p] = "lookup" => pc[p] = "lookup" /\ ih'[p] = ih[p]) => Leaks'
BY DEF Leaks, LocksKeepRecords

LEMMA LeaksStep == Types /\ Registered /\ Leaks /\ [Next]_vars => Leaks'
<1> SUFFICES ASSUME Types, Registered, Leaks, [Next]_vars PROVE Leaks'
  OBVIOUS
<1>1. ASSUME NEW p \in Play, PlayNext(p) PROVE Leaks'
  <2>1. ASSUME NEW i \in Infohash, Ask(p, i) PROVE Leaks'
    <3>1. \A j \in Infohash : act[j].mapped \/ j = i => act'[j].mapped
      BY <2>1 DEF Ask, Fresh, Types
    <3>2. addLocks' = addLocks /\ overtaken' = overtaken /\ ih'[p] = i
      BY <2>1 DEF Ask, history, Types
    <3>3. \A r \in Play : r # p => pc'[r] = pc[r] /\ ih'[r] = ih[r]
      BY <2>1 DEF Ask, Types
    <3> QED BY <3>1, <3>2, <3>3 DEF Leaks, LocksKeepRecords, Types
  <2>2. CASE Lookup(p)
    <3>1. /\ addLocks' \subseteq addLocks \cup {ih[p]} /\ overtaken' = overtaken
          /\ act' = act /\ ih' = ih
      BY <2>2 DEF Lookup, history
    <3>2. pc[p] = "lookup" /\ \A r \in Play : pc'[r] = "lookup" => pc[r] = "lookup"
      BY <2>2 DEF Lookup, Types
    <3> QED BY <3>1, <3>2 DEF Leaks, LocksKeepRecords
  <2>3. CASE Add(p) \/ AddFails(p) \/ InfoFails(p) \/ RecordMedia(p)
    BY <2>3, LeaksKept DEF Add, AddFails, InfoFails, RecordMedia, history, Types
  <2>4. CASE TakeRecord(p) \/ Register(p) \/ Progress(p) \/ PlayEnd(p)
    <3>1. \A j \in Infohash : act[j].mapped => act'[j].mapped
      BY <2>4 DEF TakeRecord, Register, Progress, PlayEnd, Fresh, Types
    <3>2. addLocks' = addLocks /\ overtaken' = overtaken
      BY <2>4 DEF TakeRecord, Register, Progress, PlayEnd, history
    <3>3. \A r \in Play : pc'[r] = "lookup" => pc[r] = "lookup" /\ ih'[r] = ih[r]
      BY <2>4 DEF TakeRecord, Register, Progress, PlayEnd, playVars, Types
    <3> QED BY <3>1, <3>2, <3>3 DEF Leaks, LocksKeepRecords, Types
  <2> QED BY <1>1, <2>1, <2>2, <2>3, <2>4 DEF PlayNext
<1>2. CASE Forget
  <2>1. PICK v : /\ act' = [act EXCEPT ![v] = Absent] /\ addLocks' = addLocks \ {v}
                 /\ pc' = pc /\ ih' = ih
                 /\ overtaken' = IF \E p \in Play : pc[p] = "lookup" /\ ih[p] = v
                                 THEN overtaken \cup {v} ELSE overtaken
    BY <1>2 DEF Forget, Overtaken
  <2>2. \A i \in Infohash : i # v => act'[i] = act[i]
    BY <2>1 DEF Types
  <2>3. overtaken \subseteq overtaken'
    BY <2>1
  <2>4. LocksKeepRecords'
    BY <2>1, <2>2, <2>3 DEF Leaks, LocksKeepRecords, Types
  <2>5. ASSUME NEW p \in Play, pc'[p] = "lookup"
        PROVE  act'[ih'[p]].mapped \/ ih'[p] \in overtaken'
    <3>1. CASE ih[p] = v
      BY <2>1, <2>5, <3>1
    <3>2. CASE ih[p] # v
      BY <2>1, <2>2, <2>3, <2>5, <3>2 DEF Leaks, Types
    <3> QED BY <3>1, <3>2
  <2> QED BY <2>4, <2>5 DEF Leaks
<1>3. ASSUME Sweep, ~Forget PROVE UNCHANGED <<act, addLocks, pc, ih, overtaken>>
  BY <1>3 DEF Sweep, Scan, Owners, Plan, DropTorrent, RemoveEntry, RemoveFails, ForgetMedia,
              NextEntry, Publish, Peek, shared, playVars, history
<1>4. ASSUME \/ Tick \/ UNCHANGED vars \/ \E i \in Infohash : InfoArrives(i)
      PROVE  UNCHANGED <<act, addLocks, pc, ih, overtaken>>
  BY <1>4 DEF Tick, InfoArrives, vars, playVars, history
<1> QED BY <1>1, <1>2, <1>3, <1>4, LeaksKept DEF Next

LEMMA StreamingFinite ==
  ASSUME NEW i PROVE IsFiniteSet(Streaming(i)) /\ Cardinality(Streaming(i)) \in Nat
BY SweepAssumption, FS_Subset, FS_CardinalityType DEF Streaming

LEMMA RegisteredKept == Registered /\ UNCHANGED <<pc, ih, ptr, act>> => Registered'
BY DEF Registered, Streaming

LEMMA RegisteredStep == Types /\ Registered /\ [Next]_vars => Registered'
<1> SUFFICES ASSUME Types, Registered, [Next]_vars PROVE Registered'
  OBVIOUS
<1>1. ASSUME NEW p \in Play, PlayNext(p) PROVE Registered'
  <2>0. \A i : Streaming(i)' = {r \in Play : pc'[r] = "stream" /\ ptr'[r] /\ ih'[r] = i}
    BY DEF Streaming
  <2>1. ASSUME NEW i \in Infohash, Ask(p, i) PROVE Registered'
    <3>1. ~ptr[p]
      BY <2>1 DEF Ask, Registered
    <3>2. \A j \in Infohash : Streaming(j)' = Streaming(j)
      BY <2>1, <3>1, <2>0 DEF Ask, Streaming, Types
    <3>3. \A j \in Infohash : act'[j].readers = act[j].readers
      <4>1. CASE act[i].mapped
        BY <4>1, <2>1 DEF Ask, Types
      <4>2. CASE ~act[i].mapped
        <5>1. Streaming(i) = {}
          BY <4>2 DEF Registered, Streaming
        <5>2. act[i].readers = 0
          BY <5>1, FS_EmptySet DEF Registered
        <5> QED BY <5>2, <4>2, <2>1 DEF Ask, Types, Fresh
      <4> QED BY <4>1, <4>2
    <3>4. \A j \in Infohash : act[j].mapped => act'[j].mapped
      BY <2>1 DEF Ask, Types, Fresh
    <3> QED BY <2>1, <3>1, <3>2, <3>3, <3>4 DEF Ask, Registered, Types
  <2>2. CASE Lookup(p) \/ Add(p) \/ AddFails(p) \/ InfoFails(p) \/ RecordMedia(p)
    <3> USE DEF Lookup, Add, AddFails, InfoFails, RecordMedia
    <3>1. ~ptr[p]
      BY <2>2 DEF Registered
    <3>2. \A j \in Infohash : Streaming(j)' = Streaming(j)
      BY <2>2, <3>1, <2>0 DEF Streaming, Types
    <3> QED BY <2>2, <3>1, <3>2 DEF Registered, Types
  <2>3. CASE TakeRecord(p)
    <3>1. ~ptr[p] /\ ih[p] \in Infohash
      BY <2>3 DEF TakeRecord, Registered, Types
    <3>2. \A j \in Infohash : Streaming(j)' = Streaming(j)
      BY <2>3, <3>1, <2>0 DEF TakeRecord, Streaming, Types
    <3>3. \A j \in Infohash : act'[j].readers = act[j].readers
      <4>1. CASE act[ih[p]].mapped
        BY <4>1, <2>3 DEF TakeRecord, Types
      <4>2. CASE ~act[ih[p]].mapped
        <5>1. Streaming(ih[p]) = {}
          BY <4>2, <3>1 DEF Registered, Streaming
        <5>2. act[ih[p]].readers = 0
          BY <5>1, <3>1, FS_EmptySet DEF Registered
        <5> QED BY <5>2, <4>2, <2>3, <3>1 DEF TakeRecord, Types, Fresh
      <4> QED BY <4>1, <4>2
    <3>4. \A j \in Infohash : (act[j].mapped \/ j = ih[p]) => act'[j].mapped
      BY <2>3, <3>1 DEF TakeRecord, Types, Fresh
    <3>5. pc'[p] = "register" /\ ih' = ih
      BY <2>3 DEF TakeRecord, Types
    <3>6. \A r \in Play : r # p => ptr'[r] = ptr[r] /\ pc'[r] = pc[r]
      BY <2>3 DEF TakeRecord, Types
    <3> QED BY <3>1, <3>2, <3>3, <3>4, <3>5, <3>6 DEF Registered, Types
  <2>4. CASE Register(p)
    <3>1. PICK i \in Infohash : i = ih[p] /\ pc[p] = "register"
      BY <2>4 DEF Register, Types
    <3>2. CASE ~ptr[p]
      <4>1. \A j \in Infohash : Streaming(j)' = Streaming(j)
        BY <2>4, <3>2, <2>0 DEF Register, Streaming, Types
      <4> QED BY <2>4, <3>2, <4>1 DEF Register, Registered, Types
    <3>3. CASE ptr[p]
      <4>1. p \notin Streaming(i) /\ Streaming(i)' = Streaming(i) \cup {p}
        BY <2>4, <3>1, <3>3, <2>0 DEF Register, Streaming, Types
      <4>2. \A j \in Infohash : j # i => Streaming(j)' = Streaming(j)
        BY <2>4, <3>1, <3>3, <2>0 DEF Register, Streaming, Types
      <4>3. Cardinality(Streaming(i)') = Cardinality(Streaming(i)) + 1
        BY <4>1, StreamingFinite, FS_AddElement
      <4>4. act'[i].readers = act[i].readers + 1
        BY <2>4, <3>1, <3>3 DEF Register, Types
      <4>5. \A j \in Infohash : /\ j # i => act'[j].readers = act[j].readers
                                 /\ act'[j].mapped = act[j].mapped
        BY <2>4, <3>1, <3>3 DEF Register, Types
      <4>6. ASSUME NEW j \in Infohash PROVE act'[j].readers = Cardinality(Streaming(j)')
        BY <4>2, <4>3, <4>4, <4>5 DEF Registered
      <4> QED BY <2>4, <4>5, <4>6 DEF Register, Registered, Types
    <3> QED BY <3>2, <3>3
  <2>5. CASE Progress(p)
    <3>1. \A j \in Infohash : act'[j].readers = act[j].readers /\ act'[j].mapped = act[j].mapped
      BY <2>5 DEF Progress, Types
    <3> QED BY <2>5, <3>1 DEF Progress, playVars, Registered, Streaming
  <2>6. CASE PlayEnd(p)
    <3>1. PICK i \in Infohash : i = ih[p] /\ pc[p] = "stream"
      BY <2>6 DEF PlayEnd, Types
    <3>2. CASE ~ptr[p]
      <4>1. \A j \in Infohash : Streaming(j)' = Streaming(j)
        BY <2>6, <3>2, <2>0 DEF PlayEnd, Streaming, Types
      <4> QED BY <2>6, <3>2, <4>1 DEF PlayEnd, Registered, Types
    <3>3. CASE ptr[p]
      <4>1. p \in Streaming(i) /\ Streaming(i)' = Streaming(i) \ {p}
        BY <2>6, <3>1, <3>3, <2>0 DEF PlayEnd, Streaming, Types
      <4>2. \A j \in Infohash : j # i => Streaming(j)' = Streaming(j)
        BY <2>6, <3>1, <3>3, <2>0 DEF PlayEnd, Streaming, Types
      <4>3. Cardinality(Streaming(i)') = Cardinality(Streaming(i)) - 1
        BY <4>1, StreamingFinite, FS_RemoveElement
      <4>4. act'[i].readers = act[i].readers - 1
        BY <2>6, <3>1, <3>3 DEF PlayEnd, Types
      <4>5. \A j \in Infohash : /\ j # i => act'[j].readers = act[j].readers
                                 /\ act'[j].mapped = act[j].mapped
        BY <2>6, <3>1, <3>3 DEF PlayEnd, Types
      <4>6. ASSUME NEW j \in Infohash PROVE act'[j].readers = Cardinality(Streaming(j)')
        BY <4>2, <4>3, <4>4, <4>5 DEF Registered
      <4> QED BY <2>6, <4>5, <4>6 DEF PlayEnd, Registered, Types
    <3> QED BY <3>2, <3>3
  <2> QED BY <1>1, <2>1, <2>2, <2>3, <2>4, <2>5, <2>6 DEF PlayNext
<1>2. CASE Forget
  <2>1. PICK v : /\ act' = [act EXCEPT ![v] = Absent]
                 /\ ptr' = [p \in Play |-> ptr[p] /\ ih[p] # v]
                 /\ pc' = pc /\ ih' = ih
    BY <1>2 DEF Forget
  <2>2. \A p \in Play : ptr'[p] <=> ptr[p] /\ ih[p] # v
    BY <2>1, Zenon
  <2>3. \A i : Streaming(i)' = IF i = v THEN {} ELSE Streaming(i)
    BY <2>1, <2>2 DEF Streaming
  <2>4. \A i \in Infohash : act'[i] = IF i = v THEN Absent ELSE act[i]
    BY <2>1 DEF Types
  <2>5. \A i \in Infohash : act'[i].readers = Cardinality(Streaming(i)')
    BY <2>3, <2>4, FS_EmptySet DEF Registered, Absent
  <2> QED BY <2>1, <2>2, <2>4, <2>5 DEF Registered
<1>3. ASSUME Sweep, ~Forget PROVE UNCHANGED <<pc, ih, ptr, act>>
  BY <1>3 DEF Sweep, Scan, Owners, Plan, DropTorrent, RemoveEntry, RemoveFails, ForgetMedia,
              NextEntry, Publish, Peek, shared, playVars
<1>4. ASSUME \/ Tick \/ UNCHANGED vars \/ \E i \in Infohash : InfoArrives(i)
      PROVE  UNCHANGED <<pc, ih, ptr, act>>
  BY <1>4 DEF Tick, InfoArrives, vars, playVars
<1> QED BY <1>1, <1>2, <1>3, <1>4, RegisteredKept DEF Next

LEMMA HeldStep == Types /\ Held /\ [Next]_vars => Held'
<1> SUFFICES ASSUME Types, Held, [Next]_vars PROVE Held'
  OBVIOUS
<1>1. CASE UNCHANGED <<pc, ih, live, tor>>
  BY <1>1 DEF Held
<1>2. ASSUME NEW p \in Play, PlayNext(p) PROVE Held'
  <2>1. ASSUME NEW i \in Infohash, Ask(p, i) PROVE Held'
    BY <2>1 DEF Ask, Held, Types
  <2>2. CASE InfoFails(p)
    BY <2>2 DEF InfoFails, Held, Types
  <2>3. CASE RecordMedia(p)
    BY <2>3 DEF RecordMedia, Held, Types
  <2>4. CASE TakeRecord(p)
    BY <2>4 DEF TakeRecord, Held, Types
  <2>5. CASE Register(p)
    BY <2>5 DEF Register, Held, Types
  <2>6. CASE Progress(p)
    BY <2>6, <1>1 DEF Progress, playVars
  <2>7. CASE PlayEnd(p)
    BY <2>7 DEF PlayEnd, Held, Types
  <2>8. CASE Lookup(p)
    BY <2>8 DEF Lookup, Held, Types
  <2>9. CASE Add(p)
    BY <2>9 DEF Add, Held, Types
  <2>10. CASE AddFails(p)
    BY <2>10 DEF AddFails, Held, Types
  <2> QED BY <1>2, <2>1, <2>2, <2>3, <2>4, <2>5, <2>6, <2>7, <2>8, <2>9, <2>10 DEF PlayNext
<1>3. CASE DropTorrent
  <2>1. CASE UNCHANGED <<tor, live>>
    BY <1>3, <2>1, <1>1 DEF DropTorrent
  <2>2. CASE ~UNCHANGED <<tor, live>>
    <3>1. PICK v : /\ tor' = [tor EXCEPT ![v] = "none"]
                   /\ live' = [p \in Play |-> live[p] /\ ih[p] # v]
                   /\ pc' = pc /\ ih' = ih
      BY <1>3, <2>2 DEF DropTorrent
    <3>2. \A p \in Play : live'[p] <=> live[p] /\ ih[p] # v
      BY <3>1, Zenon
    <3> QED BY <3>1, <3>2 DEF Held, Types
  <2> QED BY <2>1, <2>2
<1>4. ASSUME NEW i \in Infohash, InfoArrives(i) PROVE Held'
  BY <1>4 DEF InfoArrives, playVars, Held, Types
<1>5. ASSUME Sweep, ~DropTorrent PROVE UNCHANGED <<pc, ih, live, tor>>
  BY <1>5 DEF Sweep, Scan, Owners, Plan, RemoveEntry, RemoveFails, Forget, ForgetMedia,
              NextEntry, Publish, Peek, shared, playVars
<1>6. ASSUME Tick \/ UNCHANGED vars PROVE UNCHANGED <<pc, ih, live, tor>>
  BY <1>6 DEF Tick, vars, playVars
<1> QED BY <1>1, <1>2, <1>3, <1>4, <1>5, <1>6 DEF Next

LEMMA SeenKept ==
  Seen /\ UNCHANGED <<pc, ih, ptr, live, units, late>>
    /\ (spc' \in {"idle", "owners"} => spc \in {"idle", "owners"}) => Seen'
BY DEF Seen

LEMMA SeenStep == Types /\ Registered /\ Held /\ Seen /\ [Next]_vars => Seen'
<1> SUFFICES ASSUME Types, Registered, Held, Seen, [Next]_vars PROVE Seen'
  OBVIOUS
<1>1. ASSUME NEW p \in Play, PlayNext(p) PROVE Seen'
  <2>1. ASSUME NEW i \in Infohash, Ask(p, i) PROVE Seen'
    BY <2>1 DEF Ask, unlessPlay, sweepVars, history, Seen, Types
  <2>2. CASE InfoFails(p)
    BY <2>2 DEF InfoFails, unlessPlay, sweepVars, history, Seen, Types
  <2>3. CASE RecordMedia(p)
    BY <2>3 DEF RecordMedia, unlessPlay, sweepVars, history, Seen, Types
  <2>4. CASE TakeRecord(p)
    BY <2>4 DEF TakeRecord, unlessPlay, sweepVars, history, Seen, Types
  <2>5. CASE Register(p)
    <3>1. units' = units /\ spc' = spc /\ ih' = ih /\ ptr' = ptr /\ live' = live
      BY <2>5 DEF Register, unlessPlay, sweepVars
    <3>2. \A r \in Play : r # p => pc'[r] = pc[r]
      BY <2>5 DEF Register, Types
    <3>3. late \subseteq late' /\ (Looked(ih[p]) => p \in late')
      BY <2>5 DEF Register
    <3>4. \A u \in units : u.name = ih[p] => Looked(ih[p])
      BY DEF Seen, Looked
    <3> QED BY <3>1, <3>2, <3>3, <3>4 DEF Seen
  <2>6. CASE Progress(p)
    BY <2>6, SeenKept DEF Progress, unlessPlay, playVars, sweepVars
  <2>7. CASE PlayEnd(p)
    BY <2>7 DEF PlayEnd, unlessPlay, sweepVars, Seen, Types
  <2>8. CASE Lookup(p) \/ Add(p) \/ AddFails(p)
    BY <2>8 DEF Lookup, Add, AddFails, unlessPlay, sweepVars, history, Seen, Types
  <2> QED BY <1>1, <2>1, <2>2, <2>3, <2>4, <2>5, <2>6, <2>7, <2>8 DEF PlayNext
<1>2. CASE Sweep
  <2>1. CASE Scan
    BY <2>1 DEF Scan, Seen, shared
  <2>2. CASE Owners
    <3>1. UNCHANGED <<pc, ih, ptr, live, late, tor>> /\ spc' = "peek"
      BY <2>2 DEF Owners, shared, playVars, history
    <3>2. ASSUME NEW u \in units' PROVE u.name \notin Infohash \/ tor[u.name] # "info"
      BY <2>2 DEF Owners, Unit, Kind
    <3>3. \A p \in Play : pc[p] = "stream" /\ live[p] =>
                             ih[p] \in Infohash /\ tor[ih[p]] = "info"
      BY DEF Held, Types
    <3> QED BY <3>1, <3>2, <3>3 DEF Seen
  <2>3. ASSUME NEW n \in Name, Peek(n) PROVE Seen'
    <3>1. UNCHANGED <<pc, ih, ptr, live, late>> /\ spc' = spc /\ spc = "peek"
      BY <2>3 DEF Peek, shared, playVars, history
    <3>2. PICK u : /\ units' = units \cup {u}
                   /\ u = IF act[n].mapped THEN Unit(n, act[n].readers, act[n].last)
                                           ELSE Unit(n, 0, -1)
      BY <2>3 DEF Peek
    <3>3. ASSUME NEW p \in Play, pc[p] = "stream", ptr[p], u.name = ih[p] PROVE u.readers > 0
      <4>1. u.name = n /\ n \in Infohash
        BY <3>2, <3>3 DEF Unit, Types
      <4>2. act[n].mapped /\ p \in Streaming(n)
        BY <3>3, <4>1 DEF Registered, Streaming
      <4>3. Cardinality(Streaming(n)) > 0
        BY <4>2, StreamingFinite, FS_EmptySet
      <4>4. u.readers = Cardinality(Streaming(n))
        BY <3>2, <4>1, <4>2 DEF Unit, Registered
      <4> QED BY <4>3, <4>4
    <3> QED BY <3>1, <3>2, <3>3 DEF Seen
  <2>4. CASE DropTorrent
    <3>1. UNCHANGED <<pc, ih, ptr, units, late>> /\ spc = "apply" /\ spc' = "remove"
      BY <2>4 DEF DropTorrent, history
    <3>2. \A p \in Play : live'[p] => live[p]
      BY <2>4, Zenon DEF DropTorrent
    <3> QED BY <3>1, <3>2 DEF Seen
  <2>5. CASE Forget
    <3>1. UNCHANGED <<pc, ih, live, units, late>> /\ spc = "forget" /\ spc' = "forgetMedia"
      BY <2>5 DEF Forget, history
    <3>2. \A p \in Play : ptr'[p] => ptr[p]
      BY <2>5, Zenon DEF Forget
    <3> QED BY <3>1, <3>2 DEF Seen
  <2>6. CASE Publish
    BY <2>6 DEF Publish, Seen
  <2>7. CASE Plan \/ RemoveEntry \/ RemoveFails \/ ForgetMedia \/ NextEntry
    BY <2>7, SeenKept DEF Plan, RemoveEntry, RemoveFails, ForgetMedia, NextEntry, shared,
                          playVars, history
  <2> QED BY <1>2, <2>1, <2>2, <2>3, <2>4, <2>5, <2>6, <2>7 DEF Sweep
<1>3. ASSUME \/ Tick \/ UNCHANGED vars \/ \E i \in Infohash : InfoArrives(i)
      PROVE  Seen'
  BY <1>3, SeenKept DEF Tick, InfoArrives, vars, unlessPlay, playVars, sweepVars, history
<1> QED BY <1>1, <1>2, <1>3 DEF Next

Planned(U) == [unit : U, reason : {"retention", "budget", "reserve"}]

LEMMA SparedStep == Finite /\ Seen /\ Spared /\ [Next]_vars => Spared'
<1> SUFFICES ASSUME Finite, Seen, Spared, [Next]_vars PROVE Spared'
  OBVIOUS
<1>0. plan \in Seq(Planned(units)) /\ \A k \in DOMAIN plan : ~(plan[k].unit.readers > 0)
  BY DEF Spared, Planned
<1> DEFINE Fine == /\ plan' \in Seq(Planned(units'))
                   /\ \A k \in DOMAIN plan' : ~(plan'[k].unit.readers > 0)
                   /\ spc' \in {"remove", "forget", "forgetMedia", "next"} => plan' # <<>>
<1> SUFFICES Fine
  BY DEF Spared, Planned
<1>1. ASSUME units \subseteq units', plan' = plan,
             spc' \in {"remove", "forget", "forgetMedia", "next"} => plan # <<>>
      PROVE  Fine
  <2>1. Planned(units) \subseteq Planned(units')
    BY <1>1 DEF Planned
  <2>2. plan \in Seq(Planned(units'))
    BY <1>0, <2>1
  <2> QED BY <1>0, <1>1, <2>2
<1>2. CASE Owners
  BY <1>1, <1>2 DEF Owners, Seen
<1>3. ASSUME NEW n \in Name, Peek(n) PROVE Fine
  BY <1>1, <1>3 DEF Peek
<1>4. CASE Plan
  <2>1. PICK o \in Orders(units) : plan' = PlanCache(o, q')
    BY <1>4 DEF Plan
  <2>2. PICK n \in Nat : n = Cardinality(units)
    BY FS_CardinalityType DEF Finite
  <2>3. o \in [1..n -> units]
    BY <2>1, <2>2 DEF Orders, SetToSeqs
  <2>4. plan' \in Seq(Decisions(Unprotected(units, q')))
    BY <2>1, <2>3, PlanSparesProtected
  <2>5. Decisions(Unprotected(units, q')) \subseteq Planned(units)
    BY DEF Decisions, Unprotected, Planned
  <2>6. \A d \in Decisions(Unprotected(units, q')) : ~(d.unit.readers > 0)
    BY DEF Decisions, Unprotected, Protected
  <2>7. units' = units /\ spc' = "apply"
    BY <1>4 DEF Plan
  <2> QED BY <2>4, <2>5, <2>6, <2>7
<1>5. CASE RemoveFails \/ NextEntry
  <2>0. plan # <<>> /\ spc' = "apply"
    BY <1>5 DEF RemoveFails, NextEntry, Spared
  <2>1. plan' = Tail(plan) /\ units' = units
    BY <1>5 DEF RemoveFails, NextEntry
  <2>2. /\ Tail(plan) \in Seq(Planned(units))
        /\ \A k \in DOMAIN Tail(plan) : Tail(plan)[k] = plan[k + 1] /\ k + 1 \in DOMAIN plan
    BY <1>0, <2>0
  <2> QED BY <1>0, <2>0, <2>1, <2>2
<1>6. CASE Publish
  BY <1>6 DEF Publish
<1>7. CASE Scan \/ DropTorrent \/ RemoveEntry \/ Forget \/ ForgetMedia
  <2>1. units' = units /\ plan' = plan
    BY <1>7 DEF Scan, DropTorrent, RemoveEntry, Forget, ForgetMedia
  <2>2. spc' \in {"remove", "forget", "forgetMedia", "next"} => plan # <<>>
    BY <1>7 DEF Scan, DropTorrent, RemoveEntry, Forget, ForgetMedia, Spared
  <2> QED BY <1>1, <2>1, <2>2
<1>8. ASSUME \/ Tick \/ UNCHANGED vars \/ \E i \in Infohash : InfoArrives(i)
             \/ \E p \in Play : PlayNext(p)
      PROVE  Fine
  <2>1. UNCHANGED <<units, plan, spc>>
    BY <1>8 DEF Tick, vars, InfoArrives, PlayNext, Ask, Lookup, Add, AddFails, InfoFails,
                RecordMedia, TakeRecord, Register, Progress, PlayEnd, unlessPlay, sweepVars
  <2> QED BY <1>1, <2>1 DEF Spared
<1> QED BY <1>2, <1>3, <1>4, <1>5, <1>6, <1>7, <1>8 DEF Next, Sweep

----------------------------------------------------------------------------
(* The theorems.                                                           *)

LEMMA SweepInvariant == Spec => []SweepInv
<1>1. Init => SweepInv
  BY InitHolds
<1>2. SweepInv /\ [Next]_vars => SweepInv'
  BY TypesStep, FiniteStep, LeaksStep, RegisteredStep, HeldStep, SeenStep, SparedStep
     DEF SweepInv
<1> QED BY <1>1, <1>2, PTL DEF Spec

\* Whatever the plays and the sweeps do and whichever of their steps fail, a lock
\* has the record beside it by which it is released.
THEOREM LocksAreReleasable == Spec => []LocksKeepRecords
<1>1. SweepInv => LocksKeepRecords
  BY DEF SweepInv, Leaks
<1> QED BY <1>1, SweepInvariant, PTL

\* For any number of plays, entries and configurations, the sweep turns only to
\* files whose streams all registered after it had looked at them.
THEOREM EarlierStreamsAreSpared == Spec => RemovalSparesEarlierStreams
<1> DEFINE A == spc = "apply" /\ spc' = "remove" =>
                  \A p \in Play : pc[p] = "stream" /\ ih[p] = Victim.name /\ ptr[p] /\ live[p]
                                    => p \in late
<1>1. ASSUME SweepInv, [Next]_vars, spc = "apply", spc' = "remove",
             NEW p \in Play, pc[p] = "stream", ih[p] = Victim.name, ptr[p], live[p]
      PROVE  p \in late
  <2>1. plan # <<>>
    <3>1. ASSUME plan = <<>> PROVE ~[Next]_vars
      BY <1>1, <3>1
         DEF Next, Sweep, vars, Tick, InfoArrives, PlayNext, Ask, Lookup, Add, AddFails,
             InfoFails, RecordMedia, TakeRecord, Register, Progress, PlayEnd, Scan, Owners, Peek, Plan, DropTorrent,
             RemoveEntry, RemoveFails, Forget, ForgetMedia, NextEntry, Publish, unlessPlay,
             sweepVars
    <3> QED BY <1>1, <3>1
  <2>2. plan \in Seq(Planned(units)) /\ ~(plan[1].unit.readers > 0)
    BY <1>1, <2>1 DEF SweepInv, Spared, Planned
  <2>3. Victim = plan[1].unit /\ plan[1] \in Planned(units)
    BY <2>1, <2>2 DEF Victim
  <2>4. Victim \in units /\ ~(Victim.readers > 0)
    BY <2>2, <2>3 DEF Planned
  <2> QED BY <1>1, <2>4 DEF SweepInv, Seen
<1>2. SweepInv /\ [Next]_vars => [A]_vars
  BY <1>1
<1> QED BY <1>2, SweepInvariant, PTL DEF Spec, RemovalSparesEarlierStreams

----------------------------------------------------------------------------
(* The sums of sizes.                                                      *)

Sizes(d, S) == MapThenSumSet(LAMBDA n : d[n].bytes, S)
PartialOf(d) == {n \in DOMAIN d : Partial(d[n])}

\* What the directory may hold: finitely many entries of some size each.
Directory(d) == IsFiniteSet(DOMAIN d) /\ \A n \in DOMAIN d : d[n].bytes \in Nat

LEMMA SizesUnfold ==
  ASSUME NEW S, NEW R, NEW d, NEW w, NEW g, IsFiniteSet(S), R \subseteq S,
         \A n \in S : w[n] = d[n].bytes, SumUnfolds(g, SUBSET S, w)
  PROVE  Sizes(d, R) = g[R]
<1> DEFINE P(h) == h = [t \in SUBSET R |-> IF t = {} THEN 0
                          ELSE d[First(t)].bytes + h[t \ {First(t)}]]
<1>0. IsFiniteSet(R)
  BY FS_Subset
<1>1. \A t \in SUBSET R : t # {} => w[First(t)] = d[First(t)].bytes
  BY <1>0, Smaller
<1>2. \A h : P(h) <=> SumUnfolds(h, SUBSET R, w)
  BY <1>1 DEF SumUnfolds
<1>3. Sizes(d, R) = (CHOOSE h : P(h))[R]
  BY DEF Sizes, MapThenSumSet, MapThenFoldSet, First
<1>4. \E h : SumUnfolds(h, SUBSET R, w)
  BY <1>0, SumExists
<1> HIDE DEF P
<1>5. P(CHOOSE h : P(h))
  BY <1>2, <1>4
<1>6. PICK f : f = (CHOOSE h : P(h))
  OBVIOUS
<1>7. SumUnfolds(f, SUBSET R, w) /\ Sizes(d, R) = f[R]
  BY <1>2, <1>3, <1>5, <1>6
<1>8. g[R] = f[R]
  BY <1>7, SumsAgree
<1> QED BY <1>7, <1>8

LEMMA SizesSame ==
  ASSUME NEW d, NEW e, NEW R, IsFiniteSet(R), \A n \in R : e[n].bytes = d[n].bytes
  PROVE  Sizes(e, R) = Sizes(d, R)
<1>1. PICK w : w = [n \in R |-> d[n].bytes]
  OBVIOUS
<1>2. \A n \in R : w[n] = d[n].bytes /\ w[n] = e[n].bytes
  BY <1>1
<1>3. PICK g : SumUnfolds(g, SUBSET R, w)
  BY SumExists
<1>4. Sizes(d, R) = g[R]
  BY <1>2, <1>3, SizesUnfold
<1>5. Sizes(e, R) = g[R]
  BY <1>2, <1>3, SizesUnfold
<1> QED BY <1>4, <1>5

\* Sums depend on the sizes summed alone, and grow by each.
LEMMA SizesSum ==
  ASSUME NEW d, NEW S, IsFiniteSet(S), \A n \in S : d[n].bytes \in Nat
  PROVE  /\ Sizes(d, {}) = 0
         /\ \A R \in SUBSET S : Sizes(d, R) \in Nat
         /\ \A R \in SUBSET S : \A n \in R : Sizes(d, R) = d[n].bytes + Sizes(d, R \ {n})
<1>1. PICK w : w = [n \in S |-> d[n].bytes]
  OBVIOUS
<1>2. \A n \in S : w[n] = d[n].bytes /\ w[n] \in Nat
  BY <1>1
<1>3. PICK g : SumUnfolds(g, SUBSET S, w)
  BY SumExists
<1>4. Whole(w, S)
  BY <1>2 DEF Whole
<1>5. Adds(g, S, w)
  BY <1>3, <1>4, SumSteps
<1>6. \A R \in SUBSET S : Sizes(d, R) = g[R]
  BY <1>2, <1>3, SizesUnfold
<1>7. ASSUME NEW R \in SUBSET S, NEW n \in R
      PROVE  Sizes(d, R) = d[n].bytes + Sizes(d, R \ {n})
  <2>1. R \ {n} \in SUBSET S /\ n \in S
    OBVIOUS
  <2>2. g[R] = w[n] + g[R \ {n}]
    BY <1>5 DEF Adds
  <2> QED BY <1>2, <1>6, <2>1, <2>2
<1> QED BY <1>5, <1>6, <1>7 DEF Adds

LEMMA SizesTyped ==
  ASSUME NEW d, IsFiniteSet(DOMAIN d), \A n \in DOMAIN d : d[n].bytes \in Nat
  PROVE  Sizes(d, DOMAIN d) \in Nat /\ Sizes(d, PartialOf(d)) \in Nat
<1>1. DOMAIN d \in SUBSET DOMAIN d /\ PartialOf(d) \in SUBSET DOMAIN d
  BY DEF PartialOf
<1> QED BY <1>1, SizesSum

\* One entry less.
LEMMA OneGone ==
  ASSUME NEW d, NEW e, NEW v, Directory(d), v \in DOMAIN d,
         e = [n \in DOMAIN d \ {v} |-> d[n]]
  PROVE  /\ Sizes(d, DOMAIN d) = d[v].bytes + Sizes(e, DOMAIN e)
         /\ Cardinality(DOMAIN d) = Cardinality(DOMAIN e) + 1
         /\ Sizes(d, PartialOf(d)) =
              (IF Partial(d[v]) THEN d[v].bytes ELSE 0) + Sizes(e, PartialOf(e))
         /\ Sizes(e, DOMAIN e) \in Nat /\ Sizes(e, PartialOf(e)) \in Nat
         /\ Cardinality(DOMAIN e) \in Nat
         /\ d[v].bytes \in Nat
<1> DEFINE S == DOMAIN d
           R == DOMAIN d \ {v}
<1>1. DOMAIN e = R /\ \A n \in R : e[n] = d[n]
  OBVIOUS
<1>2. IsFiniteSet(S) /\ IsFiniteSet(R) /\ \A n \in S : d[n].bytes \in Nat
  BY FS_RemoveElement DEF Directory
<1>3. /\ Cardinality(S) = Cardinality(R) + 1
      /\ Cardinality(R) \in Nat
  BY <1>2, FS_RemoveElement, FS_CardinalityType
<1>4. \A Q \in SUBSET R : Sizes(e, Q) = Sizes(d, Q)
  <2> SUFFICES ASSUME NEW Q \in SUBSET R PROVE Sizes(e, Q) = Sizes(d, Q)
    OBVIOUS
  <2>1. IsFiniteSet(Q)
    BY <1>2, FS_Subset
  <2>2. \A n \in Q : e[n].bytes = d[n].bytes
    BY <1>1
  <2> QED BY <2>1, <2>2, SizesSame
<1>5. /\ \A Q \in SUBSET S : Sizes(d, Q) \in Nat
      /\ \A Q \in SUBSET S : \A n \in Q : Sizes(d, Q) = d[n].bytes + Sizes(d, Q \ {n})
  BY <1>2, SizesSum
<1>6. Sizes(d, S) = d[v].bytes + Sizes(d, R)
  BY <1>5
<1>7. PartialOf(e) = PartialOf(d) \ {v} /\ PartialOf(e) \subseteq R /\ PartialOf(d) \subseteq S
  BY <1>1 DEF PartialOf
<1>8. Sizes(d, PartialOf(d)) =
        (IF Partial(d[v]) THEN d[v].bytes ELSE 0) + Sizes(d, PartialOf(e))
  <2>1. CASE Partial(d[v])
    <3>1. v \in PartialOf(d)
      BY <2>1 DEF PartialOf
    <3> QED BY <1>5, <1>7, <2>1, <3>1
  <2>2. CASE ~Partial(d[v])
    <3>1. PartialOf(e) = PartialOf(d)
      BY <1>7, <2>2 DEF PartialOf
    <3>2. Sizes(d, PartialOf(d)) \in Nat
      BY <1>5, <1>7
    <3> QED BY <2>2, <3>1, <3>2
  <2> QED BY <2>1, <2>2
<1> QED BY <1>1, <1>2, <1>3, <1>4, <1>5, <1>6, <1>7, <1>8

\* One entry smaller by a part of it.
Torn(d, v, x) == [d EXCEPT ![v] = x]

LEMMA OneTorn ==
  ASSUME NEW d, NEW v, NEW x, Directory(d), v \in DOMAIN d,
         x.bytes \in Nat, x.bytes <= d[v].bytes
  PROVE  /\ DOMAIN Torn(d, v, x) = DOMAIN d
         /\ Sizes(d, DOMAIN d) =
              (d[v].bytes - x.bytes) + Sizes(Torn(d, v, x), DOMAIN Torn(d, v, x))
         /\ Sizes(Torn(d, v, x), DOMAIN Torn(d, v, x)) \in Nat
<1>0. PICK e : e = Torn(d, v, x)
  OBVIOUS
<1> DEFINE S == DOMAIN d
           R == DOMAIN d \ {v}
<1>1. DOMAIN e = S /\ e[v] = x /\ \A n \in R : e[n] = d[n]
  BY <1>0 DEF Torn
<1>2. IsFiniteSet(S) /\ IsFiniteSet(R) /\ \A n \in S : d[n].bytes \in Nat
  BY FS_RemoveElement DEF Directory
<1>3. \A n \in S : e[n].bytes \in Nat
  BY <1>1, <1>2
<1>5. Sizes(e, R) = Sizes(d, R)
  <2>1. \A n \in R : e[n].bytes = d[n].bytes
    BY <1>1
  <2> QED BY <1>2, <2>1, SizesSame
<1>6. Sizes(d, S) = d[v].bytes + Sizes(d, R) /\ Sizes(d, R) \in Nat
  <2>1. S \in SUBSET S /\ R \in SUBSET S
    OBVIOUS
  <2> QED BY <1>2, <2>1, SizesSum
<1>7. Sizes(e, S) = x.bytes + Sizes(e, R)
  <2>1. \A Q \in SUBSET S : \A n \in Q : Sizes(e, Q) = e[n].bytes + Sizes(e, Q \ {n})
    BY <1>2, <1>3, SizesSum
  <2>2. S \in SUBSET S /\ v \in S
    OBVIOUS
  <2> QED BY <1>1, <2>1, <2>2
<1>8. Sizes(e, S) \in Nat
  BY <1>5, <1>6, <1>7
<1>9. Sizes(d, S) = (d[v].bytes - x.bytes) + Sizes(e, S)
  <2>1. d[v].bytes \in Nat
    BY <1>2
  <2> QED BY <1>5, <1>6, <1>7, <2>1
<1> QED BY <1>0, <1>1, <1>8, <1>9

----------------------------------------------------------------------------
(* What the sweep counts, beside what is on disk.                          *)

\* Units are made of entries scanned, one of each.
Amounts ==
  /\ \A n \in DOMAIN disk : disk[n].bytes \in Nat
  /\ \A n \in DOMAIN snap : snap[n].bytes \in Nat
  /\ \A u \in units : /\ u.name \in DOMAIN snap
                       /\ u.bytes = snap[u.name].bytes /\ u.part = snap[u.name].part
  /\ \A u, v \in units : u.name = v.name => u = v

\* No entry is planned twice.
Entries == \A j, k \in DOMAIN plan : plan[j].unit.name = plan[k].unit.name => j = k

\* A sweep begins with empty sums and never counts more than was taken.
Books ==
  /\ freed.bytes \in Int /\ freed.count \in Int /\ freed.partialBytes \in Int
  /\ stats.evictedBytes \in Int /\ gone \in Int /\ freed.bytes <= gone
  /\ spc \in {"idle", "owners", "peek"} => freed = NoSums /\ gone = 0
  /\ spc \in {"apply", "remove", "forget", "forgetMedia", "next"} => q.used = Bytes(snap)

\* What the sweep has not come to yet: entries it may plan, and those it planned.
Due(n) ==
  \/ spc \in {"owners", "peek"} /\ n \in DOMAIN snap
  \/ /\ spc \in {"apply", "remove", "forget", "forgetMedia", "next"}
     /\ \E k \in DOMAIN plan : /\ k > 1 \/ spc \in {"apply", "remove"}
                               /\ n = plan[k].unit.name

\* It is on disk still, and streams only add to it.
Grown == \A n : Due(n) => n \in DOMAIN disk /\ snap[n].bytes <= disk[n].bytes

\* The directory is what was scanned less what was taken.
Accounted(d) ==
  /\ DOMAIN d \subseteq DOMAIN snap
  /\ Sizes(snap, DOMAIN snap) = Sizes(d, DOMAIN d) + gone
  /\ Cardinality(DOMAIN snap) = Cardinality(DOMAIN d) + freed.count
  /\ gone = freed.bytes =>
       Sizes(snap, PartialOf(snap)) = Sizes(d, PartialOf(d)) + freed.partialBytes

\* With no write since the scan: what is due is as it was scanned.
Undisturbed ==
  quiet =>
    /\ spc \in {"owners", "peek"} => disk = snap
    /\ spc \in {"apply", "remove", "forget", "forgetMedia", "next"} => Accounted(disk)
    /\ \A n : Due(n) => disk[n] = snap[n]

CountInv == Amounts /\ Entries /\ Books /\ Grown /\ Undisturbed

LEMMA BytesAreSizes == \A d : Bytes(d) = Sizes(d, DOMAIN d)
BY DEF Bytes, Sizes, MapThenSumSet, MapThenFoldSet

LEMMA Directories == Finite /\ Amounts => Directory(disk) /\ Directory(snap)
BY SweepAssumption, FS_Subset DEF Finite, Amounts, Directory

\* What a step that is none of the sweep's leaves alone.
LEMMA NotSweeping ==
  ASSUME [Next]_vars, ~Sweep
  PROVE  /\ UNCHANGED <<spc, snap, units, q, plan, freed, stats, sweeps, gone>>
         /\ UNCHANGED <<disk, quiet>> \/ \E p \in Play : Progress(p)
BY DEF Next, vars, Tick, InfoArrives, PlayNext, Ask, Lookup, Add, AddFails, InfoFails,
       RecordMedia, TakeRecord, Register, PlayEnd, Progress, unlessPlay, sweepVars, history

LEMMA CountInit == Init => CountInv
<1> SUFFICES ASSUME Init PROVE CountInv
  OBVIOUS
<1>1. Amounts
  BY DEF Init, Amounts, Empty
<1>2. Entries /\ Books
  BY DEF Init, Entries, Books, NoSums
<1>3. Grown /\ Undisturbed
  BY DEF Init, Grown, Due, Undisturbed
<1> QED BY <1>1, <1>2, <1>3 DEF CountInv

\* A failed removal leaves an entry smaller, or as it was.
LEMMA RemainsLess ==
  ASSUME NEW e, e.bytes \in Nat, NEW x \in Remains(e)
  PROVE  x.bytes \in Nat /\ x.bytes <= e.bytes /\ (x.bytes = e.bytes => x = e)
BY DEF Remains

LEMMA AmountsStep == Types /\ Finite /\ Seen /\ Amounts /\ [Next]_vars => Amounts'
<1> SUFFICES ASSUME Types, Finite, Seen, Amounts, [Next]_vars PROVE Amounts'
  OBVIOUS
<1>1. CASE UNCHANGED <<disk, snap, units>>
  BY <1>1 DEF Amounts
<1>2. ASSUME NEW p \in Play, Progress(p) PROVE Amounts'
  <2>1. snap' = snap /\ units' = units
    BY <1>2 DEF Progress, unlessPlay, sweepVars
  <2>2. \A n \in DOMAIN disk' : disk'[n].bytes \in Nat
    <3>1. PICK i, old : /\ old = IF i \in DOMAIN disk THEN disk[i].bytes ELSE 0
                        /\ disk' = IF old < Full
                             THEN [n \in DOMAIN disk \cup {i} |->
                                     IF n = i
                                     THEN [bytes |-> old + 1, mod |-> clock,
                                           part |-> old + 1 < Full]
                                     ELSE disk[n]]
                             ELSE disk
      BY <1>2 DEF Progress
    <3>2. old + 1 \in Nat
      BY <3>1 DEF Amounts
    <3> QED BY <3>1, <3>2 DEF Amounts
  <2> QED BY <2>1, <2>2 DEF Amounts
<1>3. CASE Sweep
  <2>1. CASE Scan
    <3>1. snap' = disk /\ disk' = disk /\ units' = {}
      BY <2>1 DEF Scan, Seen
    <3> QED BY <3>1 DEF Amounts
  <2>2. CASE Owners
    <3>1. disk' = disk /\ snap' = snap
      BY <2>2 DEF Owners
    <3>2. \A u \in units' : \E n \in DOMAIN snap : u = Unit(n, 0, -1)
      BY <2>2 DEF Owners
    <3>3. \A n : /\ Unit(n, 0, -1).name = n /\ Unit(n, 0, -1).bytes = snap[n].bytes
                  /\ Unit(n, 0, -1).part = snap[n].part
      BY DEF Unit
    <3> QED BY <3>1, <3>2, <3>3 DEF Amounts
  <2>3. ASSUME NEW n \in Name, Peek(n) PROVE Amounts'
    <3>1. disk' = disk /\ snap' = snap /\ n \in DOMAIN snap /\ n \notin {u.name : u \in units}
      BY <2>3 DEF Peek, ToPeek
    <3>2. PICK u : /\ units' = units \cup {u}
                   /\ u = IF act[n].mapped THEN Unit(n, act[n].readers, act[n].last)
                                           ELSE Unit(n, 0, -1)
      BY <2>3 DEF Peek
    <3>3. u.name = n /\ u.bytes = snap[n].bytes /\ u.part = snap[n].part
      BY <3>2 DEF Unit
    <3> QED BY <3>1, <3>2, <3>3 DEF Amounts
  <2>4. CASE RemoveEntry
    <3>1. PICK v : disk' = [n \in DOMAIN disk \ {v} |-> disk[n]]
      BY <2>4 DEF RemoveEntry
    <3>2. snap' = snap /\ units' = units
      BY <2>4 DEF RemoveEntry
    <3> QED BY <3>1, <3>2 DEF Amounts
  <2>5. CASE Publish
    BY <2>5 DEF Publish, Amounts, Empty
  <2>6. CASE Plan \/ DropTorrent \/ Forget \/ ForgetMedia \/ NextEntry
    BY <2>6, <1>1 DEF Plan, DropTorrent, Forget, ForgetMedia, NextEntry
  <2>7. CASE RemoveFails
    <3>1. PICK v, left : left \in Remains(disk[v]) /\ disk' = [disk EXCEPT ![v] = left]
      BY <2>7 DEF RemoveFails
    <3>2. snap' = snap /\ units' = units
      BY <2>7 DEF RemoveFails
    <3>3. v \in DOMAIN disk => left.bytes \in Nat
      BY <3>1, RemainsLess DEF Amounts
    <3> QED BY <3>1, <3>2, <3>3 DEF Amounts
  <2> QED BY <1>3, <2>1, <2>2, <2>3, <2>4, <2>5, <2>6, <2>7 DEF Sweep
<1> QED BY <1>1, <1>2, <1>3, NotSweeping

\* What planCache is given, and what comes of it.
LEMMA PlanStep ==
  ASSUME Finite, Amounts, Plan
  PROVE  /\ MeetsPolicy(plan', units, q') /\ Once(plan')
         /\ plan' \in Seq(Planned(units))
         /\ q'.used = Bytes(snap)
<1>1. PICK free \in {-1, Volume - Bytes(disk)}, o \in Orders(units) :
        /\ q' = [used |-> Bytes(snap), free |-> free, now |-> now, budget |-> cfg.budget,
                 reserve |-> cfg.reserve, grace |-> cfg.grace, retain |-> cfg.retain]
        /\ plan' = PlanCache(o, q')
  BY DEF Plan
<1>2. q'.used = Bytes(snap) /\ q'.free = free
  BY <1>1
<1>3. Bytes(snap) \in Int /\ Bytes(disk) \in Int
  BY Directories, BytesAreSizes, SizesSum DEF Directory
<1>4. Policy(q')
  BY <1>1, <1>2, <1>3, SweepAssumption DEF Policy
<1>5. Sized(units)
  BY DEF Amounts, Sized
<1>6. Planning(units, o, q')
  BY <1>1, <1>4, <1>5, OrdersPlan DEF Finite
<1>7. MeetsPolicy(plan', units, q') /\ Once(plan')
  BY <1>1, <1>6, PlanPolicy
<1>8. plan' \in Seq(Planned(units))
  <2>1. PICK n \in Nat : n = Len(o)
    BY <1>6 DEF Planning
  <2>2. o \in [1..n -> units]
    BY <1>6, <2>1 DEF Planning
  <2>3. plan' \in Seq(Decisions(Unprotected(units, q')))
    BY <1>1, <2>2, PlanSparesProtected
  <2>4. Decisions(Unprotected(units, q')) \subseteq Planned(units)
    BY DEF Decisions, Unprotected, Planned
  <2> QED BY <2>3, <2>4
<1> QED BY <1>2, <1>7, <1>8

LEMMA VictimIs ==
  ASSUME Spared, Amounts, plan # <<>>
  PROVE  /\ 1 \in DOMAIN plan /\ Victim = plan[1].unit /\ Victim \in units
         /\ Victim.name \in DOMAIN snap /\ Victim.bytes = snap[Victim.name].bytes
         /\ Victim.part = snap[Victim.name].part /\ Victim.bytes \in Nat
<1>1. plan \in Seq(Planned(units))
  BY DEF Spared, Planned
<1>2. 1 \in DOMAIN plan /\ Head(plan) = plan[1] /\ plan[1] \in Planned(units)
  BY <1>1
<1>3. Victim \in units /\ Victim = plan[1].unit
  BY <1>2 DEF Victim, Planned
<1> QED BY <1>2, <1>3 DEF Amounts

LEMMA TailIs ==
  ASSUME Spared, plan # <<>>
  PROVE  \A k \in DOMAIN Tail(plan) : Tail(plan)[k] = plan[k + 1] /\ k + 1 \in DOMAIN plan
                                      /\ k + 1 > 1 /\ k \in Nat
<1>1. plan \in Seq(Planned(units))
  BY DEF Spared, Planned
<1> QED BY <1>1

LEMMA EntriesStep == Finite /\ Amounts /\ Spared /\ Entries /\ [Next]_vars => Entries'
<1> SUFFICES ASSUME Finite, Amounts, Spared, Entries, [Next]_vars PROVE Entries'
  OBVIOUS
<1>1. CASE plan' = plan
  BY <1>1 DEF Entries
<1>2. CASE Plan
  <2>1. Once(plan') /\ plan' \in Seq(Planned(units))
    BY <1>2, PlanStep
  <2>2. \A k \in DOMAIN plan' : plan'[k].unit \in units
    <3>1. \A k \in DOMAIN plan' : plan'[k] \in Planned(units)
      BY <2>1
    <3> QED BY <3>1 DEF Planned
  <2> QED BY <2>1, <2>2 DEF Entries, Once, Amounts
<1>3. CASE RemoveFails \/ NextEntry
  <2>1. plan # <<>> /\ plan' = Tail(plan)
    BY <1>3 DEF RemoveFails, NextEntry, Spared
  <2> QED BY <2>1, TailIs DEF Entries
<1>4. CASE Publish
  BY <1>4 DEF Publish, Entries
<1>5. CASE Scan \/ Owners \/ (\E n \in Name : Peek(n)) \/ DropTorrent \/ RemoveEntry
             \/ Forget \/ ForgetMedia
  BY <1>5, <1>1 DEF Scan, Owners, Peek, DropTorrent, RemoveEntry, Forget, ForgetMedia
<1> QED BY <1>1, <1>2, <1>3, <1>4, <1>5, NotSweeping DEF Sweep

LEMMA DueShrinks ==
  ASSUME Finite, Amounts, Spared, Entries, [Next]_vars, ~Scan, NEW n, Due(n)'
  PROVE  /\ Due(n) /\ snap' = snap
         /\ RemoveEntry \/ RemoveFails => n # Victim.name
<1>1. CASE ~Sweep
  BY <1>1, NotSweeping DEF Due, Sweep, RemoveEntry, RemoveFails
<1>2. CASE Owners \/ (\E m \in Name : Peek(m)) \/ DropTorrent \/ Forget \/ ForgetMedia
  BY <1>2 DEF Due, Owners, Peek, DropTorrent, Forget, ForgetMedia, RemoveEntry, RemoveFails
<1>3. CASE Plan
  <2>1. PICK k \in DOMAIN plan' : n = plan'[k].unit.name
    BY <1>3 DEF Plan, Due
  <2>2. plan' \in Seq(Planned(units))
    BY <1>3, PlanStep
  <2>3. plan'[k] \in Planned(units)
    BY <2>1, <2>2
  <2>4. n \in DOMAIN snap
    BY <2>1, <2>3 DEF Planned, Amounts
  <2> QED BY <1>3, <2>4 DEF Plan, Due, RemoveEntry, RemoveFails
<1>4. CASE RemoveEntry
  <2>0. spc = "remove" /\ spc' \in {"forget", "next"} /\ plan' = plan /\ snap' = snap
    BY <1>4 DEF RemoveEntry
  <2>1. PICK k \in DOMAIN plan : k > 1 /\ n = plan[k].unit.name
    BY <2>0 DEF Due
  <2>2. 1 \in DOMAIN plan /\ Victim = plan[1].unit
    BY <2>0, VictimIs DEF Spared
  <2> QED BY <2>0, <2>1, <2>2 DEF Due, Entries
<1>5. CASE RemoveFails \/ NextEntry
  <2>0. /\ spc \in {"remove", "next"} /\ spc' = "apply" /\ plan' = Tail(plan)
        /\ snap' = snap /\ plan # <<>>
    BY <1>5 DEF RemoveFails, NextEntry, Spared
  <2>1. PICK k \in DOMAIN Tail(plan) : n = Tail(plan)[k].unit.name
    BY <2>0 DEF Due
  <2>2. k + 1 \in DOMAIN plan /\ k + 1 > 1 /\ n = plan[k + 1].unit.name
    BY <2>0, <2>1, TailIs
  <2>3. 1 \in DOMAIN plan /\ Victim = plan[1].unit
    BY <2>0, VictimIs
  <2> QED BY <2>0, <2>2, <2>3 DEF Due, Entries
<1>6. CASE Publish
  BY <1>6 DEF Publish, Due
<1> QED BY <1>1, <1>2, <1>3, <1>4, <1>5, <1>6 DEF Sweep

\* What is done to the entry of a name that is due: streams may add to it.
LEMMA DueKept ==
  ASSUME Finite, Amounts, Spared, Entries, [Next]_vars, ~Scan, NEW n, Due(n)',
         n \in DOMAIN disk
  PROVE  /\ n \in DOMAIN disk' /\ disk[n].bytes <= disk'[n].bytes
         /\ quiet' => quiet /\ disk'[n] = disk[n]
<1>0. disk[n].bytes \in Nat
  BY DEF Amounts
<1>1. CASE UNCHANGED disk /\ (quiet' => quiet)
  BY <1>0, <1>1
<1>2. ASSUME NEW p \in Play, Progress(p)
      PROVE  /\ n \in DOMAIN disk' /\ disk[n].bytes <= disk'[n].bytes
             /\ quiet' => quiet /\ disk'[n] = disk[n]
  <2>1. PICK i, old : /\ old = IF i \in DOMAIN disk THEN disk[i].bytes ELSE 0
                      /\ disk' = IF old < Full
                           THEN [m \in DOMAIN disk \cup {i} |->
                                   IF m = i
                                   THEN [bytes |-> old + 1, mod |-> clock,
                                         part |-> old + 1 < Full]
                                   ELSE disk[m]]
                           ELSE disk
                      /\ quiet' = (quiet /\ disk' = disk)
    BY <1>2 DEF Progress
  <2>2. n \in DOMAIN disk' /\ disk[n].bytes <= disk'[n].bytes
    BY <1>0, <2>1
  <2>3. quiet' => quiet /\ disk' = disk
    BY <2>1
  <2> QED BY <2>2, <2>3
<1>3. CASE RemoveEntry
  <2>1. PICK v : v = Victim.name /\ disk' = [m \in DOMAIN disk \ {v} |-> disk[m]]
                 /\ quiet' = quiet
    BY <1>3 DEF RemoveEntry
  <2>2. n # v
    BY <1>3, <2>1, DueShrinks
  <2> QED BY <1>0, <2>1, <2>2
<1>4. CASE RemoveFails
  <2>1. PICK v, left : v = Victim.name /\ disk' = [disk EXCEPT ![v] = left] /\ quiet' = quiet
    BY <1>4 DEF RemoveFails
  <2>2. n # v
    BY <1>4, <2>1, DueShrinks
  <2> QED BY <1>0, <2>1, <2>2
<1>5. ASSUME Sweep, ~RemoveEntry, ~RemoveFails PROVE UNCHANGED disk /\ (quiet' => quiet)
  BY <1>5 DEF Sweep, Owners, Plan, Peek, DropTorrent, Forget, ForgetMedia, NextEntry,
              Publish, history
<1> QED BY <1>1, <1>2, <1>3, <1>4, <1>5, NotSweeping

LEMMA GrownStep ==
  Finite /\ Amounts /\ Amounts' /\ Spared /\ Entries /\ Grown /\ [Next]_vars => Grown'
<1> SUFFICES ASSUME Finite, Amounts, Amounts', Spared, Entries, Grown, [Next]_vars,
                    NEW n, Due(n)'
             PROVE  n \in DOMAIN disk' /\ snap'[n].bytes <= disk'[n].bytes
  BY DEF Grown
<1>1. CASE Scan
  BY <1>1 DEF Scan, Due, Amounts
<1>2. CASE ~Scan
  <2>1. Due(n) /\ snap' = snap
    BY <1>2, DueShrinks
  <2>2. n \in DOMAIN disk /\ snap[n].bytes <= disk[n].bytes
    BY <2>1 DEF Grown
  <2>3. n \in DOMAIN disk' /\ disk[n].bytes <= disk'[n].bytes
    BY <1>2, <2>2, DueKept
  <2>4. snap[n].bytes \in Nat /\ disk[n].bytes \in Nat /\ disk'[n].bytes \in Int
    <3>1. n \in DOMAIN snap
      <4>1. plan \in Seq(Planned(units))
        BY DEF Spared, Planned
      <4>2. \A k \in DOMAIN plan : plan[k] \in Planned(units)
        BY <4>1
      <4> QED BY <2>1, <4>2 DEF Due, Planned, Amounts
    <3> QED BY <2>2, <2>3, <3>1 DEF Amounts
  <2> QED BY <2>1, <2>2, <2>3, <2>4
<1> QED BY <1>1, <1>2

\* The entry about to be removed is on disk, and no smaller than its unit.
LEMMA VictimDue ==
  ASSUME Amounts, Spared, Grown, spc = "remove"
  PROVE  /\ Due(Victim.name) /\ Victim.name \in DOMAIN disk
         /\ disk[Victim.name].bytes \in Nat /\ Victim.bytes \in Nat
         /\ Victim.bytes <= disk[Victim.name].bytes
<1>1. /\ 1 \in DOMAIN plan /\ Victim = plan[1].unit
      /\ Victim.bytes = snap[Victim.name].bytes /\ Victim.bytes \in Nat
  BY VictimIs DEF Spared
<1>2. Due(Victim.name)
  BY <1>1 DEF Due
<1> QED BY <1>1, <1>2 DEF Grown, Amounts

LEMMA BooksStep ==
  Finite /\ Amounts /\ Spared /\ Grown /\ Books /\ [Next]_vars => Books'
<1> SUFFICES ASSUME Finite, Amounts, Spared, Grown, Books, [Next]_vars PROVE Books'
  OBVIOUS
<1>0. snap' = snap => Bytes(snap)' = Bytes(snap)
  OBVIOUS
<1>1. CASE ~Sweep
  BY <1>0, <1>1, NotSweeping DEF Books
<1>2. CASE Scan
  BY <1>2 DEF Scan, Books
<1>3. CASE Owners \/ \E n \in Name : Peek(n)
  BY <1>3 DEF Owners, Peek, history, Books
<1>4. CASE Plan
  <2>1. q'.used = Bytes(snap) /\ snap' = snap
    BY <1>4, PlanStep DEF Plan
  <2> QED BY <1>0, <1>4, <2>1 DEF Plan, history, Books, NoSums
<1>5. CASE DropTorrent \/ Forget \/ ForgetMedia \/ NextEntry
  BY <1>0, <1>5 DEF DropTorrent, Forget, ForgetMedia, NextEntry, history, Books
<1>6. CASE RemoveEntry
  <2>1. PICK u, d : u = Victim /\ d = disk[Victim.name].bytes
    OBVIOUS
  <2>2. u.bytes \in Nat /\ d \in Nat /\ u.bytes <= d
    BY <1>6, <2>1, VictimDue DEF RemoveEntry
  <2>3. /\ freed' = Counted(freed, u) /\ gone' = gone + d /\ stats' = stats
        /\ snap' = snap /\ q' = q /\ spc = "remove" /\ spc' \in {"forget", "next"}
    BY <1>6, <2>1 DEF RemoveEntry
  <2>4. /\ freed'.bytes = freed.bytes + u.bytes /\ freed'.count = freed.count + 1
        /\ freed'.partialBytes = freed.partialBytes + (IF Partial(u) THEN u.bytes ELSE 0)
    BY <2>3 DEF Counted
  <2> QED BY <1>0, <2>2, <2>3, <2>4 DEF Books
<1>7. CASE RemoveFails
  <2>1. PICK d, left : /\ d = disk[Victim.name] /\ left \in Remains(d)
                       /\ gone' = gone + (d.bytes - left.bytes)
    BY <1>7 DEF RemoveFails
  <2>2. d.bytes \in Nat
    BY <1>7, <2>1, VictimDue DEF RemoveFails
  <2>3. left.bytes \in Nat /\ left.bytes <= d.bytes
    BY <2>1, <2>2, RemainsLess
  <2>4. gone' \in Int /\ freed.bytes <= gone'
    BY <2>1, <2>2, <2>3 DEF Books
  <2> QED BY <1>0, <1>7, <2>4 DEF RemoveFails, Books
<1>8. CASE Publish
  BY <1>8 DEF Publish, history, Books, NoSums
<1> QED BY <1>1, <1>2, <1>3, <1>4, <1>5, <1>6, <1>7, <1>8 DEF Sweep

\* One entry removed and counted.
LEMMA RemovalAccounted ==
  ASSUME Finite, Amounts, Spared, Grown, Books, Accounted(disk), RemoveEntry,
         disk[Victim.name] = snap[Victim.name]
  PROVE  Accounted(disk)'
<1>0. PICK v, u : u = Victim /\ v = Victim.name
  OBVIOUS
<1>1. /\ disk' = [n \in DOMAIN disk \ {v} |-> disk[n]] /\ snap' = snap
      /\ freed' = Counted(freed, u) /\ gone' = gone + disk[v].bytes
  BY <1>0 DEF RemoveEntry
<1>2. Directory(disk) /\ v \in DOMAIN disk
  BY <1>0, Directories, VictimDue DEF RemoveEntry
<1>3. plan # <<>>
  BY DEF RemoveEntry, Spared
<1>4. u.bytes = disk[v].bytes /\ (Partial(u) <=> Partial(disk[v]))
  BY <1>0, <1>3, VictimIs DEF Partial
<1>5. PICK e : e = disk'
  OBVIOUS
<1>6. /\ Sizes(disk, DOMAIN disk) = disk[v].bytes + Sizes(e, DOMAIN e)
      /\ Cardinality(DOMAIN disk) = Cardinality(DOMAIN e) + 1
      /\ Sizes(disk, PartialOf(disk)) =
           (IF Partial(disk[v]) THEN disk[v].bytes ELSE 0) + Sizes(e, PartialOf(e))
      /\ Sizes(e, DOMAIN e) \in Nat /\ Sizes(e, PartialOf(e)) \in Nat
      /\ Cardinality(DOMAIN e) \in Nat
      /\ disk[v].bytes \in Nat
  BY <1>1, <1>2, <1>5, OneGone
<1>7. /\ freed'.bytes = freed.bytes + disk[v].bytes /\ freed'.count = freed.count + 1
      /\ freed'.partialBytes =
           freed.partialBytes + (IF Partial(disk[v]) THEN disk[v].bytes ELSE 0)
  BY <1>1, <1>4 DEF Counted
<1>8. DOMAIN e \subseteq DOMAIN snap
  BY <1>1, <1>5 DEF Accounted
<1>9. Sizes(snap, DOMAIN snap) = Sizes(e, DOMAIN e) + gone'
  <2>1. Sizes(snap, DOMAIN snap) = (disk[v].bytes + Sizes(e, DOMAIN e)) + gone
    BY <1>6 DEF Accounted
  <2> QED BY <1>1, <1>6, <2>1 DEF Books
<1>10. Cardinality(DOMAIN snap) = Cardinality(DOMAIN e) + freed'.count
  <2>1. Cardinality(DOMAIN snap) = (Cardinality(DOMAIN e) + 1) + freed.count
    BY <1>6 DEF Accounted
  <2> QED BY <1>6, <1>7, <2>1 DEF Books
<1>11. gone' = freed'.bytes =>
         Sizes(snap, PartialOf(snap)) = Sizes(e, PartialOf(e)) + freed'.partialBytes
  <2>0. gone' = freed'.bytes => gone = freed.bytes
    BY <1>1, <1>6, <1>7 DEF Books
  <2>1. gone = freed.bytes =>
          Sizes(snap, PartialOf(snap)) =
            ((IF Partial(disk[v]) THEN disk[v].bytes ELSE 0) + Sizes(e, PartialOf(e)))
              + freed.partialBytes
    BY <1>6 DEF Accounted
  <2>2. PICK b \in Nat : b = (IF Partial(disk[v]) THEN disk[v].bytes ELSE 0)
    BY <1>6
  <2> QED BY <1>6, <1>7, <2>0, <2>1, <2>2 DEF Books
<1>12. /\ (Sizes(snap, DOMAIN snap))' = Sizes(snap, DOMAIN snap)
       /\ (Sizes(snap, PartialOf(snap)))' = Sizes(snap, PartialOf(snap))
       /\ (Sizes(disk, DOMAIN disk))' = Sizes(e, DOMAIN e)
       /\ (Sizes(disk, PartialOf(disk)))' = Sizes(e, PartialOf(e))
  BY <1>1, <1>5
<1> QED BY <1>1, <1>5, <1>8, <1>9, <1>10, <1>11, <1>12 DEF Accounted

\* One entry that could not be removed, of which a part may be gone.
LEMMA FailureAccounted ==
  ASSUME Finite, Amounts, Spared, Grown, Books, Accounted(disk), RemoveFails
  PROVE  Accounted(disk)'
<1>0. PICK v, x : /\ v = Victim.name /\ x \in Remains(disk[v])
                  /\ disk' = [disk EXCEPT ![v] = x]
                  /\ gone' = gone + (disk[v].bytes - x.bytes)
                  /\ freed' = freed /\ snap' = snap
  BY DEF RemoveFails
<1>1. Directory(disk) /\ v \in DOMAIN disk /\ disk[v].bytes \in Nat
  BY <1>0, Directories, VictimDue DEF RemoveFails
<1>2. x.bytes \in Nat /\ x.bytes <= disk[v].bytes /\ (x.bytes = disk[v].bytes => x = disk[v])
  BY <1>0, <1>1, RemainsLess
<1>3. PICK e : e = disk'
  OBVIOUS
<1>4. e = Torn(disk, v, x)
  BY <1>0, <1>3 DEF Torn
<1>5. /\ DOMAIN e = DOMAIN disk
      /\ Sizes(disk, DOMAIN disk) = (disk[v].bytes - x.bytes) + Sizes(e, DOMAIN e)
      /\ Sizes(e, DOMAIN e) \in Nat
  BY <1>1, <1>2, <1>4, OneTorn
<1>6. Sizes(snap, DOMAIN snap) = Sizes(e, DOMAIN e) + gone'
  <2>1. Sizes(snap, DOMAIN snap) =
          ((disk[v].bytes - x.bytes) + Sizes(e, DOMAIN e)) + gone
    BY <1>5 DEF Accounted
  <2> QED BY <1>0, <1>1, <1>2, <1>5, <2>1 DEF Books
<1>7. ASSUME gone' = freed'.bytes
      PROVE  Sizes(snap, PartialOf(snap)) = Sizes(e, PartialOf(e)) + freed'.partialBytes
  <2>1. gone = freed.bytes /\ x.bytes = disk[v].bytes
    BY <1>0, <1>1, <1>2, <1>7 DEF Books
  <2>2. \A n \in DOMAIN disk : e[n] = disk[n]
    BY <1>2, <1>4, <2>1 DEF Torn
  <2>3. PartialOf(e) = PartialOf(disk)
    BY <1>5, <2>2 DEF PartialOf
  <2>4. IsFiniteSet(PartialOf(disk)) /\ \A n \in PartialOf(disk) : e[n].bytes = disk[n].bytes
    BY <1>1, <2>2, FS_Subset DEF PartialOf, Directory
  <2>5. Sizes(e, PartialOf(disk)) = Sizes(disk, PartialOf(disk))
    BY <2>4, SizesSame
  <2> QED BY <1>0, <2>1, <2>3, <2>5 DEF Accounted
<1>8. /\ (Sizes(snap, DOMAIN snap))' = Sizes(snap, DOMAIN snap)
      /\ (Sizes(snap, PartialOf(snap)))' = Sizes(snap, PartialOf(snap))
      /\ (Sizes(disk, DOMAIN disk))' = Sizes(e, DOMAIN e)
      /\ (Sizes(disk, PartialOf(disk)))' = Sizes(e, PartialOf(e))
  BY <1>0, <1>3
<1> QED BY <1>0, <1>3, <1>5, <1>6, <1>7, <1>8 DEF Accounted

\* From the plan to the last removal.
Counting == {"apply", "remove", "forget", "forgetMedia", "next"}

LEMMA UndisturbedStep ==
  Finite /\ Amounts /\ Spared /\ Entries /\ Grown /\ Books /\ Undisturbed /\ [Next]_vars
    => Undisturbed'
<1> SUFFICES ASSUME Finite, Amounts, Spared, Entries, Grown, Books, Undisturbed, [Next]_vars,
                    quiet'
             PROVE  /\ spc' \in {"owners", "peek"} => disk' = snap'
                    /\ spc' \in Counting => Accounted(disk)'
                    /\ \A n : Due(n)' => disk'[n] = snap'[n]
  BY DEF Undisturbed, Counting
<1>1. CASE Scan
  BY <1>1 DEF Scan, Counting
<1>2. ASSUME ~Scan PROVE \A n : Due(n)' => disk'[n] = snap'[n]
  <2> SUFFICES ASSUME NEW n, Due(n)' PROVE disk'[n] = snap'[n]
    OBVIOUS
  <2>1. Due(n) /\ snap' = snap
    BY <1>2, DueShrinks
  <2>2. n \in DOMAIN disk
    BY <2>1 DEF Grown
  <2>3. quiet /\ disk'[n] = disk[n]
    BY <1>2, <2>2, DueKept
  <2> QED BY <2>1, <2>3 DEF Undisturbed
<1>3. ASSUME UNCHANGED <<disk, snap, freed, gone, quiet>>,
             spc' \in {"owners", "peek"} => spc \in {"owners", "peek"},
             spc' \in Counting => spc \in Counting
      PROVE  /\ spc' \in {"owners", "peek"} => disk' = snap'
             /\ spc' \in Counting => Accounted(disk)'
  BY <1>3 DEF Undisturbed, Accounted, Counting
<1>4. CASE ~Sweep
  <2>1. CASE UNCHANGED <<disk, quiet>>
    BY <1>2, <1>3, <1>4, <2>1, NotSweeping DEF Sweep
  <2>2. ASSUME NEW p \in Play, Progress(p) PROVE UNCHANGED <<disk, quiet>>
    BY <2>2 DEF Progress
  <2> QED BY <1>4, <2>1, <2>2, NotSweeping
<1>5. CASE Owners \/ (\E n \in Name : Peek(n)) \/ DropTorrent \/ Forget \/ ForgetMedia
           \/ NextEntry \/ Publish
  <2>1. CASE Publish
    BY <2>1 DEF Publish
  <2>2. CASE ~Publish
    <3>1. ~Scan
      BY <1>5, <2>2 DEF Owners, Peek, DropTorrent, Forget, ForgetMedia, NextEntry, Scan
    <3>2. UNCHANGED <<disk, snap, freed, gone, quiet>>
      BY <1>5, <2>2 DEF Owners, Peek, DropTorrent, Forget, ForgetMedia, NextEntry, history
    <3>3. /\ spc' \in {"owners", "peek"} => spc \in {"owners", "peek"}
          /\ spc' \in Counting => spc \in Counting
      BY <1>5, <2>2 DEF Owners, Peek, DropTorrent, Forget, ForgetMedia, NextEntry, Counting
    <3> QED BY <1>2, <1>3, <3>1, <3>2, <3>3
  <2> QED BY <2>1, <2>2
<1>6. CASE Plan
  <2>1. /\ spc = "peek" /\ spc' = "apply" /\ disk' = disk /\ snap' = snap /\ quiet' = quiet
        /\ freed' = NoSums /\ gone' = 0
    BY <1>6 DEF Plan, history, Books
  <2>2. disk = snap
    BY <2>1 DEF Undisturbed
  <2>3. /\ Sizes(snap, DOMAIN snap) \in Nat /\ Sizes(snap, PartialOf(snap)) \in Nat
        /\ Cardinality(DOMAIN snap) \in Nat
    BY Directories, SizesTyped, FS_CardinalityType DEF Directory
  <2>4. Accounted(disk)'
    BY <2>1, <2>2, <2>3 DEF Accounted, NoSums
  <2> QED BY <1>2, <2>1, <2>4 DEF Scan
<1>7. CASE RemoveEntry
  <2>1. spc = "remove" /\ spc' \in {"forget", "next"} /\ quiet' = quiet
    BY <1>7 DEF RemoveEntry
  <2>2. Due(Victim.name)
    BY <2>1, VictimDue
  <2>3. Accounted(disk) /\ disk[Victim.name] = snap[Victim.name]
    BY <2>1, <2>2 DEF Undisturbed
  <2>4. Accounted(disk)'
    BY <1>7, <2>3, RemovalAccounted
  <2> QED BY <1>2, <2>1, <2>4 DEF Scan
<1>8. CASE RemoveFails
  <2>1. spc = "remove" /\ spc' = "apply" /\ quiet' = quiet
    BY <1>8 DEF RemoveFails
  <2>2. Accounted(disk)
    BY <2>1 DEF Undisturbed
  <2>3. Accounted(disk)'
    BY <1>8, <2>2, FailureAccounted
  <2> QED BY <1>2, <2>1, <2>3 DEF Scan
<1> QED BY <1>1, <1>4, <1>5, <1>6, <1>7, <1>8 DEF Sweep

LEMMA CountInvariant == Spec => [](SweepInv /\ CountInv)
<1>1. ASSUME SweepInv, CountInv, [Next]_vars PROVE CountInv'
  <2>1. /\ Types /\ Finite /\ Seen /\ Spared
        /\ Amounts /\ Entries /\ Books /\ Grown /\ Undisturbed
    BY <1>1 DEF SweepInv, CountInv
  <2>2. Amounts'
    BY <1>1, <2>1, AmountsStep
  <2> QED BY <1>1, <2>1, <2>2, EntriesStep, BooksStep, GrownStep, UndisturbedStep DEF CountInv
<1>2. SweepInv /\ CountInv /\ [Next]_vars => CountInv'
  BY <1>1
<1> QED BY <1>2, CountInit, SweepInvariant, PTL DEF Spec

\* For any directory, any plays and any failures, a sweep never claims more bytes
\* than it took, and the numbers it publishes are those of the disk it leaves, less
\* what failed removals took, when no stream wrote meanwhile.
THEOREM PublishedNumbersHold == Spec => StatsMatchDisk
<1> DEFINE A == spc = "apply" /\ spc' = "idle" =>
       LET evicted == stats'.evictedBytes - stats.evictedBytes IN
       /\ evicted <= gone
       /\ quiet =>
            /\ stats'.used = Bytes(disk) + (gone - evicted)
            /\ stats'.entries = Cardinality(DOMAIN disk)
            /\ gone = evicted =>
                 stats'.partial = MapThenSumSet(LAMBDA n : disk[n].bytes,
                                    {n \in DOMAIN disk : Partial(disk[n])})
<1>1. ASSUME SweepInv, CountInv, [Next]_vars, spc = "apply", spc' = "idle" PROVE A
  <2>0. Finite /\ Amounts /\ Books /\ Undisturbed
    BY <1>1 DEF SweepInv, CountInv
  <2>1. /\ stats'.used = q.used - freed.bytes
        /\ stats'.entries = Cardinality(DOMAIN snap) - freed.count
        /\ stats'.partial = BytesOf(PartialOf(snap)) - freed.partialBytes
        /\ stats'.evictedBytes = stats.evictedBytes + freed.bytes
    <3>1. Publish
      BY <1>1, NotSweeping DEF Sweep, Scan, Owners, Peek, Plan, DropTorrent, RemoveEntry,
         RemoveFails, Forget, ForgetMedia, NextEntry
    <3> QED BY <3>1 DEF Publish, PartialOf
  <2>2. stats'.evictedBytes - stats.evictedBytes = freed.bytes
    BY <2>0, <2>1 DEF Books
  <2>3. freed.bytes <= gone
    BY <2>0 DEF Books
  <2>4. q.used = Sizes(snap, DOMAIN snap) /\ Bytes(disk) = Sizes(disk, DOMAIN disk)
    BY <1>1, <2>0, BytesAreSizes DEF Books
  <2>5. BytesOf(PartialOf(snap)) = Sizes(snap, PartialOf(snap))
    BY DEF BytesOf, Sizes, MapThenSumSet, MapThenFoldSet
  <2>6. Sizes(disk, PartialOf(disk)) =
          MapThenSumSet(LAMBDA n : disk[n].bytes, {n \in DOMAIN disk : Partial(disk[n])})
    BY DEF Sizes, PartialOf, MapThenSumSet, MapThenFoldSet
  <2>7. /\ Sizes(disk, DOMAIN disk) \in Nat /\ Sizes(disk, PartialOf(disk)) \in Nat
        /\ Cardinality(DOMAIN disk) \in Nat
    BY <2>0, Directories, SizesTyped, FS_CardinalityType DEF Directory
  <2>8. ASSUME quiet
        PROVE  /\ stats'.used = Sizes(disk, DOMAIN disk) + (gone - freed.bytes)
               /\ stats'.entries = Cardinality(DOMAIN disk)
               /\ gone = freed.bytes => stats'.partial = Sizes(disk, PartialOf(disk))
    <3>1. Accounted(disk)
      BY <1>1, <2>0, <2>8 DEF Undisturbed
    <3> QED BY <2>0, <2>1, <2>4, <2>5, <2>7, <3>1 DEF Accounted, Books
  <2> QED BY <2>2, <2>3, <2>4, <2>6, <2>8
<1>2. SweepInv /\ CountInv /\ [Next]_vars => [A]_vars
  BY <1>1
<1> QED BY <1>2, CountInvariant, PTL DEF Spec, StatsMatchDisk

\* Whatever the directory holds and the policy asks, planCache meets it.
THEOREM PlansMeetPolicy == Spec => PlanMeetsPolicy
<1> DEFINE A == spc = "peek" /\ spc' = "apply" => MeetsPolicy(plan', units, q')
<1>1. ASSUME SweepInv, CountInv, [Next]_vars, spc = "peek", spc' = "apply"
      PROVE  MeetsPolicy(plan', units, q')
  <2>1. Plan
    BY <1>1, NotSweeping DEF Sweep, Scan, Owners, Peek, DropTorrent, RemoveEntry, RemoveFails,
       Forget, ForgetMedia, NextEntry, Publish
  <2> QED BY <1>1, <2>1, PlanStep DEF SweepInv, CountInv
<1>2. SweepInv /\ CountInv /\ [Next]_vars => [A]_vars
  BY <1>1
<1> QED BY <1>2, CountInvariant, PTL DEF Spec, PlanMeetsPolicy
=============================================================================
