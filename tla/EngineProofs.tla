---------------------------- MODULE EngineProofs ----------------------------
(***************************************************************************)
(* Proofs about Engine for any sets of requests and infohashes and any     *)
(* limits.  The inductive invariant adds to the checked invariants what    *)
(* the control point of a request says of its local variables.             *)
(***************************************************************************)
EXTENDS Engine, FiniteSetTheorems, TLAPS

Locals ==
  /\ \A p \in Request :
       /\ pc[p] \notin {"start", "done"} => ih[p] \in Infohash
       /\ pc[p] \in {"lookup", "drop"} => victim[p] \in Infohash
       /\ pc[p] \in {"pointer", "register", "stream"} => p \in Play
       /\ pc[p] \in {"sem", "recheck", "prebuffer"} => p \in Warm
       /\ ptr[p] => /\ pc[p] \in {"touch", "register", "stream"}
                    /\ act[ih[p]].mapped
  /\ jpc \in {"visit", "drop", "forget"} => jcur \in Infohash
  /\ jptr => jpc = "visit"

\* An unmapped infohash has no record that could be marked.
MarkedIsMapped == \A i \in Infohash : act[i].adding => act[i].mapped

\* The warms that hold a slot of warmSem.
InFlight == {w \in Warm : pc[w] \notin {"start", "sem", "done"}}

IInv ==
  /\ TypeOK /\ Locals /\ ReadersExact
  /\ AddingHasOwner /\ MarkedIsMapped /\ WarmSlotsExact
----------------------------------------------------------------------------
(* Finite sets of requests.                                                *)

LEMMA FiniteParts ==
  /\ \A i : IsFiniteSet(Registered(i))
  /\ IsFiniteSet(InFlight)
<1>1. \A i : Registered(i) \subseteq Play
  BY DEF Registered
<1>2. InFlight \subseteq Warm
  BY DEF InFlight
<1> QED
  BY <1>1, <1>2, FS_Subset, EngineAssumption

(* A registered play is counted, so its record's reader count is not zero. *)
LEMMA ReaderIsCounted ==
  ASSUME TypeOK, ReadersExact, NEW i \in Infohash, NEW p \in Registered(i)
  PROVE  act[i].readers - 1 \in Nat
<1>1. Registered(i) # {}
  OBVIOUS
<1>2. Cardinality(Registered(i)) # 0 /\ Cardinality(Registered(i)) \in Nat
  BY <1>1, FiniteParts, FS_EmptySet, FS_CardinalityType
<1> QED
  BY <1>2 DEF ReadersExact

(* A warm that is in flight holds a slot, so there is one to give back.    *)
LEMMA WarmHoldsSlot ==
  ASSUME WarmSlotsExact, NEW w \in InFlight
  PROVE  warmSlots - 1 \in Nat
<1>1. InFlight # {}
  OBVIOUS
<1>2. Cardinality(InFlight) # 0 /\ Cardinality(InFlight) \in Nat
  BY <1>1, FiniteParts, FS_EmptySet, FS_CardinalityType
<1> QED
  BY <1>2 DEF WarmSlotsExact, InFlight

----------------------------------------------------------------------------
(* Types and local variables.                                              *)

LEMMA InitInv == Init => IInv
<1> SUFFICES ASSUME Init PROVE IInv
  OBVIOUS
<1>1. TypeOK
  <2>1. jptr \in BOOLEAN /\ jold \in BOOLEAN
    BY DEF Init
  <2> QED
    BY <2>1, EngineAssumption DEF Init, TypeOK, Absent, Activity, Control
<1>4. Locals /\ AddingHasOwner /\ MarkedIsMapped
  BY DEF Init, Locals, AddingHasOwner, MarkedIsMapped, Absent, Request
<1>2. ReadersExact
  <2>1. \A i \in Infohash : Registered(i) = {}
    BY DEF Init, Registered, Streaming, Request
  <2> QED
    BY <2>1, FS_EmptySet DEF Init, ReadersExact, Absent
<1>3. WarmSlotsExact
  <2>1. InFlight = {}
    BY DEF Init, InFlight, Request
  <2> QED
    BY <2>1, FS_EmptySet, EngineAssumption DEF Init, WarmSlotsExact, InFlight
<1> QED
  BY <1>1, <1>2, <1>3, <1>4 DEF IInv

(* Writing one field of one record leaves the activity map well typed.     *)
LEMMA ActivityWrites ==
  ASSUME TypeOK, NEW i \in Infohash
  PROVE  /\ \A r \in Activity : [act EXCEPT ![i] = r] \in [Infohash -> Activity]
         /\ \A b \in BOOLEAN :
              [act EXCEPT ![i].adding = b] \in [Infohash -> Activity]
         /\ [act EXCEPT ![i].last = clock] \in [Infohash -> Activity]
         /\ \A n \in Nat :
              [act EXCEPT ![i].readers = n, ![i].last = clock]
                \in [Infohash -> Activity]
         /\ Absent \in Activity /\ Fresh \in Activity /\ Created(i) \in Activity
<1>1. /\ act \in [Infohash -> Activity] /\ act[i] \in Activity
      /\ clock \in 0..MaxClock
  BY DEF TypeOK
<1>2. \A r \in Activity : [act EXCEPT ![i] = r] \in [Infohash -> Activity]
  BY <1>1
<1>3. \A b \in BOOLEAN : [act[i] EXCEPT !.adding = b] \in Activity
  BY <1>1 DEF Activity
<1>4. [act[i] EXCEPT !.last = clock] \in Activity
  BY <1>1 DEF Activity
<1>5. \A n \in Nat : [act[i] EXCEPT !.readers = n, !.last = clock] \in Activity
  BY <1>1 DEF Activity
<1>6. Absent \in Activity /\ Fresh \in Activity
  BY <1>1, EngineAssumption DEF Activity, Absent, Fresh
<1>7. Created(i) \in Activity
  BY <1>1, <1>6 DEF Created
<1>8. \A b \in BOOLEAN :
        [act EXCEPT ![i].adding = b] \in [Infohash -> Activity]
  BY <1>1, <1>3
<1>9. [act EXCEPT ![i].last = clock] \in [Infohash -> Activity]
  BY <1>1, <1>4
<1>10. \A n \in Nat :
         [act EXCEPT ![i].readers = n, ![i].last = clock]
           \in [Infohash -> Activity]
  BY <1>1, <1>5 DEF Activity
<1> QED
  BY <1>2, <1>6, <1>7, <1>8, <1>9, <1>10

LEMMA TypeStep ==
  ASSUME IInv, Next
  PROVE  TypeOK' /\ Locals'
<1> USE EngineAssumption
    DEF IInv, TypeOK, Locals, Request, Goto, localVars, janitorVars
<1>1. ASSUME NEW p \in Play, NEW i \in Infohash, PlayArrive(p, i)
      PROVE  TypeOK' /\ Locals'
  BY <1>1 DEF PlayArrive, Control
<1>2. ASSUME NEW w \in Warm, NEW i \in Infohash, WarmArrive(w, i)
      PROVE  TypeOK' /\ Locals'
  BY <1>2 DEF WarmArrive, Control
<1>3. ASSUME NEW w \in Warm, WarmAcquire(w)
      PROVE  TypeOK' /\ Locals'
  BY <1>3 DEF WarmAcquire, Control
<1>4. ASSUME NEW p \in Request, TouchActivity(p)
      PROVE  TypeOK' /\ Locals'
  BY <1>4 DEF TouchActivity, Control, Created, Fresh, Activity
<1>5. ASSUME NEW p \in Request, TouchStamp(p)
      PROVE  TypeOK' /\ Locals'
  BY <1>5 DEF TouchStamp, Control, Activity
<1>6. ASSUME NEW p \in Request, FastPath(p)
      PROVE  TypeOK' /\ Locals'
  <2>1. CASE ih[p] \in cl
    <3>1. live' = [live EXCEPT ![p] = TRUE]
      BY <1>6, <2>1 DEF FastPath
    <3>2. live' \in [Request -> BOOLEAN]
      BY <3>1
    <3> QED
      BY <1>6, <2>1, <3>2 DEF FastPath, Control
  <2>2. CASE ~(ih[p] \in cl)
    BY <1>6, <2>2 DEF FastPath, Control
  <2> QED
    BY <2>1, <2>2
<1>7. ASSUME NEW p \in Request, LockFor(p)
      PROVE  TypeOK' /\ Locals'
  BY <1>7 DEF LockFor, Control
<1>8. ASSUME NEW p \in Request, AcquireAdd(p)
      PROVE  TypeOK' /\ Locals'
  <2>1. CASE ih[p] \in cl
    <3>1. live' = [live EXCEPT ![p] = TRUE]
      BY <1>8, <2>1 DEF AcquireAdd
    <3>2. live' \in [Request -> BOOLEAN]
      BY <3>1
    <3> QED
      BY <1>8, <2>1, <3>2 DEF AcquireAdd, Control, Locked
  <2>2. CASE ~(ih[p] \in cl)
    BY <1>8, <2>2 DEF AcquireAdd, Control, Locked
  <2> QED
    BY <2>1, <2>2
<1>9. ASSUME NEW p \in Request, MarkAdding(p)
      PROVE  TypeOK' /\ Locals'
  <2>1. act' \in [Infohash -> Activity]
    BY <1>9, ActivityWrites DEF MarkAdding, SetAdding
  <2>2. \A i \in Infohash : act'[i].mapped = act[i].mapped
    BY <1>9 DEF MarkAdding, SetAdding, Activity
  <2> QED
    BY <1>9, <2>1, <2>2 DEF MarkAdding, Control, Locked, InAdd
<1>10. ASSUME NEW p \in Request, CheckCap(p)
       PROVE  TypeOK' /\ Locals'
  BY <1>10 DEF CheckCap, Control, Locked, InAdd
<1>11. ASSUME NEW p \in Request, EvictPick(p)
       PROVE  TypeOK' /\ Locals'
  BY <1>11 DEF EvictPick, Control, Locked, InAdd, Forget, Oldest, Evictable, Absent, Activity
<1>12. ASSUME NEW p \in Request, EvictNone(p)
       PROVE  TypeOK' /\ Locals'
  BY <1>12 DEF EvictNone, Control, Locked, InAdd
<1>13. ASSUME NEW p \in Request, EvictLookup(p)
       PROVE  TypeOK' /\ Locals'
  <2>1. CASE victim[p] \in cl
    <3>1. live' = [live EXCEPT ![p] = TRUE]
      BY <1>13, <2>1 DEF EvictLookup
    <3>2. live' \in [Request -> BOOLEAN]
      BY <3>1
    <3> QED
      BY <1>13, <2>1, <3>2 DEF EvictLookup, Control, Locked, InAdd
  <2>2. CASE ~(victim[p] \in cl)
    BY <1>13, <2>2 DEF EvictLookup, Control, Locked, InAdd
  <2> QED
    BY <2>1, <2>2
<1>14. ASSUME NEW p \in Request, EvictDrop(p)
       PROVE  TypeOK' /\ Locals'
  BY <1>14 DEF EvictDrop, Drop, Control, Locked, InAdd
<1>15. ASSUME NEW p \in Request, AddMagnet(p)
       PROVE  TypeOK' /\ Locals'
  BY <1>15 DEF AddMagnet, Control, Locked, InAdd
<1>16. ASSUME NEW p \in Request, AddMagnetFails(p)
       PROVE  TypeOK' /\ Locals'
  BY <1>16 DEF AddMagnetFails, Control, Locked, InAdd
<1>17. ASSUME NEW p \in Request, EnsureReturn(p)
       PROVE  TypeOK' /\ Locals'
  <2>1. act' \in [Infohash -> Activity]
    BY <1>17, ActivityWrites DEF EnsureReturn, SetAdding
  <2>2. \A i \in Infohash : act'[i].mapped = act[i].mapped
    BY <1>17 DEF EnsureReturn, SetAdding, Activity
  <2> QED
    BY <1>17, <2>1, <2>2 DEF EnsureReturn, Control
<1>18. ASSUME NEW p \in Request, EnsureError(p)
       PROVE  TypeOK' /\ Locals'
  <2>1. warmSlots' \in Nat
    BY <1>18, WarmHoldsSlot DEF EnsureError, Finish, InFlight
  <2>2. act' \in [Infohash -> Activity]
    BY <1>18, ActivityWrites DEF EnsureError, SetAdding
  <2>3. \A i \in Infohash : act'[i].mapped = act[i].mapped
    BY <1>18 DEF EnsureError, SetAdding, Activity
  <2> QED
    BY <1>18, <2>1, <2>2, <2>3 DEF EnsureError, Finish, Control
<1>19. ASSUME NEW p \in Request, InfoArrives(p)
       PROVE  TypeOK' /\ Locals'
  BY <1>19 DEF InfoArrives, Control
<1>20. ASSUME NEW p \in Request, InfoFails(p)
       PROVE  TypeOK' /\ Locals'
  <2>1. warmSlots' \in Nat
    BY <1>20, WarmHoldsSlot DEF InfoFails, Finish, InFlight
  <2>2. act' \in [Infohash -> Activity]
    BY <1>20, ActivityWrites DEF InfoFails
  <2>3. \A i \in Infohash : act'[i].mapped = act[i].mapped
    BY <1>20 DEF InfoFails, Activity
  <2> QED
    BY <1>20, <2>1, <2>2, <2>3 DEF InfoFails, Finish, Control
<1>21. ASSUME NEW p \in Play, PlayActivity(p)
       PROVE  TypeOK' /\ Locals'
  BY <1>21 DEF PlayActivity, Control, Created, Fresh, Activity
<1>22. ASSUME NEW p \in Play, PlayRegister(p)
       PROVE  TypeOK' /\ Locals'
  BY <1>22 DEF PlayRegister, Control, Activity
<1>23. ASSUME NEW p \in Play, PlayAccess(p)
       PROVE  TypeOK' /\ Locals'
  BY <1>23 DEF PlayAccess, Streaming, Activity
<1>24. ASSUME NEW p \in Play, PlayEnd(p)
       PROVE  TypeOK' /\ Locals'
  <2>1. warmSlots' = warmSlots
    BY <1>24 DEF PlayEnd, Finish
  <2>2. ASSUME ptr[p] PROVE act' \in [Infohash -> Activity]
    <3>1. ih[p] \in Infohash /\ p \in Registered(ih[p])
      BY <1>24, <2>2 DEF PlayEnd, Streaming, Registered
    <3>2. act[ih[p]].readers - 1 \in Nat
      BY <3>1, ReaderIsCounted
    <3>3. act' = [act EXCEPT ![ih[p]].readers = act[ih[p]].readers - 1,
                             ![ih[p]].last = clock]
      BY <1>24, <2>2 DEF PlayEnd
    <3>4. \A n \in Nat :
            [act EXCEPT ![ih[p]].readers = n, ![ih[p]].last = clock]
              \in [Infohash -> Activity]
      BY <3>1, ActivityWrites
    <3> HIDE DEF TypeOK, Locals, IInv
    <3> QED
      BY <3>2, <3>3, <3>4
  <2>3. act' \in [Infohash -> Activity]
    BY <1>24, <2>2 DEF PlayEnd
  <2>4. \A i \in Infohash : act'[i].mapped = act[i].mapped
    BY <1>24 DEF PlayEnd, Streaming, Activity
  <2> QED
    BY <1>24, <2>1, <2>3, <2>4 DEF PlayEnd, Finish, Control
<1>25. ASSUME NEW w \in Warm, WarmRecheck(w)
       PROVE  TypeOK' /\ Locals'
  <2>1. warmSlots' \in Nat
    BY <1>25, WarmHoldsSlot DEF WarmRecheck, Finish, InFlight
  <2>2. act' \in [Infohash -> Activity]
    BY <1>25, ActivityWrites DEF WarmRecheck
  <2>3. \A i \in Infohash : act'[i].mapped = act[i].mapped
    BY <1>25 DEF WarmRecheck, Activity
  <2>4. CASE StreamBusy
    <3>1. Finish(w) /\ UNCHANGED <<cl, addLocks, clock, janitorVars>>
      BY <1>25, <2>4 DEF WarmRecheck
    <3> QED
      BY <1>25, <2>1, <2>2, <2>3, <3>1 DEF Finish, Control
  <2>5. CASE ~StreamBusy
    BY <1>25, <2>5 DEF WarmRecheck, Control
  <2> QED
    BY <2>4, <2>5
<1>26. ASSUME NEW w \in Warm, PrebufferEnd(w)
       PROVE  TypeOK' /\ Locals'
  <2>1. warmSlots' \in Nat
    BY <1>26, WarmHoldsSlot DEF PrebufferEnd, Finish, InFlight
  <2>2. act' \in [Infohash -> Activity]
    BY <1>26, ActivityWrites DEF PrebufferEnd
  <2>3. \A i \in Infohash : act'[i].mapped = act[i].mapped
    BY <1>26 DEF PrebufferEnd, Activity
  <2> QED
    BY <1>26, <2>1, <2>2, <2>3 DEF PrebufferEnd, Finish, Control
<1>27. ASSUME JanitorTick
       PROVE  TypeOK' /\ Locals'
  BY <1>27 DEF JanitorTick
<1>28. ASSUME NEW i \in Infohash, ReapLook(i)
       PROVE  TypeOK' /\ Locals'
  <2>1. act' \in [Infohash -> Activity]
    BY <1>28, ActivityWrites DEF ReapLook
  <2>2. \A j \in Infohash : act[j].mapped => act'[j].mapped
    BY <1>28 DEF ReapLook, Created, Fresh, Activity
  <2>3. jold' \in BOOLEAN /\ jptr' \in BOOLEAN /\ jcur' = i /\ jpc' = "visit"
    BY <1>28 DEF ReapLook, IdleRecord
  <2> QED
    BY <1>28, <2>1, <2>2, <2>3 DEF ReapLook
<1>29. ASSUME ReapDrop
       PROVE  TypeOK' /\ Locals'
  <2>1. CASE jcur \in jlive
    <3>1. /\ Drop(jcur) /\ jpc = "drop" /\ jpc' = "forget"
          /\ UNCHANGED <<pc, ih, ptr, victim, lk, act, addLocks, warmSlots,
                        clock, jnow, jtodo, jcur, jptr, jold>>
      BY <1>29, <2>1 DEF ReapDrop
    <3> QED
      BY <3>1 DEF Drop
  <2>2. CASE jcur \notin jlive
    BY <1>29, <2>2 DEF ReapDrop
  <2> QED
    BY <2>1, <2>2
<1>30. ASSUME ReapForget
       PROVE  TypeOK' /\ Locals'
  <2>1. TypeOK'
    BY <1>30 DEF ReapForget, Forget, Absent, Activity
  <2>2. Locals'
    BY <1>30 DEF ReapForget, Forget, Absent, Activity
  <2> QED
    BY <2>1, <2>2
<1>31. ASSUME ReapDone
       PROVE  TypeOK' /\ Locals'
  BY <1>31 DEF ReapDone
<1>32. ASSUME Tick
       PROVE  TypeOK' /\ Locals'
  BY <1>32 DEF Tick, Activity
<1>33. ASSUME ReapDecide
       PROVE  TypeOK' /\ Locals'
  <2>1. jpc' \in {"drop", "reap"} /\ jcur' \in {jcur, None} /\ jlive' \subseteq jlive
    BY <1>33 DEF ReapDecide
  <2>2. jpc' = "drop" => jcur' = jcur
    BY <1>33 DEF ReapDecide
  <2> QED
    BY <1>33, <2>1, <2>2 DEF ReapDecide, Activity
<1> QED
  BY <1>1, <1>2, <1>3, <1>4, <1>5, <1>6, <1>7, <1>8, <1>9, <1>10, <1>11, <1>12, <1>13, <1>14, <1>15, <1>16, <1>17, <1>18, <1>19, <1>20, <1>21, <1>22, <1>23, <1>24, <1>25, <1>26, <1>27, <1>28, <1>29, <1>30, <1>31, <1>32, <1>33
  DEF Next, Ensure, EvictOldest, WaitInfo, PlayNext, WarmNext, Janitor

----------------------------------------------------------------------------
(* Readers.                                                                *)

\* A step that changes neither a count nor who is registered where.
ReadersUntouched ==
  /\ \A i \in Infohash : act'[i].readers = act[i].readers
  /\ \A p \in Play : pc'[p] = "stream" <=> pc[p] = "stream"
  /\ \A p \in Play : pc[p] = "stream" => ih'[p] = ih[p] /\ ptr'[p] = ptr[p]

LEMMA UntouchedReaders ==
  ASSUME ReadersExact, ReadersUntouched
  PROVE  ReadersExact'
<1>1. \A i \in Infohash : Registered(i)' = Registered(i)
  BY DEF ReadersUntouched, Registered, Streaming
<1> QED
  BY <1>1 DEF ReadersExact, ReadersUntouched

(* No one is registered on an unmapped record.                             *)
LEMMA UnmappedUnread ==
  ASSUME IInv, NEW i \in Infohash, ~act[i].mapped
  PROVE  act[i].readers = 0
<1>1. Registered(i) = {}
  BY DEF IInv, Locals, Registered, Request
<1> QED
  BY <1>1, FS_EmptySet DEF IInv, ReadersExact

(* activity() never changes a count.                                       *)
LEMMA CreatedReaders ==
  ASSUME IInv, NEW i \in Infohash, act' = [act EXCEPT ![i] = Created(i)]
  PROVE  \A j \in Infohash : act'[j].readers = act[j].readers
BY UnmappedUnread DEF IInv, TypeOK, Activity, Created, Fresh

(* Deleting a record leaves it without a count and without a reader.       *)
LEMMA ForgottenReaders ==
  ASSUME IInv, NEW v \in Infohash, Forget(v), UNCHANGED ih,
         \A p \in Play : pc'[p] = "stream" <=> pc[p] = "stream"
  PROVE  ReadersExact'
<1> SUFFICES ASSUME NEW i \in Infohash
             PROVE  act'[i].readers = Cardinality(Registered(i)')
  BY DEF ReadersExact
<1>1. CASE i = v
  <2>1. Registered(i)' = {}
    BY <1>1 DEF Forget, Registered, Request
  <2>2. act'[i].readers = 0
    BY <1>1 DEF IInv, TypeOK, Forget, Absent
  <2> QED
    BY <2>1, <2>2, FS_EmptySet
<1>2. CASE i # v
  <2>1. Registered(i)' = Registered(i)
    BY <1>2 DEF Forget, Registered, Streaming, Request
  <2>2. act'[i].readers = act[i].readers
    BY <1>2 DEF IInv, TypeOK, Forget
  <2> QED
    BY <2>1, <2>2 DEF IInv, ReadersExact
<1> QED
  BY <1>1, <1>2

(* readers++ counts the play in on the record it holds.                    *)
LEMMA RegisterReaders ==
  ASSUME IInv, NEW p \in Play, PlayRegister(p)
  PROVE  ReadersExact'
<1> SUFFICES ASSUME NEW i \in Infohash
             PROVE  act'[i].readers = Cardinality(Registered(i)')
  BY DEF ReadersExact
<1>1. ih' = ih /\ ptr' = ptr /\ pc' = [pc EXCEPT ![p] = "stream"]
  BY DEF PlayRegister, Goto, localVars
<1>2. pc \in [Request -> Control] /\ p \in Request /\ pc[p] = "register"
  BY DEF IInv, TypeOK, PlayRegister, Request
<1>3. CASE ptr[p] /\ ih[p] = i
  <2>1. Registered(i)' = Registered(i) \cup {p} /\ p \notin Registered(i)
    BY <1>1, <1>2, <1>3 DEF Registered, Streaming, Request
  <2>2. act'[i].readers = act[i].readers + 1
    BY <1>3 DEF IInv, TypeOK, Activity, PlayRegister
  <2>3. Cardinality(Registered(i)') = Cardinality(Registered(i)) + 1
    BY <2>1, FiniteParts, FS_AddElement
  <2> QED
    BY <2>2, <2>3 DEF IInv, ReadersExact
<1>4. CASE ~(ptr[p] /\ ih[p] = i)
  <2>1. Registered(i)' = Registered(i)
    BY <1>1, <1>2, <1>4 DEF Registered, Streaming, Request
  <2>2. act'[i].readers = act[i].readers
    BY <1>4 DEF IInv, TypeOK, Activity, PlayRegister
  <2> QED
    BY <2>1, <2>2 DEF IInv, ReadersExact
<1> QED
  BY <1>3, <1>4

(* readers-- counts it out on that record, or nowhere.                     *)
LEMMA EndReaders ==
  ASSUME IInv, NEW p \in Play, PlayEnd(p)
  PROVE  ReadersExact'
<1> SUFFICES ASSUME NEW i \in Infohash
             PROVE  act'[i].readers = Cardinality(Registered(i)')
  BY DEF ReadersExact
<1>1. /\ pc' = [pc EXCEPT ![p] = "done"]
      /\ ih' = [ih EXCEPT ![p] = None]
      /\ ptr' = [ptr EXCEPT ![p] = FALSE]
  BY DEF PlayEnd, Finish, Goto
<1>2. /\ pc \in [Request -> Control] /\ p \in Request /\ pc[p] = "stream"
      /\ ih \in [Request -> Infohash \cup {None}]
      /\ ptr \in [Request -> BOOLEAN]
  BY DEF IInv, TypeOK, PlayEnd, Streaming, Request
<1>3. CASE ptr[p] /\ ih[p] = i
  <2>1. Registered(i)' = Registered(i) \ {p} /\ p \in Registered(i)
    BY <1>1, <1>2, <1>3 DEF Registered, Streaming, Request
  <2>2. act'[i].readers = act[i].readers - 1
    BY <1>3 DEF IInv, TypeOK, Activity, PlayEnd
  <2>3. Cardinality(Registered(i)') = Cardinality(Registered(i)) - 1
    BY <2>1, FiniteParts, FS_RemoveElement
  <2> QED
    BY <2>2, <2>3 DEF IInv, ReadersExact
<1>4. CASE ~(ptr[p] /\ ih[p] = i)
  <2>1. Registered(i)' = Registered(i)
    BY <1>1, <1>2, <1>4 DEF Registered, Streaming, Request
  <2>2. act'[i].readers = act[i].readers
    BY <1>4 DEF IInv, TypeOK, Activity, PlayEnd
  <2> QED
    BY <2>1, <2>2 DEF IInv, ReadersExact
<1> QED
  BY <1>3, <1>4

LEMMA ReadersStep ==
  ASSUME IInv, Next
  PROVE  ReadersExact'
<1> USE DEF Goto, Request, localVars
<1>1. ASSUME NEW p \in Play, NEW i \in Infohash, PlayArrive(p, i)
      PROVE  ReadersExact'
  <2> ReadersUntouched
    BY <1>1 DEF PlayArrive, ReadersUntouched, IInv, TypeOK
  <2> QED
    BY UntouchedReaders DEF IInv
<1>2. ASSUME NEW w \in Warm, NEW i \in Infohash, WarmArrive(w, i)
      PROVE  ReadersExact'
  <2> ReadersUntouched
    BY <1>2 DEF WarmArrive, ReadersUntouched, IInv, TypeOK
  <2> QED
    BY UntouchedReaders DEF IInv
<1>3. ASSUME NEW w \in Warm, WarmAcquire(w)
      PROVE  ReadersExact'
  <2> ReadersUntouched
    BY <1>3 DEF WarmAcquire, ReadersUntouched, IInv, TypeOK
  <2> QED
    BY UntouchedReaders DEF IInv
<1>4. ASSUME NEW p \in Request, TouchActivity(p)
      PROVE  ReadersExact'
  <2>1. \A j \in Infohash : act'[j].readers = act[j].readers
    BY <1>4, CreatedReaders DEF TouchActivity, IInv, Locals
  <2>2. ReadersUntouched
    BY <1>4, <2>1 DEF TouchActivity, ReadersUntouched, IInv, TypeOK
  <2> QED
    BY <2>2, UntouchedReaders DEF IInv
<1>5. ASSUME NEW p \in Request, TouchStamp(p)
      PROVE  ReadersExact'
  <2> ReadersUntouched
    BY <1>5 DEF TouchStamp, Activity, ReadersUntouched, IInv, TypeOK
  <2> QED
    BY UntouchedReaders DEF IInv
<1>6. ASSUME NEW p \in Request, FastPath(p)
      PROVE  ReadersExact'
  <2> ReadersUntouched
    BY <1>6 DEF FastPath, ReadersUntouched, IInv, TypeOK
  <2> QED
    BY UntouchedReaders DEF IInv
<1>7. ASSUME NEW p \in Request, LockFor(p)
      PROVE  ReadersExact'
  <2> ReadersUntouched
    BY <1>7 DEF LockFor, ReadersUntouched, IInv, TypeOK
  <2> QED
    BY UntouchedReaders DEF IInv
<1>8. ASSUME NEW p \in Request, AcquireAdd(p)
      PROVE  ReadersExact'
  <2> ReadersUntouched
    BY <1>8 DEF AcquireAdd, ReadersUntouched, IInv, TypeOK
  <2> QED
    BY UntouchedReaders DEF IInv
<1>9. ASSUME NEW p \in Request, MarkAdding(p)
      PROVE  ReadersExact'
  <2> ReadersUntouched
    BY <1>9 DEF MarkAdding, SetAdding, Activity, ReadersUntouched, IInv, TypeOK
  <2> QED
    BY UntouchedReaders DEF IInv
<1>10. ASSUME NEW p \in Request, CheckCap(p)
       PROVE  ReadersExact'
  <2> ReadersUntouched
    BY <1>10 DEF CheckCap, ReadersUntouched, IInv, TypeOK
  <2> QED
    BY UntouchedReaders DEF IInv
<1>11. ASSUME NEW p \in Request, EvictPick(p)
       PROVE  ReadersExact'
  <2>1. PICK v \in Oldest : Forget(v) /\ Goto(p, "lookup")
    BY <1>11 DEF EvictPick
  <2>2. v \in Infohash
    BY <2>1 DEF Oldest, Evictable
  <2>3. \A q \in Play : pc'[q] = "stream" <=> pc[q] = "stream"
    BY <1>11, <2>1 DEF EvictPick, IInv, TypeOK
  <2> QED
    BY <1>11, <2>1, <2>2, <2>3, ForgottenReaders DEF EvictPick
<1>12. ASSUME NEW p \in Request, EvictNone(p)
       PROVE  ReadersExact'
  <2> ReadersUntouched
    BY <1>12 DEF EvictNone, ReadersUntouched, IInv, TypeOK
  <2> QED
    BY UntouchedReaders DEF IInv
<1>13. ASSUME NEW p \in Request, EvictLookup(p)
       PROVE  ReadersExact'
  <2> ReadersUntouched
    BY <1>13 DEF EvictLookup, ReadersUntouched, IInv, TypeOK
  <2> QED
    BY UntouchedReaders DEF IInv
<1>14. ASSUME NEW p \in Request, EvictDrop(p)
       PROVE  ReadersExact'
  <2> ReadersUntouched
    BY <1>14 DEF EvictDrop, ReadersUntouched, IInv, TypeOK
  <2> QED
    BY UntouchedReaders DEF IInv
<1>15. ASSUME NEW p \in Request, AddMagnet(p)
       PROVE  ReadersExact'
  <2> ReadersUntouched
    BY <1>15 DEF AddMagnet, ReadersUntouched, IInv, TypeOK
  <2> QED
    BY UntouchedReaders DEF IInv
<1>16. ASSUME NEW p \in Request, AddMagnetFails(p)
       PROVE  ReadersExact'
  <2> ReadersUntouched
    BY <1>16 DEF AddMagnetFails, ReadersUntouched, IInv, TypeOK
  <2> QED
    BY UntouchedReaders DEF IInv
<1>17. ASSUME NEW p \in Request, EnsureReturn(p)
       PROVE  ReadersExact'
  <2> ReadersUntouched
    BY <1>17 DEF EnsureReturn, SetAdding, Activity, ReadersUntouched, IInv, TypeOK
  <2> QED
    BY UntouchedReaders DEF IInv
<1>18. ASSUME NEW p \in Request, EnsureError(p)
       PROVE  ReadersExact'
  <2> ReadersUntouched
    BY <1>18 DEF EnsureError, SetAdding, Finish, Activity, ReadersUntouched, IInv, TypeOK
  <2> QED
    BY UntouchedReaders DEF IInv
<1>19. ASSUME NEW p \in Request, InfoArrives(p)
       PROVE  ReadersExact'
  <2> ReadersUntouched
    BY <1>19 DEF InfoArrives, ReadersUntouched, IInv, TypeOK
  <2> QED
    BY UntouchedReaders DEF IInv
<1>20. ASSUME NEW p \in Request, InfoFails(p)
       PROVE  ReadersExact'
  <2> ReadersUntouched
    BY <1>20 DEF InfoFails, Finish, ReadersUntouched, IInv, TypeOK
  <2> QED
    BY UntouchedReaders DEF IInv
<1>21. ASSUME NEW p \in Play, PlayActivity(p)
       PROVE  ReadersExact'
  <2>1. \A j \in Infohash : act'[j].readers = act[j].readers
    BY <1>21, CreatedReaders DEF PlayActivity, IInv, Locals
  <2>2. ReadersUntouched
    BY <1>21, <2>1 DEF PlayActivity, ReadersUntouched, IInv, TypeOK
  <2> QED
    BY <2>2, UntouchedReaders DEF IInv
<1>22. ASSUME NEW p \in Play, PlayRegister(p)
       PROVE  ReadersExact'
  BY <1>22, RegisterReaders
<1>23. ASSUME NEW p \in Play, PlayAccess(p)
       PROVE  ReadersExact'
  <2> ReadersUntouched
    BY <1>23 DEF PlayAccess, Activity, ReadersUntouched, IInv, TypeOK
  <2> QED
    BY UntouchedReaders DEF IInv
<1>24. ASSUME NEW p \in Play, PlayEnd(p)
       PROVE  ReadersExact'
  BY <1>24, EndReaders
<1>25. ASSUME NEW w \in Warm, WarmRecheck(w)
       PROVE  ReadersExact'
  <2> ReadersUntouched
    BY <1>25 DEF WarmRecheck, Finish, ReadersUntouched, IInv, TypeOK
  <2> QED
    BY UntouchedReaders DEF IInv
<1>26. ASSUME NEW w \in Warm, PrebufferEnd(w)
       PROVE  ReadersExact'
  <2> ReadersUntouched
    BY <1>26 DEF PrebufferEnd, Finish, ReadersUntouched, IInv, TypeOK
  <2> QED
    BY UntouchedReaders DEF IInv
<1>27. ASSUME JanitorTick
       PROVE  ReadersExact'
  <2> ReadersUntouched
    BY <1>27 DEF JanitorTick, ReadersUntouched, IInv, TypeOK
  <2> QED
    BY UntouchedReaders DEF IInv
<1>28. ASSUME NEW i \in Infohash, ReapLook(i)
       PROVE  ReadersExact'
  <2>1. \A j \in Infohash : act'[j].readers = act[j].readers
    BY <1>28, CreatedReaders DEF ReapLook, IInv, Locals
  <2>2. ReadersUntouched
    BY <1>28, <2>1 DEF ReapLook, ReadersUntouched, IInv, TypeOK
  <2> QED
    BY <2>2, UntouchedReaders DEF IInv
<1>29. ASSUME ReapDrop
       PROVE  ReadersExact'
  <2> ReadersUntouched
    BY <1>29 DEF ReapDrop, ReadersUntouched, IInv, TypeOK
  <2> QED
    BY UntouchedReaders DEF IInv
<1>30. ASSUME ReapForget
       PROVE  ReadersExact'
  <2>1. jcur \in Infohash
    BY <1>30 DEF ReapForget, IInv, Locals
  <2> QED
    BY <1>30, <2>1, ForgottenReaders DEF ReapForget
<1>31. ASSUME ReapDone
       PROVE  ReadersExact'
  <2> ReadersUntouched
    BY <1>31 DEF ReapDone, ReadersUntouched, IInv, TypeOK
  <2> QED
    BY UntouchedReaders DEF IInv
<1>32. ASSUME Tick
       PROVE  ReadersExact'
  <2> ReadersUntouched
    BY <1>32 DEF Tick, ReadersUntouched, IInv, TypeOK
  <2> QED
    BY UntouchedReaders DEF IInv
<1>33. ASSUME ReapDecide
       PROVE  ReadersExact'
  <2> ReadersUntouched
    BY <1>33 DEF ReapDecide, ReadersUntouched, IInv, TypeOK
  <2> QED
    BY UntouchedReaders DEF IInv
<1> QED
  BY <1>1, <1>2, <1>3, <1>4, <1>5, <1>6, <1>7, <1>8, <1>9, <1>10, <1>11, <1>12, <1>13, <1>14, <1>15, <1>16, <1>17, <1>18, <1>19, <1>20, <1>21, <1>22, <1>23, <1>24, <1>25, <1>26, <1>27, <1>28, <1>29, <1>30, <1>31, <1>32, <1>33
  DEF Next, Ensure, EvictOldest, WaitInfo, PlayNext, WarmNext, Janitor

----------------------------------------------------------------------------
(* The adding flag.                                                        *)

\* A step that sets no flag and ends no add.
AddsUntouched ==
  /\ \A i \in Infohash :
       act'[i].adding => act[i].adding /\ (act[i].mapped => act'[i].mapped)
  /\ \A p \in Request : pc[p] \in InAdd => pc'[p] \in InAdd /\ ih'[p] = ih[p]

LEMMA UntouchedAdds ==
  ASSUME AddingHasOwner, MarkedIsMapped, AddsUntouched
  PROVE  AddingHasOwner' /\ MarkedIsMapped'
BY DEF AddingHasOwner, MarkedIsMapped, AddsUntouched, Adding

(* The end of p's add clears the flag p answers for, so that every flag    *)
(* still set belongs to another request.                                   *)
LEMMA ClearedAdds ==
  ASSUME IInv, NEW p \in Request, ih[p] \in Infohash, SetAdding(ih[p], FALSE),
         \A q \in Request \ {p} : pc'[q] = pc[q] /\ ih'[q] = ih[q]
  PROVE  AddingHasOwner' /\ MarkedIsMapped'
<1> SUFFICES ASSUME NEW i \in Infohash, act'[i].adding
             PROVE  /\ act'[i].mapped
                    /\ \E q \in Request : pc'[q] \in InAdd /\ ih'[q] = i
  BY DEF AddingHasOwner, MarkedIsMapped, Adding
<1>1. act \in [Infohash -> Activity] /\ (act[i].adding => act[i].mapped)
  BY DEF IInv, TypeOK, MarkedIsMapped
<1>2. i # ih[p] /\ act'[i] = act[i]
  BY <1>1 DEF SetAdding, Activity
<1>3. PICK q \in Request : pc[q] \in InAdd /\ ih[q] = i
  BY <1>2 DEF IInv, AddingHasOwner, Adding
<1>4. q \in Request \ {p}
  BY <1>2, <1>3
<1> QED
  BY <1>1, <1>2, <1>3, <1>4

LEMMA AddingStep ==
  ASSUME IInv, Next
  PROVE  AddingHasOwner' /\ MarkedIsMapped'
<1> USE DEF Goto, Request, localVars
<1>1. ASSUME NEW p \in Play, NEW i \in Infohash, PlayArrive(p, i)
      PROVE  AddingHasOwner' /\ MarkedIsMapped'
  <2> AddsUntouched
    BY <1>1 DEF PlayArrive, AddsUntouched, InAdd, IInv, TypeOK
  <2> QED
    BY UntouchedAdds DEF IInv
<1>2. ASSUME NEW w \in Warm, NEW i \in Infohash, WarmArrive(w, i)
      PROVE  AddingHasOwner' /\ MarkedIsMapped'
  <2> AddsUntouched
    BY <1>2 DEF WarmArrive, AddsUntouched, InAdd, IInv, TypeOK
  <2> QED
    BY UntouchedAdds DEF IInv
<1>3. ASSUME NEW w \in Warm, WarmAcquire(w)
      PROVE  AddingHasOwner' /\ MarkedIsMapped'
  <2> AddsUntouched
    BY <1>3 DEF WarmAcquire, AddsUntouched, InAdd, IInv, TypeOK
  <2> QED
    BY UntouchedAdds DEF IInv
<1>4. ASSUME NEW p \in Request, TouchActivity(p)
      PROVE  AddingHasOwner' /\ MarkedIsMapped'
  <2> AddsUntouched
    BY <1>4 DEF TouchActivity, Created, Fresh, Activity, AddsUntouched, InAdd, IInv, TypeOK
  <2> QED
    BY UntouchedAdds DEF IInv
<1>5. ASSUME NEW p \in Request, TouchStamp(p)
      PROVE  AddingHasOwner' /\ MarkedIsMapped'
  <2> AddsUntouched
    BY <1>5 DEF TouchStamp, Activity, AddsUntouched, InAdd, IInv, TypeOK
  <2> QED
    BY UntouchedAdds DEF IInv
<1>6. ASSUME NEW p \in Request, FastPath(p)
      PROVE  AddingHasOwner' /\ MarkedIsMapped'
  <2> AddsUntouched
    BY <1>6 DEF FastPath, AddsUntouched, InAdd, IInv, TypeOK
  <2> QED
    BY UntouchedAdds DEF IInv
<1>7. ASSUME NEW p \in Request, LockFor(p)
      PROVE  AddingHasOwner' /\ MarkedIsMapped'
  <2> AddsUntouched
    BY <1>7 DEF LockFor, AddsUntouched, InAdd, IInv, TypeOK
  <2> QED
    BY UntouchedAdds DEF IInv
<1>8. ASSUME NEW p \in Request, AcquireAdd(p)
      PROVE  AddingHasOwner' /\ MarkedIsMapped'
  <2> AddsUntouched
    BY <1>8 DEF AcquireAdd, Locked, AddsUntouched, InAdd, IInv, TypeOK
  <2> QED
    BY UntouchedAdds DEF IInv
<1>9. ASSUME NEW p \in Request, MarkAdding(p)
      PROVE  AddingHasOwner' /\ MarkedIsMapped'
  <2> SUFFICES ASSUME NEW i \in Infohash, act'[i].adding
               PROVE  /\ act'[i].mapped
                      /\ \E q \in Request : pc'[q] \in InAdd /\ ih'[q] = i
    BY DEF AddingHasOwner, MarkedIsMapped, Adding
  <2>1. pc'[p] \in InAdd /\ \A q \in Request \ {p} : pc'[q] = pc[q]
    BY <1>9 DEF MarkAdding, IInv, TypeOK, InAdd
  <2>2. ih' = ih
    BY <1>9 DEF MarkAdding
  <2>3. CASE i = ih[p]
    <3>1. act'[i].mapped
      BY <1>9, <2>3 DEF MarkAdding, SetAdding, IInv, TypeOK, MarkedIsMapped, Activity
    <3> QED
      BY <3>1, <2>1, <2>2, <2>3
  <2>4. CASE i # ih[p]
    <3>1. act'[i] = act[i] /\ act[i].mapped
      BY <1>9, <2>4 DEF MarkAdding, SetAdding, IInv, TypeOK, MarkedIsMapped, Activity
    <3>2. PICK q \in Request : pc[q] \in InAdd /\ ih[q] = i
      BY <3>1 DEF IInv, AddingHasOwner, Adding
    <3>3. pc'[q] \in InAdd
      BY <2>1, <3>2
    <3> QED
      BY <2>2, <3>1, <3>2, <3>3
  <2> QED
    BY <2>3, <2>4
<1>10. ASSUME NEW p \in Request, CheckCap(p)
       PROVE  AddingHasOwner' /\ MarkedIsMapped'
  <2> AddsUntouched
    BY <1>10 DEF CheckCap, AddsUntouched, InAdd, IInv, TypeOK
  <2> QED
    BY UntouchedAdds DEF IInv
<1>11. ASSUME NEW p \in Request, EvictPick(p)
       PROVE  AddingHasOwner' /\ MarkedIsMapped'
  <2> AddsUntouched
    BY <1>11 DEF EvictPick, Forget, Oldest, Evictable, Absent, AddsUntouched, InAdd, IInv, TypeOK
  <2> QED
    BY UntouchedAdds DEF IInv
<1>12. ASSUME NEW p \in Request, EvictNone(p)
       PROVE  AddingHasOwner' /\ MarkedIsMapped'
  <2> AddsUntouched
    BY <1>12 DEF EvictNone, AddsUntouched, InAdd, IInv, TypeOK
  <2> QED
    BY UntouchedAdds DEF IInv
<1>13. ASSUME NEW p \in Request, EvictLookup(p)
       PROVE  AddingHasOwner' /\ MarkedIsMapped'
  <2> AddsUntouched
    BY <1>13 DEF EvictLookup, AddsUntouched, InAdd, IInv, TypeOK
  <2> QED
    BY UntouchedAdds DEF IInv
<1>14. ASSUME NEW p \in Request, EvictDrop(p)
       PROVE  AddingHasOwner' /\ MarkedIsMapped'
  <2> AddsUntouched
    BY <1>14 DEF EvictDrop, AddsUntouched, InAdd, IInv, TypeOK
  <2> QED
    BY UntouchedAdds DEF IInv
<1>15. ASSUME NEW p \in Request, AddMagnet(p)
       PROVE  AddingHasOwner' /\ MarkedIsMapped'
  <2> AddsUntouched
    BY <1>15 DEF AddMagnet, AddsUntouched, InAdd, IInv, TypeOK
  <2> QED
    BY UntouchedAdds DEF IInv
<1>16. ASSUME NEW p \in Request, AddMagnetFails(p)
       PROVE  AddingHasOwner' /\ MarkedIsMapped'
  <2> AddsUntouched
    BY <1>16 DEF AddMagnetFails, AddsUntouched, InAdd, IInv, TypeOK
  <2> QED
    BY UntouchedAdds DEF IInv
<1>17. ASSUME NEW p \in Request, EnsureReturn(p)
       PROVE  AddingHasOwner' /\ MarkedIsMapped'
  <2>1. ih[p] \in Infohash
    BY <1>17 DEF EnsureReturn, IInv, Locals
  <2>2. \A q \in Request \ {p} : pc'[q] = pc[q] /\ ih'[q] = ih[q]
    BY <1>17 DEF EnsureReturn, IInv, TypeOK
  <2> QED
    BY <1>17, <2>1, <2>2, ClearedAdds DEF EnsureReturn
<1>18. ASSUME NEW p \in Request, EnsureError(p)
       PROVE  AddingHasOwner' /\ MarkedIsMapped'
  <2>1. ih[p] \in Infohash
    BY <1>18 DEF EnsureError, IInv, Locals
  <2>2. \A q \in Request \ {p} : pc'[q] = pc[q] /\ ih'[q] = ih[q]
    BY <1>18 DEF EnsureError, Finish, IInv, TypeOK
  <2> QED
    BY <1>18, <2>1, <2>2, ClearedAdds DEF EnsureError
<1>19. ASSUME NEW p \in Request, InfoArrives(p)
       PROVE  AddingHasOwner' /\ MarkedIsMapped'
  <2> AddsUntouched
    BY <1>19 DEF InfoArrives, AddsUntouched, InAdd, IInv, TypeOK
  <2> QED
    BY UntouchedAdds DEF IInv
<1>20. ASSUME NEW p \in Request, InfoFails(p)
       PROVE  AddingHasOwner' /\ MarkedIsMapped'
  <2> AddsUntouched
    BY <1>20 DEF InfoFails, Finish, AddsUntouched, InAdd, IInv, TypeOK
  <2> QED
    BY UntouchedAdds DEF IInv
<1>21. ASSUME NEW p \in Play, PlayActivity(p)
       PROVE  AddingHasOwner' /\ MarkedIsMapped'
  <2> AddsUntouched
    BY <1>21 DEF PlayActivity, Created, Fresh, Activity, AddsUntouched, InAdd, IInv, TypeOK
  <2> QED
    BY UntouchedAdds DEF IInv
<1>22. ASSUME NEW p \in Play, PlayRegister(p)
       PROVE  AddingHasOwner' /\ MarkedIsMapped'
  <2> AddsUntouched
    BY <1>22 DEF PlayRegister, Activity, AddsUntouched, InAdd, IInv, TypeOK
  <2> QED
    BY UntouchedAdds DEF IInv
<1>23. ASSUME NEW p \in Play, PlayAccess(p)
       PROVE  AddingHasOwner' /\ MarkedIsMapped'
  <2> AddsUntouched
    BY <1>23 DEF PlayAccess, Activity, AddsUntouched, InAdd, IInv, TypeOK
  <2> QED
    BY UntouchedAdds DEF IInv
<1>24. ASSUME NEW p \in Play, PlayEnd(p)
       PROVE  AddingHasOwner' /\ MarkedIsMapped'
  <2> AddsUntouched
    BY <1>24 DEF PlayEnd, Finish, Streaming, Activity, AddsUntouched, InAdd, IInv, TypeOK
  <2> QED
    BY UntouchedAdds DEF IInv
<1>25. ASSUME NEW w \in Warm, WarmRecheck(w)
       PROVE  AddingHasOwner' /\ MarkedIsMapped'
  <2> AddsUntouched
    BY <1>25 DEF WarmRecheck, Finish, AddsUntouched, InAdd, IInv, TypeOK
  <2> QED
    BY UntouchedAdds DEF IInv
<1>26. ASSUME NEW w \in Warm, PrebufferEnd(w)
       PROVE  AddingHasOwner' /\ MarkedIsMapped'
  <2> AddsUntouched
    BY <1>26 DEF PrebufferEnd, Finish, AddsUntouched, InAdd, IInv, TypeOK
  <2> QED
    BY UntouchedAdds DEF IInv
<1>27. ASSUME JanitorTick
       PROVE  AddingHasOwner' /\ MarkedIsMapped'
  <2> AddsUntouched
    BY <1>27 DEF JanitorTick, AddsUntouched, InAdd, IInv, TypeOK
  <2> QED
    BY UntouchedAdds DEF IInv
<1>28. ASSUME NEW i \in Infohash, ReapLook(i)
       PROVE  AddingHasOwner' /\ MarkedIsMapped'
  <2> AddsUntouched
    BY <1>28 DEF ReapLook, Created, Fresh, Activity, AddsUntouched, InAdd, IInv, TypeOK
  <2> QED
    BY UntouchedAdds DEF IInv
<1>29. ASSUME ReapDrop
       PROVE  AddingHasOwner' /\ MarkedIsMapped'
  <2> AddsUntouched
    BY <1>29 DEF ReapDrop, AddsUntouched, InAdd, IInv, TypeOK
  <2> QED
    BY UntouchedAdds DEF IInv
<1>30. ASSUME ReapForget
       PROVE  AddingHasOwner' /\ MarkedIsMapped'
  <2> AddsUntouched
    BY <1>30 DEF ReapForget, Forget, Absent, AddsUntouched, InAdd, IInv, TypeOK
  <2> QED
    BY UntouchedAdds DEF IInv
<1>31. ASSUME ReapDone
       PROVE  AddingHasOwner' /\ MarkedIsMapped'
  <2> AddsUntouched
    BY <1>31 DEF ReapDone, AddsUntouched, InAdd, IInv, TypeOK
  <2> QED
    BY UntouchedAdds DEF IInv
<1>32. ASSUME Tick
       PROVE  AddingHasOwner' /\ MarkedIsMapped'
  <2> AddsUntouched
    BY <1>32 DEF Tick, AddsUntouched, InAdd, IInv, TypeOK
  <2> QED
    BY UntouchedAdds DEF IInv
<1>33. ASSUME ReapDecide
       PROVE  AddingHasOwner' /\ MarkedIsMapped'
  <2> AddsUntouched
    BY <1>33 DEF ReapDecide, AddsUntouched, InAdd, IInv, TypeOK
  <2> QED
    BY UntouchedAdds DEF IInv
<1> QED
  BY <1>1, <1>2, <1>3, <1>4, <1>5, <1>6, <1>7, <1>8, <1>9, <1>10, <1>11, <1>12, <1>13, <1>14, <1>15, <1>16, <1>17, <1>18, <1>19, <1>20, <1>21, <1>22, <1>23, <1>24, <1>25, <1>26, <1>27, <1>28, <1>29, <1>30, <1>31, <1>32, <1>33
  DEF Next, Ensure, EvictOldest, WaitInfo, PlayNext, WarmNext, Janitor

----------------------------------------------------------------------------
(* The warm slots.                                                         *)

\* A step that takes no slot and gives none back.
SlotsUntouched ==
  /\ warmSlots' = warmSlots
  /\ \A w \in Warm : pc'[w] \in {"start", "sem", "done"}
                       <=> pc[w] \in {"start", "sem", "done"}

LEMMA UntouchedSlots ==
  ASSUME WarmSlotsExact, SlotsUntouched
  PROVE  WarmSlotsExact'
<1>1. InFlight' = InFlight
  BY DEF InFlight, SlotsUntouched
<1> QED
  BY <1>1 DEF WarmSlotsExact, InFlight, SlotsUntouched

(* A request that returns gives back the slot it holds, if it is a warm.   *)
LEMMA FinishSlots ==
  ASSUME IInv, NEW p \in Request, Finish(p),
         pc[p] \notin {"start", "sem", "done"}
  PROVE  WarmSlotsExact'
<1>1. pc' = [pc EXCEPT ![p] = "done"] /\ pc \in [Request -> Control]
  BY DEF Finish, Goto, IInv, TypeOK
<1>2. CASE p \in Warm
  <2>1. InFlight' = InFlight \ {p} /\ p \in InFlight
    BY <1>1, <1>2 DEF InFlight, Request
  <2>2. Cardinality(InFlight') = Cardinality(InFlight) - 1
    BY <2>1, FiniteParts, FS_RemoveElement
  <2>3. warmSlots' = warmSlots - 1
    BY <1>2 DEF Finish
  <2> QED
    BY <2>2, <2>3, EngineAssumption
    DEF IInv, TypeOK, WarmSlotsExact, InFlight
<1>3. CASE p \notin Warm
  <2>1. InFlight' = InFlight
    BY <1>1, <1>3 DEF InFlight, Request
  <2>2. warmSlots' = warmSlots
    BY <1>3 DEF Finish
  <2> QED
    BY <2>1, <2>2 DEF IInv, WarmSlotsExact, InFlight
<1> QED
  BY <1>2, <1>3

LEMMA AcquireSlot ==
  ASSUME IInv, NEW w \in Warm, WarmAcquire(w)
  PROVE  WarmSlotsExact'
<1>1. pc \in [Request -> Control] /\ w \in Request /\ pc[w] = "sem"
  BY DEF IInv, TypeOK, WarmAcquire, Request
<1>2. CASE warmSlots < WarmCap
  <2>1. pc' = [pc EXCEPT ![w] = "activity"] /\ warmSlots' = warmSlots + 1
    BY <1>2 DEF WarmAcquire, Goto
  <2>2. InFlight' = InFlight \cup {w} /\ w \notin InFlight
    BY <1>1, <2>1 DEF InFlight, Request
  <2>3. Cardinality(InFlight') = Cardinality(InFlight) + 1
    BY <2>2, FiniteParts, FS_AddElement
  <2> QED
    BY <1>2, <2>1, <2>3, EngineAssumption
    DEF IInv, TypeOK, WarmSlotsExact, InFlight
<1>3. CASE ~(warmSlots < WarmCap)
  <2>1. SlotsUntouched
    BY <1>1, <1>3 DEF WarmAcquire, Goto, SlotsUntouched, Request
  <2> QED
    BY <2>1, UntouchedSlots DEF IInv
<1> QED
  BY <1>2, <1>3

LEMMA SlotsStep ==
  ASSUME IInv, Next
  PROVE  WarmSlotsExact'
<1> USE DEF Goto, Request, localVars
<1>1. ASSUME NEW p \in Play, NEW i \in Infohash, PlayArrive(p, i)
      PROVE  WarmSlotsExact'
  <2> SlotsUntouched
    BY <1>1, EngineAssumption DEF PlayArrive, SlotsUntouched, IInv, TypeOK
  <2> QED
    BY UntouchedSlots DEF IInv
<1>2. ASSUME NEW w \in Warm, NEW i \in Infohash, WarmArrive(w, i)
      PROVE  WarmSlotsExact'
  <2> SlotsUntouched
    BY <1>2 DEF WarmArrive, SlotsUntouched, IInv, TypeOK
  <2> QED
    BY UntouchedSlots DEF IInv
<1>3. ASSUME NEW w \in Warm, WarmAcquire(w)
      PROVE  WarmSlotsExact'
  BY <1>3, AcquireSlot
<1>4. ASSUME NEW p \in Request, TouchActivity(p)
      PROVE  WarmSlotsExact'
  <2> SlotsUntouched
    BY <1>4 DEF TouchActivity, SlotsUntouched, IInv, TypeOK
  <2> QED
    BY UntouchedSlots DEF IInv
<1>5. ASSUME NEW p \in Request, TouchStamp(p)
      PROVE  WarmSlotsExact'
  <2> SlotsUntouched
    BY <1>5 DEF TouchStamp, SlotsUntouched, IInv, TypeOK
  <2> QED
    BY UntouchedSlots DEF IInv
<1>6. ASSUME NEW p \in Request, FastPath(p)
      PROVE  WarmSlotsExact'
  <2> SlotsUntouched
    BY <1>6 DEF FastPath, SlotsUntouched, IInv, TypeOK
  <2> QED
    BY UntouchedSlots DEF IInv
<1>7. ASSUME NEW p \in Request, LockFor(p)
      PROVE  WarmSlotsExact'
  <2> SlotsUntouched
    BY <1>7 DEF LockFor, SlotsUntouched, IInv, TypeOK
  <2> QED
    BY UntouchedSlots DEF IInv
<1>8. ASSUME NEW p \in Request, AcquireAdd(p)
      PROVE  WarmSlotsExact'
  <2> SlotsUntouched
    BY <1>8 DEF AcquireAdd, SlotsUntouched, IInv, TypeOK
  <2> QED
    BY UntouchedSlots DEF IInv
<1>9. ASSUME NEW p \in Request, MarkAdding(p)
      PROVE  WarmSlotsExact'
  <2> SlotsUntouched
    BY <1>9 DEF MarkAdding, SlotsUntouched, IInv, TypeOK
  <2> QED
    BY UntouchedSlots DEF IInv
<1>10. ASSUME NEW p \in Request, CheckCap(p)
       PROVE  WarmSlotsExact'
  <2> SlotsUntouched
    BY <1>10 DEF CheckCap, SlotsUntouched, IInv, TypeOK
  <2> QED
    BY UntouchedSlots DEF IInv
<1>11. ASSUME NEW p \in Request, EvictPick(p)
       PROVE  WarmSlotsExact'
  <2> SlotsUntouched
    BY <1>11 DEF EvictPick, SlotsUntouched, IInv, TypeOK
  <2> QED
    BY UntouchedSlots DEF IInv
<1>12. ASSUME NEW p \in Request, EvictNone(p)
       PROVE  WarmSlotsExact'
  <2> SlotsUntouched
    BY <1>12 DEF EvictNone, SlotsUntouched, IInv, TypeOK
  <2> QED
    BY UntouchedSlots DEF IInv
<1>13. ASSUME NEW p \in Request, EvictLookup(p)
       PROVE  WarmSlotsExact'
  <2> SlotsUntouched
    BY <1>13 DEF EvictLookup, SlotsUntouched, IInv, TypeOK
  <2> QED
    BY UntouchedSlots DEF IInv
<1>14. ASSUME NEW p \in Request, EvictDrop(p)
       PROVE  WarmSlotsExact'
  <2> SlotsUntouched
    BY <1>14 DEF EvictDrop, SlotsUntouched, IInv, TypeOK
  <2> QED
    BY UntouchedSlots DEF IInv
<1>15. ASSUME NEW p \in Request, AddMagnet(p)
       PROVE  WarmSlotsExact'
  <2> SlotsUntouched
    BY <1>15 DEF AddMagnet, SlotsUntouched, IInv, TypeOK
  <2> QED
    BY UntouchedSlots DEF IInv
<1>16. ASSUME NEW p \in Request, AddMagnetFails(p)
       PROVE  WarmSlotsExact'
  <2> SlotsUntouched
    BY <1>16 DEF AddMagnetFails, SlotsUntouched, IInv, TypeOK
  <2> QED
    BY UntouchedSlots DEF IInv
<1>17. ASSUME NEW p \in Request, EnsureReturn(p)
       PROVE  WarmSlotsExact'
  <2> SlotsUntouched
    BY <1>17 DEF EnsureReturn, SlotsUntouched, IInv, TypeOK
  <2> QED
    BY UntouchedSlots DEF IInv
<1>18. ASSUME NEW p \in Request, EnsureError(p)
       PROVE  WarmSlotsExact'
  BY <1>18, FinishSlots DEF EnsureError
<1>19. ASSUME NEW p \in Request, InfoArrives(p)
       PROVE  WarmSlotsExact'
  <2> SlotsUntouched
    BY <1>19 DEF InfoArrives, SlotsUntouched, IInv, TypeOK
  <2> QED
    BY UntouchedSlots DEF IInv
<1>20. ASSUME NEW p \in Request, InfoFails(p)
       PROVE  WarmSlotsExact'
  BY <1>20, FinishSlots DEF InfoFails
<1>21. ASSUME NEW p \in Play, PlayActivity(p)
       PROVE  WarmSlotsExact'
  <2> SlotsUntouched
    BY <1>21 DEF PlayActivity, SlotsUntouched, IInv, TypeOK
  <2> QED
    BY UntouchedSlots DEF IInv
<1>22. ASSUME NEW p \in Play, PlayRegister(p)
       PROVE  WarmSlotsExact'
  <2> SlotsUntouched
    BY <1>22 DEF PlayRegister, SlotsUntouched, IInv, TypeOK
  <2> QED
    BY UntouchedSlots DEF IInv
<1>23. ASSUME NEW p \in Play, PlayAccess(p)
       PROVE  WarmSlotsExact'
  <2> SlotsUntouched
    BY <1>23 DEF PlayAccess, SlotsUntouched, IInv, TypeOK
  <2> QED
    BY UntouchedSlots DEF IInv
<1>24. ASSUME NEW p \in Play, PlayEnd(p)
       PROVE  WarmSlotsExact'
  BY <1>24, FinishSlots DEF PlayEnd, Streaming
<1>25. ASSUME NEW w \in Warm, WarmRecheck(w)
       PROVE  WarmSlotsExact'
  <2>1. CASE StreamBusy
    BY <1>25, <2>1, FinishSlots DEF WarmRecheck
  <2>2. CASE ~StreamBusy
    <3> SlotsUntouched
      BY <1>25, <2>2 DEF WarmRecheck, SlotsUntouched, IInv, TypeOK
    <3> QED
      BY UntouchedSlots DEF IInv
  <2> QED
    BY <2>1, <2>2
<1>26. ASSUME NEW w \in Warm, PrebufferEnd(w)
       PROVE  WarmSlotsExact'
  BY <1>26, FinishSlots DEF PrebufferEnd
<1>27. ASSUME JanitorTick
       PROVE  WarmSlotsExact'
  <2> SlotsUntouched
    BY <1>27 DEF JanitorTick, SlotsUntouched, IInv, TypeOK
  <2> QED
    BY UntouchedSlots DEF IInv
<1>28. ASSUME NEW i \in Infohash, ReapLook(i)
       PROVE  WarmSlotsExact'
  <2> SlotsUntouched
    BY <1>28 DEF ReapLook, SlotsUntouched, IInv, TypeOK
  <2> QED
    BY UntouchedSlots DEF IInv
<1>29. ASSUME ReapDrop
       PROVE  WarmSlotsExact'
  <2> SlotsUntouched
    BY <1>29 DEF ReapDrop, SlotsUntouched, IInv, TypeOK
  <2> QED
    BY UntouchedSlots DEF IInv
<1>30. ASSUME ReapForget
       PROVE  WarmSlotsExact'
  <2> SlotsUntouched
    BY <1>30 DEF ReapForget, SlotsUntouched, IInv, TypeOK
  <2> QED
    BY UntouchedSlots DEF IInv
<1>31. ASSUME ReapDone
       PROVE  WarmSlotsExact'
  <2> SlotsUntouched
    BY <1>31 DEF ReapDone, SlotsUntouched, IInv, TypeOK
  <2> QED
    BY UntouchedSlots DEF IInv
<1>32. ASSUME Tick
       PROVE  WarmSlotsExact'
  <2> SlotsUntouched
    BY <1>32 DEF Tick, SlotsUntouched, IInv, TypeOK
  <2> QED
    BY UntouchedSlots DEF IInv
<1>33. ASSUME ReapDecide
       PROVE  WarmSlotsExact'
  <2> SlotsUntouched
    BY <1>33 DEF ReapDecide, SlotsUntouched, IInv, TypeOK
  <2> QED
    BY UntouchedSlots DEF IInv
<1> QED
  BY <1>1, <1>2, <1>3, <1>4, <1>5, <1>6, <1>7, <1>8, <1>9, <1>10, <1>11, <1>12, <1>13, <1>14, <1>15, <1>16, <1>17, <1>18, <1>19, <1>20, <1>21, <1>22, <1>23, <1>24, <1>25, <1>26, <1>27, <1>28, <1>29, <1>30, <1>31, <1>32, <1>33
  DEF Next, Ensure, EvictOldest, WaitInfo, PlayNext, WarmNext, Janitor

(* The readers of mapped records, as reapIdle and evictOldest see them.    *)
LEMMA UncountedUnread ==
  ASSUME IInv, NEW i \in Infohash, ~(act[i].readers > 0)
  PROVE  Registered(i) = {}
<1>1. Cardinality(Registered(i)) = 0
  BY DEF IInv, TypeOK, Activity, ReadersExact
<1> QED
  BY <1>1, FiniteParts, FS_EmptySet

\* What the steps of CondemnSparesReaders and OnlyReapOrphansReaders do.
SparesReaders ==
  /\ \A p \in Request :
       victim'[p] \notin {None, victim[p]} => Registered(victim'[p]) = {}
  /\ jpc = "visit" /\ jpc' = "drop" /\ jptr => Registered(jcur) = {}

KeepsReaders ==
  \A q \in Play :
    pc[q] = "stream" /\ ptr[q] /\ pc'[q] = "stream" /\ ~ptr'[q] => jpc = "forget"

LEMMA SparingStep ==
  ASSUME IInv, Next
  PROVE  SparesReaders /\ KeepsReaders
<1> USE DEF Goto, Request, localVars, janitorVars
<1>1. ASSUME NEW p \in Play, NEW i \in Infohash, PlayArrive(p, i)
      PROVE  SparesReaders /\ KeepsReaders
  BY <1>1 DEF PlayArrive, SparesReaders, KeepsReaders, IInv, TypeOK
<1>2. ASSUME NEW w \in Warm, NEW i \in Infohash, WarmArrive(w, i)
      PROVE  SparesReaders /\ KeepsReaders
  BY <1>2 DEF WarmArrive, SparesReaders, KeepsReaders, IInv, TypeOK
<1>3. ASSUME NEW w \in Warm, WarmAcquire(w)
      PROVE  SparesReaders /\ KeepsReaders
  BY <1>3 DEF WarmAcquire, SparesReaders, KeepsReaders, IInv, TypeOK
<1>4. ASSUME NEW p \in Request, TouchActivity(p)
      PROVE  SparesReaders /\ KeepsReaders
  BY <1>4 DEF TouchActivity, SparesReaders, KeepsReaders, IInv, TypeOK
<1>5. ASSUME NEW p \in Request, TouchStamp(p)
      PROVE  SparesReaders /\ KeepsReaders
  BY <1>5 DEF TouchStamp, SparesReaders, KeepsReaders, IInv, TypeOK
<1>6. ASSUME NEW p \in Request, FastPath(p)
      PROVE  SparesReaders /\ KeepsReaders
  BY <1>6 DEF FastPath, SparesReaders, KeepsReaders, IInv, TypeOK
<1>7. ASSUME NEW p \in Request, LockFor(p)
      PROVE  SparesReaders /\ KeepsReaders
  BY <1>7 DEF LockFor, SparesReaders, KeepsReaders, IInv, TypeOK
<1>8. ASSUME NEW p \in Request, AcquireAdd(p)
      PROVE  SparesReaders /\ KeepsReaders
  BY <1>8 DEF AcquireAdd, SparesReaders, KeepsReaders, IInv, TypeOK
<1>9. ASSUME NEW p \in Request, MarkAdding(p)
      PROVE  SparesReaders /\ KeepsReaders
  BY <1>9 DEF MarkAdding, SparesReaders, KeepsReaders, IInv, TypeOK
<1>10. ASSUME NEW p \in Request, CheckCap(p)
       PROVE  SparesReaders /\ KeepsReaders
  BY <1>10 DEF CheckCap, SparesReaders, KeepsReaders, IInv, TypeOK
<1>11. ASSUME NEW p \in Request, EvictPick(p)
       PROVE  SparesReaders /\ KeepsReaders
  <2>1. PICK v \in Oldest : Forget(v) /\ victim' = [victim EXCEPT ![p] = v]
    BY <1>11 DEF EvictPick
  <2>2. v \in Infohash /\ Registered(v) = {}
    BY <2>1, UncountedUnread DEF Oldest, Evictable
  <2>3. SparesReaders
    BY <1>11, <2>1, <2>2 DEF SparesReaders, EvictPick, IInv, TypeOK
  <2>4. KeepsReaders
    BY <2>1, <2>2 DEF KeepsReaders, Forget, Registered, Streaming
  <2> QED
    BY <2>3, <2>4
<1>12. ASSUME NEW p \in Request, EvictNone(p)
       PROVE  SparesReaders /\ KeepsReaders
  BY <1>12 DEF EvictNone, SparesReaders, KeepsReaders, IInv, TypeOK
<1>13. ASSUME NEW p \in Request, EvictLookup(p)
       PROVE  SparesReaders /\ KeepsReaders
  BY <1>13 DEF EvictLookup, SparesReaders, KeepsReaders, IInv, TypeOK
<1>14. ASSUME NEW p \in Request, EvictDrop(p)
       PROVE  SparesReaders /\ KeepsReaders
  BY <1>14 DEF EvictDrop, SparesReaders, KeepsReaders, IInv, TypeOK
<1>15. ASSUME NEW p \in Request, AddMagnet(p)
       PROVE  SparesReaders /\ KeepsReaders
  BY <1>15 DEF AddMagnet, SparesReaders, KeepsReaders, IInv, TypeOK
<1>16. ASSUME NEW p \in Request, AddMagnetFails(p)
       PROVE  SparesReaders /\ KeepsReaders
  BY <1>16 DEF AddMagnetFails, SparesReaders, KeepsReaders, IInv, TypeOK
<1>17. ASSUME NEW p \in Request, EnsureReturn(p)
       PROVE  SparesReaders /\ KeepsReaders
  BY <1>17 DEF EnsureReturn, SparesReaders, KeepsReaders, IInv, TypeOK
<1>18. ASSUME NEW p \in Request, EnsureError(p)
       PROVE  SparesReaders /\ KeepsReaders
  BY <1>18 DEF EnsureError, Finish, SparesReaders, KeepsReaders, IInv, TypeOK
<1>19. ASSUME NEW p \in Request, InfoArrives(p)
       PROVE  SparesReaders /\ KeepsReaders
  BY <1>19 DEF InfoArrives, SparesReaders, KeepsReaders, IInv, TypeOK
<1>20. ASSUME NEW p \in Request, InfoFails(p)
       PROVE  SparesReaders /\ KeepsReaders
  BY <1>20 DEF InfoFails, Finish, SparesReaders, KeepsReaders, IInv, TypeOK
<1>21. ASSUME NEW p \in Play, PlayActivity(p)
       PROVE  SparesReaders /\ KeepsReaders
  BY <1>21 DEF PlayActivity, SparesReaders, KeepsReaders, IInv, TypeOK
<1>22. ASSUME NEW p \in Play, PlayRegister(p)
       PROVE  SparesReaders /\ KeepsReaders
  BY <1>22 DEF PlayRegister, SparesReaders, KeepsReaders, IInv, TypeOK
<1>23. ASSUME NEW p \in Play, PlayAccess(p)
       PROVE  SparesReaders /\ KeepsReaders
  BY <1>23 DEF PlayAccess, SparesReaders, KeepsReaders, IInv, TypeOK
<1>24. ASSUME NEW p \in Play, PlayEnd(p)
       PROVE  SparesReaders /\ KeepsReaders
  BY <1>24 DEF PlayEnd, Finish, Streaming, SparesReaders, KeepsReaders, IInv, TypeOK
<1>25. ASSUME NEW w \in Warm, WarmRecheck(w)
       PROVE  SparesReaders /\ KeepsReaders
  BY <1>25 DEF WarmRecheck, Finish, SparesReaders, KeepsReaders, IInv, TypeOK
<1>26. ASSUME NEW w \in Warm, PrebufferEnd(w)
       PROVE  SparesReaders /\ KeepsReaders
  BY <1>26 DEF PrebufferEnd, Finish, SparesReaders, KeepsReaders, IInv, TypeOK
<1>27. ASSUME JanitorTick
       PROVE  SparesReaders /\ KeepsReaders
  BY <1>27 DEF JanitorTick, SparesReaders, KeepsReaders, IInv, TypeOK
<1>28. ASSUME NEW i \in Infohash, ReapLook(i)
       PROVE  SparesReaders /\ KeepsReaders
  BY <1>28 DEF ReapLook, SparesReaders, KeepsReaders, IInv, TypeOK
<1>29. ASSUME ReapDrop
       PROVE  SparesReaders /\ KeepsReaders
  BY <1>29 DEF ReapDrop, SparesReaders, KeepsReaders, IInv, TypeOK
<1>30. ASSUME ReapForget
       PROVE  SparesReaders /\ KeepsReaders
  BY <1>30 DEF ReapForget, SparesReaders, KeepsReaders, IInv, TypeOK
<1>31. ASSUME ReapDone
       PROVE  SparesReaders /\ KeepsReaders
  BY <1>31 DEF ReapDone, SparesReaders, KeepsReaders, IInv, TypeOK
<1>32. ASSUME Tick
       PROVE  SparesReaders /\ KeepsReaders
  BY <1>32 DEF Tick, SparesReaders, KeepsReaders, IInv, TypeOK
<1>33. ASSUME ReapDecide
       PROVE  SparesReaders /\ KeepsReaders
  <2>1. jcur \in Infohash
    BY <1>33 DEF ReapDecide, IInv, Locals
  <2>2. jptr /\ jpc' = "drop" => ~(act[jcur].readers > 0)
    <3> SUFFICES ASSUME jptr, jpc' = "drop" PROVE ~(act[jcur].readers > 0)
      OBVIOUS
    <3>1. VisitOutcomes = {IdleRecord(act[jcur])}
      BY DEF VisitOutcomes
    <3>2. PICK idle \in VisitOutcomes : idle
      BY <1>33 DEF ReapDecide
    <3>3. IdleRecord(act[jcur])
      BY <3>1, <3>2, Zenon
    <3> QED
      BY <3>3 DEF IdleRecord
  <2>3. jptr /\ jpc' = "drop" => Registered(jcur) = {}
    BY <2>1, <2>2, UncountedUnread
  <2> QED
    BY <1>33, <2>3 DEF ReapDecide, SparesReaders, KeepsReaders, IInv, TypeOK
<1> QED
  BY <1>1, <1>2, <1>3, <1>4, <1>5, <1>6, <1>7, <1>8, <1>9, <1>10, <1>11, <1>12, <1>13, <1>14, <1>15, <1>16, <1>17, <1>18, <1>19, <1>20, <1>21, <1>22, <1>23, <1>24, <1>25, <1>26, <1>27, <1>28, <1>29, <1>30, <1>31, <1>32, <1>33
  DEF Next, Ensure, EvictOldest, WaitInfo, PlayNext, WarmNext, Janitor

----------------------------------------------------------------------------
(* The theorems.                                                           *)

LEMMA Inductive == Spec => []IInv
<1>1. IInv /\ [Next]_vars => IInv'
  <2> SUFFICES ASSUME IInv, [Next]_vars
               PROVE  IInv'
    OBVIOUS
  <2>1. CASE Next
    BY <2>1, TypeStep, ReadersStep, AddingStep, SlotsStep DEF IInv
  <2>2. CASE UNCHANGED vars
    <3>1. TypeOK' /\ Locals'
      BY <2>2 DEF vars, localVars, janitorVars, IInv, TypeOK, Locals
    <3>2. ReadersExact'
      BY <2>2, UntouchedReaders
      DEF vars, localVars, IInv, ReadersUntouched
    <3>3. AddingHasOwner' /\ MarkedIsMapped'
      BY <2>2, UntouchedAdds DEF vars, localVars, IInv, AddsUntouched
    <3>4. WarmSlotsExact'
      BY <2>2, UntouchedSlots DEF vars, IInv, SlotsUntouched
    <3> QED
      BY <3>1, <3>2, <3>3, <3>4 DEF IInv
  <2> QED
    BY <2>1, <2>2
<1> QED
  BY <1>1, InitInv, PTL DEF Spec

(* Every variable keeps its type for ever; no reader count goes negative   *)
(* and no warm slot is given back twice.                                   *)
THEOREM TypeCorrect == Spec => []TypeOK
BY Inductive, PTL DEF IInv

(* The counter evictOldest, reapIdle, sweepCache and streamBusy trust is   *)
(* the number of plays streaming through the mapped record.                *)
THEOREM ReadersCorrect == Spec => []ReadersExact
BY Inductive, PTL DEF IInv

(* No record stays marked as being added after the add.                    *)
THEOREM AddingCorrect == Spec => []AddingHasOwner
BY Inductive, PTL DEF IInv

(* warmSem holds one slot per warm in flight and never overflows.          *)
THEOREM WarmSlotsCorrect == Spec => []WarmSlotsExact
BY Inductive, PTL DEF IInv

(* No torrent is condemned while its record counts a reader.               *)
THEOREM CondemnCorrect == Spec => CondemnSparesReaders
<1>1. IInv /\ [Next]_vars => [SparesReaders]_vars
  BY SparingStep
<1>2. [SparesReaders]_vars =>
        [/\ \A p \in Request :
              victim'[p] \notin {None, victim[p]} => Registered(victim'[p]) = {}
         /\ jpc = "visit" /\ jpc' = "drop" /\ jptr => Registered(jcur) = {}]_vars
  BY DEF SparesReaders
<1> QED
  BY <1>1, <1>2, Inductive, PTL DEF Spec, CondemnSparesReaders

(* Only reapIdle's late deletion takes the record from a streaming play.   *)
THEOREM OrphanCorrect == Spec => OnlyReapOrphansReaders
<1>1. IInv /\ [Next]_vars => [KeepsReaders]_vars
  BY SparingStep
<1>2. [KeepsReaders]_vars =>
        [\A p \in Play :
           Streaming(p) /\ ptr[p] /\ Streaming(p)' /\ ~ptr'[p] => jpc = "forget"]_vars
  BY DEF KeepsReaders, Streaming
<1> QED
  BY <1>1, <1>2, Inductive, PTL DEF Spec, OnlyReapOrphansReaders
----------------------------------------------------------------------------
(* One adder at a time.  As long as no entry of addLocks is deleted, all   *)
(* that wait for or hold the add lock of an infohash hold the mapped one.  *)

LocksStay == \A i \in Infohash : addLocks[i] # None => addLocks'[i] = addLocks[i]

SingleAdder ==
  \A p, q \in Request : Adding(p) /\ Adding(q) /\ ih[p] = ih[q] => p = q

AtLock(p) == pc[p] = "lock" \/ HoldsLock(p)

OneLock ==
  /\ \A p \in Request : AtLock(p) => addLocks[ih[p]] # None /\ lk[p] = addLocks[ih[p]]
  /\ \A p, q \in Request : HoldsLock(p) /\ HoldsLock(q) /\ ih[p] = ih[q] => p = q

\* Nobody comes to a lock, and those at one keep it.
LocksUntouched ==
  \A q \in Request :
    /\ AtLock(q)' => AtLock(q) /\ ih'[q] = ih[q] /\ lk'[q] = lk[q]
    /\ HoldsLock(q)' => HoldsLock(q)

LEMMA UntouchedLocks ==
  ASSUME IInv, OneLock, LocksStay, LocksUntouched
  PROVE  OneLock'
<1>1. ASSUME NEW q \in Request, AtLock(q)'
      PROVE  AtLock(q) /\ ih'[q] = ih[q] /\ lk'[q] = lk[q] /\ ih[q] \in Infohash
  BY <1>1 DEF LocksUntouched, AtLock, HoldsLock, Locked, InAdd, IInv, Locals
<1>2. \A q \in Request : AtLock(q)' => addLocks'[ih'[q]] # None /\ lk'[q] = addLocks'[ih'[q]]
  BY <1>1 DEF OneLock, LocksStay
<1>3. \A q \in Request : HoldsLock(q)' => HoldsLock(q) /\ ih'[q] = ih[q]
  BY <1>1 DEF LocksUntouched, AtLock
<1> QED
  BY <1>2, <1>3 DEF OneLock

LEMMA OneLockStep ==
  ASSUME IInv, OneLock, LocksStay, Next
  PROVE  OneLock'
<1> USE DEF Goto, Request, localVars, AtLock, HoldsLock, Locked, InAdd
<1>1. ASSUME NEW p \in Play, PlayNext(p) PROVE LocksUntouched
  BY <1>1 DEF PlayNext, PlayArrive, PlayActivity, PlayRegister, PlayAccess, PlayEnd, Finish,
              Streaming, LocksUntouched, IInv, TypeOK
<1>2. ASSUME NEW w \in Warm, WarmNext(w) PROVE LocksUntouched
  BY <1>2 DEF WarmNext, WarmArrive, WarmAcquire, WarmRecheck, PrebufferEnd, Finish,
              LocksUntouched, IInv, TypeOK
<1>3. ASSUME NEW p \in Request, WaitInfo(p) PROVE LocksUntouched
  BY <1>3 DEF WaitInfo, InfoArrives, InfoFails, Finish, LocksUntouched, IInv, TypeOK
<1>4. ASSUME NEW p \in Request, TouchActivity(p) \/ TouchStamp(p) \/ FastPath(p)
      PROVE  LocksUntouched
  BY <1>4 DEF TouchActivity, TouchStamp, FastPath, LocksUntouched, IInv, TypeOK
<1>5. ASSUME NEW p \in Request, MarkAdding(p) \/ CheckCap(p) \/ EvictOldest(p)
      PROVE  LocksUntouched
  BY <1>5 DEF MarkAdding, CheckCap, EvictOldest, EvictPick, EvictNone, EvictLookup, EvictDrop,
              LocksUntouched, IInv, TypeOK
<1>6. ASSUME NEW p \in Request,
             AddMagnet(p) \/ AddMagnetFails(p) \/ EnsureReturn(p) \/ EnsureError(p)
      PROVE  LocksUntouched
  BY <1>6 DEF AddMagnet, AddMagnetFails, EnsureReturn, EnsureError, Finish,
              LocksUntouched, IInv, TypeOK
<1>7. ASSUME Janitor PROVE LocksUntouched
  BY <1>7 DEF Janitor, JanitorTick, ReapLook, ReapDecide, ReapDrop, ReapForget, ReapDone,
              LocksUntouched
<1>8. ASSUME Tick PROVE LocksUntouched
  BY <1>8 DEF Tick, LocksUntouched
\* The caller gets the mapped lock, or maps its own.
<1>9. ASSUME NEW p \in Request, LockFor(p) PROVE OneLock'
  <2>1. ih[p] \in Infohash /\ p # None /\ pc[p] = "lockFor"
    BY <1>9, EngineAssumption DEF LockFor, IInv, Locals
  <2>2. addLocks'[ih[p]] # None /\ lk'[p] = addLocks'[ih[p]]
    BY <1>9, <2>1 DEF LockFor, IInv, TypeOK
  <2>3. /\ ih' = ih /\ pc' = [pc EXCEPT ![p] = "lock"]
        /\ \A q \in Request \ {p} : lk'[q] = lk[q]
    BY <1>9 DEF LockFor, IInv, TypeOK
  <2>4. \A q \in Request \ {p} : AtLock(q) => ih[q] \in Infohash
    BY DEF IInv, Locals
  <2>5. \A q \in Request \ {p} : AtLock(q) => addLocks'[ih[q]] # None /\ lk'[q] = addLocks'[ih[q]]
    BY <2>3, <2>4 DEF OneLock, LocksStay
  <2>6. \A q \in Request \ {p} : pc'[q] = pc[q]
    BY <2>3 DEF IInv, TypeOK
  <2>7. pc'[p] = "lock"
    BY <2>3 DEF IInv, TypeOK
  <2> QED
    BY <2>2, <2>3, <2>5, <2>6, <2>7 DEF OneLock
\* Whoever holds the add lock of the same infohash holds this one.
<1>10. ASSUME NEW p \in Request, AcquireAdd(p) PROVE OneLock'
  <2>1. CASE ih[p] \in cl
    <3>1. LocksUntouched
      BY <1>10, <2>1 DEF AcquireAdd, LocksUntouched, IInv, TypeOK
    <3> QED
      BY <3>1, UntouchedLocks
  <2>2. CASE ih[p] \notin cl
    <3>1. /\ ih' = ih /\ lk' = lk /\ addLocks' = addLocks
          /\ pc' = [pc EXCEPT ![p] = "mark"] /\ pc[p] = "lock"
      BY <1>10, <2>2 DEF AcquireAdd
    <3>2. \A q \in Request : ih[q] = ih[p] => ~HoldsLock(q)
      BY <1>10, <3>1 DEF AcquireAdd, OneLock
    <3>3. pc'[p] = "mark" /\ \A q \in Request \ {p} : pc'[q] = pc[q]
      BY <3>1 DEF IInv, TypeOK
    <3> QED
      BY <3>1, <3>2, <3>3 DEF OneLock
  <2> QED
    BY <2>1, <2>2
<1> QED
  BY <1>1, <1>2, <1>3, <1>4, <1>5, <1>6, <1>7, <1>8, <1>9, <1>10, UntouchedLocks
  DEF Next, Ensure

(* One ensure at a time adds an infohash until an entry of addLocks is     *)
(* deleted (engine.go:291-300, 335-347): evictOldest, reapIdle and the     *)
(* sweep are all that can break it.                                        *)
THEOREM OneAdderWhileLocksStay == Spec /\ [][LocksStay]_vars => []SingleAdder
<1>1. Init => OneLock
  BY DEF Init, OneLock, AtLock, HoldsLock, Locked, InAdd, Request
<1>2. IInv /\ OneLock /\ [Next]_vars /\ [LocksStay]_vars => OneLock'
  <2> SUFFICES ASSUME IInv, OneLock, [Next]_vars, [LocksStay]_vars PROVE OneLock'
    OBVIOUS
  <2>1. CASE Next /\ LocksStay
    BY <2>1, OneLockStep
  <2>2. CASE UNCHANGED vars
    BY <2>2 DEF vars, localVars, OneLock, AtLock, HoldsLock
  <2> QED
    BY <2>1, <2>2
<1>3. OneLock => SingleAdder
  BY DEF OneLock, SingleAdder, Adding, HoldsLock, Locked, InAdd
<1> QED
  BY <1>1, <1>2, <1>3, Inductive, PTL DEF Spec
=============================================================================
