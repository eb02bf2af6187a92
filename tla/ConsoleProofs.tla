--------------------------- MODULE ConsoleProofs ----------------------------
(***************************************************************************)
(* Proofs about Console for any number of requests, secrets, periods and   *)
(* faults: the types, that no code is accepted twice, that sessions meet   *)
(* the second factor, that two-factor turns on with its code spent, and    *)
(* that a blocked address stays blocked.                                   *)
(***************************************************************************)
EXTENDS Console, SequenceTheorems, FiniteSetTheorems, WellFoundedInduction, TLAPS

\* One write of handle2FAEnable or handle2FADisable.
Setting == [k : {"secret", "pending"}, v : 0..MaxSecret]
             \cup [k : {"last"}, v : 0..(MaxStep + 1)]
             \cup [k : {"enabled"}, v : {0, 1}]
             \cup [k : {"recovery"}, v : SUBSET RecoveryCodes]

Todo ==
  /\ todo \in [Req -> Seq(Setting)]
  /\ \A r \in Req : pc[r] = "write" => todo[r] # <<>>
----------------------------------------------------------------------------
(* Codes, settings and the lists of writes.                                *)

LEMMA CodeKinds ==
  /\ \A c \in TOTPCodes : c[1] = 0 /\ c[2] \in 0..(MaxStep + 1)
  /\ \A c \in RecoveryCodes : c[1] # 0
  /\ NoCode \in TOTPCodes
BY ConsoleAssumption DEF TOTPCodes, RecoveryCodes, Recovery, NoCode

LEMMA CodesOffered ==
  ASSUME step \in 1..MaxStep, fresh \in 0..MaxSecret
  PROVE  /\ Around(step) \subseteq TOTPCodes
         /\ UNION {Recovery(s) : s \in 1..fresh} \subseteq RecoveryCodes
<1>1. Around(step) \subseteq TOTPCodes
  BY ConsoleAssumption DEF Around, TOTPCodes
<1>2. 1..fresh \subseteq 1..MaxSecret
  BY ConsoleAssumption
<1> QED
  BY <1>1, <1>2 DEF RecoveryCodes

LEMMA WritesAreSettings ==
  /\ DisableWrites \in Seq(Setting) /\ Len(DisableWrites) = 5
  /\ \A s \in 0..MaxSecret, c \in TOTPCodes :
       s # 0 => EnableWrites(s, c) \in Seq(Setting) /\ Len(EnableWrites(s, c)) = 5
<1>1. DisableWrites \in Seq(Setting) /\ Len(DisableWrites) = 5
  BY ConsoleAssumption DEF DisableWrites, Setting
<1>2. ASSUME NEW s \in 0..MaxSecret, NEW c \in TOTPCodes, s # 0
      PROVE  EnableWrites(s, c) \in Seq(Setting) /\ Len(EnableWrites(s, c)) = 5
  <2>1. Recovery(s) \in SUBSET RecoveryCodes
    BY <1>2, ConsoleAssumption DEF RecoveryCodes
  <2>2. c[2] \in 0..(MaxStep + 1)
    BY CodeKinds
  <2> QED
    BY <2>1, <2>2, ConsoleAssumption DEF EnableWrites, Setting
<1> QED
  BY <1>1, <1>2

\* A write changes the field it names, and only that one.
LEMMA SettingWritten ==
  ASSUME NEW s \in Settings, NEW e \in Setting, NEW new, new = [s EXCEPT ![e.k] = e.v]
  PROVE  /\ e.k \in {"secret", "last", "enabled", "pending", "recovery"}
         /\ new \in Settings
         /\ new.secret = IF e.k = "secret" THEN e.v ELSE s.secret
         /\ new.last = IF e.k = "last" THEN e.v ELSE s.last
         /\ new.enabled = IF e.k = "enabled" THEN e.v ELSE s.enabled
         /\ new.recovery = IF e.k = "recovery" THEN e.v ELSE s.recovery
<1>1. CASE e.k = "secret"
  <2>1. new = [s EXCEPT !.secret = e.v] /\ e.v \in 0..MaxSecret
    BY <1>1 DEF Setting
  <2> QED
    BY <1>1, <2>1 DEF Settings
<1>2. CASE e.k = "last"
  <2>1. new = [s EXCEPT !.last = e.v] /\ e.v \in 0..(MaxStep + 1)
    BY <1>2 DEF Setting
  <2> QED
    BY <1>2, <2>1 DEF Settings
<1>3. CASE e.k = "enabled"
  <2>1. new = [s EXCEPT !.enabled = e.v] /\ e.v \in {0, 1}
    BY <1>3 DEF Setting
  <2> QED
    BY <1>3, <2>1 DEF Settings
<1>4. CASE e.k = "pending"
  <2>1. new = [s EXCEPT !.pending = e.v] /\ e.v \in 0..MaxSecret
    BY <1>4 DEF Setting
  <2> QED
    BY <1>4, <2>1 DEF Settings
<1>5. CASE e.k = "recovery"
  <2>1. new = [s EXCEPT !.recovery = e.v] /\ e.v \in SUBSET RecoveryCodes
    BY <1>5 DEF Setting
  <2> QED
    BY <1>5, <2>1 DEF Settings
<1> QED
  BY <1>1, <1>2, <1>3, <1>4, <1>5 DEF Setting
----------------------------------------------------------------------------
(* Types.                                                                  *)

LEMMA InitType == Init => TypeOK /\ Todo
<1> SUFFICES ASSUME Init PROVE TypeOK /\ Todo
  OBVIOUS
<1>1. set \in Settings /\ fresh \in 0..MaxSecret
  BY ConsoleAssumption DEF Init, Settings, RecoveryCodes
<1>2. /\ pc \in [Req -> Stages] /\ kind \in [Req -> Kinds] /\ mu = None
      /\ \A r \in Req : mu = r <=> pc[r] \in Checking
  BY ConsoleAssumption DEF Init, Stages, Kinds, Checking
<1>3. code \in [Req -> TOTPCodes \cup RecoveryCodes] /\ Todo
  BY CodeKinds, EmptySeq DEF Init, Todo
<1> QED
  BY <1>1, <1>2, <1>3, ConsoleAssumption DEF Init, TypeOK

Holder == pc \in [Req -> Stages] /\ \A r \in Req : mu = r <=> pc[r] \in Checking

LEMMA HolderKept ==
  ASSUME Holder, NEW r \in Req, NEW l \in Stages, pc' = [pc EXCEPT ![r] = l],
         \/ mu' = mu /\ (pc[r] \in Checking <=> l \in Checking)
         \/ mu = None /\ mu' = r /\ l \in Checking
         \/ mu' = None /\ pc[r] \in Checking /\ l \notin Checking
  PROVE  Holder'
<1>1. pc' \in [Req -> Stages]
  BY DEF Holder
<1>2. \A q \in Req : pc'[q] = IF q = r THEN l ELSE pc[q]
  BY DEF Holder
<1> QED
  BY <1>1, <1>2, ConsoleAssumption DEF Holder

LEMMA StepHolder ==
  ASSUME TypeOK, NEW r \in Req, Serve(r)
  PROVE  Holder'
<1> USE DEF Goto, Leave, Stages, Checking
<1>1. Holder
  BY DEF TypeOK, Holder
<1>2. CASE \E k \in Kinds : Arrive(r, k)
  BY <1>1, <1>2, HolderKept DEF Arrive, Kinds
<1>3. CASE WrongPassword(r) \/ LoginPassword(r) \/ DisablePassword(r) \/ BeginAsk(r)
  BY <1>1, <1>3, HolderKept DEF WrongPassword, LoginPassword, DisablePassword, BeginAsk
<1>4. CASE Lock(r)
  <2>1. \E l \in Checking : pc' = [pc EXCEPT ![r] = l]
    BY <1>4 DEF Lock
  <2> QED
    BY <1>1, <1>4, <2>1, HolderKept DEF Lock
<1>5. CASE ReadLast(r) \/ ReadRecovery(r) \/ Spend(r) \/ Refuse(r)
  BY <1>1, <1>5, HolderKept DEF ReadLast, ReadRecovery, Spend, Refuse
<1>6. CASE CreateSession(r) \/ Begin(r) \/ EndSession(r) \/ EndOthers(r)
  BY <1>1, <1>6, HolderKept DEF CreateSession, Begin, EndSession, EndOthers
<1>7. CASE Enable(r) \/ WriteSetting(r) \/ StoreFails(r) \/ ReadFails(r)
  BY <1>1, <1>7, HolderKept DEF Enable, WriteSetting, StoreFails, ReadFails
<1> QED
  BY <1>2, <1>3, <1>4, <1>5, <1>6, <1>7 DEF Serve, Check

LEMMA StepTodo ==
  ASSUME TypeOK, Todo, NEW r \in Req, Serve(r)
  PROVE  Todo'
<1> USE DEF Goto, Leave, Todo, history
<1>1. CASE \E k \in Kinds : Arrive(r, k)
  BY <1>1 DEF Arrive, TypeOK, Kinds
<1>2. CASE WrongPassword(r) \/ LoginPassword(r) \/ DisablePassword(r) \/ BeginAsk(r)
  BY <1>2 DEF WrongPassword, LoginPassword, DisablePassword, BeginAsk, TypeOK
<1>3. CASE Lock(r) \/ ReadLast(r) \/ ReadRecovery(r) \/ Refuse(r)
  BY <1>3 DEF Lock, ReadLast, ReadRecovery, Refuse, TypeOK
<1>4. CASE Spend(r)
  <2>1. DisableWrites # <<>>
    BY WritesAreSettings
  <2> QED
    BY <1>4, <2>1, WritesAreSettings DEF Spend, TypeOK
<1>5. CASE CreateSession(r) \/ Begin(r) \/ EndSession(r) \/ EndOthers(r) \/ ReadFails(r)
  BY <1>5 DEF CreateSession, Begin, EndSession, EndOthers, ReadFails, TypeOK
<1>6. CASE Enable(r)
  <2>1. CASE Leave(r) /\ UNCHANGED <<code, todo, whole>>
    BY <2>1 DEF TypeOK
  <2>2. CASE set.pending # 0 /\ \E c \in Around(step) :
               /\ todo' = [todo EXCEPT ![r] = EnableWrites(set.pending, c)]
               /\ pc' = [pc EXCEPT ![r] = "write"]
    <3>1. PICK c \in Around(step) :
            /\ todo' = [todo EXCEPT ![r] = EnableWrites(set.pending, c)]
            /\ pc' = [pc EXCEPT ![r] = "write"]
      BY <2>2
    <3>2. c \in TOTPCodes /\ set.pending \in 0..MaxSecret
      BY CodesOffered DEF TypeOK, Settings
    <3>3. PICK w : w = EnableWrites(set.pending, c)
      OBVIOUS
    <3>4. w \in Seq(Setting) /\ w # <<>>
      <4>1. w \in Seq(Setting) /\ Len(w) = 5
        BY ONLY <2>2, <3>2, <3>3, WritesAreSettings
      <4> QED
        BY ONLY <4>1
    <3> QED
      BY <3>1, <3>3, <3>4 DEF TypeOK
  <2> QED
    BY <1>6, <2>1, <2>2 DEF Enable
<1>7. CASE WriteSetting(r) \/ StoreFails(r)
  <2>1. CASE pc[r] = "write"
    <3>1. todo' = [todo EXCEPT ![r] = Tail(todo[r])]
      BY <1>7, <2>1 DEF WriteSetting, StoreFails
    <3>2. pc' = [pc EXCEPT ![r] = IF Len(todo[r]) = 1 THEN "others" ELSE "write"]
      BY <1>7, <2>1 DEF WriteSetting, StoreFails
    <3>3. PICK t : t = Tail(todo[r])
      OBVIOUS
    <3>4. t \in Seq(Setting) /\ Len(t) = Len(todo[r]) - 1 /\ Len(todo[r]) \in Nat \ {0}
      BY <2>1, <3>3, HeadTailProperties, EmptySeq
    <3>5. Len(todo[r]) # 1 => t # <<>>
      BY <3>4
    <3> QED
      BY <3>1, <3>2, <3>3, <3>4, <3>5 DEF TypeOK
  <2>2. CASE pc[r] # "write"
    BY <1>7, <2>2 DEF WriteSetting, StoreFails, TypeOK
  <2> QED
    BY <2>1, <2>2
<1> QED
  BY <1>1, <1>2, <1>3, <1>4, <1>5, <1>6, <1>7 DEF Serve, Check

LEMMA StepType ==
  ASSUME TypeOK, Todo, NEW r \in Req, Serve(r)
  PROVE  TypeOK'
<1> USE StepHolder DEF Holder, Goto, Leave, history
<1>1. ASSUME NEW k \in Kinds, Arrive(r, k) PROVE TypeOK'
  <2>1. cur' \in [Req -> Req \cup {First, None}] /\ kind' \in [Req -> Kinds]
    BY <1>1 DEF Arrive, TypeOK
  <2> QED
    BY <1>1, <2>1 DEF Arrive, TypeOK
<1>2. CASE WrongPassword(r) \/ LoginPassword(r) \/ DisablePassword(r) \/ BeginAsk(r)
  BY <1>2 DEF WrongPassword, LoginPassword, DisablePassword, BeginAsk, TypeOK
<1>3. CASE Lock(r)
  <2>1. code' \in [Req -> TOTPCodes \cup RecoveryCodes]
    BY <1>3, CodesOffered DEF Lock, TypeOK
  <2> QED
    BY <1>3, <2>1 DEF Lock, TypeOK
<1>4. CASE ReadLast(r) \/ ReadRecovery(r)
  <2>1. got' \in [Req -> SUBSET RecoveryCodes]
    BY <1>4 DEF ReadLast, ReadRecovery, TypeOK, Settings
  <2> QED
    BY <1>4, <2>1 DEF ReadLast, ReadRecovery, TypeOK
<1>5. CASE Spend(r)
  <2>1. code[r] \in TOTPCodes \cup RecoveryCodes /\ got[r] \in SUBSET RecoveryCodes
    BY DEF TypeOK
  <2>2. set' \in Settings
    <3>1. CASE code[r][1] = 0
      <4>1. code[r][2] \in 0..(MaxStep + 1) /\ set' = [set EXCEPT !.last = code[r][2]]
        BY <1>5, <2>1, <3>1, CodeKinds DEF Spend
      <4> QED
        BY <4>1 DEF TypeOK, Settings
    <3>2. CASE code[r][1] # 0
      <4>1. set' = [set EXCEPT !.recovery = got[r] \ {code[r]}]
        BY <1>5, <3>2 DEF Spend
      <4> QED
        BY <2>1, <4>1 DEF TypeOK, Settings
    <3> QED
      BY <3>1, <3>2
  <2>3. /\ code' \in [Req -> TOTPCodes \cup RecoveryCodes]
        /\ got' \in [Req -> SUBSET RecoveryCodes]
        /\ accepted' \subseteq TOTPCodes \cup RecoveryCodes
    BY <1>5, <2>1, CodeKinds DEF Spend, TypeOK, StillSpent
  <2> QED
    BY <1>5, <2>2, <2>3 DEF Spend, TypeOK
<1>6. CASE Refuse(r)
  <2>1. /\ code' \in [Req -> TOTPCodes \cup RecoveryCodes]
        /\ got' \in [Req -> SUBSET RecoveryCodes]
    BY <1>6, CodeKinds DEF Refuse, TypeOK
  <2> QED
    BY <1>6, <2>1 DEF Refuse, TypeOK
<1>7. CASE CreateSession(r) \/ Begin(r) \/ EndSession(r)
  <2>1. set' \in Settings /\ fresh' \in 0..MaxSecret
    BY <1>7, ConsoleAssumption DEF CreateSession, Begin, EndSession, TypeOK, Settings
  <2>2. sessions' \subseteq Req \cup {First}
    BY <1>7 DEF CreateSession, Begin, EndSession, TypeOK
  <2> QED
    BY <1>7, <2>1, <2>2 DEF CreateSession, Begin, EndSession, TypeOK
<1>8. CASE Enable(r)
  <2>1. code' \in [Req -> TOTPCodes \cup RecoveryCodes]
    BY <1>8, CodesOffered DEF Enable, TypeOK
  <2> QED
    BY <1>8, <2>1 DEF Enable, TypeOK
<1>9. CASE WriteSetting(r)
  <2>1. Head(todo[r]) \in Setting
    BY <1>9, HeadTailProperties DEF WriteSetting, Todo
  <2>2. set' \in Settings
    BY <1>9, <2>1, SettingWritten DEF WriteSetting, TypeOK
  <2>3. accepted' \subseteq accepted
    BY <1>9 DEF WriteSetting
  <2> QED
    BY <1>9, <2>2, <2>3 DEF WriteSetting, TypeOK
<1>10. CASE EndOthers(r)
  <2>1. sessions' \subseteq sessions
    BY <1>10 DEF EndOthers, KeepOnly, SignedIn
  <2>2. code' \in [Req -> TOTPCodes \cup RecoveryCodes]
    BY <1>10, CodeKinds DEF EndOthers, TypeOK
  <2> QED
    BY <1>10, <2>1, <2>2 DEF EndOthers, TypeOK
<1>11. CASE StoreFails(r) \/ ReadFails(r)
  <2>1. code' \in [Req -> TOTPCodes \cup RecoveryCodes]
    BY <1>11, CodeKinds DEF StoreFails, ReadFails, TypeOK
  <2>2. faults' \in 0..MaxFaults
    BY <1>11, ConsoleAssumption DEF StoreFails, ReadFails, TypeOK
  <2> QED
    BY <1>11, <2>1, <2>2 DEF StoreFails, ReadFails, TypeOK
<1> QED
  BY <1>1, <1>2, <1>3, <1>4, <1>5, <1>6, <1>7, <1>8, <1>9, <1>10, <1>11 DEF Serve, Check

LEMMA NextType == TypeOK /\ Todo /\ [Next]_vars => TypeOK' /\ Todo'
<1> SUFFICES ASSUME TypeOK, Todo, [Next]_vars PROVE TypeOK' /\ Todo'
  OBVIOUS
<1>1. CASE Tick
  BY <1>1, ConsoleAssumption DEF Tick, TypeOK, Todo, reqVars, history
<1>2. CASE Restart
  <2>1. pc' \in [Req -> Stages] /\ \A r \in Req : pc'[r] \in {"new", "done"}
    BY <1>2 DEF Restart, Stages
  <2>2. \A r \in Req : mu' = r <=> pc'[r] \in Checking
    BY <1>2, <2>1, ConsoleAssumption DEF Restart, Checking
  <2>3. /\ code' \in [Req -> TOTPCodes \cup RecoveryCodes]
        /\ got' \in [Req -> SUBSET RecoveryCodes] /\ todo' \in [Req -> Seq(Setting)]
    BY <1>2, CodeKinds, EmptySeq DEF Restart
  <2>4. faults' \in 0..MaxFaults
    BY <1>2, ConsoleAssumption DEF Restart, TypeOK
  <2> QED
    BY <1>2, <2>1, <2>2, <2>3, <2>4 DEF Restart, TypeOK, Todo
<1>3. ASSUME NEW r \in Req, Serve(r) PROVE TypeOK' /\ Todo'
  BY <1>3, StepType, StepTodo
<1>4. CASE UNCHANGED vars
  BY <1>4 DEF vars, reqVars, history, TypeOK, Todo
<1> QED
  BY <1>1, <1>2, <1>3, <1>4 DEF Next
----------------------------------------------------------------------------
(* One-use codes.                                                          *)

\* No accepted code is one that the settings would still let through.
AcceptedSpent ==
  \A c \in accepted : IF c[1] = 0 THEN c[2] <= set.last ELSE c \notin set.recovery

\* The code r is about to spend is newer than the accepted ones, or among the
\* recovery codes it has read, which holds no accepted one; or it is misled.
NewCode(r) ==
  \/ r \in misled /\ code[r][1] = 0
  \/ code[r][1] = 0 /\ \A c \in accepted : c[1] = 0 => c[2] < code[r][2]
  \/ code[r] \in RecoveryCodes /\ code[r] \in got[r] /\ accepted \cap got[r] = {}

Codes ==
  /\ AcceptedSpent
  /\ \A r \in Req :
       /\ pc[r] = "last" => code[r] \in TOTPCodes
       /\ pc[r] = "recovery" => code[r] \in RecoveryCodes
       /\ pc[r] = "spend" => NewCode(r)

LEMMA CodesKept ==
  ASSUME Codes, accepted' \subseteq accepted, misled \subseteq misled',
         \A c \in accepted' : IF c[1] = 0 THEN set'.last = set.last
                                          ELSE set'.recovery = set.recovery,
         \A q \in Req : pc'[q] \in {"last", "recovery", "spend"} =>
           pc'[q] = pc[q] /\ code'[q] = code[q] /\ got'[q] = got[q]
  PROVE  Codes'
<1>1. AcceptedSpent'
  BY DEF Codes, AcceptedSpent
<1>2. \A q \in Req : pc'[q] = "spend" => NewCode(q)'
  BY DEF Codes, NewCode
<1> QED
  BY <1>1, <1>2 DEF Codes

LEMMA StepCodes ==
  ASSUME TypeOK, Todo, Codes, NEW r \in Req, Serve(r)
  PROVE  Codes'
<1> USE DEF Goto, Leave, history
<1> DEFINE Quiet == /\ UNCHANGED <<set, accepted, got>> /\ misled \subseteq misled'
                    /\ \A q \in Req : pc'[q] \in {"last", "recovery", "spend"} =>
                                      pc'[q] = pc[q] /\ code'[q] = code[q]
<1>1. Quiet => Codes'
  BY CodesKept
<1>2. CASE \E k \in Kinds : Arrive(r, k)
  <2>1. Quiet
    BY <1>2 DEF Arrive, TypeOK, Kinds
  <2> QED
    BY <1>1, <2>1
<1>3. CASE WrongPassword(r) \/ LoginPassword(r) \/ DisablePassword(r) \/ BeginAsk(r)
  <2>1. Quiet
    BY <1>3 DEF WrongPassword, LoginPassword, DisablePassword, BeginAsk, TypeOK
  <2> QED
    BY <1>1, <2>1
<1>4. CASE CreateSession(r) \/ EndSession(r) \/ Enable(r) \/ EndOthers(r) \/ StoreFails(r)
  <2>1. Quiet
    BY <1>4 DEF CreateSession, EndSession, Enable, EndOthers, StoreFails, TypeOK
  <2> QED
    BY <1>1, <2>1
<1>5. CASE Refuse(r)
  BY <1>5, CodesKept DEF Refuse, TypeOK
<1>6. CASE Begin(r)
  <2>1. set'.last = set.last /\ set'.recovery = set.recovery
    BY <1>6 DEF Begin, TypeOK, Settings
  <2> QED
    BY <1>6, <2>1, CodesKept DEF Begin, TypeOK
<1>7. CASE Lock(r)
  <2>1. /\ pc'[r] = "last" => code'[r] \in TOTPCodes
        /\ pc'[r] = "recovery" => code'[r] \in RecoveryCodes
        /\ pc'[r] # "spend"
    BY <1>7, CodesOffered DEF Lock, TypeOK
  <2>2. \A q \in Req \ {r} : pc'[q] = pc[q] /\ code'[q] = code[q]
    BY <1>7 DEF Lock, TypeOK
  <2> QED
    BY <1>7, <2>1, <2>2 DEF Lock, Codes, AcceptedSpent, NewCode
<1>8. CASE ReadLast(r)
  <2>1. \A q \in Req \ {r} : pc'[q] = pc[q]
    BY <1>8 DEF ReadLast, TypeOK
  <2>2. pc'[r] = "spend" => NewCode(r)
    <3>1. code[r] \in TOTPCodes /\ set.last \in Nat
      BY <1>8, ConsoleAssumption DEF ReadLast, Codes, TypeOK, Settings
    <3>2. \A c \in accepted : c[1] = 0 => c[2] \in Nat
      BY CodeKinds DEF TypeOK
    <3>3. pc'[r] = "spend" => code[r][2] > set.last
      BY <1>8, <3>1, CodeKinds DEF ReadLast, TypeOK
    <3> QED
      BY <3>1, <3>2, <3>3, CodeKinds DEF NewCode, Codes, AcceptedSpent
  <2>3. pc'[r] \notin {"last", "recovery"}
    BY <1>8 DEF ReadLast, TypeOK
  <2> QED
    BY <1>8, <2>1, <2>2, <2>3 DEF ReadLast, Codes, AcceptedSpent, NewCode
<1>9. CASE ReadRecovery(r)
  <2>1. \A q \in Req \ {r} : pc'[q] = pc[q] /\ got'[q] = got[q]
    BY <1>9 DEF ReadRecovery, TypeOK
  <2>2. pc'[r] = "spend" => NewCode(r)'
    <3>1. code[r] \in RecoveryCodes /\ got'[r] = set.recovery
      BY <1>9 DEF ReadRecovery, Codes, TypeOK
    <3>2. set.recovery \subseteq RecoveryCodes
      BY DEF TypeOK, Settings
    <3>3. accepted \cap set.recovery = {}
      BY <3>2, CodeKinds DEF Codes, AcceptedSpent
    <3> QED
      BY <1>9, <3>1, <3>3 DEF ReadRecovery, NewCode, TypeOK
  <2>3. pc'[r] \notin {"last", "recovery"}
    BY <1>9 DEF ReadRecovery, TypeOK
  <2> QED
    BY <1>9, <2>1, <2>2, <2>3 DEF ReadRecovery, Codes, AcceptedSpent, NewCode
<1>10. CASE Spend(r)
  <2>1. NewCode(r)
    BY <1>10 DEF Spend, Codes
  <2>2. \A q \in Req : pc'[q] \notin {"last", "recovery", "spend"}
    <3>1. mu = r /\ \A q \in Req \ {r} : pc[q] \notin Checking
      BY <1>10 DEF Spend, TypeOK, Checking
    <3> QED
      BY <1>10, <3>1 DEF Spend, TypeOK, Checking
  <2>3. AcceptedSpent'
    <3>1. CASE code[r][1] = 0
      <4>1. set'.last = code[r][2] /\ set'.recovery = set.recovery
        BY <1>10, <3>1 DEF Spend, TypeOK, Settings
      <4>2. code[r][2] \in Nat
        BY <3>1, CodeKinds, ConsoleAssumption DEF TypeOK
      <4>3. \A c \in StillSpent(r) : c \in accepted /\ (c[1] = 0 => c[2] <= code[r][2])
        <5>1. CASE r \in misled
          BY <5>1 DEF StillSpent
        <5>2. CASE r \notin misled
          <6>1. \A c \in accepted : c[1] = 0 => c[2] \in Nat /\ c[2] < code[r][2]
            BY <2>1, <3>1, <5>2, CodeKinds DEF TypeOK, NewCode
          <6> QED
            BY <4>2, <5>2, <6>1 DEF StillSpent
        <5> QED
          BY <5>1, <5>2
      <4>4. \A c \in accepted' : c \in accepted \/ c = code[r]
        BY <1>10, <4>3 DEF Spend
      <4>5. \A c \in accepted' : c[1] = 0 => c[2] <= set'.last
        BY <1>10, <4>1, <4>2, <4>3 DEF Spend
      <4> QED
        BY <3>1, <4>1, <4>4, <4>5 DEF Codes, AcceptedSpent
    <3>2. CASE code[r][1] # 0
      <4>1. set'.recovery = got[r] \ {code[r]} /\ set'.last = set.last
        BY <1>10, <3>2 DEF Spend, TypeOK, Settings
      <4>2. StillSpent(r) \subseteq accepted /\ accepted \cap got[r] = {}
        BY <2>1, <3>2 DEF NewCode, StillSpent
      <4> QED
        BY <1>10, <3>2, <4>1, <4>2 DEF Spend, Codes, AcceptedSpent
    <3> QED
      BY <3>1, <3>2
  <2> QED
    BY <2>2, <2>3 DEF Codes
<1>11. CASE WriteSetting(r)
  <2>1. Head(todo[r]) \in Setting
    BY <1>11, HeadTailProperties DEF WriteSetting, Todo
  <2>2. PICK e \in Setting : e = Head(todo[r])
    BY <2>1
  <2>3. /\ set' = [set EXCEPT ![e.k] = e.v]
        /\ accepted' = CASE e.k \in {"last", "secret"} -> {c \in accepted : c[1] # 0}
                         [] e.k = "recovery" -> {c \in accepted : c[1] = 0}
                         [] OTHER -> accepted
    BY <1>11, <2>2 DEF WriteSetting
  <2>4. /\ set'.last = IF e.k = "last" THEN e.v ELSE set.last
        /\ set'.recovery = IF e.k = "recovery" THEN e.v ELSE set.recovery
    BY <2>3, SettingWritten DEF TypeOK
  <2>5. /\ accepted' \subseteq accepted
        /\ \A c \in accepted' : IF c[1] = 0 THEN set'.last = set.last
                                             ELSE set'.recovery = set.recovery
    BY <2>3, <2>4
  <2>6. \A q \in Req : pc'[q] \in {"last", "recovery", "spend"} =>
          pc'[q] = pc[q] /\ code'[q] = code[q] /\ got'[q] = got[q]
    BY <1>11 DEF WriteSetting, TypeOK
  <2>7. misled' = misled
    BY <1>11 DEF WriteSetting
  <2> QED
    BY <2>5, <2>6, <2>7, CodesKept
<1>12. CASE ReadFails(r)
  <2>1. CASE pc[r] = "last"
    <3>1. \A q \in Req \ {r} : pc'[q] = pc[q]
      BY <1>12, <2>1 DEF ReadFails, TypeOK
    <3>2. pc'[r] = "spend" /\ code[r] \in TOTPCodes /\ misled \subseteq misled'
      BY <1>12, <2>1 DEF ReadFails, Codes, TypeOK
    <3>3. NewCode(r)'
      <4>1. code[r][1] = 0 /\ code[r][2] \in Nat /\ set.last \in Nat
        BY <3>2, CodeKinds, ConsoleAssumption DEF TypeOK, Settings
      <4>2. \A c \in accepted : c[1] = 0 => c[2] \in Nat /\ c[2] <= set.last
        BY CodeKinds DEF TypeOK, Codes, AcceptedSpent
      <4>3. CASE code[r][2] <= set.last
        BY <1>12, <2>1, <4>1, <4>3 DEF ReadFails, NewCode
      <4>4. CASE ~(code[r][2] <= set.last)
        <5>1. \A c \in accepted : c[1] = 0 => c[2] < code[r][2]
          BY <4>1, <4>2, <4>4
        <5> QED
          BY <1>12, <4>1, <5>1 DEF ReadFails, NewCode
      <4> QED
        BY <4>3, <4>4
    <3> QED
      BY <1>12, <3>1, <3>2, <3>3 DEF ReadFails, Codes, AcceptedSpent, NewCode
  <2>2. CASE pc[r] # "last"
    <3>1. Quiet
      BY <1>12, <2>2 DEF ReadFails, TypeOK
    <3> QED
      BY <1>1, <3>1
  <2> QED
    BY <2>1, <2>2
<1> QED
  BY <1>2, <1>3, <1>4, <1>5, <1>6, <1>7, <1>8, <1>9, <1>10, <1>11, <1>12 DEF Serve, Check

LEMMA NextCodes == TypeOK /\ Todo /\ Codes /\ [Next]_vars => Codes'
<1> SUFFICES ASSUME TypeOK, Todo, Codes, [Next]_vars PROVE Codes'
  OBVIOUS
<1>1. CASE Tick \/ UNCHANGED vars
  BY <1>1, CodesKept DEF Tick, vars, reqVars, history
<1>2. CASE Restart
  BY <1>2, CodesKept DEF Restart
<1>3. ASSUME NEW r \in Req, Serve(r) PROVE Codes'
  BY <1>3, StepCodes
<1> QED
  BY <1>1, <1>2, <1>3 DEF Next
----------------------------------------------------------------------------
(* Sessions.                                                               *)

\* After an enable has run to its end: two-factor is on, and every session, and
\* every login about to get one, passed it or is excused.
Passed ==
  swept => /\ On(set)
           /\ sessions \subseteq proved \cup strad \cup misled
           /\ \A r \in Req : pc[r] = "create" => r \in proved \cup strad \cup misled

LEMMA PassedKept ==
  ASSUME Passed, swept' => swept, swept' => On(set'),
         sessions' \subseteq sessions, proved \subseteq proved', strad \subseteq strad',
         misled \subseteq misled',
         \A q \in Req : pc'[q] = "create" =>
           pc[q] = "create" \/ q \in proved' \cup strad' \cup misled'
  PROVE  Passed'
BY DEF Passed

LEMMA StepPassed ==
  ASSUME TypeOK, Todo, Passed, NEW r \in Req, Serve(r)
  PROVE  Passed'
<1> USE DEF Goto, Leave, history
<1>1. CASE \E k \in Kinds : Arrive(r, k)
  BY <1>1, PassedKept DEF Arrive, TypeOK, Kinds, Passed
<1>2. CASE WrongPassword(r) \/ DisablePassword(r) \/ BeginAsk(r)
  BY <1>2, PassedKept DEF WrongPassword, DisablePassword, BeginAsk, TypeOK, Passed
<1>3. CASE LoginPassword(r)
  <2>1. swept => On(set)
    BY DEF Passed
  <2>2. On(set) => \A q \in Req : pc'[q] = "create" => pc[q] = "create"
    BY <1>3 DEF LoginPassword, TypeOK
  <2> QED
    BY <1>3, <2>1, <2>2 DEF LoginPassword, Passed
<1>4. CASE Lock(r) \/ ReadLast(r) \/ ReadRecovery(r) \/ Refuse(r)
  BY <1>4, PassedKept DEF Lock, ReadLast, ReadRecovery, Refuse, TypeOK, Passed
<1>5. CASE Spend(r)
  <2>1. On(set') <=> On(set)
    BY <1>5 DEF Spend, On, TypeOK, Settings
  <2> QED
    BY <1>5, <2>1, PassedKept DEF Spend, TypeOK, Passed
<1>6. CASE CreateSession(r)
  BY <1>6 DEF CreateSession, TypeOK, Passed
<1>7. CASE Begin(r)
  <2>1. On(set') <=> On(set)
    BY <1>7 DEF Begin, On, TypeOK, Settings
  <2> QED
    BY <1>7, <2>1, PassedKept DEF Begin, TypeOK, Passed
<1>8. CASE Enable(r) \/ EndSession(r) \/ StoreFails(r)
  BY <1>8, PassedKept DEF Enable, EndSession, StoreFails, TypeOK, Passed
<1>9. CASE WriteSetting(r)
  BY <1>9, PassedKept DEF WriteSetting, TypeOK
<1>10. CASE EndOthers(r)
  <2>1. \A q \in Req : pc'[q] = "create" => q \in proved' \cup strad'
    BY <1>10 DEF EndOthers, TypeOK
  <2>0. misled' = misled
    BY <1>10 DEF EndOthers
  <2>2. CASE kind[r] = "enable" /\ SignedIn(cur[r])
    BY <1>10, <2>0, <2>1, <2>2 DEF EndOthers, KeepOnly, Passed
  <2>3. CASE ~(kind[r] = "enable" /\ SignedIn(cur[r]))
    <3>1. swept' = swept /\ sessions' \subseteq sessions /\ set' = set
      BY <1>10, <2>3 DEF EndOthers, KeepOnly, SignedIn
    <3>2. proved \subseteq proved' /\ strad \subseteq strad'
      BY <1>10 DEF EndOthers
    <3> QED
      BY <2>0, <2>1, <3>1, <3>2 DEF Passed
  <2> QED
    BY <2>2, <2>3
<1>11. CASE ReadFails(r)
  <2>1. swept => On(set)
    BY DEF Passed
  <2>2. \A q \in Req : pc'[q] = "create" => pc[q] = "create" \/ (On(set) => q \in misled')
    BY <1>11 DEF ReadFails, TypeOK
  <2>3. misled \subseteq misled'
    BY <1>11 DEF ReadFails
  <2> QED
    BY <1>11, <2>1, <2>2, <2>3 DEF ReadFails, Passed
<1> QED
  BY <1>1, <1>2, <1>3, <1>4, <1>5, <1>6, <1>7, <1>8, <1>9, <1>10, <1>11 DEF Serve, Check

LEMMA NextPassed == TypeOK /\ Todo /\ Passed /\ [Next]_vars => Passed'
<1> SUFFICES ASSUME TypeOK, Todo, Passed, [Next]_vars PROVE Passed'
  OBVIOUS
<1>1. CASE Tick \/ UNCHANGED vars
  BY <1>1 DEF Tick, vars, reqVars, history, Passed
<1>2. CASE Restart
  BY <1>2 DEF Restart, Passed
<1>3. ASSUME NEW r \in Req, Serve(r) PROVE Passed'
  BY <1>3, StepPassed
<1> QED
  BY <1>1, <1>2, <1>3 DEF Next
----------------------------------------------------------------------------
(* Turning two-factor on.                                                  *)

Sound == set.enabled = 1 => set.secret # 0

\* What is left of a list of five writes.
LeftOf(t, w) == Len(t) \in 1..5 /\ \A i \in 1..Len(t) : t[i] = w[5 - Len(t) + i]

Enabling(r) ==
  \E s \in 1..MaxSecret :
    /\ LeftOf(todo[r], EnableWrites(s, code[r]))
    /\ IF Len(todo[r]) = 5 THEN Sound ELSE set.secret = s
    /\ Len(todo[r]) = 3 => set.last = code[r][2]

Disabling(r) ==
  /\ LeftOf(todo[r], DisableWrites)
  /\ Len(todo[r]) = 5 => Sound
  /\ Len(todo[r]) = 4 => set.secret = 0
  /\ Len(todo[r]) < 4 => set.enabled = 0

\* As long as the changes of the second factor come one after the other.
Serial ==
  whole =>
    /\ \A r, q \in Changing : r = q
    /\ Changing = {} => Sound
    /\ \A r \in Req : pc[r] = "others" => Sound
    /\ \A r \in Req : pc[r] = "write" => Enabling(r) \/ Disabling(r)

LEMMA SerialKept ==
  ASSUME Serial, whole' => whole, set'.enabled = set.enabled, set'.secret = set.secret,
         set'.last = set.last,
         \A q \in Req : pc'[q] \in {"write", "others"} <=> pc[q] \in {"write", "others"},
         \A q \in Changing : pc'[q] = pc[q] /\ todo'[q] = todo[q] /\ code'[q] = code[q]
  PROVE  Serial'
<1>1. Changing' = Changing
  BY DEF Changing
<1>2. Sound' <=> Sound
  BY DEF Sound
<1>3. \A q \in Changing : (Enabling(q)' <=> Enabling(q)) /\ (Disabling(q)' <=> Disabling(q))
  BY <1>2 DEF Enabling, Disabling
<1> QED
  BY <1>1, <1>2, <1>3 DEF Serial, Changing

(* The only change in progress starts: there was none, so all is sound.    *)
LEMMA FirstWrite ==
  LET w == DisableWrites IN LeftOf(w, w) /\ \A s, c : LeftOf(EnableWrites(s, c), EnableWrites(s, c))
BY DEF LeftOf, DisableWrites, EnableWrites

(* What the next write is, and what is left after it.                      *)
LEMMA NextWrite ==
  ASSUME NEW t \in Seq(Setting), t # <<>>, NEW w, LeftOf(t, w)
  PROVE  /\ Head(t) = w[6 - Len(t)] /\ Len(Tail(t)) = Len(t) - 1
         /\ Len(t) # 1 => LeftOf(Tail(t), w)
<1>1. PICK u : u = Tail(t)
  OBVIOUS
<1>2. u \in Seq(Setting) /\ Len(u) = Len(t) - 1 /\ \A i \in 1..Len(u) : u[i] = t[i + 1]
  BY <1>1, HeadTailProperties
<1>3. Len(t) \in 1..5 /\ \A i \in 1..Len(t) : t[i] = w[5 - Len(t) + i]
  BY DEF LeftOf
<1>4. Head(t) = t[1] /\ t[1] = w[6 - Len(t)]
  BY <1>3
<1>5. Len(t) # 1 => LeftOf(u, w)
  <2> SUFFICES ASSUME Len(t) # 1 PROVE LeftOf(u, w)
    OBVIOUS
  <2>1. Len(u) \in 1..5
    <3>1. PICK n : n = Len(t)
      OBVIOUS
    <3>2. n \in 1..5 /\ n # 1 /\ Len(u) = n - 1
      BY <1>2, <1>3, <3>1
    <3> QED
      BY ONLY <3>2
  <2>2. ASSUME NEW i \in 1..Len(u) PROVE u[i] = w[5 - Len(u) + i]
    <3>1. i + 1 \in 1..Len(t) /\ 5 - Len(t) + (i + 1) = 5 - Len(u) + i
      BY <1>2, <1>3
    <3> QED
      BY ONLY <1>2, <1>3, <2>2, <3>1
  <2> QED
    BY <2>1, <2>2 DEF LeftOf
<1> QED
  BY <1>1, <1>2, <1>4, <1>5
(* The writes, in order.                                                   *)
LEMMA WritesInOrder ==
  /\ \A s, c :
       /\ EnableWrites(s, c)[1].k = "secret" /\ EnableWrites(s, c)[1].v = s
       /\ EnableWrites(s, c)[2].k = "last" /\ EnableWrites(s, c)[2].v = c[2]
       /\ EnableWrites(s, c)[3].k = "enabled"
       /\ EnableWrites(s, c)[4].k = "pending" /\ EnableWrites(s, c)[5].k = "recovery"
  /\ DisableWrites[1].k = "secret" /\ DisableWrites[1].v = 0
  /\ DisableWrites[2].k = "enabled" /\ DisableWrites[2].v = 0
  /\ DisableWrites[3].k = "pending" /\ DisableWrites[4].k = "recovery"
  /\ DisableWrites[5].k = "last"
BY DEF EnableWrites, DisableWrites

\* What a write does to the settings and to the list.
Written(r) ==
  /\ \A q \in Req : pc'[q] = IF q = r THEN IF Len(todo[r]) = 1 THEN "others" ELSE "write"
                               ELSE pc[q]
  /\ \A q \in Req : todo'[q] = IF q = r THEN Tail(todo[r]) ELSE todo[q]
  /\ UNCHANGED <<code, whole>>
  /\ LET e == Head(todo[r]) IN
       /\ set'.secret = IF e.k = "secret" THEN e.v ELSE set.secret
       /\ set'.last = IF e.k = "last" THEN e.v ELSE set.last
       /\ set'.enabled = IF e.k = "enabled" THEN e.v ELSE set.enabled

LEMMA WriteWrites ==
  ASSUME TypeOK, Todo, NEW r \in Req, WriteSetting(r)
  PROVE  Written(r)
<1>1. PICK e \in Setting : e = Head(todo[r])
  BY HeadTailProperties DEF WriteSetting, Todo
<1>2. /\ set'.secret = IF e.k = "secret" THEN e.v ELSE set.secret
      /\ set'.last = IF e.k = "last" THEN e.v ELSE set.last
      /\ set'.enabled = IF e.k = "enabled" THEN e.v ELSE set.enabled
  <2>1. set' = [set EXCEPT ![e.k] = e.v]
    BY <1>1 DEF WriteSetting
  <2> QED
    BY <2>1, SettingWritten DEF TypeOK
<1>3. /\ \A q \in Req : pc'[q] = IF q = r THEN IF Len(todo[r]) = 1 THEN "others" ELSE "write"
                                   ELSE pc[q]
      /\ UNCHANGED <<code, whole>>
  BY DEF WriteSetting, Goto, TypeOK
<1>4. \A q \in Req : todo'[q] = IF q = r THEN Tail(todo[r]) ELSE todo[q]
  BY DEF WriteSetting, Todo
<1> QED
  BY <1>1, <1>2, <1>3, <1>4 DEF Written

(* A write of an enable, by its place in the list.                         *)
LEMMA EnablingWrites ==
  ASSUME TypeOK, Todo, NEW r \in Req, pc[r] = "write", Enabling(r), Written(r)
  PROVE  /\ IF Len(todo[r]) = 1 THEN Sound' ELSE Enabling(r)'
         /\ ~On(set) /\ On(set') => set'.last = code[r][2]
<1>1. todo[r] \in Seq(Setting) /\ todo[r] # <<>>
  BY DEF Todo
<1>2. PICK s \in 1..MaxSecret :
        /\ LeftOf(todo[r], EnableWrites(s, code[r]))
        /\ IF Len(todo[r]) = 5 THEN Sound ELSE set.secret = s
        /\ Len(todo[r]) = 3 => set.last = code[r][2]
  BY DEF Enabling
<1>0. PICK n : n = Len(todo[r])
  OBVIOUS
<1>3. n \in 1..5
  BY <1>0, <1>2 DEF LeftOf
<1>4. PICK w : w = EnableWrites(s, code[r])
  OBVIOUS
<1>5. /\ Head(todo[r]) = w[6 - n] /\ Len(Tail(todo[r])) = n - 1
      /\ n # 1 => LeftOf(Tail(todo[r]), w)
  BY <1>0, <1>1, <1>2, <1>4, NextWrite
<1>6. /\ w[1].k = "secret" /\ w[1].v = s
      /\ w[2].k = "last" /\ w[2].v = code[r][2]
      /\ w[3].k = "enabled"
      /\ w[4].k = "pending" /\ w[5].k = "recovery"
  BY <1>4, WritesInOrder
<1>7. todo'[r] = Tail(todo[r]) /\ code'[r] = code[r] /\ s # 0
  BY ConsoleAssumption DEF Written
<1>8. /\ set'.secret = s
      /\ n = 4 => set'.last = code[r][2]
      /\ n = 3 => set'.last = code[r][2]
  <2>1. CASE n = 5
    BY <1>5, <1>6, <2>1 DEF Written
  <2>2. CASE n = 4
    BY <1>0, <1>2, <1>5, <1>6, <2>2 DEF Written
  <2>3. CASE n = 3
    BY <1>0, <1>2, <1>5, <1>6, <2>3 DEF Written
  <2>4. CASE n = 2
    BY <1>0, <1>2, <1>5, <1>6, <2>4 DEF Written
  <2>5. CASE n = 1
    BY <1>0, <1>2, <1>5, <1>6, <2>5 DEF Written
  <2> QED
    BY <1>3, <2>1, <2>2, <2>3, <2>4, <2>5
<1>9. n = 1 => Sound'
  BY <1>7, <1>8 DEF Sound
<1>10. n # 1 => Enabling(r)'
  <2> SUFFICES ASSUME n # 1 PROVE Enabling(r)'
    OBVIOUS
  <2>1. Len(todo'[r]) = n - 1 /\ LeftOf(todo'[r], w)
    BY <1>5, <1>7
  <2>2. n - 1 # 5 /\ (n - 1 = 3 => n = 4)
    BY ONLY <1>3, n # 1
  <2> QED
    BY <1>4, <1>7, <1>8, <2>1, <2>2 DEF Enabling
<1>11. ~On(set) /\ On(set') => set'.last = code[r][2]
  <2>1. CASE n = 5
    BY <1>0, <1>2, <1>5, <1>6, <2>1 DEF Written, Sound, On
  <2>2. CASE n \in {3, 4}
    BY <1>8, <2>2
  <2>3. CASE n \in {1, 2}
    BY <1>2, <1>5, <1>6, <1>8, <2>3 DEF Written, On
  <2> QED
    BY <1>3, <2>1, <2>2, <2>3
<1> QED
  BY <1>0, <1>9, <1>10, <1>11

(* A write of a disable, by its place in the list.                         *)
LEMMA DisablingWrites ==
  ASSUME TypeOK, Todo, NEW r \in Req, pc[r] = "write", Disabling(r), Written(r)
  PROVE  /\ IF Len(todo[r]) = 1 THEN Sound' ELSE Disabling(r)'
         /\ On(set') => On(set)
<1>1. todo[r] \in Seq(Setting) /\ todo[r] # <<>>
  BY DEF Todo
<1>0. PICK n : n = Len(todo[r])
  OBVIOUS
<1>2. LeftOf(todo[r], DisableWrites) /\ n \in 1..5
  BY <1>0 DEF Disabling, LeftOf
<1>3. PICK w : w = DisableWrites
  OBVIOUS
<1>4. /\ Head(todo[r]) = w[6 - n] /\ Len(Tail(todo[r])) = n - 1
      /\ n # 1 => LeftOf(Tail(todo[r]), w)
  BY <1>0, <1>1, <1>2, <1>3, NextWrite
<1>5. /\ w[1].k = "secret" /\ w[1].v = 0 /\ w[2].k = "enabled" /\ w[2].v = 0
      /\ w[3].k = "pending" /\ w[4].k = "recovery" /\ w[5].k = "last"
  BY <1>3, WritesInOrder
<1>6. todo'[r] = Tail(todo[r])
  BY DEF Written
<1>7. /\ n = 5 => set'.secret = 0
      /\ n < 5 => set'.enabled = 0
  <2>1. CASE n = 5
    BY <1>4, <1>5, <2>1 DEF Written
  <2>2. CASE n = 4
    BY <1>4, <1>5, <2>2 DEF Written
  <2>3. CASE n = 3
    BY <1>0, <1>4, <1>5, <2>3 DEF Written, Disabling
  <2>4. CASE n = 2
    BY <1>0, <1>4, <1>5, <2>4 DEF Written, Disabling
  <2>5. CASE n = 1
    BY <1>0, <1>4, <1>5, <2>5 DEF Written, Disabling
  <2> QED
    BY <1>2, <2>1, <2>2, <2>3, <2>4, <2>5
<1>8. n = 1 => Sound'
  BY <1>7 DEF Sound
<1>9. n # 1 => Disabling(r)'
  <2> SUFFICES ASSUME n # 1 PROVE Disabling(r)'
    OBVIOUS
  <2>1. Len(todo'[r]) = n - 1 /\ LeftOf(todo'[r], w)
    BY <1>4, <1>6
  <2>2. n - 1 # 5 /\ (n - 1 = 4 => n = 5) /\ (n - 1 < 4 => n < 5)
    BY ONLY <1>2, n # 1
  <2> QED
    BY <1>3, <1>7, <2>1, <2>2 DEF Disabling
<1>10. On(set') => On(set)
  <2>1. n = 5 \/ n < 5
    BY <1>2
  <2>2. ~On(set')
    BY <1>7, <2>1 DEF On
  <2> QED
    BY <2>2
<1> QED
  BY <1>0, <1>8, <1>9, <1>10
LEMMA StepSerial ==
  ASSUME TypeOK, Todo, Serial, NEW r \in Req, Serve(r)
  PROVE  Serial'
<1> USE DEF Goto, Leave, history
<1>1. CASE \E k \in Kinds : Arrive(r, k)
  BY <1>1, SerialKept DEF Arrive, TypeOK, Kinds, Changing
<1>2. CASE WrongPassword(r) \/ LoginPassword(r) \/ DisablePassword(r) \/ BeginAsk(r)
  BY <1>2, SerialKept
     DEF WrongPassword, LoginPassword, DisablePassword, BeginAsk, TypeOK, Changing
<1>3. CASE Lock(r) \/ ReadLast(r) \/ ReadRecovery(r) \/ Refuse(r)
  BY <1>3, SerialKept DEF Lock, ReadLast, ReadRecovery, Refuse, TypeOK, Changing
<1>4. CASE Spend(r)
  <2> SUFFICES ASSUME whole' PROVE Serial'
    BY DEF Serial
  <2>1. whole /\ Changing = {} /\ Sound
    BY <1>4 DEF Spend, Serial
  <2>2. set'.enabled = set.enabled /\ set'.secret = set.secret
    BY <1>4 DEF Spend, TypeOK, Settings
  <2>3. Sound'
    BY <2>1, <2>2 DEF Sound
  <2>4. /\ \A q \in Req : pc'[q] \in {"write", "others"} => q = r /\ pc'[q] = "write"
        /\ pc'[r] = "write" => todo'[r] = DisableWrites
    BY <1>4, <2>1 DEF Spend, TypeOK, Todo, Changing
  <2>5. pc'[r] = "write" => Disabling(r)'
    <3>1. PICK w : w = DisableWrites
      OBVIOUS
    <3>2. LeftOf(w, w) /\ Len(w) = 5
      BY <3>1, FirstWrite, WritesAreSettings
    <3>3. ASSUME pc'[r] = "write" PROVE LeftOf(todo'[r], DisableWrites) /\ Len(todo'[r]) = 5
      BY <2>4, <3>1, <3>2, <3>3
    <3>4. ASSUME pc'[r] = "write" PROVE Len(todo'[r]) # 4 /\ ~(Len(todo'[r]) < 4)
      <4>1. PICK n : n = Len(todo'[r])
        OBVIOUS
      <4>2. n = 5
        BY <3>3, <3>4, <4>1
      <4> QED
        BY ONLY <4>1, <4>2
    <3> QED
      BY <2>3, <3>3, <3>4 DEF Disabling
  <2> QED
    BY <2>3, <2>4, <2>5 DEF Serial, Changing
<1>5. CASE CreateSession(r) \/ EndSession(r) \/ ReadFails(r)
  BY <1>5, SerialKept DEF CreateSession, EndSession, ReadFails, TypeOK, Changing
<1>6. CASE Begin(r)
  <2>1. set'.enabled = set.enabled /\ set'.secret = set.secret /\ set'.last = set.last
    BY <1>6 DEF Begin, TypeOK, Settings
  <2> QED
    BY <1>6, <2>1, SerialKept DEF Begin, TypeOK, Changing
<1>7. CASE Enable(r)
  <2>1. CASE pc' = [pc EXCEPT ![r] = "done"] /\ UNCHANGED <<code, todo, whole>>
    BY <1>7, <2>1, SerialKept DEF Enable, TypeOK, Changing
  <2>2. CASE \E c \in Around(step) :
               /\ set.pending # 0
               /\ todo' = [todo EXCEPT ![r] = EnableWrites(set.pending, c)]
               /\ code' = [code EXCEPT ![r] = c]
               /\ pc' = [pc EXCEPT ![r] = "write"]
               /\ whole' = (whole /\ Changing = {})
    <3> SUFFICES ASSUME whole' PROVE Serial'
      BY DEF Serial
    <3>1. PICK c \in Around(step) :
               /\ set.pending # 0
               /\ todo' = [todo EXCEPT ![r] = EnableWrites(set.pending, c)]
               /\ code' = [code EXCEPT ![r] = c]
               /\ pc' = [pc EXCEPT ![r] = "write"]
               /\ whole' = (whole /\ Changing = {})
      BY <2>2
    <3>2. whole /\ Changing = {} /\ Sound
      BY <3>1 DEF Serial
    <3>3. Sound'
      BY <1>7, <3>2 DEF Enable, Sound
    <3>4. set.pending \in 1..MaxSecret /\ c \in TOTPCodes
      BY <3>1, CodesOffered, ConsoleAssumption DEF TypeOK, Settings
    <3>5. PICK w : w = EnableWrites(set.pending, c)
      OBVIOUS
    <3>6. todo'[r] = w /\ code'[r] = c
      BY <3>1, <3>5 DEF TypeOK, Todo
    <3>7. LeftOf(w, w) /\ Len(w) = 5
      <4>1. set.pending \in 0..MaxSecret /\ set.pending # 0
        BY <3>4
      <4> QED
        BY <3>4, <3>5, <4>1, FirstWrite, WritesAreSettings
    <3>8. Enabling(r)'
      BY <3>3, <3>4, <3>5, <3>6, <3>7 DEF Enabling
    <3>9. \A q \in Req : pc'[q] \in {"write", "others"} => q = r /\ pc'[q] = "write"
      BY <3>1, <3>2 DEF TypeOK, Changing
    <3> QED
      BY <3>3, <3>8, <3>9 DEF Serial, Changing
  <2> QED
    BY <1>7, <2>1, <2>2 DEF Enable
<1>8. CASE WriteSetting(r)
  <2> SUFFICES ASSUME whole' PROVE Serial'
    BY DEF Serial
  <2>1. Written(r) /\ pc[r] = "write" /\ whole
    BY <1>8, WriteWrites DEF WriteSetting
  <2>2. r \in Changing /\ \A q \in Req \ {r} : pc[q] \notin {"write", "others"}
    BY <2>1 DEF Serial, Changing
  <2>3. Enabling(r) \/ Disabling(r)
    BY <2>1 DEF Serial
  <2>4. IF Len(todo[r]) = 1 THEN Sound' ELSE Enabling(r)' \/ Disabling(r)'
    BY <2>1, <2>3, EnablingWrites, DisablingWrites
  <2>5. /\ pc'[r] = IF Len(todo[r]) = 1 THEN "others" ELSE "write"
        /\ \A q \in Req \ {r} : pc'[q] \notin {"write", "others"}
    BY <2>1, <2>2 DEF Written
  <2>6. Changing' = {r}
    BY <2>5 DEF Changing
  <2> QED
    BY <2>4, <2>5, <2>6 DEF Serial
<1>9. CASE EndOthers(r) \/ StoreFails(r)
  <2> SUFFICES ASSUME whole' PROVE Serial'
    BY DEF Serial
  <2>1. /\ whole /\ set' = set /\ pc'[r] = "done" /\ pc[r] # "write" /\ todo' = todo
        /\ \A q \in Req \ {r} : pc'[q] = pc[q] /\ code'[q] = code[q]
    BY <1>9 DEF EndOthers, StoreFails, TypeOK
  <2>2. Changing' = Changing \ {r}
    BY <2>1 DEF Changing
  <2>3. Sound' <=> Sound
    BY <2>1 DEF Sound
  <2>4. Changing' = {} => Sound
    <3>1. CASE pc[r] = "others"
      BY <2>1, <3>1 DEF Serial
    <3>2. CASE pc[r] # "others"
      BY <2>1, <2>2, <3>2 DEF Serial, Changing
    <3> QED
      BY <3>1, <3>2
  <2>5. \A q \in Req \ {r} : Enabling(q) \/ Disabling(q) => Enabling(q)' \/ Disabling(q)'
    BY <2>1, <2>3 DEF Enabling, Disabling
  <2> QED
    BY <2>1, <2>2, <2>3, <2>4, <2>5 DEF Serial
<1> QED
  BY <1>1, <1>2, <1>3, <1>4, <1>5, <1>6, <1>7, <1>8, <1>9 DEF Serve, Check

LEMMA NextSerial == TypeOK /\ Todo /\ Serial /\ [Next]_vars => Serial'
<1> SUFFICES ASSUME TypeOK, Todo, Serial, [Next]_vars PROVE Serial'
  OBVIOUS
<1>1. CASE Tick \/ UNCHANGED vars
  BY <1>1, SerialKept DEF Tick, vars, reqVars, history, Changing
<1>2. CASE Restart
  <2>1. \A q \in Req : pc'[q] \notin {"write", "others"}
    BY <1>2 DEF Restart, TypeOK
  <2>2. whole' => whole /\ Changing = {} /\ set' = set
    BY <1>2 DEF Restart
  <2> QED
    BY <2>1, <2>2 DEF Serial, Changing, Sound
<1>3. ASSUME NEW r \in Req, Serve(r) PROVE Serial'
  BY <1>3, StepSerial
<1> QED
  BY <1>1, <1>2, <1>3 DEF Next
----------------------------------------------------------------------------
IInv == TypeOK /\ Todo /\ Codes /\ Passed /\ Serial

LEMMA InductiveInv == Spec => []IInv
<1>1. Init => IInv
  <2> SUFFICES ASSUME Init PROVE Codes /\ Passed /\ Serial
    BY InitType DEF IInv
  <2>1. Codes
    BY DEF Init, Codes, AcceptedSpent
  <2>2. Passed
    <3>1. sessions = proved /\ \A r \in Req : pc[r] = "new"
      BY DEF Init
    <3>2. swept => On(set)
      <4>1. PICK on \in {0, 1} : set.secret = on /\ set.enabled = on /\ swept = (on = 1)
        BY DEF Init
      <4>2. CASE on = 1
        BY <4>1, <4>2 DEF On
      <4>3. CASE on = 0
        <5>1. on # 1
          BY <4>3
        <5> QED
          BY <4>1, <5>1, Zenon
      <4> QED
        BY <4>1, <4>2, <4>3
    <3> QED
      BY <3>1, <3>2 DEF Passed
  <2>3. Serial
    BY DEF Init, Serial, Changing, Sound
  <2> QED
    BY <2>1, <2>2, <2>3
<1>2. IInv /\ [Next]_vars => IInv'
  BY NextType, NextCodes, NextPassed, NextSerial DEF IInv
<1> QED
  BY <1>1, <1>2, PTL DEF Spec

(* Every variable stays in its set, and a request that checks a code       *)
(* between Lock and Unlock of totpMu is the one that holds it.             *)
THEOREM ConsoleTypeOK == Spec => []TypeOK
BY InductiveInv, PTL DEF IInv

(* checkSecondFactor accepts no code twice between two rewrites of what it *)
(* compares with, whatever logins, enables and disables run beside it and  *)
(* whichever writes fail; a failed read of totp_last_step excuses the      *)
(* request it misleads, and no other.                                      *)
THEOREM CodesAreUsedOnce == Spec => OneUse
<1>1. ASSUME IInv, NEW r \in Req, pc[r] = "spend", r \notin misled
      PROVE  code[r] \notin accepted
  <2>1. NewCode(r)
    BY <1>1 DEF IInv, Codes
  <2>2. CASE code[r][1] = 0 /\ \A c \in accepted : c[1] = 0 => c[2] < code[r][2]
    <3>1. code[r] \in TOTPCodes
      BY <1>1, <2>2, CodeKinds DEF IInv, TypeOK
    <3>2. code[r][2] \in Nat
      BY <3>1, CodeKinds, ConsoleAssumption
    <3> QED
      BY <2>2, <3>2
  <2> QED
    BY <1>1, <2>1, <2>2 DEF NewCode
<1>2. IInv /\ [Next]_vars => [\A r \in Req : pc[r] = "spend" /\ pc'[r] \in {"create", "write"}
                               => r \in misled \/ code[r] \notin accepted]_vars
  BY <1>1
<1> QED
  BY <1>2, InductiveInv, PTL DEF Spec, OneUse

(* Once handle2FAEnable has run to its end, a session passed a second      *)
(* factor, or was let through before, or by a failed read, and is excused. *)
THEOREM SessionsPassedFactor == Spec => []SessionsMeetFactor
<1>1. IInv => SessionsMeetFactor
  BY DEF IInv, Passed, SessionsMeetFactor
<1> QED
  BY <1>1, InductiveInv, PTL

(* A change of the second factor that nothing cuts off or overlaps turns   *)
(* it on only when the code that confirmed it counts as spent.             *)
THEOREM TurnedOnSpent == Spec => TurnsOnSpent
<1>1. ASSUME IInv, [Next]_vars, whole, ~On(set), On(set'), NEW q \in Req, pc[q] = "write"
      PROVE  set'.last >= code[q][2]
  <2>1. PICK r \in Req : Serve(r)
    BY <1>1 DEF Next, Tick, Restart, vars
  <2>2. WriteSetting(r)
    BY <1>1, <2>1 DEF Serve, Check, Arrive, WrongPassword, LoginPassword, DisablePassword,
       Lock, ReadLast, ReadRecovery, Spend, Refuse, CreateSession, BeginAsk, Begin, Enable,
       EndOthers, EndSession, StoreFails, ReadFails, On, IInv, TypeOK, Settings
  <2>3. Written(r) /\ pc[r] = "write" /\ q = r
    BY <1>1, <2>2, WriteWrites DEF IInv, WriteSetting, Serial, Changing
  <2>4. set'.last = code[q][2]
    BY <1>1, <2>3, EnablingWrites, DisablingWrites DEF IInv, Serial
  <2>5. code[q][2] \in Int
    BY <1>1, CodeKinds, ConsoleAssumption DEF IInv, TypeOK, RecoveryCodes, Recovery
  <2> QED
    BY <2>4, <2>5
<1>2. IInv /\ [Next]_vars =>
        [whole /\ ~On(set) /\ On(set') =>
           \A r \in Req : pc[r] = "write" => set'.last >= code[r][2]]_vars
  BY <1>1
<1> QED
  BY <1>2, InductiveInv, PTL DEF Spec, TurnsOnSpent
----------------------------------------------------------------------------
(* The loop of blocked(): what FoldLeft makes of its turns.                *)

\* Every nonempty set of numbers has a least one.
LEMMA LeastNatural ==
  ASSUME NEW T \in SUBSET Nat, T # {}
  PROVE  \E x \in T : \A y \in T : x <= y
<1> DEFINE R == {ss \in Nat \X Nat : ss[1] < ss[2]}
<1>1. IsWellFoundedOn(R, Nat)
  BY NatLessThanWellFounded DEF OpToRel
<1> HIDE DEF R
<1>2. PICK x \in T : \A y \in T : ~(<<y, x>> \in R)
  BY <1>1, WFMin
<1>3. \A y, z \in Nat : y < z => <<y, z>> \in R
  BY DEF R
<1>4. \A y \in T : ~(y < x)
  BY <1>2, <1>3
<1> QED BY <1>4

\* Induction over an initial segment, for a set of numbers.
LEMMA Induction ==
  ASSUME NEW n \in Nat, NEW T, 0 \in T, \A k \in 0..(n - 1) : k \in T => k + 1 \in T
  PROVE  \A k \in 0..n : k \in T
<1> DEFINE B == {k \in 0..n : k \notin T}
<1>1. SUFFICES ASSUME B # {} PROVE FALSE
  OBVIOUS
<1>2. PICK m \in B : \A k \in B : m <= k
  BY <1>1, LeastNatural, B \in SUBSET Nat
<1>3. m \in 1..n
  BY <1>2
<1>4. m - 1 \in 0..(n - 1) /\ m - 1 \notin B
  BY <1>2, <1>3
<1> QED BY <1>3, <1>4, <1>2

LEMMA MaxIs ==
  ASSUME NEW i \in Nat, NEW s \in SUBSET (1..i), i \in s
  PROVE  Max(s) = i
<1>1. \A y \in s : i >= y /\ y \in Nat
  OBVIOUS
<1>2. \E x \in s : \A y \in s : x >= y
  BY <1>1
<1>3. Max(s) \in s /\ \A y \in s : Max(s) >= y
  BY <1>2 DEF Max
<1>4. PICK m : m = Max(s) /\ m \in s /\ m >= i
  BY <1>3
<1> QED BY <1>1, <1>4

\* What FoldLeft unfolds to on a set of sets of indices of the times.
Unfolds(f, D, times, now) ==
  f = [s \in D |-> IF s = {} THEN <<>> ELSE Keep(f[s \ {Max(s)}], times[Max(s)], now)]

LEMMA FoldExists ==
  ASSUME NEW n \in Nat, NEW times, NEW now
  PROVE  \E f : Unfolds(f, SUBSET (1..n), times, now)
<1> DEFINE T == {k \in Nat : \E f : Unfolds(f, SUBSET (1..k), times, now)}
<1>1. 0 \in T
  <2> DEFINE f == [s \in SUBSET (1..0) |-> <<>>]
  <2>1. \A s \in SUBSET (1..0) : s = {}
    OBVIOUS
  <2>2. Unfolds(f, SUBSET (1..0), times, now)
    BY <2>1 DEF Unfolds
  <2> QED BY <2>2
<1>2. ASSUME NEW k \in 0..(n - 1), k \in T PROVE k + 1 \in T
  <2>1. PICK f : Unfolds(f, SUBSET (1..k), times, now)
    BY <1>2
  <2> DEFINE g == [s \in SUBSET (1..(k + 1)) |->
                     IF k + 1 \in s THEN Keep(f[s \ {k + 1}], times[k + 1], now) ELSE f[s]]
  <2>2. \A s \in SUBSET (1..(k + 1)) : k + 1 \notin s => s \in SUBSET (1..k)
    OBVIOUS
  <2>3. \A s \in SUBSET (1..(k + 1)) : k + 1 \in s =>
          Max(s) = k + 1 /\ s # {} /\ s \ {k + 1} \in SUBSET (1..k)
    BY MaxIs
  <2>4. \A s \in SUBSET (1..k) : g[s] = f[s] /\ s \in SUBSET (1..(k + 1))
    OBVIOUS
  <2>5. ASSUME NEW s \in SUBSET (1..(k + 1))
        PROVE  g[s] = IF s = {} THEN <<>> ELSE Keep(g[s \ {Max(s)}], times[Max(s)], now)
    <3>1. CASE k + 1 \in s
      <4>1. g[s] = Keep(f[s \ {k + 1}], times[k + 1], now)
        BY <3>1
      <4> HIDE DEF g
      <4> QED BY <2>3, <2>4, <3>1, <4>1
    <3>2. CASE k + 1 \notin s
      <4>1. s \in SUBSET (1..k) /\ s \ {Max(s)} \in SUBSET (1..k)
        BY <2>2, <3>2
      <4>2. g[s] = f[s] /\ g[s \ {Max(s)}] = f[s \ {Max(s)}]
        BY <2>4, <4>1
      <4> HIDE DEF g
      <4> QED BY <2>1, <4>1, <4>2 DEF Unfolds
    <3> QED BY <3>1, <3>2
  <2>6. Unfolds(g, SUBSET (1..(k + 1)), times, now)
    BY <2>5 DEF Unfolds
  <2> HIDE DEF g
  <2>7. \E h : Unfolds(h, SUBSET (1..(k + 1)), times, now)
    BY <2>6
  <2> QED BY <2>7
<1>3. n \in T
  <2> HIDE DEF T
  <2> QED BY <1>1, <1>2, Induction
<1> QED BY <1>3

\* The turns of the loop over n times, up to the one that ends it.
Turns(r, n, times, now) ==
  /\ r[0] = <<>> /\ InWindow(times, now) = r[n]
  /\ \A i \in 1..n : r[i] = Keep(r[i - 1], times[i], now)

LEMMA LoopTurns ==
  ASSUME NEW n \in Nat, NEW times, DOMAIN times = 1..n, NEW now
  PROVE  \E r : Turns(r, n, times, now)
<1> DEFINE P(f) == f = [s \in SUBSET (1..n) |->
                          IF s = {} THEN <<>> ELSE Keep(f[s \ {Max(s)}], times[Max(s)], now)]
<1>1. \A f : P(f) <=> Unfolds(f, SUBSET (1..n), times, now)
  BY DEF Unfolds
<1>2. InWindow(times, now) = (CHOOSE f : P(f))[1..n]
  BY DEF InWindow, FoldLeft, MapThenFoldSet
<1>3. \E f : P(f)
  <2>1. \E f : Unfolds(f, SUBSET (1..n), times, now)
    BY FoldExists
  <2> HIDE DEF P
  <2> QED BY <1>1, <2>1
<1> HIDE DEF P
<1>4. PICK f : f = (CHOOSE g : P(g))
  OBVIOUS
<1>5. P(f)
  BY <1>3, <1>4
<1>6. Unfolds(f, SUBSET (1..n), times, now)
  BY <1>1, <1>5
<1>7. PICK r : r = [i \in 0..n |-> f[1..i]]
  OBVIOUS
<1>8. r[0] = <<>> /\ r[n] = f[1..n]
  <2>1. 1..0 = {}
    OBVIOUS
  <2> QED BY <1>6, <1>7, <2>1 DEF Unfolds
<1>9. ASSUME NEW i \in 1..n PROVE r[i] = Keep(r[i - 1], times[i], now)
  <2>0. (1..i) \ {i} = 1..(i - 1)
    OBVIOUS
  <2>1. 1..i \in SUBSET (1..n) /\ 1..i # {} /\ i \in 1..i
    OBVIOUS
  <2>2. Max(1..i) = i
    BY <2>1, MaxIs
  <2>3. f[1..i] = Keep(f[1..(i - 1)], times[i], now)
    BY <1>6, <2>0, <2>1, <2>2 DEF Unfolds
  <2> QED BY <1>7, <2>3
<1>10. Turns(r, n, times, now)
  BY <1>2, <1>4, <1>8, <1>9 DEF Turns
<1> QED BY <1>10

\* What is kept lies in the window.
LEMMA KeptIsRecent ==
  ASSUME NEW times \in Seq(Int), NEW now \in Int
  PROVE  /\ InWindow(times, now) \in Seq(Int)
         /\ \A k \in 1..Len(InWindow(times, now)) : InWindow(times, now)[k] > now - Window
<1>0. PICK n : n = Len(times)
  OBVIOUS
<1>1. n \in Nat /\ DOMAIN times = 1..n /\ \A i \in 1..n : times[i] \in Int
  BY <1>0
<1>2. PICK r : Turns(r, n, times, now)
  BY <1>1, LoopTurns
<1> DEFINE Fine(z) == z \in Seq(Int) /\ \A k \in 1..Len(z) : z[k] > now - Window
           T == {k \in Nat : Fine(r[k])}
<1>3. 0 \in T
  <2>1. Fine(<<>>)
    OBVIOUS
  <2> HIDE DEF Fine
  <2> QED BY <1>2, <2>1 DEF Turns
<1>4. ASSUME NEW k \in 0..(n - 1), k \in T PROVE k + 1 \in T
  <2>0. r[k + 1] = Keep(r[k], times[k + 1], now) /\ times[k + 1] \in Int
    <3>1. k + 1 \in 1..n /\ (k + 1) - 1 = k
      BY <1>1
    <3> QED BY <1>1, <1>2, <3>1 DEF Turns
  <2>1. PICK s, t : s = r[k] /\ t = times[k + 1] /\ r[k + 1] = Keep(s, t, now) /\ t \in Int
    BY <2>0
  <2>2. s \in Seq(Int) /\ \A j \in 1..Len(s) : s[j] > now - Window
    BY <1>4, <2>1
  <2>3. Fine(Keep(s, t, now))
    <3>1. CASE t > now - Window
      <4>1. Keep(s, t, now) = Append(s, t)
        BY <3>1 DEF Keep
      <4>2. /\ Append(s, t) \in Seq(Int) /\ Len(Append(s, t)) = Len(s) + 1
            /\ \A j \in 1..Len(s) : Append(s, t)[j] = s[j]
            /\ Append(s, t)[Len(s) + 1] = t
        BY <2>1, <2>2
      <4>3. \A j \in 1..(Len(s) + 1) : j \in 1..Len(s) \/ j = Len(s) + 1
        BY <2>2
      <4> QED BY <2>2, <3>1, <4>1, <4>2, <4>3
    <3>2. CASE ~(t > now - Window)
      BY <2>2, <3>2 DEF Keep
    <3> QED BY <3>1, <3>2
  <2> QED BY <2>1, <2>3
<1>5. n \in T
  <2>1. \A k \in 0..(n - 1) : k \in T => k + 1 \in T
    BY <1>4
  <2> HIDE DEF T
  <2>2. \A k \in 0..n : k \in T
    BY ONLY <1>1, <1>3, <2>1, Induction
  <2> QED BY <1>1, <2>2
<1> QED BY <1>2, <1>5 DEF Turns

\* A second look takes nothing more away.
LEMMA RecentIsKept ==
  ASSUME NEW times \in Seq(Int), NEW now \in Int,
         \A k \in 1..Len(times) : times[k] > now - Window
  PROVE  Len(InWindow(times, now)) = Len(times)
<1>0. PICK n : n = Len(times)
  OBVIOUS
<1>1. n \in Nat /\ DOMAIN times = 1..n /\ \A i \in 1..n : times[i] \in Int /\ times[i] > now - Window
  BY <1>0
<1>2. PICK r : Turns(r, n, times, now)
  BY <1>1, LoopTurns
<1> DEFINE T == {k \in Nat : r[k] \in Seq(Int) /\ Len(r[k]) = k}
<1>3. 0 \in T
  <2>1. <<>> \in Seq(Int) /\ Len(<<>>) = 0 /\ r[0] = <<>>
    BY <1>2 DEF Turns
  <2> QED BY <2>1
<1>4. ASSUME NEW k \in 0..(n - 1), k \in T PROVE k + 1 \in T
  <2>0. k + 1 \in 1..n /\ (k + 1) - 1 = k /\ k + 1 \in Nat
    BY <1>1
  <2>1. r[k + 1] = Keep(r[k], times[k + 1], now)
    BY <1>2, <2>0 DEF Turns
  <2>2. times[k + 1] > now - Window /\ times[k + 1] \in Int
    BY <1>1, <2>0
  <2>3. r[k + 1] = Append(r[k], times[k + 1])
    BY <2>1, <2>2 DEF Keep
  <2>4. PICK s, t : s = r[k] /\ t = times[k + 1] /\ t \in Int
    BY <2>2
  <2>5. s \in Seq(Int) /\ Len(s) = k
    BY <1>4, <2>4
  <2>6. Append(s, t) \in Seq(Int) /\ Len(Append(s, t)) = k + 1
    BY <2>4, <2>5
  <2>7. r[k + 1] \in Seq(Int) /\ Len(r[k + 1]) = k + 1
    BY <2>3, <2>4, <2>6
  <2> QED BY <2>0, <2>7
<1>5. n \in T
  <2>1. \A k \in 0..(n - 1) : k \in T => k + 1 \in T
    BY <1>4
  <2> HIDE DEF T
  <2>2. \A k \in 0..n : k \in T
    BY ONLY <1>1, <1>3, <2>1, Induction
  <2> QED BY <1>1, <2>2
<1> QED BY <1>0, <1>2, <1>5 DEF Turns

\* One failure more does not shorten what is kept.
LEMMA AppendKeeps ==
  ASSUME NEW times \in Seq(Int), NEW t \in Int, NEW now \in Int
  PROVE  Len(InWindow(Append(times, t), now)) >= Len(InWindow(times, now))
<1>0. PICK n, more : n = Len(times) /\ more = Append(times, t)
  OBVIOUS
<1>1. /\ n \in Nat /\ DOMAIN times = 1..n
      /\ DOMAIN more = 1..(n + 1) /\ (\A i \in 1..n : more[i] = times[i]) /\ more[n + 1] = t
  BY <1>0
<1>2. PICK r : Turns(r, n, times, now)
  BY <1>1, LoopTurns
<1>3. PICK m : m = n + 1
  OBVIOUS
<1>4. PICK f : Turns(f, m, more, now)
  <2>1. m \in Nat /\ DOMAIN more = 1..m
    BY <1>1, <1>3
  <2> QED BY <2>1, LoopTurns
<1> DEFINE T == {k \in Nat : f[k] = r[k]}
<1>5. 0 \in T
  BY <1>2, <1>4 DEF Turns
<1>6. ASSUME NEW k \in 0..(n - 1), k \in T PROVE k + 1 \in T
  <2>0. k + 1 \in 1..n /\ (k + 1) - 1 = k /\ k + 1 \in Nat /\ k + 1 \in 1..m
    BY <1>1, <1>3
  <2>1. r[k + 1] = Keep(r[k], times[k + 1], now)
    BY <1>2, <2>0 DEF Turns
  <2>2. f[k + 1] = Keep(f[k], more[k + 1], now)
    BY <1>4, <2>0 DEF Turns
  <2>3. more[k + 1] = times[k + 1]
    BY <1>1, <2>0
  <2> QED BY <1>6, <2>0, <2>1, <2>2, <2>3
<1>7. n \in T
  <2>1. \A k \in 0..(n - 1) : k \in T => k + 1 \in T
    BY <1>6
  <2> HIDE DEF T
  <2>2. \A k \in 0..n : k \in T
    BY ONLY <1>1, <1>5, <2>1, Induction
  <2> QED BY <1>1, <2>2
<1>8. InWindow(more, now) = Keep(InWindow(times, now), more[m], now)
  <2>0. m \in 1..m /\ m - 1 = n
    BY <1>1, <1>3
  <2>1. f[m] = Keep(f[n], more[m], now)
    BY <1>4, <2>0 DEF Turns
  <2>2. f[n] = r[n]
    BY <1>7
  <2> QED BY <1>2, <1>4, <2>1, <2>2 DEF Turns
<1>9. PICK s, u : s = InWindow(times, now) /\ u = more[m] /\ s \in Seq(Int)
  BY KeptIsRecent
<1>10. u \in Int
  BY <1>1, <1>3, <1>9
<1>11. Len(Keep(s, u, now)) >= Len(s)
  BY <1>9, <1>10 DEF Keep
<1> QED BY <1>0, <1>8, <1>9, <1>11
----------------------------------------------------------------------------
(* What blocked(), fail() and reset() leave of the failures.               *)

\* A map from addresses to the times they failed at.
Times(h) == h \in [DOMAIN h -> Seq(Int)] /\ IsFiniteSet(DOMAIN h)

\* Nobody but those let off stops being blocked.
StaysBlocked(h, new, now, off) ==
  \A a \in DOMAIN h : Blocked(h, a, now) => a \in off \/ Blocked(new, a, now)

LEMMA HitsAreTimes ==
  ASSUME NEW h, Times(h), NEW a
  PROVE  Hits(h, a) \in Seq(Int)
BY EmptySeq DEF Times, Hits

LEMMA SameHits ==
  ASSUME NEW h, NEW new, NEW a, NEW now, Hits(h, a) = Hits(new, a)
  PROVE  Blocked(h, a, now) => Blocked(new, a, now)
BY DEF Blocked, Recent

LEMMA RestrictHits ==
  ASSUME NEW h, Times(h), NEW S \in SUBSET DOMAIN h
  PROVE  Times(Restrict(h, S)) /\ \A a \in S : Hits(Restrict(h, S), a) = Hits(h, a)
BY FS_Subset DEF Restrict, Times, Hits

LEMMA ResetHits ==
  ASSUME NEW h, Times(h), NEW b, NEW now
  PROVE  Times(Reset(h, b)) /\ StaysBlocked(h, Reset(h, b), now, {b})
<1>1. PICK S : S = DOMAIN h \ {b}
  OBVIOUS
<1>2. Reset(h, b) = Restrict(h, S)
  BY <1>1 DEF Reset
<1>3. Times(Restrict(h, S)) /\ \A a \in S : Hits(Restrict(h, S), a) = Hits(h, a)
  BY <1>1, RestrictHits
<1>4. \A a \in S : Blocked(h, a, now) => Blocked(Restrict(h, S), a, now)
  BY <1>3, SameHits
<1> QED
  BY <1>1, <1>2, <1>3, <1>4 DEF StaysBlocked

LEMMA PrunedHits ==
  ASSUME NEW h, Times(h), NEW b, NEW now \in Int
  PROVE  Times(Pruned(h, b, now)) /\ StaysBlocked(h, Pruned(h, b, now), now, {})
<1>1. PICK s : s = Recent(h, b, now)
  OBVIOUS
<1>2. s \in Seq(Int) /\ \A k \in 1..Len(s) : s[k] > now - Window
  BY <1>1, HitsAreTimes, KeptIsRecent DEF Recent
<1>3. CASE s = <<>>
  <2>1. ~Blocked(h, b, now)
    BY <1>1, <1>3, WindowAssumption DEF Blocked
  <2>2. Pruned(h, b, now) = Reset(h, b)
    BY <1>1, <1>3 DEF Pruned, Reset
  <2> QED
    BY <2>1, <2>2, ResetHits DEF StaysBlocked
<1>4. CASE s # <<>>
  <2>1. PICK new : new = [h EXCEPT ![b] = s]
    OBVIOUS
  <2>2. Pruned(h, b, now) = new
    BY <1>1, <1>4, <2>1 DEF Pruned
  <2>3. /\ DOMAIN new = DOMAIN h /\ \A a \in DOMAIN h \ {b} : new[a] = h[a]
        /\ b \in DOMAIN h => new[b] = s
        /\ Times(new)
    BY <1>2, <2>1 DEF Times
  <2>4. ASSUME NEW a \in DOMAIN h, Blocked(h, a, now) PROVE Blocked(new, a, now)
    <3>1. CASE a # b
      BY <2>3, <2>4, <3>1, SameHits DEF Hits
    <3>2. CASE a = b
      <4>1. Hits(new, a) = s
        BY <2>3, <3>2 DEF Hits
      <4>2. Len(InWindow(s, now)) = Len(s)
        BY <1>2, RecentIsKept
      <4> QED
        BY <1>1, <2>4, <3>2, <4>1, <4>2 DEF Blocked, Recent
    <3> QED
      BY <3>1, <3>2
  <2> QED
    BY <2>2, <2>3, <2>4 DEF StaysBlocked
<1> QED
  BY <1>3, <1>4

LEMMA BoundedHits ==
  ASSUME NEW h, Times(h), NEW now
  PROVE  Times(Bounded(h, now)) /\ (Cardinality(DOMAIN h) <= MapCap => Bounded(h, now) = h)
<1>1. PICK live : live = {a \in DOMAIN h : h[a] # <<>> /\ h[a][Len(h[a])] >= now - Window}
  OBVIOUS
<1>2. /\ Cardinality(DOMAIN h) <= MapCap => Bounded(h, now) = h
      /\ Bounded(h, now) \in {h, Restrict(h, live), Restrict(h, {})}
  BY <1>1 DEF Bounded
<1>3. Times(Restrict(h, live)) /\ Times(Restrict(h, {}))
  BY <1>1, RestrictHits
<1> QED
  BY <1>2, <1>3

LEMMA FailedHits ==
  ASSUME NEW h, Times(h), NEW b, NEW now \in Int
  PROVE  /\ Times(Failed(h, b, now))
         /\ Cardinality(DOMAIN h) <= MapCap => StaysBlocked(h, Failed(h, b, now), now, {})
<1>1. PICK g : g = Bounded(h, now)
  OBVIOUS
<1>2. Times(g) /\ (Cardinality(DOMAIN h) <= MapCap => g = h)
  BY <1>1, BoundedHits
<1>3. PICK s, more : s = Hits(g, b) /\ more = Append(s, now)
  OBVIOUS
<1>4. s \in Seq(Int) /\ more \in Seq(Int)
  BY <1>2, <1>3, HitsAreTimes
<1>5. PICK new : new = [x \in DOMAIN g \cup {b} |-> IF x = b THEN more ELSE g[x]]
  OBVIOUS
<1>6. Failed(h, b, now) = new
  BY <1>1, <1>3, <1>5 DEF Failed
<1>7. Times(new)
  BY <1>2, <1>4, <1>5, FS_AddElement DEF Times
<1>8. ASSUME NEW a \in DOMAIN g, Blocked(g, a, now) PROVE Blocked(new, a, now)
  <2>1. CASE a # b
    BY <1>5, <1>8, <2>1, SameHits DEF Hits
  <2>2. CASE a = b
    <3>1. Hits(new, a) = more
      BY <1>5, <2>2 DEF Hits
    <3>2. PICK i, j : i = Len(InWindow(s, now)) /\ j = Len(InWindow(more, now))
      OBVIOUS
    <3>3. i \in Nat /\ j \in Nat /\ j >= i
      BY <1>3, <1>4, <3>2, AppendKeeps, KeptIsRecent
    <3>4. i >= Limit
      BY <1>3, <1>8, <2>2, <3>2 DEF Blocked, Recent
    <3>5. j >= Limit
      BY ONLY <3>3, <3>4, WindowAssumption
    <3> QED
      BY <3>1, <3>2, <3>5 DEF Blocked, Recent
  <2> QED
    BY <2>1, <2>2
<1>9. Cardinality(DOMAIN h) <= MapCap => StaysBlocked(h, new, now, {})
  BY <1>2, <1>8 DEF StaysBlocked
<1> QED
  BY <1>6, <1>7, <1>9

\* The steps that clear an address: those BlockedStays names.
Clears(r) ==
  /\ pc'[r] # pc[r]
  /\ \/ pc[r] \in {"create", "spend"}
     \/ pc[r] = "password" /\ kind[r] \in {"begin", "enable"}

Throttled == Times(hits)

\* What a request's step does to the failures.
LEMMA StepHits ==
  ASSUME TypeOK, NEW r \in Req, Serve(r)
  PROVE  \/ hits' = hits
         \/ hits' = Pruned(hits, AddressOf[r], step)
         \/ hits' = Failed(hits, AddressOf[r], step)
         \/ hits' = Reset(hits, AddressOf[r]) /\ Clears(r)
<1> USE DEF Goto, Leave, history
<1>1. CASE \E k \in Kinds : Arrive(r, k)
  BY <1>1 DEF Arrive
<1>2. CASE WrongPassword(r) \/ LoginPassword(r) \/ DisablePassword(r)
  BY <1>2 DEF WrongPassword, LoginPassword, DisablePassword
<1>3. CASE BeginAsk(r) \/ Enable(r)
  BY <1>3 DEF BeginAsk, Enable, Clears, TypeOK
<1>4. CASE Lock(r) \/ ReadLast(r) \/ ReadRecovery(r) \/ Refuse(r)
  BY <1>4 DEF Lock, ReadLast, ReadRecovery, Refuse
<1>5. CASE Spend(r) \/ CreateSession(r) \/ StoreFails(r) \/ ReadFails(r)
  BY <1>5 DEF Spend, CreateSession, StoreFails, ReadFails, Clears, TypeOK
<1>6. CASE Begin(r) \/ WriteSetting(r) \/ EndSession(r) \/ EndOthers(r)
  BY <1>6 DEF Begin, WriteSetting, EndSession, EndOthers
<1> QED
  BY <1>1, <1>2, <1>3, <1>4, <1>5, <1>6 DEF Serve, Check

LEMMA NextHits ==
  ASSUME TypeOK, Throttled, [Next]_vars
  PROVE  /\ Throttled'
         /\ \/ faults' # faults \/ Cardinality(DOMAIN hits) > MapCap
            \/ StaysBlocked(hits, hits', step, {})
            \/ \E r \in Req : Clears(r) /\ StaysBlocked(hits, hits', step, {AddressOf[r]})
<1>1. step \in Int
  BY ConsoleAssumption DEF TypeOK
<1>2. hits' = hits => Throttled' /\ StaysBlocked(hits, hits', step, {})
  BY DEF Throttled, Times, StaysBlocked
<1>3. CASE Tick \/ UNCHANGED vars
  BY <1>2, <1>3 DEF Tick, vars
<1>4. CASE Restart
  <2>1. faults' # faults
    BY <1>4 DEF Restart, TypeOK
  <2>2. Throttled'
    BY <1>4, FS_EmptySet DEF Restart, Throttled, Times
  <2> QED
    BY <2>1, <2>2
<1>5. ASSUME NEW r \in Req, Serve(r)
      PROVE  /\ Throttled'
             /\ \/ Cardinality(DOMAIN hits) > MapCap
                \/ StaysBlocked(hits, hits', step, {})
                \/ Clears(r) /\ StaysBlocked(hits, hits', step, {AddressOf[r]})
  <2>1. PICK a : a = AddressOf[r]
    OBVIOUS
  <2>2. CASE hits' = Pruned(hits, a, step)
    BY <1>1, <2>2, PrunedHits DEF Throttled
  <2>3. CASE hits' = Failed(hits, a, step)
    <3>1. /\ Throttled'
          /\ Cardinality(DOMAIN hits) <= MapCap => StaysBlocked(hits, hits', step, {})
      BY <1>1, <2>3, FailedHits DEF Throttled
    <3>2. Cardinality(DOMAIN hits) \in Nat
      BY FS_CardinalityType DEF Throttled, Times
    <3> QED
      BY <3>1, <3>2, WindowAssumption
  <2>4. CASE hits' = Reset(hits, a) /\ Clears(r)
    BY <2>1, <2>4, ResetHits DEF Throttled
  <2> QED
    BY <1>2, <1>5, <2>1, <2>2, <2>3, <2>4, StepHits
<1> QED
  BY <1>3, <1>4, <1>5 DEF Next

(* A blocked address stays blocked until its failures are old, unless one  *)
(* of its own requests succeeds, the process stops or the map overflows.   *)
THEOREM BlockedAddressesStay == Spec => BlockedStays
<1>1. Init => Throttled
  BY FS_EmptySet DEF Init, Throttled, Times
<1>2. TypeOK /\ Throttled /\ [Next]_vars => Throttled'
  BY NextHits
<1>3. Spec => []Throttled
  BY <1>1, <1>2, ConsoleTypeOK, PTL DEF Spec
<1>4. ASSUME TypeOK, Throttled, [Next]_vars, NEW a \in DOMAIN hits,
             Blocked(hits, a, step), ~Blocked(hits', a, step)
      PROVE  \/ faults' # faults \/ Cardinality(DOMAIN hits) > MapCap
             \/ \E r \in Req : AddressOf[r] = a /\ Clears(r)
  BY <1>4, NextHits DEF StaysBlocked
<1>5. TypeOK /\ Throttled /\ [Next]_vars =>
        [\A a \in DOMAIN hits :
           Blocked(hits, a, step) /\ ~Blocked(hits', a, step) =>
             \/ faults' # faults \/ Cardinality(DOMAIN hits) > MapCap
             \/ \E r \in Req : /\ AddressOf[r] = a /\ pc'[r] # pc[r]
                              /\ \/ pc[r] \in {"create", "spend"}
                                 \/ pc[r] = "password" /\ kind[r] \in {"begin", "enable"}]_vars
  BY <1>4 DEF Clears
<1> QED
  BY <1>3, <1>5, ConsoleTypeOK, PTL DEF Spec, BlockedStays
=============================================================================
