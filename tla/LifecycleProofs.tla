--------------------------- MODULE LifecycleProofs ---------------------------
(***************************************************************************)
(* Theorems about the process's start and end, the move of older media and *)
(* a setting of the console.                                               *)
(***************************************************************************)
EXTENDS Lifecycle, FiniteSetTheorems, TLAPS

Stages == {"down", "settings", "tunnel", "device", "mkdir", "migrate", "failed", "listen",
           "serving", "shutdown", "engine", "store", "closed"}
Names == Name \cup {Conf}

Types ==
  /\ pc \in Stages
  /\ at \in [Names \X (1..MaxCopies) -> {"none", "root", "media", "migrated", "lost"}]
  /\ late \in BOOLEAN /\ wsTracker \in BOOLEAN
  /\ live \in Value /\ stored \in Value \cup {None} /\ asked \in SUBSET Value
  /\ change \in [Change -> Value \cup {None}]

----------------------------------------------------------------------------
(* What is open.                                                           *)

TunnelOpen == IF conf = <<>> THEN {} ELSE Tunnel

\* What there may be beside a tunnel, and without one.
Outside == {"store", "client", "storage", "direct", "webrtc", "http", "peers"}
Inside  == {"store", "client", "storage", "webrtc", "tcp", "utp", "dht", "http"} \cup Tunnel

Opened ==
  /\ pc \in {"down", "closed"} => open = {}
  /\ pc \in {"settings", "tunnel", "failed", "store"} => open = {"store"}
  /\ pc \in {"device", "mkdir", "migrate"} => open = {"store"} \cup TunnelOpen
  /\ pc \in {"listen", "serving", "shutdown", "engine"} =>
       /\ {"store", "client"} \cup TunnelOpen \subseteq open
       /\ open \subseteq IF conf = <<>> THEN Outside ELSE Inside
  /\ pc # "serving" => open \cap {"http", "peers"} = {}
  /\ "webrtc" \in open => wsTracker
  /\ pc = "device" => conf # <<>>

----------------------------------------------------------------------------
(* The streams and the setting.                                            *)

Accounts ==
  /\ pc \notin {"serving", "shutdown", "engine", "store", "closed"} => streams = {}
  /\ pc \in {"engine", "store", "closed"} => streams = {} \/ late

\* What was asked for covers the running value and what is yet to be stored, and
\* once nothing is, what the next start reads.
Pending ==
  /\ pc \notin {"serving", "shutdown", "engine", "store", "closed"} =>
       \A c \in Change : change[c] = None
  /\ pc \notin {"down", "settings"} =>
       /\ live \in asked
       /\ \A c \in Change : change[c] # None => change[c] \in asked
       /\ (\A c \in Change : change[c] = None) => Stored \in asked

----------------------------------------------------------------------------
(* What older releases left.                                               *)

\* The copies of a name are numbered from one on.
Numbered ==
  \A n \in Names : \E m \in 0..MaxCopies : \A k \in 1..MaxCopies : at[<<n, k>>] # "none" <=> k <= m

\* The first copy goes to the media directory or waits, later ones are moved
\* aside, each time in the place of the one before it.
Placed ==
  /\ todo \subseteq InRoot
  /\ \A n \in Names, k \in 1..MaxCopies :
       /\ at[<<n, k>>] = "root"     => \A j \in 1..MaxCopies : j > k => at[<<n, j>>] = "none"
       /\ at[<<n, k>>] = "media"    => k = 1
       /\ at[<<n, k>>] = "migrated" =>
            k > 1 /\ \A j \in 1..MaxCopies : j > k => at[<<n, j>>] \in {"none", "root"}
       /\ at[<<n, k>>] = "lost"     =>
            k > 1 /\ ~IsDir[n] /\ \E j \in 1..MaxCopies : j > k /\ at[<<n, j>>] # "none"

LifecycleInv ==
  Types /\ Opened /\ Accounts /\ Pending /\ Numbered /\ Placed

----------------------------------------------------------------------------
LEMMA InitHolds == Init => LifecycleInv
<1> SUFFICES ASSUME Init PROVE LifecycleInv
  OBVIOUS
<1>1. Types
  BY LifecycleAssumption DEF Init, Types, Stages, Names
<1>2. Opened
  BY DEF Init, Opened
<1>4. Accounts
  BY DEF Init, Accounts
<1>5. Pending
  BY DEF Init, Pending
<1>6. Numbered
  <2>1. ASSUME NEW n \in Names
        PROVE  \E m \in 0..MaxCopies : \A k \in 1..MaxCopies : at[<<n, k>>] # "none" <=> k <= m
    <3>1. CASE n = Conf /\ where = "named"
      <4>1. \A k \in 1..MaxCopies : at[<<n, k>>] # "none" <=> k = 1
        BY <3>1 DEF Init, Names
      <4> QED BY <4>1, LifecycleAssumption
    <3>2. CASE ~(n = Conf /\ where = "named")
      <4>1. \A k \in 1..MaxCopies : at[<<n, k>>] = "none"
        BY <3>2 DEF Init, Names
      <4> QED BY <4>1, LifecycleAssumption
    <3> QED BY <3>1, <3>2
  <2> QED BY <2>1 DEF Numbered
<1>7. Placed
  <2>1. \A n \in Names, k \in 1..MaxCopies :
          at[<<n, k>>] \in {"none", "root"} /\ (at[<<n, k>>] = "root" => k = 1 /\ n = Conf)
    BY DEF Init, Names
  <2>2. \A n \in Names, j \in 1..MaxCopies : j > 1 => at[<<n, j>>] = "none"
    BY <2>1
  <2> QED BY <2>1, <2>2 DEF Init, Placed
<1> QED BY <1>1, <1>2, <1>4, <1>5, <1>6, <1>7 DEF LifecycleInv

LEMMA TypesStep == Types /\ [Next]_vars => Types'
<1> SUFFICES ASSUME Types, [Next]_vars PROVE Types'
  OBVIOUS
<1> USE DEF Types, Stages
<1>1. CASE \/ Boot \/ StartWireGuard \/ DeviceUp \/ ReadRoot \/ MoveFails \/ NewClient
          \/ Listen \/ Signal \/ Shutdown \/ ShutdownLate \/ CloseEngine \/ CloseStore
  BY <1>1 DEF Boot, StartWireGuard, DeviceUp, ReadRoot, MoveFails, NewClient, Listen, Signal,
              Shutdown, ShutdownLate, CloseEngine, CloseStore, GiveUp, disk, serving, settings
<1>8. CASE ReadSettings
  BY <1>8, LifecycleAssumption DEF ReadSettings, Stored, disk
<1>2. ASSUME NEW n \in todo, MoveOne(n) PROVE Types'
  BY <1>2 DEF MoveOne, Target, serving, settings
<1>3. CASE Exit \/ Killed
  BY <1>3, LifecycleAssumption DEF Exit, Killed, Down, disk
<1>4. ASSUME NEW s \in Stream, Play(s) \/ PlayEnds(s) \/ CountFails(s) PROVE Types'
  BY <1>4 DEF Play, PlayEnds, CountFails, disk, settings
<1>5. ASSUME NEW c \in Change, SetLive(c) \/ SetStored(c) PROVE Types'
  BY <1>5 DEF SetLive, SetStored, disk
<1>6. ASSUME NEW n \in Name, OlderRelease(n) PROVE Types'
  BY <1>6 DEF OlderRelease, serving, settings
<1>7. CASE UNCHANGED vars
  BY <1>7 DEF vars, disk, serving, settings
<1> QED BY <1>1, <1>2, <1>3, <1>4, <1>5, <1>6, <1>7, <1>8 DEF Next

LEMMA OpenedStep == Opened /\ [Next]_vars => Opened'
<1> SUFFICES ASSUME Opened, [Next]_vars PROVE Opened'
  OBVIOUS
<1> USE DEF Opened, TunnelOpen, Outside, Inside, Tunnel
<1>1. CASE UNCHANGED <<pc, open, conf, wsTracker>>
  BY <1>1
<1>2. CASE Boot
  BY <1>2 DEF Boot, disk
<1>3. CASE ReadSettings
  BY <1>3 DEF ReadSettings, disk
<1>4. CASE StartWireGuard
  BY <1>4 DEF StartWireGuard, GiveUp, disk
<1>5. CASE DeviceUp
  BY <1>5 DEF DeviceUp, GiveUp, disk
<1>6. CASE ReadRoot
  BY <1>6 DEF ReadRoot, GiveUp, disk
<1>7. CASE MoveFails
  BY <1>7 DEF MoveFails, GiveUp, disk
<1>8. CASE NewClient
  BY <1>8 DEF NewClient, GiveUp, BaseClientConfig, disk
<1>9. CASE Listen
  BY <1>9 DEF Listen, disk
<1>10. CASE Signal
  BY <1>10 DEF Signal, disk
<1>11. CASE Shutdown \/ ShutdownLate
  BY <1>11 DEF Shutdown, ShutdownLate, disk
<1>12. CASE CloseEngine
  BY <1>12 DEF CloseEngine, disk
<1>13. CASE CloseStore
  BY <1>13 DEF CloseStore, disk
<1>14. CASE Exit \/ Killed
  BY <1>14 DEF Exit, Killed, Down, disk
<1>15. ASSUME \/ \E n \in todo : MoveOne(n)
              \/ \E s \in Stream : Play(s) \/ PlayEnds(s) \/ CountFails(s)
              \/ \E c \in Change : SetLive(c) \/ SetStored(c)
              \/ \E n \in Name : OlderRelease(n)
              \/ UNCHANGED vars
       PROVE  UNCHANGED <<pc, open, conf, wsTracker>>
  BY <1>15 DEF MoveOne, Play, PlayEnds, CountFails, SetLive, SetStored, OlderRelease,
               vars, disk
<1> QED BY <1>1, <1>2, <1>3, <1>4, <1>5, <1>6, <1>7, <1>8, <1>9, <1>10, <1>11, <1>12, <1>13,
           <1>14, <1>15 DEF Next

LEMMA AccountsStep == Accounts /\ [Next]_vars => Accounts'
<1> SUFFICES ASSUME Accounts, [Next]_vars PROVE Accounts'
  OBVIOUS
<1> USE DEF Accounts
<1>1. CASE UNCHANGED <<pc, streams, late>>
  BY <1>1
<1>2. CASE \/ Boot \/ ReadSettings \/ StartWireGuard \/ DeviceUp \/ ReadRoot \/ MoveFails
          \/ NewClient \/ Listen \/ Signal \/ Shutdown \/ ShutdownLate \/ CloseEngine
          \/ CloseStore
  BY <1>2 DEF Boot, ReadSettings, StartWireGuard, DeviceUp, ReadRoot, MoveFails, NewClient,
              Listen, Signal, Shutdown, ShutdownLate, CloseEngine, CloseStore, GiveUp, serving
<1>3. CASE Exit \/ Killed
  BY <1>3 DEF Exit, Killed, Down
<1>4. ASSUME NEW s \in Stream, Play(s) \/ PlayEnds(s) \/ CountFails(s) PROVE Accounts'
  BY <1>4 DEF Play, PlayEnds, CountFails
<1>5. ASSUME \/ \E n \in todo : MoveOne(n)
             \/ \E c \in Change : SetLive(c) \/ SetStored(c)
             \/ \E n \in Name : OlderRelease(n)
             \/ UNCHANGED vars
      PROVE  UNCHANGED <<pc, streams, late>>
  BY <1>5 DEF MoveOne, SetLive, SetStored, OlderRelease, vars, serving
<1> QED BY <1>1, <1>2, <1>3, <1>4, <1>5 DEF Next

LEMMA PendingStep == Types /\ Pending /\ [Next]_vars => Pending'
<1> SUFFICES ASSUME Types, Pending, [Next]_vars PROVE Pending'
  OBVIOUS
<1> USE DEF Pending, Stored
<1>1. CASE UNCHANGED <<pc, settings>>
  BY <1>1 DEF settings
<1>2. CASE \/ Boot \/ StartWireGuard \/ DeviceUp \/ ReadRoot \/ MoveFails
          \/ NewClient \/ Listen \/ Signal \/ Shutdown \/ ShutdownLate \/ CloseEngine
          \/ CloseStore
  BY <1>2 DEF Boot, StartWireGuard, DeviceUp, ReadRoot, MoveFails, NewClient, Listen, Signal,
              Shutdown, ShutdownLate, CloseEngine, CloseStore, GiveUp, serving, settings
<1>3. CASE ReadSettings
  BY <1>3, LifecycleAssumption DEF ReadSettings, Types
<1>4. CASE Exit \/ Killed
  BY <1>4 DEF Exit, Killed, Down
<1>5. ASSUME NEW c \in Change, SetLive(c) PROVE Pending'
  <2>1. PICK v \in Value : live' = v /\ change' = [change EXCEPT ![c] = v]
    BY <1>5 DEF SetLive
  <2>2. v # None
    BY LifecycleAssumption
  <2>3. change'[c] = v /\ \A d \in Change : d # c => change'[d] = change[d]
    BY <2>1 DEF Types
  <2>4. pc = "serving" /\ pc' = pc /\ v \in asked' /\ change'[c] # None
    BY <1>5, <2>2, <2>3 DEF SetLive
  <2>5. (\E d \in Change : change[d] # None) => asked \subseteq asked'
    BY <1>5 DEF SetLive
  <2> QED BY <2>1, <2>3, <2>4, <2>5
<1>6. ASSUME NEW c \in Change, SetStored(c) PROVE Pending'
  <2>1. /\ change[c] # None /\ pc' = pc /\ live' = live
        /\ change' = [change EXCEPT ![c] = None]
    BY <1>6 DEF SetStored
  <2>2. change'[c] = None /\ \A d \in Change : d # c => change'[d] = change[d]
    BY <2>1 DEF Types
  <2>3. pc \in {"serving", "shutdown", "engine", "store", "closed"}
    BY <2>1
  <2>4. CASE stored' = change[c] /\ asked' = asked
    BY <2>1, <2>2, <2>3, <2>4
  <2>5. CASE asked' = Value /\ stored' = stored
    BY <2>1, <2>2, <2>3, <2>5, LifecycleAssumption DEF Types
  <2> QED BY <1>6, <2>4, <2>5 DEF SetStored
<1>7. ASSUME \/ \E n \in todo : MoveOne(n)
             \/ \E s \in Stream : Play(s) \/ PlayEnds(s) \/ CountFails(s)
             \/ \E n \in Name : OlderRelease(n)
             \/ UNCHANGED vars
      PROVE  UNCHANGED <<pc, settings>>
  BY <1>7 DEF MoveOne, Play, PlayEnds, CountFails, OlderRelease, vars, serving
<1> QED BY <1>1, <1>2, <1>3, <1>4, <1>5, <1>6, <1>7 DEF Next

----------------------------------------------------------------------------
\* The copies of a name number as many as the last one says.
LEMMA CopiesCounted ==
  ASSUME Types, NEW n \in Names, NEW m \in 0..MaxCopies,
         \A k \in 1..MaxCopies : at[<<n, k>>] # "none" <=> k <= m
  PROVE  Copies(n) = {<<n, k>> : k \in 1..m} /\ Cardinality(Copies(n)) = m
<1>1. Copies(n) = {<<n, k>> : k \in 1..m}
  <2>1. DOMAIN at = Names \X (1..MaxCopies)
    BY DEF Types
  <2>2. \A c \in Copies(n) : c \in {<<n, k>> : k \in 1..m}
    BY <2>1, LifecycleAssumption DEF Copies
  <2>3. \A k \in 1..m : <<n, k>> \in Copies(n)
    BY <2>1, LifecycleAssumption DEF Copies
  <2> QED BY <2>2, <2>3
<1> DEFINE f == [k \in 1..m |-> <<n, k>>]
<1>2. f \in Bijection(1..m, Copies(n))
  BY <1>1 DEF Bijection, Injection, Surjection, IsInjective
<1>3. Cardinality(Copies(n)) = Cardinality(1..m)
  <2>1. ExistsBijection(1..m, Copies(n))
    BY <1>2 DEF ExistsBijection
  <2> QED BY <2>1, FS_Interval, FS_Bijection
<1>4. Cardinality(1..m) = m
  BY FS_Interval
<1> QED BY <1>1, <1>3, <1>4

LEMMA PlaceTaken ==
  ASSUME Types, NEW n \in Names, NEW place, place # "none"
  PROVE  In(n, place) <=> \E k \in 1..MaxCopies : at[<<n, k>>] = place
<1>1. DOMAIN at = Names \X (1..MaxCopies)
  BY DEF Types
<1>2. ASSUME In(n, place) PROVE \E k \in 1..MaxCopies : at[<<n, k>>] = place
  <2>1. PICK c \in DOMAIN at : c[1] = n /\ at[c] = place
    BY <1>2 DEF In, Copies
  <2>2. c[2] \in 1..MaxCopies /\ c = <<n, c[2]>>
    BY <1>1, <2>1
  <2> QED BY <2>1, <2>2
<1>3. ASSUME NEW k \in 1..MaxCopies, at[<<n, k>>] = place PROVE In(n, place)
  BY <1>1, <1>3 DEF In, Copies
<1> QED BY <1>2, <1>3

\* Types without the primes and with them.
LEMMA RootTaken ==
  ASSUME Types', NEW n \in Names, NEW k \in 1..MaxCopies, at'[<<n, k>>] = "root"
  PROVE  n \in InRoot'
<1>1. <<n, k>> \in DOMAIN at'
  BY DEF Types
<1> QED BY <1>1 DEF InRoot, In, Copies, Names

\* The move of one name.
LEMMA MovedOne ==
  ASSUME Types, Types', Numbered, Placed, NEW n \in todo, MoveOne(n)
  PROVE  Numbered' /\ Placed'
<1>0. n \in Names
  BY DEF Placed, InRoot, Names
<1>1. PICK r \in 1..MaxCopies : at[<<n, r>>] = "root"
  BY <1>0, PlaceTaken DEF Placed, InRoot
<1>2. \A x \in Names, k \in 1..MaxCopies :
        at'[<<x, k>>] = IF x # n THEN at[<<x, k>>]
                        ELSE IF at[<<x, k>>] = Target(n) THEN "lost"
                        ELSE IF at[<<x, k>>] = "root" THEN Target(n) ELSE at[<<x, k>>]
  <2> DEFINE t == Target(n)
  <2>2. at' = [c \in DOMAIN at |-> CASE c[1] = n /\ at[c] = t      -> "lost"
                                      [] c[1] = n /\ at[c] = "root" -> t
                                      [] OTHER                      -> at[c]]
    BY DEF MoveOne
  <2>3. DOMAIN at = Names \X (1..MaxCopies)
    BY DEF Types
  <2>4. t # "root"
    BY DEF Target
  <2> HIDE DEF t
  <2>5. ASSUME NEW x \in Names, NEW k \in 1..MaxCopies
        PROVE  at'[<<x, k>>] = IF x # n THEN at[<<x, k>>]
                               ELSE IF at[<<x, k>>] = t THEN "lost"
                               ELSE IF at[<<x, k>>] = "root" THEN t ELSE at[<<x, k>>]
    BY ONLY <2>2, <2>3, <2>4, <2>5
  <2> QED BY <2>5 DEF t
<1>3. Target(n) \in {"media", "migrated"}
  BY DEF Target
<1>4. \A x \in Names, k \in 1..MaxCopies : at'[<<x, k>>] = "none" <=> at[<<x, k>>] = "none"
  BY <1>2, <1>3
<1>5. Numbered'
  BY <1>4 DEF Numbered
<1>6. todo' \subseteq InRoot'
  <2>1. ASSUME NEW x \in todo' PROVE x \in InRoot'
    <3>1. x \in todo /\ x # n /\ x \in Names
      BY <2>1 DEF MoveOne, Placed, InRoot, Names
    <3>2. PICK k \in 1..MaxCopies : at[<<x, k>>] = "root"
      BY <3>1, PlaceTaken DEF Placed, InRoot
    <3>3. at'[<<x, k>>] = "root"
      BY <1>2, <3>1, <3>2
    <3> QED BY <3>1, <3>3, RootTaken
  <2> QED BY <2>1
<1> DEFINE Fine(x, k) ==
             /\ at'[<<x, k>>] = "root" =>
                  \A j \in 1..MaxCopies : j > k => at'[<<x, j>>] = "none"
             /\ at'[<<x, k>>] = "media" => k = 1
             /\ at'[<<x, k>>] = "migrated" =>
                  k > 1 /\ \A j \in 1..MaxCopies : j > k => at'[<<x, j>>] \in {"none", "root"}
             /\ at'[<<x, k>>] = "lost" =>
                  k > 1 /\ ~IsDir[x] /\ \E j \in 1..MaxCopies : j > k /\ at'[<<x, j>>] # "none"
<1>7. ASSUME NEW x \in Names, x # n, NEW k \in 1..MaxCopies PROVE Fine(x, k)
  BY <1>2, <1>7 DEF Placed
<1>8. \A k \in 1..MaxCopies : at[<<n, k>>] # "none" => k <= r
  BY <1>0, <1>1 DEF Placed
<1>9. ASSUME NEW k \in 1..MaxCopies PROVE Fine(n, k)
  <2>1. CASE ~In(n, "media")
    <3>1. \A j \in 1..MaxCopies :
            at[<<n, j>>] # "media" /\ at'[<<n, j>>] = IF at[<<n, j>>] = "root" THEN "media" ELSE at[<<n, j>>]
      BY <1>0, <1>2, <2>1, PlaceTaken DEF Target
    <3>2. r = 1
      <4>1. at[<<n, 1>>] # "none"
        <5>1. PICK m \in 0..MaxCopies : \A j \in 1..MaxCopies : at[<<n, j>>] # "none" <=> j <= m
          BY <1>0 DEF Numbered
        <5> QED BY <1>1, <5>1, LifecycleAssumption
      <4>2. at[<<n, 1>>] \notin {"migrated", "lost", "media"}
        BY <1>0, <3>1, LifecycleAssumption DEF Placed
      <4>3. at[<<n, 1>>] = "root"
        BY <1>0, <4>1, <4>2, LifecycleAssumption DEF Types
      <4> QED BY <1>0, <1>1, <4>3, LifecycleAssumption DEF Placed
    <3>3. k = 1 \/ at[<<n, k>>] = "none"
      BY <1>8, <3>2
    <3>4. at'[<<n, 1>>] = "media"
      BY <1>1, <3>1, <3>2
    <3> QED BY <3>3, <3>4, <1>4, <1>0
  <2>2. CASE In(n, "media")
    <3>1. \A j \in 1..MaxCopies :
            at'[<<n, j>>] = IF at[<<n, j>>] = "migrated" THEN "lost"
                            ELSE IF at[<<n, j>>] = "root" THEN "migrated" ELSE at[<<n, j>>]
      BY <1>0, <1>2, <2>2 DEF Target
    <3>2. PICK h \in 1..MaxCopies : at[<<n, h>>] = "media"
      BY <1>0, <2>2, PlaceTaken
    <3>3. h = 1 /\ r > 1
      BY <1>0, <1>1, <1>8, <3>2 DEF Placed
    <3>4. CASE at[<<n, k>>] = "root"
      <4>1. \A j \in 1..MaxCopies : j > k => at'[<<n, j>>] = "none"
        BY <1>0, <1>4, <3>4 DEF Placed
      <4>2. k > 1
        BY <1>0, <1>8, <3>4, <3>2, <3>3
      <4> QED BY <3>1, <3>4, <4>1, <4>2
    <3>5. CASE at[<<n, k>>] = "migrated"
      <4>1. ~IsDir[n]
        <5>1. In(n, "migrated")
          BY <1>0, <3>5, PlaceTaken
        <5> QED BY <5>1, <2>2 DEF MoveOne, Target
      <4>2. k > 1 /\ r > k
        BY <1>0, <1>1, <1>8, <3>5 DEF Placed
      <4>3. at'[<<n, r>>] # "none"
        BY <1>0, <1>1, <1>4
      <4> QED BY <3>1, <3>5, <4>1, <4>2, <4>3
    <3>6. CASE at[<<n, k>>] \notin {"root", "migrated"}
      <4>1. at'[<<n, k>>] = at[<<n, k>>]
        BY <3>1, <3>6
      <4> QED BY <1>0, <1>4, <3>6, <4>1 DEF Placed
    <3> QED BY <3>4, <3>5, <3>6
  <2> QED BY <2>1, <2>2
<1> HIDE DEF Fine
<1>10. \A x \in Names, k \in 1..MaxCopies : Fine(x, k)
  BY <1>7, <1>9
<1> QED BY <1>5, <1>6, <1>10 DEF Placed, Fine

\* An older release leaves one more copy.
LEMMA LeftOnce ==
  ASSUME Types, Types', Numbered, Placed, NEW n \in Name, OlderRelease(n)
  PROVE  Numbered' /\ Placed'
<1>0. n \in Names
  BY DEF Names
<1>1. PICK m \in 0..MaxCopies : \A k \in 1..MaxCopies : at[<<n, k>>] # "none" <=> k <= m
  BY <1>0 DEF Numbered
<1>2. Cardinality(Copies(n)) = m
  BY <1>0, <1>1, CopiesCounted
<1>3. m + 1 \in 1..MaxCopies /\ at' = [at EXCEPT ![<<n, m + 1>>] = "root"]
  BY <1>1, <1>2, LifecycleAssumption DEF OlderRelease
<1>4. \A x \in Names, k \in 1..MaxCopies :
        at'[<<x, k>>] = IF x = n /\ k = m + 1 THEN "root" ELSE at[<<x, k>>]
  BY <1>3 DEF Types
<1>5. Numbered'
  <2>1. ASSUME NEW x \in Names
        PROVE  \E l \in 0..MaxCopies : \A k \in 1..MaxCopies : at'[<<x, k>>] # "none" <=> k <= l
    <3>1. CASE x = n
      <4>1. \A k \in 1..MaxCopies : at'[<<x, k>>] # "none" <=> k <= m + 1
        BY <1>0, <1>1, <1>4, <3>1
      <4> QED BY <1>3, <4>1
    <3>2. CASE x # n
      BY <1>4, <3>2 DEF Numbered
    <3> QED BY <3>1, <3>2
  <2> QED BY <2>1 DEF Numbered
<1>6. todo' \subseteq InRoot'
  <2>1. ASSUME NEW x \in todo' PROVE x \in InRoot'
    <3>1. x \in todo /\ x \in Names
      BY <2>1 DEF OlderRelease, Placed, InRoot, Names
    <3>2. PICK k \in 1..MaxCopies : at[<<x, k>>] = "root"
      BY <3>1, PlaceTaken DEF Placed, InRoot
    <3>3. at'[<<x, k>>] = "root"
      BY <1>4, <3>1, <3>2
    <3> QED BY <3>1, <3>3, RootTaken
  <2> QED BY <2>1
<1>7. \A k \in 1..MaxCopies : at[<<n, k>>] # "root"
  BY <1>0, PlaceTaken DEF OlderRelease, InRoot, Names
<1>8. \A k \in 1..MaxCopies : k > m => at[<<n, k>>] = "none"
  BY <1>1
<1>9. ASSUME NEW x \in Names, NEW k \in 1..MaxCopies
      PROVE  /\ at'[<<x, k>>] = "root" =>
                  \A j \in 1..MaxCopies : j > k => at'[<<x, j>>] = "none"
             /\ at'[<<x, k>>] = "media" => k = 1
             /\ at'[<<x, k>>] = "migrated" =>
                  k > 1 /\ \A j \in 1..MaxCopies : j > k => at'[<<x, j>>] \in {"none", "root"}
             /\ at'[<<x, k>>] = "lost" =>
                  k > 1 /\ ~IsDir[x] /\ \E j \in 1..MaxCopies : j > k /\ at'[<<x, j>>] # "none"
  <2>1. CASE x # n
    BY <1>4, <2>1 DEF Placed
  <2>2. CASE x = n /\ k = m + 1
    BY <1>0, <1>4, <1>8, <2>2
  <2>3. CASE x = n /\ k # m + 1
    <3>1. at'[<<x, k>>] = at[<<x, k>>] /\ at[<<x, k>>] # "root"
      BY <1>0, <1>4, <1>7, <2>3
    <3>2. \A j \in 1..MaxCopies : /\ at[<<x, j>>] = "none" => at'[<<x, j>>] \in {"none", "root"}
                                  /\ at[<<x, j>>] # "none" => at'[<<x, j>>] # "none"
                                  /\ at[<<x, j>>] = "root" => at'[<<x, j>>] = "root"
      BY <1>0, <1>4, <2>3
    <3> QED BY <1>0, <2>3, <3>1, <3>2 DEF Placed
  <2> QED BY <2>1, <2>2, <2>3
<1> QED BY <1>5, <1>6, <1>9 DEF Placed

LEMMA PlacedStep ==
  Types /\ Types' /\ Numbered /\ Placed /\ [Next]_vars => Numbered' /\ Placed'
<1> SUFFICES ASSUME Types, Types', Numbered, Placed, [Next]_vars PROVE Numbered' /\ Placed'
  OBVIOUS
<1>1. CASE at' = at /\ todo' \subseteq InRoot
  <2>1. InRoot' = InRoot
    BY <1>1 DEF InRoot, In, Copies
  <2> QED BY <1>1, <2>1 DEF Numbered, Placed
<1>2. ASSUME NEW n \in todo, MoveOne(n) PROVE Numbered' /\ Placed'
  BY <1>2, MovedOne
<1>3. ASSUME NEW n \in Name, OlderRelease(n) PROVE Numbered' /\ Placed'
  BY <1>3, LeftOnce
<1>4. CASE ReadRoot
  BY <1>1, <1>4 DEF ReadRoot, disk, Placed
<1>5. CASE Exit \/ Killed
  BY <1>1, <1>5 DEF Exit, Killed, Down, disk
<1>6. CASE \/ Boot \/ ReadSettings \/ StartWireGuard \/ DeviceUp \/ MoveFails \/ NewClient
          \/ Listen \/ Signal \/ Shutdown \/ ShutdownLate \/ CloseEngine \/ CloseStore
          \/ UNCHANGED vars
  <2>1. at' = at /\ todo' = todo
    BY <1>6 DEF Boot, ReadSettings, StartWireGuard, DeviceUp, MoveFails, NewClient, Listen,
                Signal, Shutdown, ShutdownLate, CloseEngine, CloseStore, vars, disk
  <2> QED BY <1>1, <2>1 DEF Placed
<1>7. ASSUME \/ \E s \in Stream : Play(s) \/ PlayEnds(s) \/ CountFails(s)
             \/ \E c \in Change : SetLive(c) \/ SetStored(c)
      PROVE  Numbered' /\ Placed'
  <2>1. at' = at /\ todo' = todo
    BY <1>7 DEF Play, PlayEnds, CountFails, SetLive, SetStored, disk
  <2> QED BY <1>1, <2>1 DEF Placed
<1> QED BY <1>2, <1>3, <1>4, <1>5, <1>6, <1>7 DEF Next

----------------------------------------------------------------------------
(* The theorems.                                                           *)

LEMMA LifecycleInvariant == Spec => []LifecycleInv
<1>1. Init => LifecycleInv
  BY InitHolds
<1>2. LifecycleInv /\ [Next]_vars => LifecycleInv'
  BY TypesStep, OpenedStep, AccountsStep, PendingStep, PlacedStep
     DEF LifecycleInv
<1> QED BY <1>1, <1>2, PTL DEF Spec

\* A start is whole or nothing, whatever the configuration says, wherever the start
\* fails or the process ends, and with any of the tunnel's sockets missing.
THEOREM StartIsWholeOrNothing == Spec => []StartWholeOrNothing
<1>1. ASSUME LifecycleInv PROVE StartWholeOrNothing
  <2>1. pc \in {"failed", "store", "closed"} => open \subseteq {"store"}
    BY <1>1 DEF LifecycleInv, Opened
  <2>2. pc \in {"listen", "serving", "shutdown"} =>
          /\ {"store", "client"} \subseteq open
          /\ IF conf = <<>> THEN open \cap Tunnel = {}
                            ELSE /\ Tunnel \subseteq open
                                 /\ open \cap {"peers", "direct"} = {}
                                 /\ "webrtc" \in open => wsTracker
    BY <1>1 DEF LifecycleInv, Opened, TunnelOpen, Outside, Inside, Tunnel
  <2> QED BY <2>1, <2>2 DEF StartWholeOrNothing
<1> QED BY <1>1, LifecycleInvariant, PTL

\* Whatever older releases leave, and wherever the move is cut short.
THEOREM MoveKeepsFirstAndLatest == Spec => []FirstAndLatestKept
<1>1. ASSUME LifecycleInv PROVE FirstAndLatestKept
  <2>0. Types /\ Numbered /\ Placed
    BY <1>1 DEF LifecycleInv
  <2>1. SUFFICES ASSUME NEW n \in Names, NEW c \in Copies(n), NEW d \in Copies(n)
        PROVE  /\ at[c] = "lost" => c[2] \notin {1, Cardinality(Copies(n))} /\ ~IsDir[n]
               /\ at[c] = at[d] /\ at[c] # "lost" => c = d
    BY DEF FirstAndLatestKept, Names
  <2>2. PICK m \in 0..MaxCopies : \A k \in 1..MaxCopies : at[<<n, k>>] # "none" <=> k <= m
    BY <2>0 DEF Numbered
  <2>3. Copies(n) = {<<n, k>> : k \in 1..m} /\ Cardinality(Copies(n)) = m
    BY <2>0, <2>2, CopiesCounted
  <2>4. PICK k \in 1..m : c = <<n, k>>
    BY <2>3
  <2>5. PICK l \in 1..m : d = <<n, l>>
    BY <2>3
  <2>6. k \in 1..MaxCopies /\ l \in 1..MaxCopies
    BY LifecycleAssumption
  <2>7. at[c] = "lost" => k # 1 /\ k # m /\ ~IsDir[n]
    <3>1. ASSUME at[<<n, k>>] = "lost" PROVE k > 1 /\ ~IsDir[n] /\ k < m
      <4>1. PICK j \in 1..MaxCopies : j > k /\ at[<<n, j>>] # "none"
        BY <2>0, <2>6, <3>1 DEF Placed
      <4>2. j <= m
        BY <2>2, <4>1
      <4> QED BY <2>0, <2>6, <3>1, <4>1, <4>2 DEF Placed
    <3> QED BY <2>4, <3>1
  <2>8. at[c] = at[d] /\ at[c] # "lost" => k = l
    <3>1. at[c] \in {"root", "media", "migrated", "lost"}
      BY <2>0, <2>2, <2>4, <2>6 DEF Types
    <3> QED BY <2>0, <2>4, <2>5, <2>6, <3>1 DEF Placed
  <2> QED BY <2>3, <2>4, <2>5, <2>7, <2>8
<1> QED BY <1>1, LifecycleInvariant, PTL

\* For any number of streams: no store is closed under one that ends in time.
THEOREM EndedStreamsAreCounted == Spec => CountedUnlessLate
<1> DEFINE Fine(s) == s \in counted' \/ CountFails(s) \/ late \/ Killed
<1>1. ASSUME LifecycleInv, [Next]_vars, NEW s \in streams \ streams'
      PROVE  Fine(s)
  <2>1. ASSUME NEW r \in Stream, PlayEnds(r) PROVE Fine(s)
    <3>1. s = r
      BY <2>1 DEF PlayEnds
    <3>2. "store" \in open \/ late
      BY <1>1, <2>1 DEF LifecycleInv, Types, Stages, Accounts, Opened, PlayEnds
    <3> QED BY <2>1, <3>1, <3>2 DEF PlayEnds
  <2>2. ASSUME NEW r \in Stream, CountFails(r) PROVE Fine(s)
    <3>1. s = r
      BY <2>2 DEF CountFails
    <3> QED BY <2>2, <3>1
  <2>3. CASE Exit
    BY <1>1, <2>3 DEF Exit, LifecycleInv, Accounts
  <2>4. CASE Killed
    BY <2>4
  <2>5. ASSUME ~Exit, ~Killed, ~\E r \in Stream : PlayEnds(r) \/ CountFails(r) PROVE FALSE
    <3>1. streams \subseteq streams'
      BY <1>1, <2>5
         DEF Next, Boot, ReadSettings, StartWireGuard, DeviceUp, ReadRoot, MoveOne, MoveFails,
             NewClient, Listen, Signal, Shutdown, ShutdownLate, CloseEngine, CloseStore, Play,
             SetLive, SetStored, OlderRelease, GiveUp, vars, serving
    <3> QED BY <1>1, <3>1
  <2> QED BY <2>1, <2>2, <2>3, <2>4, <2>5
<1>2. LifecycleInv /\ [Next]_vars => [\A s \in streams \ streams' : Fine(s)]_vars
  BY <1>1
<1> QED BY <1>2, LifecycleInvariant, PTL DEF Spec, CountedUnlessLate

\* After any number of changes, overlapping or not, failures and starts.
THEOREM RunningSettingIsStored == Spec => []SettingsAgree
<1>1. LifecycleInv => SettingsAgree
  BY DEF LifecycleInv, Pending, SettingsAgree
<1> QED BY <1>1, LifecycleInvariant, PTL
=============================================================================
