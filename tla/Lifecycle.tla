------------------------------ MODULE Lifecycle ------------------------------
(***************************************************************************)
(* The process from its start to its end (main.go), what NewEngine opens   *)
(* and undoes and Close closes, the move of what older releases left in    *)
(* the data directory (engine.go), and the tunnel's start (wireguard.go).  *)
(* The process may be killed at any step and is started again.             *)
(*                                                                         *)
(* External: older releases, run in between, which put their media         *)
(* straight into the data directory; the operator, who says where the      *)
(* tunnel's configuration is; streams that come and go; the console's user. *)
(***************************************************************************)
EXTENDS Integers, Sequences, FiniteSets, WireGuardConf

CONSTANTS
  None,
  Name,         \* what older releases leave: names in the data directory
  IsDir,        \* name -> whether it is a directory (never empty) or a file
  Conf,         \* the name of a configuration file of the operator's choice
  Texts,        \* what a configuration may say: sequences of lines
  Stream,
  Change,       \* requests of the console that change a setting
  Value, Env,   \* of that setting: what may be asked for, what the environment says
  MaxCopies,    \* bound: times one name is left
  MaxStarts     \* bound on starts

\* A value of a setting is one; a name is left at least once.
ASSUME LifecycleAssumption == None \notin Value /\ Env \in Value /\ MaxCopies \in Nat \ {0}

VARIABLES
  where,        \* of the configuration: "unset", "inline", "default" or "named"
  text,         \* what it says
  wsTracker,    \* whether BITLAB_TRACKERS names a ws or wss tracker
  at,           \* <<name, k>>, the k-th copy left: "none" yet, in the "root", in
                \* "media" as it is named, or as "migrated", or "lost"
  pc, starts,
  conf,         \* the configuration this process found, <<>> for none
  open,         \* what it holds open
  dev,          \* what the device was told
  todo,         \* directory entries still to be moved
  streams, counted, \* being served; ended with their bytes on the key
  live, stored, \* a setting as the process has it and as the database has it
  change,       \* of a change between the two: the value it has yet to store
  asked,        \* history: what the last start read, or the changes since the last
                \* moment without one asked for; any value once one was not
                \* stored, or not read
  late          \* Shutdown has run into its ten seconds

disk == <<where, text, wsTracker, at>>
settings == <<live, stored, change, asked>>
serving == <<streams, counted, late, settings>>
vars == <<disk, pc, starts, conf, open, dev, todo, serving>>

Copies(n) == {c \in DOMAIN at : c[1] = n /\ at[c] # "none"}
In(n, place) == \E c \in Copies(n) : at[c] = place
InRoot == {n \in Name \cup {Conf} : In(n, "root")}

\* A name that is no path to a file is taken for the configuration itself.
NameOnly == <<[key |-> "", val |-> ""]>>

----------------------------------------------------------------------------
(* The start.                                                              *)

\* A file that is there and cannot be read is an error, which is printed and
\* leaves the configuration empty; wireguard.conf unread is as good as none.
LoadWireGuardConf(readable) ==
  CASE where = "unset"   -> <<>>
    [] where = "inline"  -> text
    [] where = "default" -> IF readable THEN text ELSE <<>>
    [] where = "named"   -> IF Conf \notin InRoot THEN NameOnly
                            ELSE IF readable THEN text ELSE <<>>

\* The data directory, the password and the store, or the end.
Boot ==
  /\ pc = "down" /\ starts < MaxStarts
  /\ starts' = starts + 1
  /\ \E readable \in BOOLEAN : conf' = LoadWireGuardConf(readable)
  /\ open' = {"store"}
  /\ pc' = "settings"
  /\ UNCHANGED <<disk, dev, todo, serving>>

\* What the next start takes the setting to be.
Stored == IF stored = None THEN Env ELSE stored

\* Mutant of ReadSettings: the environment has the last word.
ReadSettingsEnv ==
  /\ pc = "settings"
  /\ live' = Env /\ asked' = {Stored}
  /\ pc' = "tunnel"
  /\ UNCHANGED <<disk, starts, conf, open, dev, todo, streams, counted, late,
                 stored, change>>

\* A stored setting wins over the environment, if it can be read: GetSetting's
\* answer to an error is that there is none.
ReadSettings ==
  /\ pc = "settings"
  /\ \/ live' = Stored /\ asked' = {Stored}
     \/ live' = Env /\ asked' = Value
  /\ pc' = "tunnel"
  /\ UNCHANGED <<disk, starts, conf, open, dev, todo, streams, counted, late,
                 stored, change>>

\* NewEngine gives up, with what it closes first.
GiveUp(closed) == open' = open \ closed /\ pc' = "failed"

Tunnel == {"tun", "dev"}

\* StartWireGuard: the file is read and the device made, unless there is none.
StartWireGuard ==
  /\ pc = "tunnel"
  /\ LET c == ParseWireGuardConfig(conf) IN
     \/ /\ conf = <<>> /\ pc' = "mkdir"
        /\ UNCHANGED <<open, dev>>
     \/ /\ conf # <<>>
        /\ GiveUp({}) /\ UNCHANGED dev
     \/ /\ conf # <<>> /\ ~c.err
        /\ open' = open \cup Tunnel /\ dev' = ToUAPI(c) /\ pc' = "device"
  /\ UNCHANGED <<disk, starts, conf, todo, serving>>

DeviceUp ==
  /\ pc = "device"
  /\ \/ pc' = "mkdir" /\ UNCHANGED open
     \/ GiveUp(Tunnel)
  /\ UNCHANGED <<disk, starts, conf, dev, todo, serving>>

\* The media directory and the list of what is to be moved.
ReadRoot ==
  /\ pc = "mkdir"
  /\ \/ pc' = "migrate" /\ todo' = InRoot /\ UNCHANGED open
     \/ GiveUp(Tunnel) /\ UNCHANGED todo
  /\ UNCHANGED <<disk, starts, conf, dev, serving>>

\* Mutant of Target: no look at what is there already.
TargetAsNamed(n) == "media"

Target(n) == IF In(n, "media") THEN "migrated" ELSE "media"

\* os.Rename: what has the name is replaced, unless they are directories.
MoveOne(n) ==
  /\ pc = "migrate" /\ n \in todo
  /\ ~(IsDir[n] /\ In(n, Target(n)))
  /\ at' = [c \in DOMAIN at |->
              CASE c[1] = n /\ at[c] = Target(n) -> "lost"
                [] c[1] = n /\ at[c] = "root"    -> Target(n)
                [] OTHER                         -> at[c]]
  /\ todo' = todo \ {n}
  /\ UNCHANGED <<where, text, wsTracker, pc, starts, conf, open, dev, serving>>

\* Mutant of MoveFails: the tunnel is left up.
MoveFailsTunnelUp ==
  /\ pc = "migrate" /\ todo # {}
  /\ GiveUp({})
  /\ UNCHANGED <<disk, starts, conf, dev, todo, serving>>

MoveFails ==
  /\ pc = "migrate" /\ todo # {}
  /\ GiveUp(Tunnel)
  /\ UNCHANGED <<disk, starts, conf, dev, todo, serving>>

\* Mutant of BaseClientConfig: the tunnel is an addition.
BaseClientConfigBoth == {"direct"} \cup IF wsTracker THEN {"webrtc"} ELSE {}

\* What the torrent client opens itself: no sockets beside a tunnel, but WebRTC, the
\* library's own way to the peers of a ws or wss tracker, is never turned off.
BaseClientConfig ==
  (IF "dev" \in open THEN {} ELSE {"direct"}) \cup (IF wsTracker THEN {"webrtc"} ELSE {})

\* The torrent client, on a storage of the platform's own where there is one, and
\* inside a tunnel its three sockets, each of which may be missing.
NewClient ==
  /\ pc = "migrate" /\ todo = {}
  /\ \/ \E s \in SUBSET {"tcp", "utp", "dht"}, own \in SUBSET {"storage"} :
          /\ "dev" \notin open => s = {}
          /\ open' = open \cup {"client"} \cup own \cup s \cup BaseClientConfig
          /\ pc' = "listen"
     \/ GiveUp(Tunnel)
  /\ UNCHANGED <<disk, starts, conf, dev, todo, serving>>

\* The shared port is for peers too when there is no tunnel.
Listen ==
  /\ pc = "listen"
  /\ open' = open \cup {"http"} \cup IF "dev" \in open THEN {} ELSE {"peers"}
  /\ pc' = "serving"
  /\ UNCHANGED <<disk, starts, conf, dev, todo, serving>>

----------------------------------------------------------------------------
(* Serving, and the end.                                                   *)

Play(s) ==
  /\ pc = "serving" /\ s \notin streams
  /\ streams' = streams \cup {s} /\ counted' = counted \ {s}
  /\ UNCHANGED <<disk, pc, starts, conf, open, dev, todo, late, settings>>

\* handlePlay's last call, AddKeyBytes, finds the store open or closed.
PlayEnds(s) ==
  /\ s \in streams
  /\ streams' = streams \ {s}
  /\ counted' = IF "store" \in open THEN counted \cup {s} ELSE counted
  /\ UNCHANGED <<disk, pc, starts, conf, open, dev, todo, late, settings>>

\* Any other error of its write, which is dropped as well.
CountFails(s) ==
  /\ s \in streams /\ "store" \in open
  /\ streams' = streams \ {s}
  /\ UNCHANGED <<disk, pc, starts, conf, open, dev, todo, counted, late, settings>>

\* handleSettings: the running value first, the stored one after it.
SetLive(c) ==
  /\ pc = "serving" /\ change[c] = None
  /\ \E v \in Value :
       /\ live' = v /\ change' = [change EXCEPT ![c] = v]
       /\ asked' = IF \A d \in Change : change[d] = None THEN {v} ELSE asked \cup {v}
  /\ UNCHANGED <<disk, pc, starts, conf, open, dev, todo, streams, counted, late,
                 stored>>

\* The store may fail, which nobody looks at.
SetStored(c) ==
  /\ change[c] # None
  /\ \/ "store" \in open /\ stored' = change[c] /\ UNCHANGED asked
     \/ asked' = Value /\ UNCHANGED stored
  /\ change' = [change EXCEPT ![c] = None]
  /\ UNCHANGED <<disk, pc, starts, conf, open, dev, todo, streams, counted, late,
                 live>>

Signal ==
  /\ pc = "serving"
  /\ pc' = "shutdown"
  /\ open' = open \ {"http", "peers"}
  /\ UNCHANGED <<disk, starts, conf, dev, todo, serving>>

\* Mutant of Shutdown: the connections are not waited for.
ShutdownAtOnce ==
  /\ pc = "shutdown"
  /\ pc' = "engine"
  /\ UNCHANGED <<disk, starts, conf, open, dev, todo, serving>>

Shutdown ==
  /\ pc = "shutdown" /\ streams = {}
  /\ pc' = "engine"
  /\ UNCHANGED <<disk, starts, conf, open, dev, todo, serving>>

ShutdownLate ==
  /\ pc = "shutdown" /\ streams # {}
  /\ late' = TRUE
  /\ pc' = "engine"
  /\ UNCHANGED <<disk, starts, conf, open, dev, todo, streams, counted, settings>>

\* The deferred calls, the last one first.
CloseEngine ==
  /\ pc = "engine"
  /\ open' = open \ ({"client", "direct", "webrtc", "tcp", "utp", "dht", "storage"} \cup Tunnel)
  /\ pc' = "store"
  /\ UNCHANGED <<disk, starts, conf, dev, todo, serving>>

CloseStore ==
  /\ pc = "store"
  /\ open' = open \ {"store"}
  /\ pc' = "closed"
  /\ UNCHANGED <<disk, starts, conf, dev, todo, serving>>

Down ==
  /\ pc' = "down" /\ conf' = <<>> /\ open' = {} /\ dev' = ToUAPI(Start) /\ todo' = {}
  /\ streams' = {} /\ counted' = {} /\ late' = FALSE
  /\ live' = Env /\ change' = [c \in Change |-> None] /\ asked' = {}
  /\ UNCHANGED <<disk, starts, stored>>

\* main returns, or Fatalf after NewEngine; or the process is killed, or ends by
\* a Fatalf where nothing could be listened on or served.
Exit == pc \in {"closed", "failed"} /\ Down
Killed == pc \notin {"down", "closed", "failed"} /\ Down

----------------------------------------------------------------------------
(* External.                                                               *)

\* An older release leaves a name in the data directory, once more.
OlderRelease(n) ==
  /\ pc = "down" /\ n \notin InRoot
  /\ LET k == Cardinality(Copies(n)) + 1 IN
       k <= MaxCopies /\ at' = [at EXCEPT ![<<n, k>>] = "root"]
  /\ UNCHANGED <<where, text, wsTracker, pc, starts, conf, open, dev, todo,
                 serving>>

Init ==
  /\ where \in {"unset", "inline", "default", "named"}
  /\ text \in IF where = "unset" THEN {<<>>} ELSE Texts
  /\ wsTracker \in BOOLEAN
  /\ at = [c \in (Name \cup {Conf}) \X (1..MaxCopies) |->
             IF c = <<Conf, 1>> /\ where = "named" THEN "root" ELSE "none"]
  /\ pc = "down" /\ starts = 0 /\ conf = <<>> /\ open = {} /\ dev = ToUAPI(Start)
  /\ todo = {} /\ streams = {} /\ counted = {} /\ late = FALSE
  /\ live = Env /\ stored = None /\ change = [c \in Change |-> None]
  /\ asked = {}

Next ==
  \/ Boot \/ ReadSettings \/ StartWireGuard \/ DeviceUp \/ ReadRoot
  \/ (\E n \in todo : MoveOne(n)) \/ MoveFails \/ NewClient \/ Listen
  \/ Signal \/ Shutdown \/ ShutdownLate \/ CloseEngine \/ CloseStore
  \/ Exit \/ Killed
  \/ (\E s \in Stream : Play(s) \/ PlayEnds(s) \/ CountFails(s))
  \/ (\E c \in Change : SetLive(c) \/ SetStored(c))
  \/ (\E n \in Name : OlderRelease(n))

Spec == Init /\ [][Next]_vars

----------------------------------------------------------------------------
(* Properties.                                                             *)

\* A start is whole or nothing: an engine that failed, or was closed, leaves no
\* part of itself open; one that serves has its tunnel if it found the
\* configuration of one, and no way around it for peers in either direction but
\* WebRTC, which it takes a tracker of the operator's to open
\* (engine.go:73-118, 120-254, main.go:123-129, 273-299).
StartWholeOrNothing ==
  /\ pc \in {"failed", "store", "closed"} => open \subseteq {"store"}
  /\ pc \in {"listen", "serving", "shutdown"} =>
       /\ {"store", "client"} \subseteq open
       /\ IF conf = <<>> THEN open \cap Tunnel = {}
                         ELSE /\ Tunnel \subseteq open
                              /\ open \cap {"peers", "direct"} = {}
                              /\ "webrtc" \in open => wsTracker

\* The device of an engine that came up has every peer of the configuration, with
\* the keys and addresses of its own section (wireguard.go:80-255, 366-407).
TunnelAsWritten == pc = "listen" /\ conf # <<>> => PeersAsWritten(dev, conf)

\* However often the move is cut short and run again, no two copies of a name
\* end in one place, and the first and the latest are kept; only a file that was
\* moved aside in between may be replaced (engine.go:269-289).
FirstAndLatestKept ==
  \A n \in Name \cup {Conf} :
    LET latest == Cardinality(Copies(n)) IN
    \A c, d \in Copies(n) :
      /\ at[c] = "lost" => c[2] \notin {1, latest} /\ ~IsDir[n]
      /\ at[c] = at[d] /\ at[c] # "lost" => c = d

\* A stream's bytes go on its key's account, or the open store refuses them,
\* unless it outlasts the ten seconds of the shutdown or the process is killed: no
\* store is closed under a stream that ends in time (main.go:301-308,
\* engine.go:843-860, store.go:335-340).
CountedUnlessLate ==
  [][\A s \in streams \ streams' : s \in counted' \/ CountFails(s) \/ late \/ Killed]_vars

\* When no change is under way, the running setting and the one the next start
\* takes are both among what the last changes to overlap asked for, so after one
\* alone, or after a start, they agree; unless one could not be stored or the
\* start could not read it, until the next undisturbed change
\* (main.go:176-191, admin.go:434-445).
SettingsAgree ==
  pc \in {"serving", "shutdown"} /\ (\A c \in Change : change[c] = None) =>
    {live, Stored} \subseteq asked
=============================================================================
