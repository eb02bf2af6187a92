-------------------------------- MODULE Stream --------------------------------
(***************************************************************************)
(* One stream of handlePlay, once the torrent has its metadata: the file   *)
(* it picks, the container sniff, ServeContent's copy through sizedReader  *)
(* and countingWriter, and the goroutine that expires the stream when it   *)
(* is idle.  The swarm (does a Read return?) and the player (does a Write  *)
(* return?) are the environment.                                           *)
(*                                                                         *)
(* Time is kept as ages that stop growing at MaxAge, so the clock never    *)
(* has to.                                                                 *)
(***************************************************************************)
EXTENDS Integers, Sequences, FiniteSets, FilePick

CONSTANTS
  Torrents,   \* file lists, sequences of FilePick's records
  Asks,       \* [want, ep, hint]: index, episode and titles of the request
  MaxSize,    \* bound of the model on a file's size, in chunks
  IdleLimits, \* values e.idleTimeout may be given
  Throttle,   \* the two seconds between two refreshes
  MaxAge      \* bound of the model on an age

ASSUME StreamAssumption ==
  /\ MaxSize \in Nat /\ Throttle \in Nat \ {0} /\ MaxAge \in Nat
  /\ IdleLimits \subseteq 1..MaxAge /\ \A l \in IdleLimits : Throttle < l

ASSUME RequestAssumption ==
  /\ \A files \in Torrents :
       /\ files \in Seq({files[i] : i \in DOMAIN files})
       /\ \A i \in DOMAIN files : files[i].size \in 0..MaxSize
  /\ \A a \in Asks : a.want \in Int /\ a.ep \in Int /\ IsFiniteSet(a.hint)

VARIABLES
  pc,        \* the handler: "choose", "sniff", "serve", "read", "write", "block", "end", "done"
  fs, ask, idx, size,
  kind,      \* the media type: "unknown", "video", "other"
  at,        \* [under, pos]: position of the torrent reader, and sizedReader.pos
  start, left, have, sent,  \* range start, bytes still to copy, in the buffer, written
  status,    \* what the answer was
  billed,    \* bytes added to the key
  idle,      \* e.idleTimeout
  seen,      \* age of lastActivity
  readSeen, writeSeen,      \* ages of the lastAccess of sizedReader and countingWriter
  deadline,  \* time left until the write deadline; MaxAge + 1 is none
  cancelled, \* cancelStream was called
  watch,     \* the watcher: "none", "wait", "expire", "cancel", "gone"
  client,    \* "reading", "paused", "gone"
  silent     \* history: age of the last byte read or written

fileVars == <<fs, ask, idx, size, kind>>
copyVars == <<at, start, left, have, sent>>
ageVars  == <<seen, readSeen, writeSeen, deadline, silent>>
vars == <<pc, fileVars, copyVars, status, billed, idle, ageVars, cancelled, watch, client>>

NoDeadline == MaxAge + 1
Serving == pc \in {"read", "write", "block"}

\* Mutant of CtxDone: the stream's context is not derived from the request's.
CtxDoneDetached == cancelled

\* streamCtx is over: cancelled, or the request's context is.
CtxDone == cancelled \/ client = "gone"
Aged(a) == IF a < MaxAge THEN a + 1 ELSE a
Least(a, b) == IF a < b THEN a ELSE b

----------------------------------------------------------------------------
(* The handler.                                                            *)

\* A request for titles asks by title only if it asks for no episode.
ByTitle(a) == a.hint # {} /\ a.ep = 0

Pick(files, a) ==
  IF ByTitle(a) THEN ChooseFileForTitle(files, 0, a.hint)
               ELSE ChooseFileForEpisode(files, a.want, a.ep)

\* The type by extension: a video's may be missing from the host's table.
KindsOf(f) == IF f.video THEN {"video", "unknown"} ELSE {"unknown", "other"}

Choose ==
  /\ pc = "choose"
  /\ \E files \in Torrents, a \in Asks :
       /\ fs' = files /\ ask' = a
       /\ idx' = Pick(files, a)
  /\ \/ /\ idx' = NoFile
        /\ pc' = "done" /\ status' = 404
        /\ UNCHANGED <<size, kind>>
     \/ /\ idx' # NoFile
        /\ size' = fs'[idx'].size
        /\ kind' \in KindsOf(fs'[idx'])
        /\ pc' = IF kind' = "unknown" THEN "sniff" ELSE "serve"
        /\ UNCHANGED status
  /\ UNCHANGED <<copyVars, billed, idle, ageVars, cancelled, watch, client>>

\* The header is read (if the swarm has it and the request lives) and the
\* torrent reader put back to the start.
Sniff ==
  /\ pc = "sniff"
  /\ \/ ~CtxDone /\ kind' \in {"video", "unknown"}
     \/ CtxDone /\ kind' = "unknown"
  /\ pc' = "serve"
  /\ at' = [at EXCEPT !.under = 0]
  /\ UNCHANGED <<fs, ask, idx, size, start, left, have, sent, status, billed, idle,
                 ageVars, cancelled, watch, client>>

Refuse ==
  /\ pc = "serve" /\ kind # "video"
  /\ pc' = "done" /\ status' = 415
  /\ fs' = <<>> /\ ask' = <<>> /\ idx' = NoFile
  /\ UNCHANGED <<size, kind, copyVars, billed, idle, ageVars, cancelled, watch, client>>

\* Mutant of SeekTo: the torrent reader is left where it is.
SeekToLocally(a, t) == [a EXCEPT !.pos = Least(t, size)]

\* sizedReader.Seek to an absolute target: clamped, and passed on when it moves.
SeekTo(a, t) ==
  LET to == Least(t, size) IN
  IF to # a.pos THEN [under |-> to, pos |-> to] ELSE a

\* ServeContent measures the file by seeking to its end and back, then goes to
\* the range it was asked for. The watcher runs from here on, and what was asked
\* is not looked at again.
Serve ==
  /\ pc = "serve" /\ kind = "video"
  /\ watch' = "wait"
  /\ seen' = 0
  /\ LET probed == SeekTo(SeekTo(at, size), 0) IN
     \E s \in 0..MaxSize :
       IF s >= size /\ s > 0
       THEN /\ status' = 416 /\ pc' = "end"
            /\ at' = probed
            /\ UNCHANGED <<start, left>>
       ELSE \E n \in 0..(size - s) :
            /\ n > 0 \/ size = 0
            /\ status' = 200 /\ pc' = "read"
            /\ at' = SeekTo(probed, s)
            /\ start' = s /\ left' = n
  /\ fs' = <<>> /\ ask' = <<>> /\ idx' = NoFile
  /\ UNCHANGED <<size, kind, have, sent, billed, idle, readSeen, writeSeen, deadline,
                 silent, cancelled, client>>

\* Mutant of Touched: the throttle's stamp moves with every byte.
TouchedAlways(age) == age' = 0 /\ seen' = IF age >= Throttle THEN 0 ELSE seen

\* Progress through a wrapper whose lastAccess has this age: touchStream at most
\* once per Throttle.
Touched(age) ==
  IF age >= Throttle THEN age' = 0 /\ seen' = 0 ELSE UNCHANGED <<age, seen>>

\* sizedReader.Read brings a part of what is left, or the copy is over.
Read ==
  /\ pc = "read" /\ left > 0 /\ at.pos < size /\ ~CtxDone
  /\ \E n \in 1..Least(left, size - at.pos) :
       /\ at' = [under |-> at.under + n, pos |-> at.pos + n]
       /\ have' = n
  /\ silent' = 0
  /\ Touched(readSeen)
  /\ pc' = "write"
  /\ UNCHANGED <<fileVars, start, left, sent, status, billed, idle, writeSeen, deadline,
                 cancelled, watch, client>>

ReadStops ==
  /\ pc = "read"
  /\ left = 0 \/ at.pos >= size \/ CtxDone
  /\ pc' = "end"
  /\ UNCHANGED <<fileVars, copyVars, status, billed, idle, ageVars, cancelled, watch, client>>

\* countingWriter.Write moves the deadline before it writes.
WriteBegin ==
  /\ pc = "write"
  /\ deadline' = idle
  /\ pc' = "block"
  /\ UNCHANGED <<fileVars, copyVars, status, billed, idle, seen, readSeen, writeSeen,
                 silent, cancelled, watch, client>>

\* Mutant of Write: what was left to write is counted, not what was written.
WriteCountsLeft ==
  /\ pc = "block" /\ client = "reading" /\ deadline > 0
  /\ sent' = sent + left /\ left' = left - have /\ have' = 0
  /\ silent' = 0
  /\ Touched(writeSeen)
  /\ pc' = "read"
  /\ UNCHANGED <<fileVars, at, start, status, billed, idle, readSeen, deadline,
                 cancelled, watch, client>>

Write ==
  /\ pc = "block" /\ client = "reading" /\ deadline > 0
  /\ sent' = sent + have /\ left' = left - have /\ have' = 0
  /\ silent' = 0
  /\ Touched(writeSeen)
  /\ pc' = "read"
  /\ UNCHANGED <<fileVars, at, start, status, billed, idle, readSeen, deadline,
                 cancelled, watch, client>>

WriteFails ==
  /\ pc = "block" /\ (deadline = 0 \/ client = "gone")
  /\ pc' = "end"
  /\ UNCHANGED <<fileVars, copyVars, status, billed, idle, ageVars, cancelled, watch, client>>

\* ServeContent has returned: the bytes are billed, watchDone is closed.
End ==
  /\ pc = "end"
  /\ pc' = "done"
  /\ billed' = billed + sent
  /\ UNCHANGED <<fileVars, copyVars, status, idle, ageVars, cancelled, watch, client>>

----------------------------------------------------------------------------
(* The watcher.                                                            *)

\* A tick finds the stream idle.
WatchFinds ==
  /\ watch = "wait" /\ seen >= idle
  /\ watch' = "expire"
  /\ UNCHANGED <<pc, fileVars, copyVars, status, billed, idle, ageVars, cancelled, client>>

WatchExpires ==
  /\ watch = "expire"
  /\ watch' = "cancel"
  /\ deadline' = 0
  /\ UNCHANGED <<pc, fileVars, copyVars, status, billed, idle, seen, readSeen, writeSeen,
                 silent, cancelled, client>>

\* Mutant of WatchCancels: only the deadline is moved, the read goes on waiting.
WatchCancelsNothing ==
  /\ watch = "cancel"
  /\ watch' = "gone"
  /\ UNCHANGED <<pc, fileVars, copyVars, status, billed, idle, ageVars, cancelled, client>>

WatchCancels ==
  /\ watch = "cancel"
  /\ watch' = "gone"
  /\ cancelled' = TRUE
  /\ UNCHANGED <<pc, fileVars, copyVars, status, billed, idle, ageVars, client>>

\* watchDone is closed, or the stream's context is over.
WatchDone ==
  /\ watch = "wait" /\ (pc = "done" \/ CtxDone)
  /\ watch' = "gone"
  /\ UNCHANGED <<pc, fileVars, copyVars, status, billed, idle, ageVars, cancelled, client>>

----------------------------------------------------------------------------
(* The environment.                                                        *)

Tick ==
  /\ seen' = Aged(seen) /\ readSeen' = Aged(readSeen) /\ writeSeen' = Aged(writeSeen)
  /\ silent' = Aged(silent)
  /\ deadline' = IF deadline \in 1..MaxAge THEN deadline - 1 ELSE deadline
  /\ UNCHANGED <<pc, fileVars, copyVars, status, billed, idle, cancelled, watch, client>>

\* The player pauses, resumes or goes away.
Player ==
  /\ client # "gone"
  /\ client' \in {"reading", "paused", "gone"} \ {client}
  /\ UNCHANGED <<pc, fileVars, copyVars, status, billed, idle, ageVars, cancelled, watch>>

\* The console changes the idle time.
SetIdle ==
  /\ idle' \in IdleLimits \ {idle}
  /\ UNCHANGED <<pc, fileVars, copyVars, status, billed, ageVars, cancelled, watch, client>>

Init ==
  /\ pc = "choose" /\ fs = <<>> /\ ask = <<>> /\ idx = NoFile /\ size = 0
  /\ kind = "unknown" /\ at = [under |-> 0, pos |-> 0]
  /\ start = 0 /\ left = 0 /\ have = 0 /\ sent = 0
  /\ status = 0 /\ billed = 0
  /\ idle \in IdleLimits
  /\ seen = 0 /\ readSeen = MaxAge /\ writeSeen = MaxAge /\ silent = 0
  /\ deadline = NoDeadline
  /\ cancelled = FALSE /\ watch = "none" /\ client = "reading"

Handler == Choose \/ Sniff \/ Refuse \/ Serve \/ Read \/ ReadStops \/ WriteBegin
             \/ Write \/ WriteFails \/ End
Watcher == WatchFinds \/ WatchExpires \/ WatchCancels \/ WatchDone

Next == Handler \/ Watcher \/ Tick \/ Player \/ SetIdle

Spec == Init /\ [][Next]_vars

\* Time passes, the goroutines run, and a call that can only fail does; neither
\* the swarm nor the player ever has to do anything.
FairSpec ==
  /\ Spec /\ WF_vars(Tick) /\ WF_vars(Watcher)
  /\ WF_vars(Refuse \/ Serve \/ ReadStops \/ WriteBegin \/ WriteFails \/ End)
  /\ WF_vars(Sniff /\ CtxDone)

----------------------------------------------------------------------------
(* Properties.                                                             *)

\* What is served is a video that answers the request. Unless its index was
\* given: for an episode, a file that states it when a video does, and never one
\* that states another; for a title, no video has more of the words that tell
\* them apart.
ServedFits ==
  pc = "serve" /\ kind = "video" /\ (ByTitle(ask) \/ ask.want \notin DOMAIN fs) =>
    /\ ask.ep > 0 =>
         /\ fs[idx].video => FileSignal(fs[idx], ask.ep) >= 0
         /\ (\E i \in Videos(fs) : FileSignal(fs[i], ask.ep) > 0)
              => FileSignal(fs[idx], ask.ep) > 0
    /\ ask.ep = 0 =>
         \A i \in Videos(fs) : Hits(fs, i, ask.hint) <= Hits(fs, idx, ask.hint)

\* The bytes written are the range asked for, from its start and in order, at
\* whatever point the copy was cut; through the size probe and every seek the
\* torrent reader stands where sizedReader says. The key is billed what was sent.
ServedIsRange ==
  /\ Serving => at.under = at.pos /\ at.pos = start + sent + have
  /\ pc = "done" => billed = sent /\ start + sent <= size

\* The watcher finds a stream idle only if it has been silent for the limit less
\* the refresh interval, however reads and writes share the refreshes.
ExpiryNeedsSilence ==
  [][watch = "wait" /\ watch' = "expire" => silent > idle - Throttle]_vars

\* A stream that makes no progress is ended by the watcher, whether the swarm or
\* the player is what stalls it, and although Write keeps moving the deadline.
StalledEnds == Serving /\ silent = MaxAge ~> ~Serving \/ silent = 0

\* When the player is gone the handler returns and takes its watcher with it,
\* also from the sniff, which no watcher watches.
GoneEnds == client = "gone" /\ pc # "choose" ~> pc = "done" /\ watch \in {"none", "gone"}
=============================================================================
