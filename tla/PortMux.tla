------------------------------ MODULE PortMux -------------------------------
(***************************************************************************)
(* The shared port (portmux.go): Serve accepts, one goroutine per          *)
(* connection sniffs the opening bytes and sends the connection to the     *)
(* bounded channel of the web side or of the torrent side, and closing     *)
(* either side unwinds the other.  What a client will ever send is chosen  *)
(* when it is accepted; that it is slow, or stops, is the sniff timeout.   *)
(***************************************************************************)
EXTENDS Naturals, Sequences, SequencesExt

CONSTANTS
  Conn,
  Byte,        \* what connections carry
  Methods,     \* httpMethods, each a sequence of bytes ending in a space
  Handshake,   \* 0x13 and the protocol string
  SniffLimit,  \* the 8 bytes of the longest method
  QueueCap,    \* 64, the capacity of chanListener.ch
  Streams      \* what a client may send before it waits or closes

Side == {"http", "torrent"}

ASSUME PortMuxAssumption ==
  /\ QueueCap \in Nat \ {0}
  /\ SniffLimit \in Nat
  /\ Methods \subseteq Seq(Byte) /\ Handshake \in Seq(Byte) /\ Streams \subseteq Seq(Byte)
  /\ \A m \in Methods : Len(m) <= SniffLimit /\ m # <<>>
  /\ Handshake # <<>>
  /\ \A m \in Methods : m[1] # Handshake[1]

VARIABLES
  st,      \* the stage of each connection
  bytes,   \* what its client sends
  nread,   \* how many bytes sniff has read of it
  target,  \* the side sniff has chosen
  queue,   \* the channels
  done,    \* the done channels are closed
  root,    \* the shared listener is open
  serve,   \* where Serve stands
  loop     \* the accept loops of the two sides

vars == <<st, bytes, nread, target, queue, done, root, serve, loop>>

----------------------------------------------------------------------------
(* sniff, on the bytes read so far.                                        *)

Buf(c) == SubSeq(bytes[c], 1, nread[c])

\* Mutant of Verdict: the match forgets the space that ends the token.
VerdictOnToken(buf) ==
  CASE buf = <<>> -> "more"
    [] buf # <<>> /\ buf[1] = Handshake[1] ->
         IF Len(buf) < Len(Handshake) THEN "more" ELSE "torrent"
    [] OTHER ->
         IF \E m \in Methods : buf = Front(m) THEN "http"
         ELSE IF Len(buf) >= SniffLimit \/ ~\E m \in Methods : IsPrefix(buf, m)
                THEN "torrent" ELSE "more"

\* Mutant of Verdict: one byte more than the decision needs is read.
VerdictLate(buf) ==
  CASE buf = <<>> -> "more"
    [] buf # <<>> /\ buf[1] = Handshake[1] ->
         IF Len(buf) < Len(Handshake) THEN "more" ELSE "torrent"
    [] OTHER ->
         IF \E m \in Methods : IsStrictPrefix(m, buf) THEN "http"
         ELSE IF Len(buf) >= SniffLimit \/ ~\E m \in Methods : IsPrefix(buf, m)
                THEN "torrent" ELSE "more"

Verdict(buf) ==
  CASE buf = <<>> -> "more"
    [] buf # <<>> /\ buf[1] = Handshake[1] ->
         IF Len(buf) < Len(Handshake) THEN "more" ELSE "torrent"
    [] OTHER ->
         IF buf \in Methods THEN "http"
         ELSE IF Len(buf) >= SniffLimit \/ ~\E m \in Methods : IsPrefix(buf, m)
                THEN "torrent" ELSE "more"

----------------------------------------------------------------------------
Goto(c, s) == st' = [st EXCEPT ![c] = s]

\* chanListener.Close: done once, and the shared socket with it.
CloseSide(s) == /\ done' = [done EXCEPT ![s] = TRUE]
                /\ root' = FALSE

\* ln.Accept hands Serve a connection, which gets a goroutine.
ServeAccept(c) ==
  /\ serve = "accept" /\ root
  /\ st[c] = "client"
  /\ \E b \in Streams : bytes' = [bytes EXCEPT ![c] = b]
  /\ Goto(c, "sniff")
  /\ UNCHANGED <<nread, target, queue, done, root, serve, loop>>

\* A transient failure of Accept: Serve sleeps the backoff, then goes on.
ServeError ==
  /\ serve = "accept" /\ root
  /\ serve' = "backoff"
  /\ UNCHANGED <<st, bytes, nread, target, queue, done, root, loop>>

ServeRetry ==
  /\ serve = "backoff"
  /\ serve' = "accept"
  /\ UNCHANGED <<st, bytes, nread, target, queue, done, root, loop>>

\* Mutant of ServeClosed: only the web side is told.
ServeClosedHalf ==
  /\ serve = "accept" /\ ~root
  /\ CloseSide("http")
  /\ serve' = "ended"
  /\ UNCHANGED <<st, bytes, nread, target, queue, loop>>

\* net.ErrClosed: m.http.Close(), then m.torrent.Close(), and Serve returns.
ServeClosed ==
  /\ serve = "accept" /\ ~root
  /\ CloseSide("http")
  /\ serve' = "closing"
  /\ UNCHANGED <<st, bytes, nread, target, queue, loop>>

ServeReturn ==
  /\ serve = "closing"
  /\ CloseSide("torrent")
  /\ serve' = "ended"
  /\ UNCHANGED <<st, bytes, nread, target, queue, loop>>

\* One byte arrives in time.
SniffByte(c) ==
  /\ st[c] = "sniff"
  /\ Verdict(Buf(c)) = "more"
  /\ nread[c] < Len(bytes[c])
  /\ nread' = [nread EXCEPT ![c] = @ + 1]
  /\ UNCHANGED <<st, bytes, target, queue, done, root, serve, loop>>

\* Mutant of SniffTimeout: the deadline is not set.
SniffNoTimeout(c) == FALSE /\ UNCHANGED vars

\* The read deadline, or the client closing: the connection is closed.
SniffTimeout(c) ==
  /\ st[c] = "sniff"
  /\ Verdict(Buf(c)) = "more"
  /\ Goto(c, "closed")
  /\ UNCHANGED <<bytes, nread, target, queue, done, root, serve, loop>>

\* Mutant of SniffDecides: the answer is used before it is one.
SniffDecidesEarly(c) ==
  /\ st[c] = "sniff"
  /\ nread[c] > 0
  /\ target' = [target EXCEPT ![c] = Verdict(Buf(c))]
  /\ Goto(c, "send")
  /\ UNCHANGED <<bytes, nread, queue, done, root, serve, loop>>

SniffDecides(c) ==
  /\ st[c] = "sniff"
  /\ Verdict(Buf(c)) # "more"
  /\ target' = [target EXCEPT ![c] = Verdict(Buf(c))]
  /\ Goto(c, "send")
  /\ UNCHANGED <<bytes, nread, queue, done, root, serve, loop>>

\* Mutant of DispatchSend: a full channel of one side holds up both.
DispatchSendShared(c) ==
  /\ st[c] = "send"
  /\ \A s \in Side : Len(queue[s]) < QueueCap
  /\ queue' = [queue EXCEPT ![target[c]] = Append(@, c)]
  /\ Goto(c, "queued")
  /\ UNCHANGED <<bytes, nread, target, done, root, serve, loop>>

\* dispatch's select: room in the channel ...
DispatchSend(c) ==
  /\ st[c] = "send"
  /\ Len(queue[target[c]]) < QueueCap
  /\ queue' = [queue EXCEPT ![target[c]] = Append(@, c)]
  /\ Goto(c, "queued")
  /\ UNCHANGED <<bytes, nread, target, done, root, serve, loop>>

\* ... or a side that is gone.  Both may be ready, and either is taken.
DispatchDone(c) ==
  /\ st[c] = "send"
  /\ done[target[c]]
  /\ Goto(c, "closed")
  /\ UNCHANGED <<bytes, nread, target, queue, done, root, serve, loop>>

\* Mutant of SideAccept: the connection accepted stays in the channel.
SideAcceptPeeks(s) ==
  /\ loop[s] = "serving"
  /\ queue[s] # <<>>
  /\ Goto(Head(queue[s]), "accepted")
  /\ UNCHANGED <<bytes, nread, target, queue, done, root, serve, loop>>

\* chanListener.Accept in the side's accept loop: a queued connection ...
SideAccept(s) ==
  /\ loop[s] = "serving"
  /\ queue[s] # <<>>
  /\ Goto(Head(queue[s]), "accepted")
  /\ queue' = [queue EXCEPT ![s] = Tail(@)]
  /\ UNCHANGED <<bytes, nread, target, done, root, serve, loop>>

\* ... or ErrClosed, even while connections are still queued.
SideStops(s) ==
  /\ loop[s] = "serving"
  /\ done[s]
  /\ loop' = [loop EXCEPT ![s] = "stopped"]
  /\ UNCHANGED <<st, bytes, nread, target, queue, done, root, serve>>

\* A side is shut down by its owner (http.Server, the torrent client).
SideCloses(s) ==
  /\ ~done[s]
  /\ CloseSide(s)
  /\ UNCHANGED <<st, bytes, nread, target, queue, serve, loop>>

\* portMux.Close
MuxClose ==
  /\ root
  /\ root' = FALSE
  /\ UNCHANGED <<st, bytes, nread, target, queue, done, serve, loop>>

----------------------------------------------------------------------------
Init ==
  /\ st = [c \in Conn |-> "client"]
  /\ bytes = [c \in Conn |-> <<>>]
  /\ nread = [c \in Conn |-> 0]
  /\ target = [c \in Conn |-> "none"]
  /\ queue = [s \in Side |-> <<>>]
  /\ done = [s \in Side |-> FALSE]
  /\ root = TRUE
  /\ serve = "accept"
  /\ loop = [s \in Side |-> "serving"]

Dispatch(c) == \/ SniffByte(c) \/ SniffTimeout(c) \/ SniffDecides(c)
               \/ DispatchSend(c) \/ DispatchDone(c)

ServeUnwinds == ServeRetry \/ ServeClosed \/ ServeReturn

Next ==
  \/ \E c \in Conn : ServeAccept(c) \/ Dispatch(c)
  \/ ServeError \/ ServeUnwinds
  \/ \E s \in Side : SideAccept(s) \/ SideStops(s) \/ SideCloses(s)
  \/ MuxClose

Spec == Init /\ [][Next]_vars

(* Goroutines are scheduled and deadlines expire.  The web side keeps      *)
(* accepting; the torrent client is not assumed to.  Both leave their      *)
(* accept loop once their listener is closed: the select of Accept         *)
(* chooses among ready cases at random, so done is taken in the end.       *)
Fairness ==
  /\ \A c \in Conn : WF_vars(Dispatch(c))
  /\ WF_vars(ServeUnwinds)
  /\ WF_vars(SideAccept("http"))
  /\ \A s \in Side : WF_vars(SideStops(s))

FairSpec == Spec /\ Fairness

----------------------------------------------------------------------------
(* Properties.                                                             *)

(* Every variable stays in its set; in particular sniff hands a connection *)
(* over only with an answer.                                               *)
TypeOK ==
  /\ st \in [Conn -> {"client", "sniff", "send", "queued", "accepted", "closed"}]
  /\ bytes \in [Conn -> Streams \cup {<<>>}]
  /\ nread \in [Conn -> Nat]
  /\ target \in [Conn -> Side \cup {"none"}]
  /\ queue \in [Side -> Seq(Conn)]
  /\ done \in [Side -> BOOLEAN] /\ root \in BOOLEAN
  /\ serve \in {"accept", "backoff", "closing", "ended"}
  /\ loop \in [Side -> {"serving", "stopped"}]

(* The channels hold exactly the connections waiting for that side, each   *)
(* once, and never more than their capacity.                               *)
QueuesExact ==
  \A s \in Side :
    /\ Len(queue[s]) <= QueueCap
    /\ IsInjective(queue[s])
    /\ ToSet(queue[s]) = {c \in Conn : st[c] = "queued" /\ target[c] = s}

(* The side a whole byte stream belongs to, said without reading it byte   *)
(* by byte: the torrent side has the handshakes and whatever is no method. *)
Belongs(b) ==
  IF \E m \in Methods : IsPrefix(m, b) THEN "http"
  ELSE IF \/ IsPrefix(<<Handshake[1]>>, b) /\ Len(b) >= Len(Handshake)
          \/ /\ b # <<>> /\ b[1] # Handshake[1]
             /\ ~\E m \in Methods : IsPrefix(b, m)
         THEN "torrent" ELSE "nowhere"

(* sniff reads no byte beyond the one that decides: a client that waits    *)
(* for an answer after its request line is not made to wait for the mux.   *)
NoOverread ==
  \A c \in Conn :
    target[c] # "none" =>
      \A k \in 0..nread[c] - 1 : Belongs(SubSeq(bytes[c], 1, k)) = "nowhere"

(* The mux delivers every connection to the side its bytes belong to, at   *)
(* most once: it implements Handover.                                      *)
Delivered ==
  INSTANCE Handover WITH
    goes <- [c \in Conn |-> Belongs(bytes[c])],
    place <- [c \in Conn |->
                CASE st[c] = "accepted" -> target[c]
                  [] st[c] \in {"client", "closed"} -> st[c]
                  [] OTHER -> "mux"]
ImplementsHandover == Delivered!Spec

(* Closing the socket or either side ends Serve and both accept loops.     *)
ShutdownUnwinds ==
  ~root ~> serve = "ended" /\ \A s \in Side : loop[s] = "stopped"

(* No connection sits in sniff for ever, however silent its client.        *)
SniffEnds == \A c \in Conn : st[c] = "sniff" ~> st[c] # "sniff"

(* A web request is served although the torrent side accepts nothing and   *)
(* its channel is full; only a sniff timeout or a shutdown loses it.       *)
WebNotBlocked ==
  \A c \in Conn :
    st[c] = "sniff" /\ Belongs(bytes[c]) = "http"
      ~> st[c] \in {"accepted", "closed"} \/ ~root
=============================================================================
