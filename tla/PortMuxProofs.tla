--------------------------- MODULE PortMuxProofs ----------------------------
(***************************************************************************)
(* Proofs about PortMux for any connections, methods, handshake, streams   *)
(* and channel capacity: the channels are exact, sniff reads no byte too   *)
(* many, and the mux implements Handover.                                  *)
(***************************************************************************)
EXTENDS PortMux, SequenceTheorems, TLAPS

Opening(c, k) == SubSeq(bytes[c], 1, k)

\* Every byte read before the last one left sniff asking for more.
SniffMore ==
  \A c \in Conn : \A k \in 0..nread[c] - 1 : Verdict(Opening(c, k)) = "more"

\* What the stage of a connection says of its bytes and of its side.
Stages ==
  \A c \in Conn :
    /\ nread[c] <= Len(bytes[c])
    /\ st[c] = "client" => bytes[c] = <<>>
    /\ st[c] \in {"client", "sniff"} => target[c] = "none"
    /\ st[c] \in {"send", "queued", "accepted"} => target[c] # "none"
    /\ target[c] # "none" => Belongs(bytes[c]) = target[c]

IInv == TypeOK /\ QueuesExact /\ SniffMore /\ Stages
----------------------------------------------------------------------------
(* Prefixes of sequences of bytes, element by element.                     *)

LEMMA OpeningOf ==
  ASSUME NEW b \in Seq(Byte), NEW k \in 0..Len(b)
  PROVE  /\ SubSeq(b, 1, k) \in Seq(Byte) /\ Len(SubSeq(b, 1, k)) = k
         /\ \A i \in 1..k : SubSeq(b, 1, k)[i] = b[i]
<1>1. \A i \in 1..k : b[i] \in Byte
  BY ElementOfSeq
<1> QED
  BY <1>1, SubSeqProperties

LEMMA PrefixIs ==
  ASSUME NEW s \in Seq(Byte), NEW t \in Seq(Byte)
  PROVE  IsPrefix(s, t) <=> Len(s) <= Len(t) /\ \A i \in 1..Len(s) : s[i] = t[i]
<1>1. Len(s) \in Nat /\ Len(t) \in Nat
  BY LenProperties
<1>2. ASSUME Len(s) <= Len(t)
      PROVE  SubSeq(s, 1, Len(s)) = SubSeq(t, 1, Len(s))
               <=> \A i \in 1..Len(s) : s[i] = t[i]
  <2>1. Len(s) \in 0..Len(s) /\ Len(s) \in 0..Len(t)
    BY <1>1, <1>2
  <2>2. /\ SubSeq(s, 1, Len(s)) \in Seq(Byte) /\ Len(SubSeq(s, 1, Len(s))) = Len(s)
        /\ \A i \in 1..Len(s) : SubSeq(s, 1, Len(s))[i] = s[i]
    BY <2>1, OpeningOf
  <2>3. /\ SubSeq(t, 1, Len(s)) \in Seq(Byte) /\ Len(SubSeq(t, 1, Len(s))) = Len(s)
        /\ \A i \in 1..Len(s) : SubSeq(t, 1, Len(s))[i] = t[i]
    BY <2>1, OpeningOf
  <2>4. ASSUME \A i \in 1..Len(s) : s[i] = t[i]
        PROVE  SubSeq(s, 1, Len(s)) = SubSeq(t, 1, Len(s))
    BY <2>2, <2>3, <2>4, SeqEqual
  <2> QED
    BY <2>2, <2>3, <2>4
<1> QED
  BY <1>2 DEF IsPrefix

(* A prefix, taken out of a longer sequence, is itself.                    *)
LEMMA PrefixIsOpening ==
  ASSUME NEW m \in Seq(Byte), NEW b \in Seq(Byte), IsPrefix(m, b)
  PROVE  SubSeq(b, 1, Len(m)) = m
<1>1. Len(m) \in 0..Len(b)
  BY PrefixIs, LenProperties
<1>2. \A i \in 1..Len(m) : m[i] = b[i]
  BY PrefixIs
<1> QED
  BY <1>1, <1>2, OpeningOf, SeqEqual
LEMMA OpeningIsPrefix ==
  ASSUME NEW b \in Seq(Byte), NEW k \in 0..Len(b)
  PROVE  IsPrefix(SubSeq(b, 1, k), b)
<1>1. PICK s : s = SubSeq(b, 1, k)
  OBVIOUS
<1>2. s \in Seq(Byte) /\ Len(s) = k /\ \A i \in 1..k : s[i] = b[i]
  BY <1>1, OpeningOf
<1>3. Len(s) <= Len(b)
  BY <1>2, LenProperties
<1>4. IsPrefix(s, b)
  BY ONLY <1>2, <1>3, PrefixIs, b \in Seq(Byte)
<1> QED
  BY <1>1, <1>4

LEMMA PrefixTransitive ==
  ASSUME NEW s \in Seq(Byte), NEW t \in Seq(Byte), NEW u \in Seq(Byte),
         IsPrefix(s, t), IsPrefix(t, u)
  PROVE  IsPrefix(s, u)
BY PrefixIs, LenProperties

LEMMA ShorterPrefix ==
  ASSUME NEW s \in Seq(Byte), NEW t \in Seq(Byte), NEW u \in Seq(Byte),
         IsPrefix(s, u), IsPrefix(t, u), Len(s) <= Len(t)
  PROVE  IsPrefix(s, t)
BY PrefixIs, LenProperties
----------------------------------------------------------------------------
(* sniff's answer and the side a stream belongs to.                        *)

Undecided(b, k) == \A j \in 0..k - 1 : Verdict(SubSeq(b, 1, j)) = "more"

LEMMA MethodDecides ==
  ASSUME NEW m \in Methods
  PROVE  m \in Seq(Byte) /\ m # <<>> /\ Len(m) \in Nat \ {0} /\ m[1] # Handshake[1]
         /\ Verdict(m) = "http"
<1>1. m \in Seq(Byte) /\ m # <<>> /\ m[1] # Handshake[1]
  BY PortMuxAssumption
<1>2. Len(m) \in Nat \ {0}
  BY <1>1, EmptySeq
<1> QED
  BY <1>1, <1>2 DEF Verdict

LEMMA HandshakeLen == Len(Handshake) \in Nat \ {0}
BY PortMuxAssumption, EmptySeq

LEMMA FirstByte ==
  ASSUME NEW b \in Seq(Byte)
  PROVE  IsPrefix(<<Handshake[1]>>, b) <=> b # <<>> /\ b[1] = Handshake[1]
<1>1. Handshake[1] \in Byte
  BY HandshakeLen, PortMuxAssumption, ElementOfSeq
<1>2. PICK h : h = <<Handshake[1]>>
  OBVIOUS
<1>4. h \in Seq(Byte) /\ Len(h) = 1 /\ h[1] = Handshake[1]
  BY <1>1, <1>2
<1>3. Len(b) \in Nat /\ (b # <<>> <=> Len(b) >= 1)
  BY LenProperties, EmptySeq
<1>5. IsPrefix(h, b) <=> 1 <= Len(b) /\ \A i \in 1..1 : h[i] = b[i]
  BY <1>4, PrefixIs
<1> QED
  BY <1>2, <1>3, <1>4, <1>5

(* As long as sniff asks for more, what it has read belongs nowhere.       *)
LEMMA MoreIsNowhere ==
  ASSUME NEW b \in Seq(Byte), NEW k \in 0..Len(b), Undecided(b, k + 1),
         NEW buf, buf = SubSeq(b, 1, k)
  PROVE  Belongs(buf) = "nowhere"
<1>1. buf \in Seq(Byte) /\ Len(buf) = k /\ \A i \in 1..k : buf[i] = b[i]
  BY OpeningOf
<1>2. Verdict(buf) = "more"
  BY LenProperties DEF Undecided
<1>3. ASSUME NEW m \in Methods, IsPrefix(m, buf) PROVE FALSE
  <2>1. m \in Seq(Byte) /\ Len(m) \in Nat /\ Verdict(m) = "http"
    BY MethodDecides
  <2>2. Len(m) \in 0..k
    BY ONLY <1>1, <1>3, <2>1, k \in 0..Len(b) DEF IsPrefix
  <2>3. IsPrefix(m, b)
    <3>1. IsPrefix(buf, b)
      BY OpeningIsPrefix
    <3> QED
      BY ONLY <1>1, <1>3, <2>1, <3>1, b \in Seq(Byte), PrefixTransitive
  <2>4. SubSeq(b, 1, Len(m)) = m
    BY <2>1, <2>3, PrefixIsOpening
  <2>5. \A j \in 0..k : Verdict(SubSeq(b, 1, j)) = "more"
    BY LenProperties DEF Undecided
  <2> QED
    BY ONLY <2>1, <2>2, <2>4, <2>5
<1>4. CASE buf = <<>>
  BY <1>1, <1>3, <1>4, FirstByte DEF Belongs
<1>5. CASE buf # <<>> /\ buf[1] = Handshake[1]
  <2>1. Len(buf) < Len(Handshake)
    BY <1>1, <1>2, <1>5, HandshakeLen DEF Verdict
  <2> QED
    BY <1>1, <1>3, <1>5, <2>1, HandshakeLen DEF Belongs
<1>6. CASE buf # <<>> /\ buf[1] # Handshake[1]
  <2>1. \E m \in Methods : IsPrefix(buf, m)
    BY <1>1, <1>2, <1>6 DEF Verdict
  <2> QED
    BY <1>1, <1>3, <1>6, <2>1, FirstByte DEF Belongs
<1> QED
  BY <1>4, <1>5, <1>6

(* The first answer sniff gives is the side of the whole stream.           *)
LEMMA AnswerBelongs ==
  ASSUME NEW b \in Seq(Byte), NEW k \in 0..Len(b), Undecided(b, k),
         NEW buf, buf = SubSeq(b, 1, k), Verdict(buf) # "more"
  PROVE  Belongs(b) = Verdict(buf)
<1>1. buf \in Seq(Byte) /\ Len(buf) = k /\ \A i \in 1..k : buf[i] = b[i]
  BY OpeningOf
<1>2. Len(b) \in Nat /\ buf # <<>> /\ k >= 1 /\ b # <<>> /\ buf[1] = b[1]
  <2>1. buf # <<>> /\ Len(b) \in Nat
    BY LenProperties DEF Verdict
  <2>2. Len(buf) \in Nat \ {0}
    BY <1>1, <2>1, EmptySeq
  <2> QED
    BY <1>1, <2>1, <2>2, EmptySeq
<1>3. CASE buf[1] = Handshake[1]
  <2>1. Verdict(buf) = "torrent" /\ Len(buf) >= Len(Handshake)
    BY <1>1, <1>2, <1>3, HandshakeLen DEF Verdict
  <2>2. ~\E m \in Methods : IsPrefix(m, b)
    BY <1>2, <1>3, MethodDecides, PrefixIs
  <2>3. Len(b) >= Len(Handshake)
    BY <1>1, <1>2, <2>1, HandshakeLen
  <2> QED
    BY <1>2, <1>3, <2>1, <2>2, <2>3, FirstByte DEF Belongs
<1>4. CASE buf \in Methods
  <2>1. IsPrefix(buf, b)
    BY OpeningIsPrefix
  <2> QED
    BY <1>4, <2>1, MethodDecides DEF Belongs
<1>5. CASE buf[1] # Handshake[1] /\ buf \notin Methods
  <2>1. /\ Verdict(buf) = "torrent"
        /\ Len(buf) >= SniffLimit \/ ~\E m \in Methods : IsPrefix(buf, m)
    BY <1>2, <1>5 DEF Verdict
  <2>2. ASSUME NEW m \in Methods, IsPrefix(m, b) PROVE FALSE
    <3>1. /\ m \in Seq(Byte) /\ Len(m) \in Nat /\ Verdict(m) = "http"
          /\ Len(m) <= SniffLimit
      BY MethodDecides, PortMuxAssumption
    <3>2. Len(m) <= Len(b) /\ SubSeq(b, 1, Len(m)) = m /\ \A i \in 1..Len(m) : m[i] = b[i]
      BY <2>2, <3>1, PrefixIs, PrefixIsOpening
    <3>3. Len(m) > k
      <4>1. Len(m) # k
        BY <1>5, <3>2
      <4>2. ~(Len(m) \in 0..k - 1)
        BY <3>1, <3>2 DEF Undecided
      <4> QED
        BY <3>1, <4>1, <4>2
    <3>4. IsPrefix(buf, m)
      <4>1. IsPrefix(buf, b)
        BY OpeningIsPrefix
      <4>2. Len(buf) <= Len(m)
        BY <1>1, <3>1, <3>3
      <4> QED
        BY ONLY <1>1, <2>2, <3>1, <4>1, <4>2, b \in Seq(Byte), ShorterPrefix
    <3> QED
      BY <1>1, <2>1, <3>1, <3>3, <3>4, PortMuxAssumption
  <2>3. ASSUME NEW m \in Methods, IsPrefix(b, m) PROVE FALSE
    <3>1. m \in Seq(Byte) /\ Len(m) \in Nat /\ Len(m) <= SniffLimit
      BY MethodDecides, PortMuxAssumption
    <3>2. Len(b) <= Len(m) /\ \A i \in 1..Len(b) : b[i] = m[i]
      BY <2>3, <3>1, PrefixIs
    <3>3. IsPrefix(buf, m)
      BY <1>1, <2>3, <3>1, OpeningIsPrefix, PrefixTransitive
    <3>4. Len(m) = k
      <4>1. Len(buf) >= SniffLimit /\ Len(buf) <= Len(b)
        BY <1>1, <1>2, <2>1, <3>3
      <4> QED
        BY ONLY <1>1, <1>2, <3>1, <3>2, <4>1, k \in 0..Len(b), PortMuxAssumption
    <3>5. buf = m
      BY <1>1, <1>2, <3>1, <3>2, <3>4, SeqEqual
    <3> QED
      BY <1>5, <3>5
  <2> QED
    BY <1>2, <1>5, <2>1, <2>2, <2>3, FirstByte DEF Belongs
<1> QED
  BY <1>3, <1>4, <1>5
----------------------------------------------------------------------------
(* The channels.                                                           *)

LEMMA ToSetIs ==
  ASSUME NEW S, NEW q \in Seq(S)
  PROVE  ToSet(q) = {q[i] : i \in 1..Len(q)} /\ ToSet(q) \subseteq S
BY LenProperties, ElementOfSeq DEF ToSet

LEMMA AppendToQueue ==
  ASSUME NEW S, NEW q \in Seq(S), NEW e \in S
  PROVE  /\ Append(q, e) \in Seq(S) /\ Len(Append(q, e)) = Len(q) + 1
         /\ ToSet(Append(q, e)) = ToSet(q) \cup {e}
         /\ IsInjective(q) /\ e \notin ToSet(q) => IsInjective(Append(q, e))
<1>1. Len(q) \in Nat
  BY LenProperties
<1>2. PICK t : t = Append(q, e)
  OBVIOUS
<1>3. /\ t \in Seq(S) /\ Len(t) = Len(q) + 1
      /\ \A i \in 1..Len(q) : t[i] = q[i]
      /\ t[Len(q) + 1] = e
  BY <1>2, AppendProperties
<1>4. ToSet(t) = ToSet(q) \cup {e}
  BY ONLY <1>1, <1>3, ToSetIs, q \in Seq(S)
<1>5. IsInjective(q) /\ e \notin ToSet(q) => IsInjective(t)
  BY ONLY <1>1, <1>3, ToSetIs, LenProperties, q \in Seq(S) DEF IsInjective
<1> QED
  BY <1>2, <1>3, <1>4, <1>5

LEMMA TakeFromQueue ==
  ASSUME NEW S, NEW q \in Seq(S), q # <<>>
  PROVE  /\ Tail(q) \in Seq(S) /\ Len(Tail(q)) <= Len(q)
         /\ Head(q) \in S /\ Head(q) \in ToSet(q)
         /\ IsInjective(q) => /\ IsInjective(Tail(q))
                             /\ ToSet(Tail(q)) = ToSet(q) \ {Head(q)}
<1>1. Len(q) \in Nat \ {0} /\ DOMAIN q = 1..Len(q)
  BY LenProperties, EmptySeq
<1>2. PICK t : t = Tail(q)
  OBVIOUS
<1>3. /\ t \in Seq(S) /\ Len(t) = Len(q) - 1
      /\ \A i \in 1..Len(t) : t[i] = q[i + 1]
  BY <1>2, HeadTailProperties
<1>4. Head(q) = q[1] /\ q[1] \in S
  BY <1>1, ElementOfSeq
<1>5. q[1] \in ToSet(q)
  BY <1>1, ToSetIs
<1>6. ASSUME IsInjective(q)
      PROVE  IsInjective(t) /\ ToSet(t) = ToSet(q) \ {q[1]}
  <2>1. \A i, j \in 1..Len(q) : q[i] = q[j] => i = j
    BY <1>1, <1>6 DEF IsInjective
  <2>2. DOMAIN t = 1..Len(t)
    BY <1>3, LenProperties
  <2>3. IsInjective(t)
    BY ONLY <1>1, <1>3, <2>1, <2>2 DEF IsInjective
  <2>4. ASSUME NEW i \in 1..Len(t) PROVE t[i] \in ToSet(q) \ {q[1]}
    BY <1>1, <1>3, <2>1, ToSetIs
  <2>5. ASSUME NEW i \in 1..Len(q), i # 1 PROVE q[i] \in ToSet(t)
    <3>1. i - 1 \in 1..Len(t) /\ t[i - 1] = q[i]
      BY <1>1, <1>3, <2>5
    <3> QED
      BY <1>3, <3>1, ToSetIs
  <2>6. ToSet(t) = {t[i] : i \in 1..Len(t)} /\ ToSet(q) = {q[i] : i \in 1..Len(q)}
    BY <1>3, ToSetIs
  <2>7. ToSet(t) = ToSet(q) \ {q[1]}
    BY ONLY <2>4, <2>5, <2>6
  <2> QED
    BY <2>3, <2>7
<1> QED
  BY <1>1, <1>2, <1>3, <1>4, <1>5, <1>6
----------------------------------------------------------------------------
(* The initial states and the invariants.                                  *)

LEMMA NothingBelongs == Belongs(<<>>) = "nowhere" /\ Verdict(<<>>) = "more"
<1>1. Verdict(<<>>) = "more"
  BY DEF Verdict
<1>2. PICK e : e = <<>>
  OBVIOUS
<1>3. e \in Seq(Byte) /\ Len(e) = 0
  BY <1>2
<1>4. ~\E m \in Methods : IsPrefix(m, e)
  BY <1>3, MethodDecides DEF IsPrefix
<1>5. Belongs(e) = "nowhere"
  BY <1>2, <1>3, <1>4, HandshakeLen DEF Belongs
<1> QED
  BY <1>1, <1>2, <1>5

LEMMA StreamIsBytes ==
  ASSUME TypeOK, NEW c \in Conn
  PROVE  bytes[c] \in Seq(Byte) /\ Len(bytes[c]) \in Nat /\ nread[c] \in Nat
<1>1. bytes[c] \in Streams \cup {<<>>} /\ <<>> \in Seq(Byte)
  BY EmptySeq DEF TypeOK
<1>2. bytes[c] \in Seq(Byte)
  BY <1>1, PortMuxAssumption
<1> QED
  BY <1>2, LenProperties DEF TypeOK

LEMMA VerdictIs == \A buf : Verdict(buf) \in {"more", "http", "torrent"}
BY DEF Verdict

LEMMA InitInv == Init => IInv
<1> SUFFICES ASSUME Init PROVE IInv
  OBVIOUS
<1>1. TypeOK
  BY PortMuxAssumption DEF Init, TypeOK, Side
<1>2. QueuesExact
  <2> SUFFICES ASSUME NEW s \in Side
               PROVE  /\ Len(queue[s]) <= QueueCap /\ IsInjective(queue[s])
                      /\ ToSet(queue[s]) = {c \in Conn : st[c] = "queued" /\ target[c] = s}
    BY DEF QueuesExact
  <2>1. queue[s] = <<>> /\ {c \in Conn : st[c] = "queued" /\ target[c] = s} = {}
    BY DEF Init
  <2> QED
    BY <2>1, PortMuxAssumption DEF IsInjective, ToSet
<1>3. SniffMore
  BY DEF Init, SniffMore
<1>4. Stages
  BY DEF Init, Stages
<1> QED
  BY <1>1, <1>2, <1>3, <1>4 DEF IInv

(* Connections that keep their bytes, and channels that keep their content. *)
LEMMA SniffMoreKept ==
  ASSUME SniffMore, UNCHANGED <<bytes, nread>>
  PROVE  SniffMore'
BY DEF SniffMore, Opening

LEMMA QueuesKept ==
  ASSUME QueuesExact, UNCHANGED queue,
         \A c \in Conn : st'[c] = "queued" <=> st[c] = "queued",
         \A c \in Conn : st[c] = "queued" => target'[c] = target[c]
  PROVE  QueuesExact'
<1>1. \A s \in Side : {c \in Conn : st'[c] = "queued" /\ target'[c] = s}
                       = {c \in Conn : st[c] = "queued" /\ target[c] = s}
  OBVIOUS
<1> QED
  BY <1>1 DEF QueuesExact

(* A connection is closed: nothing but its stage changes.                  *)
LEMMA ClosingKeeps ==
  ASSUME IInv, NEW c \in Conn, st' = [st EXCEPT ![c] = "closed"], st[c] # "queued",
         UNCHANGED <<bytes, nread, target, queue, done, root, serve, loop>>
  PROVE  IInv'
<1>1. TypeOK'
  BY DEF IInv, TypeOK
<1>2. QueuesExact'
  BY QueuesKept DEF IInv, TypeOK
<1>3. SniffMore'
  BY SniffMoreKept DEF IInv
<1>4. Stages'
  BY DEF IInv, Stages, TypeOK
<1> QED
  BY <1>1, <1>2, <1>3, <1>4 DEF IInv

(* Only done, root, serve or the accept loops change.                      *)
LEMMA OwnersKeep ==
  ASSUME IInv, TypeOK', UNCHANGED <<st, bytes, nread, target, queue>>
  PROVE  IInv'
<1>1. QueuesExact'
  BY QueuesKept DEF IInv
<1>2. SniffMore' /\ Stages'
  BY SniffMoreKept DEF IInv, Stages
<1> QED
  BY <1>1, <1>2 DEF IInv
----------------------------------------------------------------------------
(* One lemma per action that moves a connection on.                        *)

LEMMA AcceptKeeps ==
  ASSUME IInv, NEW c \in Conn, ServeAccept(c)
  PROVE  IInv'
<1> USE DEF ServeAccept, Goto, IInv
<1>1. PICK b \in Streams : bytes' = [bytes EXCEPT ![c] = b]
  OBVIOUS
<1>2. nread[c] = 0 /\ target[c] = "none"
  BY StreamIsBytes DEF Stages
<1>3. TypeOK'
  BY <1>1 DEF TypeOK
<1>4. QueuesExact'
  BY QueuesKept DEF TypeOK
<1>5. SniffMore'
  BY <1>1, <1>2 DEF SniffMore, Opening, TypeOK
<1>6. Stages'
  <2>1. Len(b) \in Nat
    BY PortMuxAssumption, LenProperties
  <2> QED
    BY <1>1, <1>2, <2>1 DEF Stages, TypeOK
<1> QED
  BY <1>3, <1>4, <1>5, <1>6

LEMMA ByteKeeps ==
  ASSUME IInv, NEW c \in Conn, SniffByte(c)
  PROVE  IInv'
<1> USE DEF SniffByte, IInv
<1>1. TypeOK'
  BY DEF TypeOK
<1>2. QueuesExact'
  BY QueuesKept
<1>3. SniffMore'
  <2> SUFFICES ASSUME NEW d \in Conn, NEW k \in 0..nread'[d] - 1
               PROVE  Verdict(Opening(d, k)) = "more"
    BY DEF SniffMore, Opening
  <2>1. CASE d = c /\ k = nread[c]
    BY <2>1 DEF Opening, Buf
  <2>2. CASE d # c \/ k # nread[c]
    <3>1. k \in 0..nread[d] - 1
      BY <2>2, StreamIsBytes DEF TypeOK
    <3> QED
      BY <3>1 DEF SniffMore
  <2> QED
    BY <2>1, <2>2
<1>4. Stages'
  BY StreamIsBytes DEF Stages, TypeOK
<1> QED
  BY <1>1, <1>2, <1>3, <1>4

LEMMA DecisionKeeps ==
  ASSUME IInv, NEW c \in Conn, SniffDecides(c)
  PROVE  IInv'
<1> USE DEF SniffDecides, Goto, IInv
<1>1. Verdict(Buf(c)) \in Side
  BY VerdictIs DEF Side
<1>2. Belongs(bytes[c]) = Verdict(Buf(c))
  <2>1. bytes[c] \in Seq(Byte) /\ nread[c] \in 0..Len(bytes[c])
    BY StreamIsBytes DEF Stages
  <2>2. Undecided(bytes[c], nread[c])
    BY DEF SniffMore, Opening, Undecided
  <2> QED
    BY <2>1, <2>2, AnswerBelongs DEF Buf
<1>3. TypeOK'
  BY <1>1 DEF TypeOK
<1>4. QueuesExact'
  BY QueuesKept DEF TypeOK
<1>5. SniffMore'
  BY SniffMoreKept
<1>6. Stages'
  BY <1>1, <1>2 DEF Stages, TypeOK, Side
<1> QED
  BY <1>3, <1>4, <1>5, <1>6

LEMMA SendKeeps ==
  ASSUME IInv, NEW c \in Conn, DispatchSend(c)
  PROVE  IInv'
<1> USE DEF DispatchSend, Goto, IInv
<1> DEFINE t == target[c]
<1>1. t \in Side /\ queue[t] \in Seq(Conn)
  BY DEF Stages, TypeOK
<1>2. c \notin ToSet(queue[t])
  BY <1>1 DEF QueuesExact
<1>3. TypeOK'
  BY <1>1, AppendToQueue DEF TypeOK
<1>4. QueuesExact'
  <2> SUFFICES ASSUME NEW s \in Side
               PROVE  /\ Len(queue'[s]) <= QueueCap /\ IsInjective(queue'[s])
                      /\ ToSet(queue'[s]) = {d \in Conn : st'[d] = "queued" /\ target'[d] = s}
    BY DEF QueuesExact
  <2>1. CASE s = t
    <3>1. queue'[t] = Append(queue[t], c)
      BY <1>1 DEF TypeOK
    <3>2. /\ Len(queue'[t]) = Len(queue[t]) + 1 /\ IsInjective(queue'[t])
          /\ ToSet(queue'[t]) = ToSet(queue[t]) \cup {c}
      BY <1>1, <1>2, <3>1, AppendToQueue DEF QueuesExact
    <3>3. Len(queue[t]) \in Nat /\ Len(queue[t]) < QueueCap
      BY <1>1, LenProperties
    <3>4. {d \in Conn : st'[d] = "queued" /\ target'[d] = t}
            = {d \in Conn : st[d] = "queued" /\ target[d] = t} \cup {c}
      BY DEF TypeOK
    <3> QED
      BY <2>1, <3>2, <3>3, <3>4, PortMuxAssumption DEF QueuesExact
  <2>2. CASE s # t
    <3>1. queue'[s] = queue[s]
      BY <2>2 DEF TypeOK
    <3>2. {d \in Conn : st'[d] = "queued" /\ target'[d] = s}
            = {d \in Conn : st[d] = "queued" /\ target[d] = s}
      BY <2>2 DEF TypeOK
    <3> QED
      BY <3>1, <3>2 DEF QueuesExact
  <2> QED
    BY <2>1, <2>2
<1>5. SniffMore'
  BY SniffMoreKept
<1>6. Stages'
  BY DEF Stages, TypeOK
<1> QED
  BY <1>3, <1>4, <1>5, <1>6

(* What a side takes off its channel was waiting for it.                   *)
LEMMA HeadWaits ==
  ASSUME IInv, NEW s \in Side, queue[s] # <<>>
  PROVE  /\ Head(queue[s]) \in Conn
         /\ st[Head(queue[s])] = "queued" /\ target[Head(queue[s])] = s
<1>1. queue[s] \in Seq(Conn)
  BY DEF IInv, TypeOK
<1>2. Head(queue[s]) \in ToSet(queue[s])
  BY <1>1, TakeFromQueue
<1> QED
  BY <1>2 DEF IInv, QueuesExact

LEMMA SideAcceptKeeps ==
  ASSUME IInv, NEW s \in Side, SideAccept(s)
  PROVE  IInv'
<1> USE DEF SideAccept, Goto, IInv
<1>1. PICK c \in Conn : c = Head(queue[s]) /\ st[c] = "queued" /\ target[c] = s
  BY HeadWaits
<1>2. queue[s] \in Seq(Conn)
  BY DEF TypeOK
<1>3. TypeOK'
  BY <1>1, <1>2, TakeFromQueue DEF TypeOK
<1>4. QueuesExact'
  <2> SUFFICES ASSUME NEW r \in Side
               PROVE  /\ Len(queue'[r]) <= QueueCap /\ IsInjective(queue'[r])
                      /\ ToSet(queue'[r]) = {d \in Conn : st'[d] = "queued" /\ target'[d] = r}
    BY DEF QueuesExact
  <2>1. CASE r = s
    <3>1. queue'[s] = Tail(queue[s])
      BY DEF TypeOK
    <3>2. /\ Len(queue'[s]) <= Len(queue[s]) /\ IsInjective(queue'[s])
          /\ ToSet(queue'[s]) = ToSet(queue[s]) \ {c}
      BY <1>1, <1>2, <3>1, TakeFromQueue DEF QueuesExact
    <3>3. Len(queue[s]) \in Nat /\ Len(queue'[s]) \in Nat
      BY <1>2, <3>1, TakeFromQueue, LenProperties
    <3>4. {d \in Conn : st'[d] = "queued" /\ target'[d] = s}
            = {d \in Conn : st[d] = "queued" /\ target[d] = s} \ {c}
      BY <1>1 DEF TypeOK
    <3> QED
      BY <2>1, <3>2, <3>3, <3>4, PortMuxAssumption DEF QueuesExact
  <2>2. CASE r # s
    <3>1. queue'[r] = queue[r]
      BY <2>2 DEF TypeOK
    <3>2. {d \in Conn : st'[d] = "queued" /\ target'[d] = r}
            = {d \in Conn : st[d] = "queued" /\ target[d] = r}
      BY <1>1, <2>2 DEF TypeOK
    <3> QED
      BY <3>1, <3>2 DEF QueuesExact
  <2> QED
    BY <2>1, <2>2
<1>5. SniffMore'
  BY SniffMoreKept
<1>6. Stages'
  BY <1>1 DEF Stages, TypeOK
<1> QED
  BY <1>3, <1>4, <1>5, <1>6

LEMMA NextInv == IInv /\ [Next]_vars => IInv'
<1> SUFFICES ASSUME IInv, [Next]_vars PROVE IInv'
  OBVIOUS
<1>1. ASSUME NEW c \in Conn, ServeAccept(c) PROVE IInv'
  BY <1>1, AcceptKeeps
<1>2. ASSUME NEW c \in Conn, Dispatch(c) PROVE IInv'
  <2>1. CASE SniffByte(c)
    BY <2>1, ByteKeeps
  <2>2. CASE SniffTimeout(c)
    BY <2>2, ClosingKeeps DEF SniffTimeout, Goto
  <2>3. CASE SniffDecides(c)
    BY <2>3, DecisionKeeps
  <2>4. CASE DispatchSend(c)
    BY <2>4, SendKeeps
  <2>5. CASE DispatchDone(c)
    BY <2>5, ClosingKeeps DEF DispatchDone, Goto
  <2> QED
    BY <1>2, <2>1, <2>2, <2>3, <2>4, <2>5 DEF Dispatch
<1>3. CASE ServeError \/ ServeUnwinds \/ MuxClose
  <2>1. TypeOK'
    BY <1>3 DEF IInv, TypeOK, ServeError, ServeUnwinds, ServeRetry, ServeClosed,
                ServeReturn, CloseSide, MuxClose, Side
  <2> QED
    BY <1>3, <2>1, OwnersKeep
       DEF ServeError, ServeUnwinds, ServeRetry, ServeClosed, ServeReturn, CloseSide, MuxClose
<1>4. ASSUME NEW s \in Side, SideStops(s) \/ SideCloses(s) PROVE IInv'
  <2>1. TypeOK'
    BY <1>4 DEF IInv, TypeOK, SideStops, SideCloses, CloseSide
  <2> QED
    BY <1>4, <2>1, OwnersKeep DEF SideStops, SideCloses, CloseSide
<1>5. ASSUME NEW s \in Side, SideAccept(s) PROVE IInv'
  BY <1>5, SideAcceptKeeps
<1>6. CASE UNCHANGED vars
  <2>1. TypeOK'
    BY <1>6 DEF IInv, TypeOK, vars
  <2> QED
    BY <1>6, <2>1, OwnersKeep DEF vars
<1> QED
  BY <1>1, <1>2, <1>3, <1>4, <1>5, <1>6 DEF Next

LEMMA InductiveInv == Spec => []IInv
BY InitInv, NextInv, PTL DEF Spec
----------------------------------------------------------------------------
(* Every variable stays in its set, whatever the clients send and however  *)
(* the goroutines of portMux interleave.                                   *)
THEOREM PortMuxTypeOK == Spec => []TypeOK
BY InductiveInv, PTL DEF IInv

(* The channel of a side holds the connections that wait for that side,    *)
(* each once, and at most 64 of them: chanListener neither loses nor       *)
(* repeats a connection.                                                   *)
THEOREM ChannelsExact == Spec => []QueuesExact
BY InductiveInv, PTL DEF IInv

(* sniff stops at the byte that decides: no client is made to send more    *)
(* than its opening before it is answered.                                 *)
THEOREM SniffReadsNoFurther == Spec => []NoOverread
<1>1. IInv => NoOverread
  <2> SUFFICES ASSUME IInv, NEW c \in Conn, NEW k \in 0..nread[c] - 1
               PROVE  Belongs(SubSeq(bytes[c], 1, k)) = "nowhere"
    BY DEF NoOverread
  <2>1. /\ bytes[c] \in Seq(Byte) /\ k \in 0..Len(bytes[c]) /\ k + 1 <= nread[c]
        /\ nread[c] \in Nat
    BY StreamIsBytes DEF IInv, Stages
  <2>2. \A j \in 0..nread[c] - 1 : Verdict(SubSeq(bytes[c], 1, j)) = "more"
    BY DEF IInv, SniffMore, Opening
  <2>3. Undecided(bytes[c], k + 1)
    BY <2>1, <2>2 DEF Undecided
  <2> QED
    BY <2>1, <2>3, MoreIsNowhere
<1> QED
  BY <1>1, InductiveInv, PTL
----------------------------------------------------------------------------
(* The refinement: a step of the mux takes a connection, delivers it,      *)
(* discards it, or changes nothing that Handover sees.                     *)

Goes == [c \in Conn |-> Belongs(bytes[c])]
Place == [c \in Conn |->
            CASE st[c] = "accepted" -> target[c]
              [] st[c] \in {"client", "closed"} -> st[c]
              [] OTHER -> "mux"]

LEMMA InitDelivered == Init => Delivered!Init
<1> SUFFICES ASSUME Init PROVE Goes = [c \in Conn |-> "nowhere"]
                               /\ Place = [c \in Conn |-> "client"]
  BY DEF Delivered!Init, Goes, Place
<1> QED
  BY NothingBelongs DEF Init, Goes, Place

LEMMA NextDelivered ==
  ASSUME IInv, IInv', [Next]_vars
  PROVE  [Delivered!Next]_(Delivered!vars)
<1> DEFINE Stutter == Goes' = Goes /\ Place' = Place
<1>1. Stutter => UNCHANGED Delivered!vars
  BY DEF Delivered!vars, Goes, Place
<1>2. ASSUME NEW c \in Conn, ServeAccept(c) PROVE Delivered!Take(c)
  <2>1. /\ st[c] = "client" /\ st' = [st EXCEPT ![c] = "sniff"] /\ target' = target
        /\ \A d \in Conn \ {c} : bytes'[d] = bytes[d]
    BY <1>2 DEF ServeAccept, Goto, IInv, TypeOK
  <2>2. Place[c] = "client" /\ Place' = [Place EXCEPT ![c] = "mux"]
    BY <2>1 DEF Place, IInv, TypeOK
  <2>3. Belongs(bytes'[c]) \in Side \cup {"nowhere"}
    BY DEF Belongs, Side
  <2>4. Goes' = [Goes EXCEPT ![c] = Belongs(bytes'[c])]
    BY <2>1 DEF Goes
  <2> QED
    BY <2>2, <2>3, <2>4 DEF Delivered!Take, Goes, Place
<1>3. ASSUME NEW c \in Conn, SniffTimeout(c) \/ DispatchDone(c) PROVE Delivered!Discard(c)
  <2>1. /\ st[c] \in {"sniff", "send"} /\ st' = [st EXCEPT ![c] = "closed"]
        /\ UNCHANGED <<bytes, target>>
    BY <1>3 DEF SniffTimeout, DispatchDone, Goto
  <2>2. Place[c] = "mux" /\ Place' = [Place EXCEPT ![c] = "closed"] /\ Goes' = Goes
    BY <2>1 DEF Place, Goes, IInv, TypeOK
  <2> QED
    BY <2>2 DEF Delivered!Discard, Goes, Place
<1>4. ASSUME NEW c \in Conn, SniffByte(c) \/ SniffDecides(c) \/ DispatchSend(c) PROVE Stutter
  BY <1>4 DEF SniffByte, SniffDecides, DispatchSend, Goto, Goes, Place, IInv, TypeOK
<1>5. ASSUME NEW s \in Side, SideAccept(s)
      PROVE  \E c \in Conn : Delivered!Deliver(c)
  <2>1. PICK c \in Conn : c = Head(queue[s]) /\ st[c] = "queued" /\ target[c] = s
    BY <1>5, HeadWaits DEF SideAccept
  <2>2. st' = [st EXCEPT ![c] = "accepted"] /\ UNCHANGED <<bytes, target>>
    BY <1>5, <2>1 DEF SideAccept, Goto
  <2>3. Goes[c] = s
    BY <2>1 DEF Goes, IInv, Stages, Side
  <2>4. Place[c] = "mux" /\ Place' = [Place EXCEPT ![c] = s] /\ Goes' = Goes
    <3>1. Place[c] = "mux" /\ Goes' = Goes
      BY <2>1, <2>2 DEF Place, Goes
    <3>2. \A d \in Conn : st'[d] = IF d = c THEN "accepted" ELSE st[d]
      BY <2>2 DEF IInv, TypeOK
    <3>3. \A d \in Conn : Place'[d] = IF d = c THEN s ELSE Place[d]
      BY <2>1, <2>2, <3>2 DEF Place
    <3> QED
      BY <3>1, <3>3 DEF Place
  <2>5. Delivered!Deliver(c)
    BY <2>3, <2>4 DEF Delivered!Deliver, Goes, Place
  <2> QED
    BY <2>5
<1>6. CASE ServeError \/ ServeUnwinds \/ MuxClose \/ UNCHANGED vars
           \/ \E s \in Side : SideStops(s) \/ SideCloses(s)
  <2>1. UNCHANGED <<st, bytes, target>>
    BY <1>6 DEF ServeError, ServeUnwinds, ServeRetry, ServeClosed, ServeReturn, MuxClose,
                SideStops, SideCloses, vars
  <2>2. Stutter
    BY <2>1 DEF Goes, Place
  <2> QED
    BY <1>1, <2>2
<1> QED
  BY <1>1, <1>2, <1>3, <1>4, <1>5, <1>6 DEF Next, Dispatch, Delivered!Next

(* The mux delivers every connection to the side its bytes belong to, at   *)
(* most once, for any number of connections and any capacity.              *)
THEOREM MuxImplementsHandover == Spec => ImplementsHandover
BY InitDelivered, NextDelivered, InductiveInv, PTL
   DEF Spec, ImplementsHandover, Delivered!Spec
=============================================================================
