---------------------------- MODULE WireGuardConf ----------------------------
(***************************************************************************)
(* The WireGuard configuration of wireguard.go: from the lines of a file   *)
(* to the settings the device is given.                                    *)
(*                                                                         *)
(* A line is [key, val], without its blanks and comments.  Its key is      *)
(* Header and its value a section's name, or its key is a setting's and    *)
(* its value what the line says: a number, a text, or the parts of a list. *)
(* A value or a part that does not parse is Bad.                           *)
(***************************************************************************)
EXTENDS Integers, Sequences, SequencesExt

CONSTANTS Header, Bad, NoPeer, Unset, Everything, DefaultDNS

EmptyPeer == [publickey |-> Unset, presharedkey |-> Unset, endpoint |-> Unset,
              allowedips |-> <<>>, persistentkeepalive |-> 0]

\* The parser's state: whether it gave up, its section and peer, the settings.
Start ==
  [err |-> FALSE, section |-> "", peer |-> NoPeer, peers |-> <<>>,
   privatekey |-> Unset, address |-> <<>>, dns |-> <<>>, mtu |-> 1420, listenport |-> 0]

\* Mutant of Section: an [Interface] section ends the peer before it for good.
SectionDropsPeer(p, name) ==
  IF name \notin {"peer", "interface"} THEN [p EXCEPT !.err = TRUE]
  ELSE [p EXCEPT !.section = name, !.peer = IF name = "peer" THEN EmptyPeer ELSE NoPeer,
                 !.peers = IF name = "peer" /\ p.peer # NoPeer THEN Append(@, p.peer) ELSE @]

Section(p, name) ==
  IF name \notin {"peer", "interface"} THEN [p EXCEPT !.err = TRUE]
  ELSE IF name = "interface" THEN [p EXCEPT !.section = name]
  ELSE [p EXCEPT !.section = name, !.peer = EmptyPeer,
                 !.peers = IF p.peer # NoPeer THEN Append(@, p.peer) ELSE @]

\* A bad key or address ends it; a bad resolver or number is passed over.
Interface(p, l) ==
  CASE l.key = "privatekey" -> IF l.val = Bad THEN [p EXCEPT !.err = TRUE]
                                              ELSE [p EXCEPT !.privatekey = l.val]
    [] l.key = "address"    -> IF Bad \in ToSet(l.val) THEN [p EXCEPT !.err = TRUE]
                                                       ELSE [p EXCEPT !.address = @ \o l.val]
    [] l.key = "dns"        -> [p EXCEPT !.dns = @ \o SelectSeq(l.val, LAMBDA a : a # Bad)]
    [] l.key \in {"mtu", "listenport"} /\ l.val # Bad /\ l.val > 0 ->
         [p EXCEPT ![l.key] = l.val]
    [] OTHER -> p

PeerLine(p, l) ==
  CASE l.key \in {"publickey", "presharedkey", "endpoint"} ->
         IF l.val = Bad THEN [p EXCEPT !.err = TRUE] ELSE [p EXCEPT !.peer[l.key] = l.val]
    [] l.key = "allowedips" -> [p EXCEPT !.peer.allowedips = @ \o l.val]
    [] l.key = "persistentkeepalive" /\ l.val # Bad /\ l.val >= 0 ->
         [p EXCEPT !.peer.persistentkeepalive = l.val]
    [] OTHER -> p

\* One line; what stands before the first section is passed over.
Line(p, l) ==
  CASE p.err                   -> p
    [] ~p.err /\ l.key = Header -> Section(p, l.val)
    [] ~p.err /\ l.key # Header /\ p.section = "interface" -> Interface(p, l)
    [] ~p.err /\ l.key # Header /\ p.section = "peer"      -> PeerLine(p, l)
    [] OTHER -> p

\* The last peer is kept, what must be there is, resolvers have a default.
ParseWireGuardConfig(lines) ==
  LET p == FoldLeft(Line, Start, lines)
  IN  [p EXCEPT !.peers = IF p.peer # NoPeer THEN Append(@, p.peer) ELSE @,
                !.err   = @ \/ p.privatekey = Unset \/ p.address = <<>>,
                !.dns   = IF @ = <<>> THEN DefaultDNS ELSE @]

\* What the device is told of a peer: one without allowed addresses gets all.
ToUAPI(c) ==
  [privatekey |-> c.privatekey, listenport |-> c.listenport,
   peers |-> [i \in DOMAIN c.peers |->
                [c.peers[i] EXCEPT !.allowedips = IF @ = <<>> THEN Everything ELSE @]]]

----------------------------------------------------------------------------
(* What the file says, read section by section instead of line by line.    *)

IsHeader(lines, i) == lines[i].key = Header
SectionOf(lines, i) ==
  LET before == {j \in 1..i : IsHeader(lines, j)}
  IN  IF before = {} THEN 0 ELSE CHOOSE j \in before : \A k \in before : k <= j

\* The lines of a setting in the section whose header is line h.
Said(lines, h, key) ==
  SelectSeq([i \in DOMAIN lines |-> [at |-> i, l |-> lines[i]]],
            LAMBDA x : SectionOf(lines, x.at) = h /\ x.l.key = key)

\* The last word on a setting, and all its parts one after another.
LastSaid(lines, h, key, default) ==
  LET s == Said(lines, h, key) IN IF s = <<>> THEN default ELSE Last(s).l.val
AllSaid(lines, h, key) ==
  FoldLeft(LAMBDA acc, x : acc \o x.l.val, <<>>, Said(lines, h, key))

PeerHeaders(lines) ==
  SelectSeq([i \in DOMAIN lines |-> i], LAMBDA i : IsHeader(lines, i) /\ lines[i].val = "peer")

\* The device serves one peer for each [Peer] section of the file, in order, each
\* with its own keys and addresses.
PeersAsWritten(dev, lines) ==
  LET hs == PeerHeaders(lines) IN
  /\ Len(dev.peers) = Len(hs)
  /\ \A i \in DOMAIN hs :
       /\ \A key \in {"publickey", "presharedkey", "endpoint"} :
            dev.peers[i][key] = LastSaid(lines, hs[i], key, Unset)
       /\ dev.peers[i].allowedips =
            LET a == AllSaid(lines, hs[i], "allowedips") IN IF a = <<>> THEN Everything ELSE a
=============================================================================
