------------------------------ MODULE Handover ------------------------------
(***************************************************************************)
(* What the shared port promises (portmux.go): every connection that is    *)
(* taken off the socket goes to one side, the side its opening bytes       *)
(* belong to, or is closed, and is taken by that side at most once.        *)
(***************************************************************************)
CONSTANTS Conn, Side

VARIABLES
  place,  \* where each connection is
  goes    \* the side its bytes belong to, known to the client only

vars == <<place, goes>>

Init ==
  /\ place = [c \in Conn |-> "client"]
  /\ goes = [c \in Conn |-> "nowhere"]

Take(c) ==
  /\ place[c] = "client"
  /\ place' = [place EXCEPT ![c] = "mux"]
  /\ \E s \in Side \cup {"nowhere"} : goes' = [goes EXCEPT ![c] = s]

Deliver(c) ==
  /\ place[c] = "mux"
  /\ goes[c] \in Side
  /\ place' = [place EXCEPT ![c] = goes[c]]
  /\ UNCHANGED goes

Discard(c) ==
  /\ place[c] = "mux"
  /\ place' = [place EXCEPT ![c] = "closed"]
  /\ UNCHANGED goes

Next == \E c \in Conn : Take(c) \/ Deliver(c) \/ Discard(c)

Spec == Init /\ [][Next]_vars
=============================================================================
