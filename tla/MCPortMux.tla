----------------------------- MODULE MCPortMux -----------------------------
(* An instance of PortMux for TLC: methods of two and three bytes with     *)
(* common openings, and a handshake of three.                              *)
EXTENDS PortMux

MCByte == {"G", "P", "U", "R", "_", "b", "t", "p", "z", "x"}
MCMethods == {<<"G", "_">>, <<"P", "U", "_">>, <<"P", "R", "_">>}
MCHandshake == <<"b", "t", "p">>
MCSniffLimit == 3

\* One stream for each way an opening can go.
MCStreams == {
  <<>>,                     \* silent
  <<"P", "U">>,             \* stops inside a method
  <<"b", "t">>,             \* stops inside the handshake
  <<"G", "_", "x">>,        \* a request
  <<"P", "R", "_">>,        \* a request, nothing after the method
  <<"b", "z", "z", "x">>,   \* a handshake by its first byte only
  <<"P", "U", "x", "x">>,   \* leaves the methods at its last byte
  <<"P", "_", "x">>,        \* leaves them earlier
  <<"z", "b">> }            \* an encrypted handshake
=============================================================================
