------------------------------- MODULE MCQuic -------------------------------
(* Two messages on the stream, and two datagrams: one of three segments, the*)
(* last of which is empty because the message fills the two before it, and  *)
(* one of two segments.                                                     *)
EXTENDS Quic, TLC

CONSTANTS m1, m2

Lengths == m1 :> 4 @@ m2 :> 3

=============================================================================
