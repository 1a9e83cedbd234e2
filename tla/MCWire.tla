------------------------------- MODULE MCWire -------------------------------
(* The instance of Wire: one stream, up or down.                            *)
EXTENDS Wire

=============================================================================
