----------------------------- MODULE MCReconnect -----------------------------
(* The limits of the attempts for Reconnect: none, and one.                 *)
EXTENDS Reconnect

OnceOrForEver == {-1, 1}
ForEver == {-1}

=============================================================================
