------------------------------- MODULE MCConn -------------------------------
(* Model values for Conn and the symmetries between them.                  *)
EXTENDS Conn, TLC

Symmetry ==
  Permutations(Sessions) \union Permutations(Senders)
    \union Permutations(Closers)

=============================================================================
