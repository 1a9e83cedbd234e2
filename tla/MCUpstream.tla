----------------------------- MODULE MCUpstream -----------------------------
(* Model values for Upstream and the symmetries between them.              *)
EXTENDS Upstream, TLC

Symmetry == Permutations(Sessions) \union Permutations(Closers)

=============================================================================
