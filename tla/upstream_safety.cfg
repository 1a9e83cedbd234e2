\* One closer, both kinds of QoS and one chunk, over three session objects: the
\* current one, the one the stream still runs on and one an old chunk was built
\* for.
SPECIFICATION Spec
CONSTANTS
  Sessions = {s1, s2, s3}
  Closers = {c1}
  QoSes = {"Reliable", "Unreliable"}
  MaxSeq = 1
SYMMETRY Symmetry
CHECK_DEADLOCK FALSE
INVARIANTS UnackedKept  AckNeverBlocks
 
