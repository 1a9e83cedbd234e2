\* A Close against everything that can stop its drain, on the one session the
\* connection has, which may be lost but is not replaced.
SPECIFICATION FairSpec
CONSTANTS
  Sessions = {s1}
  Closers = {c1}
  QoSes = {"Reliable"}
  MaxSeq = 1
CHECK_DEADLOCK FALSE
PROPERTIES CloseReturns DrainWakes
