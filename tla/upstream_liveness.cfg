\* A stream that is resumed any number of times, alternately on two sessions,
\* and is never closed by the application.
SPECIFICATION FairSpec
CONSTANTS
  Sessions = {s1, s2}
  Closers = {}
  QoSes = {"Reliable"}
  MaxSeq = 1
CHECK_DEADLOCK FALSE
PROPERTIES DeliveredWhenStable DeadStreamIsClosed
