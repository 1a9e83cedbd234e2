\* A stream that is read, resumed any number of times, alternately on two
\* sessions, and closed once, with one data ID to give an alias to.
SPECIFICATION FromFirst
CONSTANTS
  s1 = s1
  s2 = s2
  Sessions = {s1, s2}
  Closers = {c1}
  Chunks = {k1}
  Kinds = {"data"}
  MaxAlias = 1
CHECK_DEADLOCK FALSE
INVARIANTS AliasesResolve FlushedClosedOnce FinalFlush
PROPERTIES Terminates ResultsSentWhenStable
