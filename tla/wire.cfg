\* A session with one upstream or one downstream, and channels of one place
\* between its goroutines, so that each of them fills up.
SPECIFICATION FairSpec
CONSTANTS
  Streams = {s1}
  KeepAlive = keepAlive
  MaxItems = 2
  InboxSize = 1
  QueueSize = 1
  ChanSize = 1
  Nil = Nil
CHECK_DEADLOCK FALSE
INVARIANTS StreamsComplete
PROPERTIES NobodyHeldUp RequestsReturn SessionEnds
