\* Two callers of Write, two of datagram.Write, and queues of one place.
SPECIFICATION FairSpec
CONSTANTS
  m1 = m1
  m2 = m2
  Nil = Nil
  Torn = Torn
  Error = Error
  Frames = {f1, f2}
  Datagrams = {m1, m2}
  Length <- Lengths
  MaxPayload = 2
  MaxUint16 = 3
  QueueSize = 1
CHECK_DEADLOCK FALSE
INVARIANTS MessagesIntact
PROPERTIES ReadersEnd
