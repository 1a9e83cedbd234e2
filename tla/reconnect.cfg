\* One writer, one reader, pings and pongs, one Close, and two transports of
\* which the first may fail in any way.
SPECIFICATION FairSpec
CONSTANTS
  Writers = {w1}
  Closers = {c1}
  Limits <- OnceOrForEver
  MaxTransports = 2
  InboxSize = 1
CHECK_DEADLOCK FALSE
INVARIANTS OneTransport NoTransportLeak
PROPERTIES StaysClosed WorkingTransportKept Terminates WritesAnswered
