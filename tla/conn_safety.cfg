\* Two senders, one E2E caller and two closers over five session objects:
\* wireConn, the one being dialled and one old session per user.
SPECIFICATION Spec
CONSTANTS
  Sessions = {s1, s2, s3, s4, s5}
  Senders = {p1, p2}
  Callers = {e1}
  Closers = {c1, c2}
  Loop = Loop
  Nobody = Nobody
  NoSession = NoSession
SYMMETRY Symmetry
INVARIANTS OneLiveSession SendersHeldBack NoSessionLeak
PROPERTIES ClosedIsFinal KeepsPromise
