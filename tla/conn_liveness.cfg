\* One sender and one closer; no E2E caller, whose Write may keep wireConnMu.
SPECIFICATION FairSpec
CONSTANTS
  Sessions = {s1, s2, s3}
  Senders = {p1}
  Callers = {}
  Closers = {c1}
  Loop = Loop
  Nobody = Nobody
  NoSession = NoSession
PROPERTIES
  Terminates LostSessionReplaced SendComesBack
