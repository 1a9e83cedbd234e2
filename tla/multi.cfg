\* Two transports and two writers, with each of the selectors.
SPECIFICATION FairSpec
CONSTANTS
  t1 = t1
  t2 = t2
  n1 = n1
  n2 = n2
  Nil = Nil
  Order <- TwoTransports
  Writers = {w1, w2}
  Kinds = {"roundRobin", "byteBalanced", "minRTT", "ecf", "polled", "scheduled"}
  Profiles <- FastAndSlow
  MaxSize = 1
  MaxBytes = 3
  Nics = {n1, n2}
  NicOf <- OneEach
  MaxChanges = 2
  PipeSize = 1
CHECK_DEADLOCK FALSE
INVARIANTS WriteTargetExists Balanced ShutdownJustified
PROPERTIES EndsWhenWritesReturn SchedulerFollowsNIC
