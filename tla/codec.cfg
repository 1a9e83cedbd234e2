SPECIFICATION Spec
CONSTANTS
  Malformed = Malformed
  Never = Never
  UUIDs <- Ids
  Aliases <- Keys
  Milli = 2
  Second = 4
  Width = 32
  Messages <- MCMessages
INVARIANTS  NothingMalformedIsDelivered
CHECK_DEADLOCK FALSE
