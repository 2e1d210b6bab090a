SPECIFICATION MCSpec
CONSTANTS
  Nil = Nil
  Authenticators = {r1, r2}
  PacketIds = 4
  Lifetime = 4
  Retries = 2
  MaxDrawn = 6
INVARIANTS
  TypeOK
PROPERTIES
  RequestReplySpec
  CallEnds
CHECK_DEADLOCK FALSE
