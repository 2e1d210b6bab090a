SPECIFICATION MCSpec
CONSTANTS
  Nil = Nil
  MaxMessageLen = 8
  Size = 3
  MaxLength = 9
  MaxRecords = 2
  Unit <- MCUnit
  Records <- MCRecords
INVARIANTS
  TypeOK
  ChunksAreData
  RefusalExact
PROPERTIES
  ChannelSpec
  Settles
CHECK_DEADLOCK FALSE
