SPECIFICATION Spec
CONSTANTS
  Connections <- MCConnections
  SegmentSizes = {1, 7, 300}
  MaxTopicLength = 4
  MaxLosses = 2
INVARIANTS
  TypeOK
  InSync
  OnlyIgnoredLeak
PROPERTIES
  ReaderSpec
CHECK_DEADLOCK FALSE
