SPECIFICATION Spec
CONSTANTS
  Connections <- MCLongTopic
  SegmentSizes = {1, 300}
  MaxTopicLength = 128
  MaxLosses = 0
INVARIANT LongTopicIgnored
CHECK_DEADLOCK FALSE
