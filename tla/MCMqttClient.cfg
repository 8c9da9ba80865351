SPECIFICATION FairSpec
CONSTANTS
  m1 = m1
  m2 = m2
  m3 = m3
  Messages <- MCMessages
  QoSOf <- MCQoSOf
  LastId = 2
  MaxSends = 2
  MaxDrops = 1
INVARIANTS
  TypeOK
  DeliveredOnce
  HandshakeKept
PROPERTIES
  AllSettled
CHECK_DEADLOCK FALSE
