SPECIFICATION FairSpec
CONSTANTS
  WordSize = 3
  AllOnes = AllOnes
  s1 = s1
  s2 = s2
  Sends = {s1, s2}
  Size <- MCSize
  Room <- MCRoom
  Receiver = Receiver
  Asked = {0, 2, 4}
  Space = 10
  Old = Old
  Nobody = Nobody
INVARIANTS
  TypeOK
  NoLostWakeup
  SentAsRead
  ReceivedIntact
PROPERTIES
  ImplementsStream
  CallsReturn
CHECK_DEADLOCK FALSE
