SPECIFICATION Spec
CONSTANTS
  Room = 6
  Len7Max = 1
  Len16Max = 3
  Bit15 = 2
  Max32 = 7
  Keys = {0, 1}
  HeaderLines = 2
  MaxMessageSize = 2
  Message <- MCMessage
  Configs <- MCConfigs
INVARIANTS
  BrokenOnlyFor
  TransportAgreed
  UnmaskedUnlessResent
PROPERTIES
  MessageStreamSpec
  EventuallyDelivered
CHECK_DEADLOCK FALSE
