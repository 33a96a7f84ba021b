SPECIFICATION PacketSpec
CONSTANTS
  U16 = 16
  U32 = 64
  buf_len = 15
  HEADROOM = 3
  Lengths <- AllLengths
  EtherLen = 1
  ARPLen = 2
  IPv4MinLen = 2
  IPv6Len = 3
  UDPLen = 1
  TCPMinLen = 2
  ICMPLen = 1
  VXLANLen = 1
  NDMessageSize = 2
  NDOptionSize = 1
  StructSize = 1
  Payloads = {0, 3}
  B = 4
  FieldWords = {0, 1, 6, 15}
  Starts = {0, 1, 2, 3}
  Counts = {1, 2}
  MaxEdits = 0
  NULL = NULL
INVARIANT LenConsistent
CHECK_DEADLOCK FALSE
