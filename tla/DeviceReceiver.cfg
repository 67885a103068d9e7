\* A header of two bytes; limits of 13, 15 and 30 seconds as 3, 3 and 4.
CONSTANTS
  PROTOCOl_MESSAGE_HEADER_LENGTH = 2
  PayloadLength <- Lengths
  Kind <- Kinds
  CounterWrap = 8
  RecvTime = 3
  SO_RCVTIMEO = 3
  Silence = 4
  PROTOCOL_SEND_TRIES = 1
  Punctual = 1
  Wire = 2
  MaxPass = 1
SPECIFICATION Spec
INVARIANTS
  TypeOK
  InStep
  NothingSkipped
  SilentIsEnded
  PeersAgree
PROPERTY
  PunctualIsKept
