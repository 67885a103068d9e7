\* A header of two bytes, room for four, and a clock that wraps often.
CONSTANTS
  Wrap = 6
  NumberWrap = 4
  PROTOCOl_MESSAGE_HEADER_LENGTH = 2
  PayloadLength <- Lengths
  Kind <- Kinds
  PROTOCOl_RECIEVE_POKE_TIME = 3
  PROTOCOl_SEND_POKE_TIME = 1
  RxBuffer = 4
  MaxPass = 1
  SendRounds = 2
  PingRounds = 3
SPECIFICATION Spec
INVARIANTS
  TypeOK
  InStep
  NothingSkipped
  SilenceIsNoticed
  ServerIsPoked
  SendIsReleased
  PingsAreHeard
PROPERTY
  HeardIsKept
