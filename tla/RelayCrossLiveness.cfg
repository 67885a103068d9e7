\* Two connections that do not end, one data message.
CONSTANTS
  Device = {d1, d2}
  Fd = {f1, f2}
  NoDevice = NoDevice
  NoFd = NoFd
  MaxMessages <- OneFromOrigin
  MayEnd <- NoneMayEnd
  SpawnMayFail = FALSE
SPECIFICATION FairSpec
PROPERTY
  BroadcastCompletes
