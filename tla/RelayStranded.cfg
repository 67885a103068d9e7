\* One connection that may end.
CONSTANTS
  Device = {d1}
  Fd = {f1}
  NoDevice = NoDevice
  NoFd = NoFd
  MaxMessages <- OneFromOrigin
  MayEnd <- AllMayEnd
  SpawnMayFail = FALSE
SPECIFICATION FairSpec
PROPERTY
  EndedIsFreed
