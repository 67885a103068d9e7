\* One connection that sends two data messages and may end.
CONSTANTS
  Device = {d1}
  Fd = {f1}
  NoDevice = NoDevice
  NoFd = NoFd
  MaxMessages <- TwoFromOrigin
  MayEnd <- AllMayEnd
  SpawnMayFail = FALSE
SPECIFICATION FairSpec
PROPERTIES
  CountingImplementsLifetime
  BufferIsFlushed
  EndedIsFreedOrStranded
