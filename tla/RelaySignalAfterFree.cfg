\* Two connections: one may end, the other sends a data message.
CONSTANTS
  Device = {d1, d2}
  Fd = {f1, f2}
  NoDevice = NoDevice
  NoFd = NoFd
  MaxMessages <- OneFromOrigin
  MayEnd <- OthersMayEnd
  SpawnMayFail = FALSE
SPECIFICATION Spec
INVARIANT
  BroadcastSignalsLiveDevice
