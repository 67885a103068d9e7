\* Two connections that send a data message each; one may end at any time.
CONSTANTS
  Device = {d1, d2}
  Fd = {f1, f2}
  NoDevice = NoDevice
  NoFd = NoFd
  MaxMessages <- OneEach
  MayEnd <- OthersMayEnd
  SpawnMayFail = TRUE
SYMMETRY Symmetry
SPECIFICATION Spec
INVARIANTS
  TypeOK
  RefCount
  UsersAreSafe
  DescriptorsDistinct
  WorkingIsRegistered
  ThreadsInStep
  MutexOwner
  NothingLost
PROPERTY
  NoFutureBroadcast BroadcastImplementsMulticast
