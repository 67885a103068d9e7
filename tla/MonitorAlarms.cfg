\* Two sensors, one of them read in every round.
CONSTANTS
  Count = 2
  Wrap = 10
  READ_TIME <- BothRead
  UP_TIME <- BothUp
  POST_TO_SERVER_INTERVAL = 2
  MaxPass = 1
SPECIFICATION Spec
INVARIANTS
  TypeOK
  AlarmIsHeld
  DangerIsDetected
PROPERTY
  AlarmIsReported
