\* Two servers, short rounds of the loop, a clock that wraps often.
CONSTANTS
  serversCount = 2
  Wrap = 5
  TURN_ON_DELAY = 1
  TURN_OFF_DELAY = 2
  RESTART_OFF_ON_DELAY = 1
  SERVER_PING_TIME = 2
  Number <- Numbers
  MaxPass = 1
SPECIFICATION Spec
INVARIANTS
  TypeOK
  RelayFollowsOperation
  OrdersEndInTime
PROPERTIES
  OrdersArePlans
  NeverPressesHeard
