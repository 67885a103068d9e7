\* One server.
CONSTANTS
  serversCount = 1
  Wrap = 6
  TURN_ON_DELAY = 1
  TURN_OFF_DELAY = 2
  RESTART_OFF_ON_DELAY = 1
  SERVER_PING_TIME = 3
  Number <- Numbers
  MaxPass = 1
SPECIFICATION Spec
PROPERTY
  OrdersMatchTheirTypes
