\* A reading every four units; the driver allows one in three.
CONSTANTS
  Wrap = 11
  DHT22_SENSOR_INTERVAL_TIME = 4
  ReadInterval = 3
  MaxPass = 2
SPECIFICATION Spec
INVARIANTS
  TypeOK
  HumidityIsChecked
PROPERTY
  SensorIsNotRushed
