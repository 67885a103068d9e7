-------------------------------- MODULE Dht --------------------------------
(***************************************************************************)
(* The temperature and humidity sensor of the Arduino: the handler of      *)
(* TemperatureHumidityHandler.cpp over the driver of cactus_io_DHT22.cpp,  *)
(* which must not ask the sensor twice within two seconds and answers from *)
(* the data of its last reading instead.                                   *)
(***************************************************************************)
EXTENDS Integers

CONSTANTS
  Wrap,                        \* number of values of an unsigned long
  DHT22_SENSOR_INTERVAL_TIME,
  ReadInterval,                \* the two seconds of DHT22::read
  MaxPass                      \* bound: time one round of the main loop may take

ASSUME DhtAssumption ==
  /\ Wrap \in Nat /\ ReadInterval \in Nat /\ MaxPass \in Nat
  /\ MaxPass < ReadInterval
  /\ DHT22_SENSOR_INTERVAL_TIME \in Nat
  /\ ReadInterval <= DHT22_SENSOR_INTERVAL_TIME
  /\ DHT22_SENSOR_INTERVAL_TIME + 2 * MaxPass < Wrap

VARIABLES
  millis,
  timer,                    \* TemperatureHumidityHandler.timer
  dht_humidity,             \* dht.humidity; the handler copies it
  dht_temperature,          \* dht.temperature_C; the handler copies it
  data, firstreading, _lastreadtime,      \* of DHT22
  broken,                   \* may the sensor fail to answer?
  at, lag,                  \* where loop() is, and for how long
  sampled                   \* history: time since the sensor was asked, capped

dhtVars == <<data, firstreading, _lastreadtime, sampled>>
vars == <<millis, timer, dht_humidity, dht_temperature, dhtVars, broken, at, lag>>

(* What a reading is: nothing yet, checked by its checksum, or not; and    *)
(* what is made of it: a value from such a reading, or not a number.       *)
Reading == {"none", "checked", "unchecked"}
Value == Reading \cup {"nan"}

TypeOK ==
  /\ millis \in 0 .. Wrap - 1
  /\ timer \in 0 .. Wrap - 1
  /\ dht_humidity \in Value /\ dht_temperature \in Value
  /\ data \in Reading
  /\ firstreading \in BOOLEAN
  /\ _lastreadtime \in 0 .. Wrap - 1
  /\ broken \in BOOLEAN
  /\ at \in {"loop", "temperature"}
  /\ lag \in 0 .. MaxPass
  /\ sampled \in 0 .. ReadInterval

Init ==
  /\ millis = 0 /\ timer = 0
  /\ dht_humidity = "none" /\ dht_temperature = "none"
  /\ data = "none" /\ firstreading = TRUE /\ _lastreadtime = 0
  /\ broken \in BOOLEAN
  /\ at = "loop" /\ lag = 0
  /\ sampled = ReadInterval

-----------------------------------------------------------------------------
(* DHT22::read: the answer is `value', unless it is not a number.          *)

(* Operators named X_Y are X with a slip Y that the checks must notice.    *)
LastRead_Signed == IF millis < _lastreadtime THEN _lastreadtime - Wrap ELSE _lastreadtime

LastRead_Inverted == IF millis >= _lastreadtime THEN 0 ELSE _lastreadtime

(* After a rollover of the clock the last reading counts as made at 0.     *)
LastRead == IF millis < _lastreadtime THEN 0 ELSE _lastreadtime

(* The last data may still be used.                                        *)
Recent == ~firstreading /\ millis - LastRead < ReadInterval

ReadCached(value) ==
  /\ Recent
  /\ value = data
  /\ _lastreadtime' = LastRead
  /\ UNCHANGED <<data, firstreading, sampled>>

ReadSensor_Unchecked(value) ==
  /\ ~Recent
  /\ \/ value = "checked" /\ data' = "checked"
     \/ broken /\ value = "unchecked" /\ data' = "unchecked"
  /\ firstreading' = FALSE
  /\ _lastreadtime' = millis
  /\ sampled' = 0

ReadSensor(value) ==
  /\ ~Recent
  /\ \/ value = "checked" /\ data' = "checked"
     \/ broken /\ value = "nan" /\ data' = "unchecked"
  /\ firstreading' = FALSE
  /\ _lastreadtime' = millis
  /\ sampled' = 0

Read(value) == ReadCached(value) \/ ReadSensor(value)

-----------------------------------------------------------------------------
(* TemperatureHumidityHandler::loop                                        *)

IsTime == (millis - timer) % Wrap >= DHT22_SENSOR_INTERVAL_TIME
IsNan == dht_humidity = "nan" \/ dht_temperature = "nan"

NotYet ==
  /\ at = "loop" /\ ~IsTime
  /\ lag' = 0
  /\ UNCHANGED <<millis, timer, dht_humidity, dht_temperature, dhtVars, broken, at>>

(* The check of the values comes before they are read again.               *)
ReportFailure ==
  /\ at = "loop" /\ IsTime /\ IsNan
  /\ timer' = millis
  /\ lag' = 0
  /\ UNCHANGED <<millis, dht_humidity, dht_temperature, dhtVars, broken, at>>

readHumidity ==
  /\ at = "loop" /\ IsTime /\ ~IsNan
  /\ timer' = millis
  /\ \E value \in Value : Read(value) /\ dht_humidity' = value
  /\ at' = "temperature"
  /\ UNCHANGED <<millis, dht_temperature, broken, lag>>

readTemperature ==
  /\ at = "temperature"
  /\ \E value \in Value : Read(value) /\ dht_temperature' = value
  /\ at' = "loop" /\ lag' = 0
  /\ UNCHANGED <<millis, timer, dht_humidity, broken>>

Tick ==
  /\ lag < MaxPass
  /\ lag' = lag + 1
  /\ millis' = (millis + 1) % Wrap
  /\ sampled' = IF sampled < ReadInterval THEN sampled + 1 ELSE sampled
  /\ UNCHANGED <<timer, dht_humidity, dht_temperature, data, firstreading,
                 _lastreadtime, broken, at>>

(* The sensor, or its wire, breaks and is repaired.                        *)
SensorChanges ==
  /\ broken' = ~broken
  /\ UNCHANGED <<millis, timer, dht_humidity, dht_temperature, dhtVars, at, lag>>

Loop == NotYet \/ ReportFailure \/ readHumidity \/ readTemperature

Next == Tick \/ Loop \/ SensorChanges

Spec == Init /\ [][Next]_vars

(* The processor runs its loop and time passes.                            *)
FairSpec == Spec /\ WF_vars(Tick) /\ WF_vars(Loop)

-----------------------------------------------------------------------------
(* Safety                                                                  *)

(* The sensor is not asked within two seconds of the last time, although   *)
(* the driver forgets that time when the clock wraps.                      *)
SensorIsNotRushed == [][sampled' = 0 /\ sampled # 0 => sampled = ReadInterval]_vars

(* A humidity that failed its checksum is not taken for a value.           *)
HumidityIsChecked == dht_humidity # "unchecked"

-----------------------------------------------------------------------------
(* readme.md: "the Arduino will gather the data from the sensor            *)
(* periodically": when the sensor works again for good, so do its values.  *)
SensorRecovers == <>[](~broken) => <>[](dht_humidity # "nan")

=============================================================================
