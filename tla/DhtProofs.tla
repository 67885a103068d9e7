----------------------------- MODULE DhtProofs -----------------------------
(***************************************************************************)
(* Theorems about Dht, for any intervals and any wrap of the clock that    *)
(* satisfy DhtAssumption.                                                  *)
(***************************************************************************)
EXTENDS Dht, ClockProofs

(* Values that failed their checksum come with a sign of it, which stops   *)
(* the handler before it asks the driver again: the failure shows in the   *)
(* humidity or, at the end of a round, in the temperature.                 *)
FailureShows ==
  data = "unchecked" =>
    dht_humidity = "nan" \/ (at = "loop" /\ dht_temperature = "nan")

(* What the driver takes for the age of its data is never too much while   *)
(* the sensor may not be asked, wherever the clock wraps.                  *)
AgeIsNotOverrated ==
  sampled < ReadInterval => ~firstreading /\ millis - LastRead <= sampled

IInv == TypeOK /\ HumidityIsChecked /\ FailureShows /\ AgeIsNotOverrated

-----------------------------------------------------------------------------
LEMMA Constants ==
  /\ Wrap \in Nat \ {0} /\ ReadInterval \in Nat \ {0} /\ MaxPass \in Nat
  /\ "nan" \in Value /\ Reading \subseteq Value
BY DhtAssumption DEF DhtAssumption, Value, Reading

LEMMA Ages ==
  ASSUME TypeOK
  PROVE  /\ millis \in 0 .. Wrap - 1 /\ _lastreadtime \in 0 .. Wrap - 1
         /\ LastRead \in 0 .. Wrap - 1 /\ LastRead <= millis
         /\ sampled \in 0 .. ReadInterval
BY Constants DEF TypeOK, LastRead

(* The driver asks the sensor, or answers from what it has.                *)
LEMMA ReadSteps ==
  ASSUME IInv, NEW value \in Value, Read(value), millis' = millis
  PROVE  /\ data' \in Reading /\ firstreading' \in BOOLEAN
         /\ _lastreadtime' \in 0 .. Wrap - 1 /\ sampled' \in 0 .. ReadInterval
         /\ AgeIsNotOverrated'
         /\ \/ value = data /\ UNCHANGED <<data, sampled>>
            \/ /\ (value = "checked" /\ data' = "checked") \/ value = "nan"
               /\ sampled' = 0 /\ sampled = ReadInterval
<1>1. /\ TypeOK /\ AgeIsNotOverrated
      /\ millis \in 0 .. Wrap - 1 /\ _lastreadtime \in 0 .. Wrap - 1
      /\ LastRead \in 0 .. Wrap - 1 /\ LastRead <= millis
      /\ sampled \in 0 .. ReadInterval
  BY Ages DEF IInv
<1>2. CASE ReadCached(value)
  <2>1. /\ value = data /\ _lastreadtime' = LastRead
        /\ UNCHANGED <<data, firstreading, sampled>>
    BY <1>2 DEF ReadCached
  <2>2. LastRead' = LastRead
    BY <1>1, <2>1, Constants DEF LastRead
  <2>3. AgeIsNotOverrated'
    BY <1>1, <2>1, <2>2 DEF AgeIsNotOverrated
  <2> QED
    BY <1>1, <2>1, <2>3 DEF TypeOK
<1>3. CASE ReadSensor(value)
  <2>1. /\ ~Recent
        /\ \/ value = "checked" /\ data' = "checked"
           \/ value = "nan" /\ data' = "unchecked"
        /\ firstreading' = FALSE /\ _lastreadtime' = millis /\ sampled' = 0
    BY <1>3 DEF ReadSensor
  <2>2. sampled = ReadInterval
    BY <1>1, <2>1, Constants DEF Recent, AgeIsNotOverrated
  <2>3. millis' - LastRead' = 0
    BY <1>1, <2>1 DEF LastRead
  <2>4. AgeIsNotOverrated'
    BY <2>1, <2>3 DEF AgeIsNotOverrated
  <2>5. /\ data' \in Reading /\ firstreading' \in BOOLEAN
        /\ _lastreadtime' \in 0 .. Wrap - 1 /\ sampled' \in 0 .. ReadInterval
    <3>1. data' \in Reading
      BY <2>1 DEF Reading
    <3>2. firstreading' \in BOOLEAN
      BY <2>1
    <3> QED
      BY <1>1, <2>1, <3>1, <3>2, Constants
  <2> QED
    BY <2>1, <2>2, <2>4, <2>5
<1> QED
  BY <1>2, <1>3 DEF Read

-----------------------------------------------------------------------------
(* The invariant is inductive                                              *)

LEMMA InitInvariant == Init => IInv
BY Constants DEF Init, IInv, TypeOK, HumidityIsChecked, FailureShows, AgeIsNotOverrated,
   Reading, Value

LEMMA TickInvariant == IInv /\ Tick => IInv'
<1> SUFFICES ASSUME IInv, Tick PROVE IInv'
  OBVIOUS
<1>1. /\ lag < MaxPass /\ lag' = lag + 1
      /\ sampled' = IF sampled < ReadInterval THEN sampled + 1 ELSE sampled
      /\ UNCHANGED <<timer, dht_humidity, dht_temperature, data, firstreading,
                     _lastreadtime, broken, at>>
  BY DEF Tick
<1>2. /\ TypeOK /\ AgeIsNotOverrated
      /\ millis \in 0 .. Wrap - 1 /\ _lastreadtime \in 0 .. Wrap - 1
      /\ sampled \in 0 .. ReadInterval
  BY Ages DEF IInv
<1>3. millis' \in 0 .. Wrap - 1 /\ (millis' = millis + 1 \/ millis' = 0)
  BY <1>2, Constants, NextTime DEF Tick
<1>4. TypeOK'
  BY <1>1, <1>2, <1>3, Constants DEF TypeOK
<1>5. AgeIsNotOverrated'
  <2> SUFFICES ASSUME sampled' < ReadInterval
               PROVE  ~firstreading /\ millis' - LastRead' <= sampled'
    BY <1>1 DEF AgeIsNotOverrated
  <2>1. sampled < ReadInterval /\ sampled' = sampled + 1
    BY <1>1, <1>2, Constants
  <2>2. ~firstreading /\ millis - LastRead <= sampled
    BY <1>2, <2>1 DEF AgeIsNotOverrated
  <2>3. millis' - LastRead' <= sampled + 1
    <3>1. /\ LastRead = IF millis < _lastreadtime THEN 0 ELSE _lastreadtime
          /\ LastRead' = IF millis' < _lastreadtime THEN 0 ELSE _lastreadtime
      BY <1>1 DEF LastRead
    <3>2. millis - LastRead <= sampled
      BY <2>2
    <3>3. millis \in Nat /\ _lastreadtime \in Nat /\ sampled \in Nat
      BY <1>2, Constants
    <3>4. CASE millis' = 0
      BY <3>1, <3>3, <3>4
    <3>5. CASE millis' = millis + 1
      BY <3>1, <3>2, <3>3, <3>5
    <3> QED
      BY <1>3, <3>4, <3>5
  <2> QED
    BY <2>1, <2>2, <2>3
<1> QED
  BY <1>1, <1>4, <1>5 DEF IInv, HumidityIsChecked, FailureShows

LEMMA LoopInvariant == IInv /\ Loop => IInv'
<1> SUFFICES ASSUME IInv, Loop PROVE IInv'
  OBVIOUS
<1>1. TypeOK /\ 0 \in 0 .. MaxPass /\ millis \in 0 .. Wrap - 1
  BY Constants DEF IInv, TypeOK
<1>2. CASE NotYet \/ ReportFailure
  <2>1. UNCHANGED <<millis, dht_humidity, dht_temperature, dhtVars, broken, at>>
    BY <1>2 DEF NotYet, ReportFailure
  <2>2. TypeOK'
    BY <1>1, <1>2 DEF TypeOK, NotYet, ReportFailure, dhtVars
  <2> QED
    BY <2>1, <2>2 DEF IInv, HumidityIsChecked, FailureShows, AgeIsNotOverrated, LastRead,
       dhtVars
<1>3. CASE readHumidity
  <2>1. /\ at = "loop" /\ ~IsNan /\ timer' = millis /\ at' = "temperature"
        /\ UNCHANGED <<millis, dht_temperature, broken, lag>>
    BY <1>3 DEF readHumidity
  <2>2. PICK value \in Value : Read(value) /\ dht_humidity' = value
    BY <1>3 DEF readHumidity
  <2>3. data # "unchecked"
    BY <2>1 DEF IInv, FailureShows, IsNan
  <2>4. TypeOK'
    BY <1>1, <2>1, <2>2, ReadSteps DEF TypeOK
  <2>5. HumidityIsChecked' /\ FailureShows'
    BY <2>1, <2>2, <2>3, ReadSteps DEF HumidityIsChecked, FailureShows
  <2> QED
    BY <2>1, <2>2, <2>4, <2>5, ReadSteps DEF IInv
<1>4. CASE readTemperature
  <2>1. /\ at = "temperature" /\ at' = "loop" /\ lag' = 0
        /\ UNCHANGED <<millis, timer, dht_humidity, broken>>
    BY <1>4 DEF readTemperature
  <2>2. PICK value \in Value : Read(value) /\ dht_temperature' = value
    BY <1>4 DEF readTemperature
  <2>3. TypeOK'
    BY <1>1, <2>1, <2>2, ReadSteps DEF TypeOK
  <2>4. HumidityIsChecked' /\ FailureShows'
    BY <2>1, <2>2, ReadSteps DEF IInv, HumidityIsChecked, FailureShows
  <2> QED
    BY <2>1, <2>2, <2>3, <2>4, ReadSteps DEF IInv
<1> QED
  BY <1>2, <1>3, <1>4 DEF Loop

LEMMA NextInvariant == IInv /\ [Next]_vars => IInv'
<1> SUFFICES ASSUME IInv, [Next]_vars PROVE IInv'
  OBVIOUS
<1>1. CASE UNCHANGED <<millis, timer, dht_humidity, dht_temperature, dhtVars, at, lag>>
           /\ broken' \in BOOLEAN
  <2>1. TypeOK'
    BY <1>1 DEF IInv, TypeOK, dhtVars
  <2> QED
    BY <1>1, <2>1 DEF IInv, HumidityIsChecked, FailureShows, AgeIsNotOverrated, LastRead,
       dhtVars
<1>2. CASE SensorChanges
  BY <1>1, <1>2 DEF SensorChanges
<1>3. CASE UNCHANGED vars
  BY <1>1, <1>3 DEF vars, IInv, TypeOK
<1> QED
  BY <1>2, <1>3, TickInvariant, LoopInvariant DEF Next

-----------------------------------------------------------------------------
(* The driver knows well enough how old its data are, and rejected data    *)
(* are never there unnoticed.                                              *)
THEOREM Invariance == Spec => []IInv
<1> QED
  BY InitInvariant, NextInvariant, PTL DEF Spec

(* The variables of Dht keep their types.                                  *)
THEOREM TypeCorrect == Spec => []TypeOK
<1>1. IInv => TypeOK
  BY DEF IInv
<1> QED
  BY <1>1, Invariance, PTL

(* A humidity that failed its checksum is never taken for a value,         *)
(* although the driver answers from data that failed it.                   *)
THEOREM HumidityIsGood == Spec => []HumidityIsChecked
<1>1. IInv => HumidityIsChecked
  BY DEF IInv
<1> QED
  BY <1>1, Invariance, PTL

(* The sensor is left alone for its two seconds, whenever the clock wraps. *)
THEOREM SensorHasTime == Spec => SensorIsNotRushed
<1>1. IInv /\ [Next]_vars => [sampled' = 0 /\ sampled # 0 => sampled = ReadInterval]_vars
  <2> SUFFICES ASSUME IInv, Next, sampled' = 0, sampled # 0 PROVE sampled = ReadInterval
    BY DEF vars, dhtVars
  <2>1. sampled \in 0 .. ReadInterval /\ ReadInterval \in Nat
    BY Ages, Constants DEF IInv
  <2>2. CASE Tick
    BY <2>1, <2>2 DEF Tick
  <2>3. CASE NotYet \/ ReportFailure \/ SensorChanges
    BY <2>3 DEF NotYet, ReportFailure, SensorChanges, dhtVars
  <2>4. CASE readHumidity
    BY <2>4, ReadSteps DEF readHumidity
  <2>5. CASE readTemperature
    BY <2>5, ReadSteps DEF readTemperature
  <2> QED
    BY <2>2, <2>3, <2>4, <2>5 DEF Next, Loop
<1> QED
  BY <1>1, Invariance, PTL DEF Spec, SensorIsNotRushed
=============================================================================
