------------------------------ MODULE Monitor ------------------------------
(***************************************************************************)
(* The flame, smoke and motion sensors of the Arduino (FlameHandler.cpp,   *)
(* SmokeHandler.cpp, MotionHandler.cpp) and the periodic report of main.ino*)
(* that reads them.  A detection raises an alarm that is held for an up    *)
(* time; one thread visits the sensors and then the report in turn, and    *)
(* may be late, because everything else on the Arduino runs in it too.     *)
(***************************************************************************)
EXTENDS Integers

CONSTANTS
  Count,        \* the sensors are 1 .. Count, in the order of loop()
  Wrap,         \* number of values of a uint32_t
  READ_TIME,    \* X_SENSOR_READ_TIME of each sensor; 0 for motion, read always
  UP_TIME,      \* X_SENSOR_UP_TIME of each sensor
  POST_TO_SERVER_INTERVAL,
  MaxPass       \* bound: time one round of the main loop may take

Sensor == 1 .. Count

ASSUME MonitorAssumption ==
  /\ Count \in Nat \ {0}
  /\ Wrap \in Nat /\ MaxPass \in Nat \ {0}
  /\ POST_TO_SERVER_INTERVAL \in Nat \ {0}
  /\ READ_TIME \in [Sensor -> Nat] /\ UP_TIME \in [Sensor -> Nat]
  /\ POST_TO_SERVER_INTERVAL + 2 * MaxPass < Wrap
  /\ \A s \in Sensor :
       /\ UP_TIME[s] + READ_TIME[s] + 4 * MaxPass < Wrap
       /\ POST_TO_SERVER_INTERVAL + 2 * MaxPass <= UP_TIME[s]

VARIABLES
  millis,           \* the clock of the Arduino
  level,            \* what each sensor senses: danger or not
  alarm,            \* flame, smoke and motion
  useTimer, alarmTimer,
  sending_timer,
  at,               \* where loop() is: a sensor, or Count + 1, the report
  lag,              \* time since this round of the main loop began
  sensed,           \* history: time for which each danger lasts, capped
  since,            \* history: time since each sensor was last read as danger
  unreported,       \* history: alarms raised that no report has told yet
  unsent            \* history: time since a report could not be sent, capped

vars == <<millis, level, alarm, useTimer, alarmTimer, sending_timer, at, lag,
          sensed, since, unreported, unsent>>

Clock == 0 .. Wrap - 1

(* Caps of the histories, beyond which they say nothing more.              *)
SensedCap(s) == READ_TIME[s] + 2 * MaxPass + 1
SinceCap(s) == UP_TIME[s] + READ_TIME[s] + 2 * MaxPass + 1
UnsentCap == POST_TO_SERVER_INTERVAL + MaxPass

TypeOK ==
  /\ millis \in Clock
  /\ level \in [Sensor -> BOOLEAN]
  /\ alarm \in [Sensor -> BOOLEAN]
  /\ useTimer \in [Sensor -> Clock]
  /\ alarmTimer \in [Sensor -> Clock]
  /\ sending_timer \in Clock
  /\ at \in 1 .. Count + 1
  /\ lag \in 0 .. MaxPass
  /\ sensed \in [Sensor -> Nat]
  /\ since \in [Sensor -> Nat]
  /\ unreported \in SUBSET Sensor
  /\ unsent \in 0 .. UnsentCap

Init ==
  /\ millis = 0
  /\ level = [s \in Sensor |-> FALSE]
  /\ alarm = [s \in Sensor |-> FALSE]
  /\ useTimer = [s \in Sensor |-> millis]
  /\ alarmTimer = [s \in Sensor |-> millis]
  /\ sending_timer = millis
  /\ at = 1 /\ lag = 0
  /\ sensed = [s \in Sensor |-> 0]
  /\ since = [s \in Sensor |-> SinceCap(s)]
  /\ unreported = {}
  /\ unsent = UnsentCap

-----------------------------------------------------------------------------
(* Operators named X_Y are X with a slip Y that the checks must notice.    *)

Passed_Absolute(t) == IF millis < t THEN 0 ELSE millis - t

(* millis() - t, in uint32_t.                                              *)
Passed(t) == (millis - t) % Wrap

(* Danger begins or ends at any time.                                      *)
LevelChanges(s) ==
  /\ level' = [level EXCEPT ![s] = ~@]
  /\ sensed' = [sensed EXCEPT ![s] = 0]
  /\ UNCHANGED <<millis, alarm, useTimer, alarmTimer, sending_timer, at, lag,
                 since, unreported, unsent>>

Detect_Once(s) ==
  /\ alarm' = [alarm EXCEPT ![s] = TRUE]
  /\ alarmTimer' = [alarmTimer EXCEPT ![s] = IF alarm[s] THEN @ ELSE millis]
  /\ since' = [since EXCEPT ![s] = 0]
  /\ unreported' = IF alarm[s] THEN unreported ELSE unreported \cup {s}

(* A reading of danger raises the alarm or holds it up.                    *)
Detect(s) ==
  /\ alarm' = [alarm EXCEPT ![s] = TRUE]
  /\ alarmTimer' = [alarmTimer EXCEPT ![s] = millis]
  /\ since' = [since EXCEPT ![s] = 0]
  /\ unreported' = IF alarm[s] THEN unreported ELSE unreported \cup {s}

(* A reading of no danger ends the alarm after its up time.                *)
Calm(s) ==
  /\ alarm' = [alarm EXCEPT ![s] = @ /\ Passed(alarmTimer[s]) <= UP_TIME[s]]
  /\ UNCHANGED <<alarmTimer, since, unreported>>

(* loop() of one sensor, which it reads if its READ_TIME has passed.       *)
Visit(s) ==
  /\ at = s
  /\ at' = s + 1
  /\ \/ /\ Passed(useTimer[s]) >= READ_TIME[s]
        /\ useTimer' = [useTimer EXCEPT ![s] = millis]
        /\ \/ level[s] /\ Detect(s)
           \/ ~level[s] /\ Calm(s)
     \/ /\ Passed(useTimer[s]) < READ_TIME[s]
        /\ UNCHANGED <<useTimer, alarm, alarmTimer, since, unreported>>
  /\ UNCHANGED <<millis, level, sending_timer, lag, sensed, unsent>>

(* NetworkHandler::send, which the network may refuse.                     *)
Sent ==
  \/ unreported' = {s \in unreported : ~alarm[s]} /\ UNCHANGED unsent
  \/ unsent' = 0 /\ UNCHANGED unreported

report_data_to_server_TimerFirst ==
  /\ at = Count + 1
  /\ at' = 1 /\ lag' = 0
  /\ sending_timer' = millis
  /\ \/ Passed(sending_timer) >= POST_TO_SERVER_INTERVAL /\ Sent
     \/ /\ Passed(sending_timer) < POST_TO_SERVER_INTERVAL
        /\ UNCHANGED <<unreported, unsent>>
  /\ UNCHANGED <<millis, level, alarm, useTimer, alarmTimer, sensed, since>>

report_data_to_server_Advanced ==
  /\ at = Count + 1
  /\ at' = 1 /\ lag' = 0
  /\ \/ /\ Passed(sending_timer) >= POST_TO_SERVER_INTERVAL
        /\ sending_timer' = sending_timer + POST_TO_SERVER_INTERVAL
        /\ Sent
     \/ /\ Passed(sending_timer) < POST_TO_SERVER_INTERVAL
        /\ UNCHANGED <<sending_timer, unreported, unsent>>
  /\ UNCHANGED <<millis, level, alarm, useTimer, alarmTimer, sensed, since>>

(* report_data_to_server hands over the alarms as they stand and restarts  *)
(* its timer whatever becomes of them.                                     *)
report_data_to_server ==
  /\ at = Count + 1
  /\ at' = 1 /\ lag' = 0
  /\ \/ /\ Passed(sending_timer) >= POST_TO_SERVER_INTERVAL
        /\ sending_timer' = millis
        /\ Sent
     \/ /\ Passed(sending_timer) < POST_TO_SERVER_INTERVAL
        /\ UNCHANGED <<sending_timer, unreported, unsent>>
  /\ UNCHANGED <<millis, level, alarm, useTimer, alarmTimer, sensed, since>>

(* Time passes between any two steps.                                      *)
Tick ==
  /\ lag < MaxPass
  /\ lag' = lag + 1
  /\ millis' = (millis + 1) % Wrap
  /\ sensed' = [s \in Sensor |->
       IF level[s] /\ sensed[s] < SensedCap(s) THEN sensed[s] + 1 ELSE sensed[s]]
  /\ since' = [s \in Sensor |->
       IF since[s] < SinceCap(s) THEN since[s] + 1 ELSE since[s]]
  /\ unsent' = IF unsent < UnsentCap THEN unsent + 1 ELSE unsent
  /\ UNCHANGED <<level, alarm, useTimer, alarmTimer, sending_timer, at, unreported>>

Loop == report_data_to_server \/ \E s \in Sensor : Visit(s)

Next == Tick \/ Loop \/ \E s \in Sensor : LevelChanges(s)

Spec == Init /\ [][Next]_vars

-----------------------------------------------------------------------------
(* Safety                                                                  *)

(* An alarm stays up for the up time after the last reading of danger, and *)
(* it is down when that is so long ago that a calm reading must have come, *)
(* although the timers wrap.                                               *)
AlarmIsHeld ==
  \A s \in Sensor :
    /\ since[s] <= UP_TIME[s] => alarm[s]
    /\ since[s] > UP_TIME[s] + READ_TIME[s] + 2 * MaxPass => ~alarm[s]

(* Danger that lasts longer than the time between two readings raises the  *)
(* alarm, however late the loop is and wherever the clock wraps.           *)
DangerIsDetected ==
  \A s \in Sensor :
    level[s] /\ sensed[s] > READ_TIME[s] + 2 * MaxPass => alarm[s]

(* An alarm is not over before a report has told it: main.ino samples the  *)
(* alarms, so their up time is what makes a short detection reach anyone.  *)
(* A report that could not be sent is not repeated; the next one makes up  *)
(* for it, and an alarm is lost only if it ends before that one is due.    *)
AlarmIsReported ==
  [][\A s \in Sensor :
       alarm[s] /\ ~alarm'[s] /\ s \in unreported => unsent < UnsentCap]_vars

=============================================================================
