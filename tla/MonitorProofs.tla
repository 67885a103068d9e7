--------------------------- MODULE MonitorProofs ---------------------------
(***************************************************************************)
(* Theorems about Monitor, for any number of sensors, any reading times,   *)
(* up times and report interval that satisfy MonitorAssumption, and any    *)
(* wrap of the clock.                                                      *)
(***************************************************************************)
EXTENDS Monitor, ClockProofs

(* What the program reads on its timers.                                   *)
Used(s) == Passed(useTimer[s])
Alarmed(s) == Passed(alarmTimer[s])
Reported == Passed(sending_timer)

-----------------------------------------------------------------------------
(* The inductive invariant                                                 *)

(* A sensor is read, or was found not to be due, in every round.           *)
ReadsInTime ==
  \A s \in Sensor :
    /\ Used(s) <= READ_TIME[s] + MaxPass + lag
    /\ at > s => Used(s) <= READ_TIME[s] + lag

(* An alarm timer shows the time since the last danger.                    *)
AlarmTimersAreExact ==
  \A s \in Sensor :
    since[s] <= SinceCap(s) /\ (since[s] < SinceCap(s) => Alarmed(s) = since[s])

(* An alarm that is up was still due at the last reading.                  *)
AlarmsEnd == \A s \in Sensor : alarm[s] => since[s] <= UP_TIME[s] + Used(s)
AlarmsLast == \A s \in Sensor : since[s] <= UP_TIME[s] => alarm[s]

(* Danger that raised no alarm began after the last reading.               *)
DangerIsNew ==
  \A s \in Sensor :
    /\ ~level[s] => sensed[s] = 0
    /\ level[s] /\ ~alarm[s] => sensed[s] <= Used(s)

(* The last report is not old, and an alarm it did not tell was raised     *)
(* after it, or it could not be sent.                                      *)
ReportsInTime == Reported <= POST_TO_SERVER_INTERVAL - 1 + lag
UntoldIsNew ==
  \A s \in Sensor :
    s \in unreported /\ alarm[s] => since[s] <= Reported \/ unsent <= Reported

IInv ==
  /\ TypeOK
  /\ ReadsInTime /\ AlarmTimersAreExact /\ AlarmsEnd /\ AlarmsLast
  /\ DangerIsNew /\ ReportsInTime /\ UntoldIsNew

-----------------------------------------------------------------------------
(* The clock                                                               *)

LEMMA Constants ==
  /\ Wrap \in Nat \ {0} /\ MaxPass \in Nat \ {0} /\ Count \in Nat
  /\ POST_TO_SERVER_INTERVAL \in Nat \ {0}
  /\ POST_TO_SERVER_INTERVAL + 2 * MaxPass < Wrap
  /\ \A s \in Sensor :
       /\ READ_TIME[s] \in Nat /\ UP_TIME[s] \in Nat
       /\ UP_TIME[s] + READ_TIME[s] + 4 * MaxPass < Wrap
       /\ POST_TO_SERVER_INTERVAL + 2 * MaxPass <= UP_TIME[s]
       /\ SinceCap(s) = UP_TIME[s] + READ_TIME[s] + 2 * MaxPass + 1
       /\ SensedCap(s) = READ_TIME[s] + 2 * MaxPass + 1
BY MonitorAssumption DEF MonitorAssumption, SinceCap, SensedCap

(* A timer that is set now, and one that is not.                           *)
LEMMA TimersRead ==
  ASSUME TypeOK, NEW t \in Clock
  PROVE  Passed(t) \in 0 .. Wrap - 1 /\ Passed(millis) = 0
BY Constants, TimerRange DEF TypeOK, Clock, Passed

(* Time passes for every timer that is not about to wrap.                  *)
LEMMA TimersTick ==
  ASSUME TypeOK, Tick, NEW t \in Clock, Passed(t) + 1 < Wrap
  PROVE  (millis' - t) % Wrap = Passed(t) + 1
<1>1. millis \in 0 .. Wrap - 1 /\ Wrap \in Nat \ {0}
  BY Constants DEF TypeOK, Clock
<1>2. millis' = (millis + 1) % Wrap
  BY DEF Tick
<1>3. (((millis + 1) % Wrap) - t) % Wrap = ((millis - t) % Wrap) + 1
  BY <1>1, TimerTicks DEF Passed, Clock
<1> QED
  BY <1>2, <1>3 DEF Passed

-----------------------------------------------------------------------------
(* Types                                                                   *)

LEMMA InitType == Init => TypeOK
<1> SUFFICES ASSUME Init PROVE TypeOK
  OBVIOUS
<1>1. 0 \in Clock /\ UnsentCap \in Nat /\ 1 \in 1 .. Count + 1
  BY Constants DEF Clock, UnsentCap
<1>2. since \in [Sensor -> Nat]
  BY Constants DEF Init
<1> QED
  BY <1>1, <1>2, Constants DEF Init, TypeOK

LEMMA NextType == TypeOK /\ [Next]_vars => TypeOK'
<1> SUFFICES ASSUME TypeOK, [Next]_vars PROVE TypeOK'
  OBVIOUS
<1>1. CASE Tick
  <2>1. millis' \in Clock
    BY <1>1, Constants, NextTime DEF Tick, TypeOK, Clock
  <2>2. sensed' \in [Sensor -> Nat] /\ since' \in [Sensor -> Nat]
    BY <1>1, Constants DEF Tick, TypeOK
  <2>3. unsent' \in 0 .. UnsentCap
    BY <1>1, Constants DEF Tick, TypeOK, UnsentCap
  <2>4. /\ lag' \in 0 .. MaxPass
        /\ UNCHANGED <<level, alarm, useTimer, alarmTimer, sending_timer, at, unreported>>
    BY <1>1, Constants DEF Tick, TypeOK
  <2> QED
    BY <2>1, <2>2, <2>3, <2>4 DEF TypeOK
<1>2. CASE report_data_to_server
  BY <1>2, Constants DEF report_data_to_server, Sent, TypeOK, UnsentCap
<1>3. ASSUME NEW s \in Sensor, Visit(s) PROVE TypeOK'
  <2>1. at' \in 1 .. Count + 1 /\ millis \in Clock
    BY <1>3, Constants DEF Visit, Sensor, TypeOK
  <2>2. CASE UNCHANGED <<useTimer, alarm, alarmTimer, since, unreported>>
    BY <1>3, <2>1, <2>2, Constants DEF Visit, TypeOK, UnsentCap
  <2>3. CASE Detect(s) /\ useTimer' = [useTimer EXCEPT ![s] = millis]
    BY <1>3, <2>1, <2>3, Constants DEF Visit, Detect, TypeOK, UnsentCap
  <2>4. CASE Calm(s) /\ useTimer' = [useTimer EXCEPT ![s] = millis]
    BY <1>3, <2>1, <2>4, Constants DEF Visit, Calm, TypeOK, UnsentCap
  <2> QED
    BY <1>3, <2>2, <2>3, <2>4 DEF Visit
<1>4. ASSUME NEW s \in Sensor, LevelChanges(s) PROVE TypeOK'
  BY <1>4 DEF LevelChanges, TypeOK, UnsentCap
<1>5. CASE UNCHANGED vars
  BY <1>5 DEF vars, TypeOK, UnsentCap
<1> QED
  BY <1>1, <1>2, <1>3, <1>4, <1>5 DEF Next, Loop

(* Monitor's variables keep their types, and no timer leaves the clock.    *)
THEOREM TypeCorrect == Spec => []TypeOK
<1> QED
  BY InitType, NextType, PTL DEF Spec

-----------------------------------------------------------------------------
(* The steps                                                               *)

LEMMA TimersAre ==
  ASSUME TypeOK
  PROVE  /\ \A s \in Sensor : Used(s) \in 0 .. Wrap - 1 /\ Alarmed(s) \in 0 .. Wrap - 1
         /\ Reported \in 0 .. Wrap - 1
         /\ Passed(millis) = 0
<1>1. /\ \A s \in Sensor : useTimer[s] \in Clock /\ alarmTimer[s] \in Clock
      /\ sending_timer \in Clock
  BY DEF TypeOK
<1> QED
  BY <1>1, TimersRead DEF Used, Alarmed, Reported

LEMMA InitInvariant == Init => IInv
<1> SUFFICES ASSUME Init PROVE IInv
  OBVIOUS
<1>1. TypeOK
  BY InitType
<1>2. \A s \in Sensor : Used(s) = 0 /\ Alarmed(s) = 0
  BY <1>1, TimersAre DEF Init, Used, Alarmed
<1>3. Reported = 0
  BY <1>1, TimersAre DEF Init, Reported
<1>4. ReadsInTime /\ ReportsInTime
  BY <1>2, <1>3, Constants DEF Init, ReadsInTime, ReportsInTime, Sensor
<1>5. AlarmTimersAreExact /\ AlarmsEnd /\ AlarmsLast
  BY Constants DEF Init, AlarmTimersAreExact, AlarmsEnd, AlarmsLast
<1>6. DangerIsNew /\ UntoldIsNew
  BY DEF Init, DangerIsNew, UntoldIsNew
<1> QED
  BY <1>1, <1>4, <1>5, <1>6 DEF IInv

(* Time moves all timers and histories together.                           *)
LEMMA TickInvariant == IInv /\ Tick => IInv'
<1> SUFFICES ASSUME IInv, Tick PROVE IInv'
  OBVIOUS
<1>1. TypeOK /\ TypeOK'
  BY NextType DEF IInv, Next
<1>2. /\ lag \in 0 .. MaxPass /\ lag < MaxPass /\ lag' = lag + 1
      /\ at \in 1 .. Count + 1
      /\ UNCHANGED <<level, alarm, useTimer, alarmTimer, sending_timer, at, unreported>>
  BY <1>1 DEF Tick, TypeOK
<1>3. ASSUME NEW s \in Sensor PROVE Used(s) \in Nat /\ Used(s)' = Used(s) + 1
  <2>1. useTimer[s] \in Clock /\ Used(s) \in 0 .. Wrap - 1
    BY <1>1, TimersAre DEF TypeOK
  <2>2. Used(s) + 1 < Wrap
    BY <1>2, <2>1, Constants DEF IInv, ReadsInTime
  <2> QED
    BY <1>1, <1>2, <2>1, <2>2, TimersTick DEF Used, Passed
<1>4. ASSUME NEW s \in Sensor, since[s] < SinceCap(s)
      PROVE  Alarmed(s) = since[s] /\ Alarmed(s)' = since[s] + 1
  <2>1. alarmTimer[s] \in Clock /\ Alarmed(s) \in 0 .. Wrap - 1 /\ since[s] \in Nat
    BY <1>1, TimersAre DEF TypeOK
  <2>2. Alarmed(s) = since[s]
    BY <1>4 DEF IInv, AlarmTimersAreExact
  <2>3. Alarmed(s) + 1 < Wrap
    BY <1>4, <2>1, <2>2, Constants
  <2> QED
    BY <1>1, <1>2, <2>1, <2>2, <2>3, TimersTick DEF Alarmed, Passed
<1>5. Reported \in Nat /\ Reported' = Reported + 1
  <2>1. sending_timer \in Clock /\ Reported \in 0 .. Wrap - 1
    BY <1>1, TimersAre DEF TypeOK
  <2>2. Reported + 1 < Wrap
    BY <1>2, <2>1, Constants DEF IInv, ReportsInTime
  <2> QED
    BY <1>1, <1>2, <2>1, <2>2, TimersTick DEF Reported, Passed
<1>6. \A s \in Sensor :
        /\ since[s] \in Nat /\ sensed[s] \in Nat
        /\ since'[s] = IF since[s] < SinceCap(s) THEN since[s] + 1 ELSE since[s]
        /\ sensed'[s] = IF level[s] /\ sensed[s] < SensedCap(s)
                        THEN sensed[s] + 1 ELSE sensed[s]
  BY <1>1 DEF Tick, TypeOK
<1>7. ReadsInTime'
  BY <1>2, <1>3, Constants DEF IInv, ReadsInTime, Sensor
<1>8. AlarmTimersAreExact'
  BY <1>4, <1>6, Constants DEF IInv, AlarmTimersAreExact, SinceCap
<1>9. AlarmsEnd' /\ AlarmsLast'
  BY <1>2, <1>3, <1>6, Constants DEF IInv, AlarmsEnd, AlarmsLast
<1>10. DangerIsNew'
  BY <1>2, <1>3, <1>6, Constants DEF IInv, DangerIsNew
<1>11. ReportsInTime'
  BY <1>2, <1>5, Constants DEF IInv, ReportsInTime
<1>12. UntoldIsNew'
  <2>1. unsent \in Nat /\ unsent' \in {unsent, unsent + 1}
    BY <1>1, Constants DEF Tick, TypeOK, UnsentCap
  <2> QED
    BY <1>2, <1>5, <1>6, <2>1, Constants DEF IInv, UntoldIsNew, TypeOK
<1> QED
  BY <1>1, <1>7, <1>8, <1>9, <1>10, <1>11, <1>12 DEF IInv

(* A report begins the next round.                                         *)
LEMMA ReportInvariant == IInv /\ report_data_to_server => IInv'
<1> SUFFICES ASSUME IInv, report_data_to_server PROVE IInv'
  OBVIOUS
<1>1. TypeOK /\ TypeOK'
  BY NextType DEF IInv, Next, Loop
<1>2. /\ at' = 1 /\ lag' = 0 /\ lag \in 0 .. MaxPass /\ at = Count + 1
      /\ UNCHANGED <<millis, level, alarm, useTimer, alarmTimer, sensed, since>>
  BY <1>1 DEF report_data_to_server, TypeOK
<1>3. \A s \in Sensor : Used(s) \in Nat /\ Used(s)' = Used(s) /\ Alarmed(s)' = Alarmed(s)
  BY <1>1, <1>2, TimersAre DEF Used, Alarmed, Passed
<1>4. ReadsInTime'
  BY <1>2, <1>3, Constants DEF IInv, ReadsInTime, Sensor
<1>5. AlarmTimersAreExact' /\ AlarmsEnd' /\ AlarmsLast' /\ DangerIsNew'
  BY <1>2, <1>3 DEF IInv, AlarmTimersAreExact, AlarmsEnd, AlarmsLast, DangerIsNew, SinceCap
<1>6. \/ /\ Reported' = 0
         /\ \/ unreported' = {s \in unreported : ~alarm[s]}
            \/ unsent' = 0
      \/ /\ Reported < POST_TO_SERVER_INTERVAL /\ Reported' = Reported
         /\ UNCHANGED <<unreported, unsent>>
  <2>1. CASE sending_timer' = millis /\ Sent
    <3>1. Reported' = 0
      BY <1>1, <1>2, <2>1, TimersAre DEF Reported, Passed
    <3> QED
      BY <2>1, <3>1 DEF Sent
  <2>2. CASE /\ Passed(sending_timer) < POST_TO_SERVER_INTERVAL
             /\ UNCHANGED <<sending_timer, unreported, unsent>>
    BY <1>2, <2>2 DEF Reported, Passed
  <2> QED
    BY <2>1, <2>2 DEF report_data_to_server
<1>7. Reported \in Nat
  BY <1>1, TimersAre
<1>8. ReportsInTime'
  BY <1>2, <1>6, <1>7, Constants DEF ReportsInTime
<1>9. UntoldIsNew'
  BY <1>2, <1>6 DEF IInv, UntoldIsNew
<1> QED
  BY <1>1, <1>4, <1>5, <1>8, <1>9 DEF IInv

(* What a visit does: nothing but go on, or set the timer and look.        *)
LEMMA VisitSteps ==
  ASSUME TypeOK, NEW s \in Sensor, Visit(s)
  PROVE  /\ at = s /\ at' = s + 1
         /\ UNCHANGED <<millis, level, sending_timer, lag, sensed, unsent>>
         /\ Reported' = Reported
         /\ \A r \in Sensor \ {s} :
              /\ Used(r)' = Used(r) /\ Alarmed(r)' = Alarmed(r)
              /\ alarm'[r] = alarm[r] /\ since'[r] = since[r]
              /\ r \in unreported' <=> r \in unreported
         /\ \/ /\ Used(s) < READ_TIME[s] /\ Used(s)' = Used(s) /\ Alarmed(s)' = Alarmed(s)
               /\ UNCHANGED <<alarm, since, unreported>>
            \/ /\ level[s] /\ Used(s)' = 0 /\ Alarmed(s)' = 0
               /\ alarm'[s] /\ since'[s] = 0
            \/ /\ ~level[s] /\ Used(s)' = 0 /\ Alarmed(s)' = Alarmed(s)
               /\ alarm'[s] <=> alarm[s] /\ Alarmed(s) <= UP_TIME[s]
               /\ UNCHANGED <<since, unreported>>
<1>1. /\ at = s /\ at' = s + 1
      /\ UNCHANGED <<millis, level, sending_timer, lag, sensed, unsent>>
  BY DEF Visit
<1>2. Passed(millis) = 0
  BY TimersAre
<1>3. CASE Passed(useTimer[s]) < READ_TIME[s]
           /\ UNCHANGED <<useTimer, alarm, alarmTimer, since, unreported>>
  BY <1>1, <1>3 DEF Used, Alarmed, Reported, Passed
<1>4. CASE useTimer' = [useTimer EXCEPT ![s] = millis] /\ level[s] /\ Detect(s)
  <2>1. /\ useTimer'[s] = millis /\ alarmTimer'[s] = millis
        /\ alarm'[s] /\ since'[s] = 0
    BY <1>4 DEF Detect, TypeOK
  <2>2. \A r \in Sensor \ {s} :
          /\ useTimer'[r] = useTimer[r] /\ alarmTimer'[r] = alarmTimer[r]
          /\ alarm'[r] = alarm[r] /\ since'[r] = since[r]
          /\ r \in unreported' <=> r \in unreported
    BY <1>4 DEF Detect, TypeOK
  <2> QED
    BY <1>1, <1>2, <1>4, <2>1, <2>2 DEF Used, Alarmed, Reported, Passed
<1>5. CASE useTimer' = [useTimer EXCEPT ![s] = millis] /\ ~level[s] /\ Calm(s)
  <2>1. useTimer'[s] = millis /\ (alarm'[s] <=> alarm[s] /\ Alarmed(s) <= UP_TIME[s])
    BY <1>5 DEF Calm, TypeOK, Alarmed
  <2>2. \A r \in Sensor \ {s} : useTimer'[r] = useTimer[r] /\ alarm'[r] = alarm[r]
    BY <1>5 DEF Calm, TypeOK
  <2>3. UNCHANGED <<alarmTimer, since, unreported>>
    BY <1>5 DEF Calm
  <2> QED
    BY <1>1, <1>2, <1>5, <2>1, <2>2, <2>3 DEF Used, Alarmed, Reported, Passed
<1> QED
  BY <1>3, <1>4, <1>5 DEF Visit

LEMMA VisitInvariant == \A s \in Sensor : IInv /\ Visit(s) => IInv'
<1> SUFFICES ASSUME NEW s \in Sensor, IInv, Visit(s) PROVE IInv'
  OBVIOUS
<1>1. TypeOK /\ TypeOK'
  BY NextType DEF IInv, Next, Loop
<1>2. \A r \in Sensor :
        /\ Used(r) \in Nat /\ Alarmed(r) \in Nat /\ since[r] \in Nat /\ sensed[r] \in Nat
  BY <1>1, TimersAre DEF TypeOK
<1>3. lag \in 0 .. MaxPass /\ Reported \in Nat /\ s \in Nat
  <2>1. Reported \in Nat /\ lag \in 0 .. MaxPass
    BY <1>1, TimersAre, Constants DEF TypeOK
  <2>2. s \in Nat
    BY Constants DEF Sensor
  <2> QED
    BY <2>1, <2>2
<1>4. ReadsInTime'
  BY <1>1, <1>2, <1>3, VisitSteps, Constants DEF IInv, ReadsInTime, Sensor
<1>5. AlarmTimersAreExact'
  BY <1>1, <1>2, VisitSteps, Constants DEF IInv, AlarmTimersAreExact, SinceCap
<1>6. AlarmsEnd' /\ AlarmsLast'
  <2> SUFFICES ASSUME NEW r \in Sensor
               PROVE  /\ alarm'[r] => since'[r] <= UP_TIME[r] + Used(r)'
                      /\ since'[r] <= UP_TIME[r] => alarm'[r]
    BY DEF AlarmsEnd, AlarmsLast
  <2>1. alarm[r] => since[r] < SinceCap(r)
    BY <1>1, <1>2, <1>3, Constants DEF IInv, AlarmsEnd, ReadsInTime, TypeOK
  <2>2. since[r] <= UP_TIME[r] => since[r] < SinceCap(r)
    BY <1>2, Constants
  <2>3. /\ alarm[r] => since[r] <= UP_TIME[r] + Used(r)
        /\ since[r] <= UP_TIME[r] => alarm[r]
        /\ since[r] < SinceCap(r) => Alarmed(r) = since[r]
    BY DEF IInv, AlarmsEnd, AlarmsLast, AlarmTimersAreExact
  <2> QED
    BY <1>1, <1>2, <2>1, <2>2, <2>3, VisitSteps, Constants
<1>7. DangerIsNew'
  BY <1>1, <1>2, VisitSteps DEF IInv, DangerIsNew
<1>8. ReportsInTime'
  BY <1>1, VisitSteps DEF IInv, ReportsInTime
<1>9. UntoldIsNew'
  <2> SUFFICES ASSUME NEW r \in Sensor, r \in unreported', alarm'[r]
               PROVE  since'[r] <= Reported' \/ unsent' <= Reported'
    BY DEF UntoldIsNew
  <2>1. r \in unreported /\ alarm[r] => since[r] <= Reported \/ unsent <= Reported
    BY DEF IInv, UntoldIsNew
  <2>2. CASE r # s
    BY <1>1, <2>1, <2>2, VisitSteps
  <2>3. CASE r = s
    BY <1>1, <1>3, <2>1, <2>3, VisitSteps
  <2> QED
    BY <2>2, <2>3
<1> QED
  BY <1>1, <1>4, <1>5, <1>6, <1>7, <1>8, <1>9 DEF IInv

LEMMA NextInvariant == IInv /\ [Next]_vars => IInv'
<1> SUFFICES ASSUME IInv, [Next]_vars PROVE IInv'
  OBVIOUS
<1>1. CASE Tick
  BY <1>1, TickInvariant
<1>2. CASE report_data_to_server
  BY <1>2, ReportInvariant
<1>3. ASSUME NEW s \in Sensor, Visit(s) PROVE IInv'
  BY <1>3, VisitInvariant
<1>4. ASSUME NEW s \in Sensor, LevelChanges(s) PROVE IInv'
  <2>1. TypeOK /\ TypeOK'
    BY <1>4, NextType DEF IInv, Next
  <2>2. /\ UNCHANGED <<millis, alarm, useTimer, alarmTimer, sending_timer, at, lag,
                       since, unreported, unsent>>
        /\ Reported' = Reported
        /\ \A r \in Sensor : Used(r)' = Used(r) /\ Alarmed(r)' = Alarmed(r)
    BY <1>4 DEF LevelChanges, Used, Alarmed, Reported, Passed
  <2>3. DangerIsNew'
    <3>1. sensed'[s] = 0
      BY <1>4, <2>1 DEF LevelChanges, TypeOK
    <3>2. \A r \in Sensor \ {s} : sensed'[r] = sensed[r] /\ level'[r] = level[r]
      BY <1>4, <2>1 DEF LevelChanges, TypeOK
    <3>3. Used(s) \in Nat
      BY <2>1, TimersAre
    <3> QED
      BY <2>2, <3>1, <3>2, <3>3 DEF IInv, DangerIsNew
  <2> QED
    BY <2>1, <2>2, <2>3 DEF IInv, ReadsInTime, AlarmTimersAreExact, AlarmsEnd,
         AlarmsLast, ReportsInTime, UntoldIsNew, SinceCap
<1>5. CASE UNCHANGED vars
  <2>1. TypeOK'
    BY <1>5, NextType DEF IInv
  <2> QED
    BY <1>5, <2>1 DEF vars, IInv, ReadsInTime, AlarmTimersAreExact, AlarmsEnd,
         AlarmsLast, DangerIsNew, ReportsInTime, UntoldIsNew, SinceCap, Used,
         Alarmed, Reported, Passed
<1> QED
  BY <1>1, <1>2, <1>3, <1>4, <1>5 DEF Next, Loop

-----------------------------------------------------------------------------
(* The timers of the program are the times they measure, late or early as  *)
(* the loop may be.                                                        *)
THEOREM Invariance == Spec => []IInv
<1> QED
  BY InitInvariant, NextInvariant, PTL DEF Spec

(* An alarm is up for its up time after the last danger that was read, and *)
(* then it ends, wherever the clock wraps.                                 *)
THEOREM AlarmStaysAndEnds == Spec => []AlarmIsHeld
<1>1. IInv => AlarmIsHeld
  <2> SUFFICES ASSUME IInv, NEW s \in Sensor
               PROVE  /\ since[s] <= UP_TIME[s] => alarm[s]
                      /\ since[s] > UP_TIME[s] + READ_TIME[s] + 2 * MaxPass => ~alarm[s]
    BY DEF AlarmIsHeld
  <2>1. TypeOK
    BY DEF IInv
  <2>2. since[s] \in Nat /\ lag \in 0 .. MaxPass /\ Used(s) \in Nat
    BY <2>1, TimersAre DEF TypeOK
  <2>3. Used(s) <= READ_TIME[s] + 2 * MaxPass
    BY <2>2, Constants DEF IInv, ReadsInTime
  <2> QED
    BY <2>2, <2>3, Constants DEF IInv, AlarmsEnd, AlarmsLast
<1> QED
  BY <1>1, Invariance, PTL

(* Danger that lasts for the reading time and two rounds raises the alarm. *)
THEOREM LastingDangerAlarms == Spec => []DangerIsDetected
<1>1. IInv => DangerIsDetected
  <2> SUFFICES ASSUME IInv, NEW s \in Sensor, level[s],
                      sensed[s] > READ_TIME[s] + 2 * MaxPass
               PROVE  alarm[s]
    BY DEF DangerIsDetected
  <2>1. TypeOK
    BY DEF IInv
  <2>2. sensed[s] \in Nat /\ lag \in 0 .. MaxPass /\ Used(s) \in Nat
    BY <2>1, TimersAre DEF TypeOK
  <2>3. Used(s) <= READ_TIME[s] + 2 * MaxPass
    BY <2>2, Constants DEF IInv, ReadsInTime
  <2> QED
    BY <2>2, <2>3, Constants DEF IInv, DangerIsNew
<1> QED
  BY <1>1, Invariance, PTL

(* No alarm ends before a report has told it, but for one that could not   *)
(* be sent less than a report interval and a round before.                 *)
THEOREM NoAlarmEndsUntold == Spec => AlarmIsReported
<1>1. ASSUME IInv, [Next]_vars, NEW s \in Sensor,
             alarm[s], ~alarm'[s], s \in unreported
      PROVE  unsent < UnsentCap
  <2>1. TypeOK
    BY <1>1 DEF IInv
  <2>2. PICK r \in Sensor : Visit(r)
    BY <1>1 DEF Next, Loop, Tick, report_data_to_server, LevelChanges, vars
  <2>3. r = s /\ ~(alarm[s] /\ Alarmed(s) <= UP_TIME[s])
    BY <1>1, <2>1, <2>2, VisitSteps
  <2>4. /\ since[s] \in Nat /\ lag \in 0 .. MaxPass /\ unsent \in Nat
        /\ Used(s) \in Nat /\ Reported \in Nat
    BY <2>1, TimersAre, Constants DEF TypeOK, UnsentCap
  <2>5. since[s] < SinceCap(s)
    BY <1>1, <2>4, Constants DEF IInv, AlarmsEnd, ReadsInTime
  <2>6. ~(since[s] <= UP_TIME[s])
    BY <1>1, <2>3, <2>5 DEF IInv, AlarmTimersAreExact
  <2>7. Reported <= POST_TO_SERVER_INTERVAL - 1 + MaxPass
    BY <1>1, <2>4, Constants DEF IInv, ReportsInTime
  <2>8. since[s] <= Reported \/ unsent <= Reported
    BY <1>1 DEF IInv, UntoldIsNew
  <2> QED
    BY <2>4, <2>6, <2>7, <2>8, Constants DEF UnsentCap
<1>2. IInv /\ [Next]_vars =>
        [\A s \in Sensor :
           alarm[s] /\ ~alarm'[s] /\ s \in unreported => unsent < UnsentCap]_vars
  BY <1>1
<1> QED
  BY <1>2, Invariance, PTL DEF Spec, AlarmIsReported
=============================================================================
