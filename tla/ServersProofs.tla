--------------------------- MODULE ServersProofs ---------------------------
(***************************************************************************)
(* Theorems about ServersHandler, for any number of servers, any delays    *)
(* and numbers in orders, and any wrap of the clock that satisfy           *)
(* ServersAssumption.                                                      *)
(***************************************************************************)
EXTENDS ServersHandler, ClockProofs

Passed(t) == (millis - t) % Wrap

-----------------------------------------------------------------------------
(* The inductive invariant                                                 *)

(* loop() has looked at the operation of s in this round.                  *)
Visited(s) == pc = "order" \/ s < i

(* A timer shows the real time since its phase began.                      *)
TimersAreExact ==
  \A s \in Server :
    /\ serversOperation[s] = "NO_OP" => elapsed[s] = 0
    /\ serversOperation[s] # "NO_OP" => Passed(serversTimers[s]) = elapsed[s]

(* A phase that is over is found to be in one round of the loop.           *)
PhasesEndInTime ==
  \A s \in Server :
    serversOperation[s] # "NO_OP" =>
      /\ elapsed[s] <= Delay[serversOperation[s]] + MaxPass + lag
      /\ Visited(s) => elapsed[s] <= Delay[serversOperation[s]] + lag

(* A server that was heard lately was heard when its timer says.           *)
PingsAreExact ==
  \A s \in Server :
    quiet[s] < SERVER_PING_TIME => Passed(serversLastPing[s]) = quiet[s]

IInv ==
  /\ TypeOK
  /\ TimersAreExact /\ PhasesEndInTime /\ PingsAreExact
  /\ RelayFollowsOperation

-----------------------------------------------------------------------------
(* The clock and the constants                                             *)

LEMMA Constants ==
  /\ serversCount \in Nat \ {0} /\ Wrap \in Nat \ {0} /\ MaxPass \in Nat \ {0}
  /\ SERVER_PING_TIME \in Nat /\ SERVER_PING_TIME < Wrap
  /\ Delay["NO_OP"] = Wrap
  /\ Delay["TURN_ON"] = TURN_ON_DELAY /\ Delay["TURN_OFF"] = TURN_OFF_DELAY
  /\ Delay["RESTART"] = TURN_OFF_DELAY /\ Delay["RESTART2"] = RESTART_OFF_ON_DELAY
  /\ \A op \in Operation \ {"NO_OP"} :
       Delay[op] \in Nat /\ Delay[op] + 2 * MaxPass < Wrap
BY ServersAssumption DEF ServersAssumption, Delay, Operation

(* A timer that is set now, and one that is not.                           *)
LEMMA TimersRead ==
  ASSUME TypeOK, NEW t \in Clock
  PROVE  Passed(t) \in 0 .. Wrap - 1 /\ Passed(millis) = 0
BY Constants, TimerRange DEF TypeOK, Clock, Passed

(* Time passes for every timer that is not about to wrap.                  *)
LEMMA TimersTick ==
  ASSUME TypeOK, Tick, NEW t \in Clock, Passed(t) + 1 < Wrap
  PROVE  (millis' - t) % Wrap = Passed(t) + 1
<1>1. millis \in 0 .. Wrap - 1 /\ Wrap \in Nat \ {0}
  BY Constants DEF TypeOK, Clock
<1>2. millis' = (millis + 1) % Wrap
  BY DEF Tick
<1>3. (((millis + 1) % Wrap) - t) % Wrap = ((millis - t) % Wrap) + 1
  BY <1>1, TimerTicks DEF Passed, Clock
<1> QED
  BY <1>2, <1>3 DEF Passed

-----------------------------------------------------------------------------
(* What the steps do to one server                                         *)

Unmoved(r) ==
  /\ serversOperation'[r] = serversOperation[r] /\ serversTimers'[r] = serversTimers[r]
  /\ elapsed'[r] = elapsed[r] /\ relay'[r] = relay[r]
  /\ driven'[r] = driven[r] /\ disturbed'[r] = disturbed[r]

Unheard(r) ==
  serversLastPing'[r] = serversLastPing[r] /\ quiet'[r] = quiet[r]

(* A phase begins.                                                         *)
Begins(s, op) ==
  /\ serversOperation'[s] = op /\ serversTimers'[s] = millis
  /\ elapsed'[s] = 0 /\ disturbed'[s] = FALSE

LEMMA BeginSteps ==
  ASSUME TypeOK, NEW s \in Server, NEW op \in Operation, Begin(s, op)
  PROVE  /\ Begins(s, op)
         /\ \A r \in Server \ {s} :
              /\ serversOperation'[r] = serversOperation[r]
              /\ serversTimers'[r] = serversTimers[r]
              /\ elapsed'[r] = elapsed[r] /\ disturbed'[r] = disturbed[r]
         /\ serversOperation' \in [Server -> Operation]
         /\ serversTimers' \in [Server -> Clock]
         /\ elapsed' \in [Server -> Nat] /\ disturbed' \in [Server -> BOOLEAN]
BY DEF TypeOK, Begin, Begins

LEMMA RelaySteps ==
  ASSUME TypeOK, NEW s \in Server
  PROVE  /\ connect(s) => /\ relay'[s] = "LOW" /\ driven'[s]
                          /\ \A r \in Server \ {s} :
                               relay'[r] = relay[r] /\ driven'[r] = driven[r]
         /\ disconnect(s) => /\ relay'[s] = "HIGH" /\ driven'[s]
                             /\ \A r \in Server \ {s} :
                                  relay'[r] = relay[r] /\ driven'[r] = driven[r]
         /\ connect(s) \/ disconnect(s) =>
              relay' \in [Server -> {"LOW", "HIGH"}] /\ driven' \in [Server -> BOOLEAN]
BY DEF TypeOK, connect, disconnect

(* Operate ends a phase of the server it visits, or finds none to end.     *)
PhaseStep(s) ==
  \/ /\ Unmoved(s)
     /\ serversOperation[s] # "NO_OP" =>
          Passed(serversTimers[s]) <= Delay[serversOperation[s]]
  \/ /\ serversOperation[s] # "NO_OP"
     /\ Passed(serversTimers[s]) > Delay[serversOperation[s]]
     /\ \/ /\ serversOperation[s] \in {"TURN_ON", "TURN_OFF"}
           /\ serversOperation'[s] = "NO_OP" /\ elapsed'[s] = 0
           /\ relay'[s] = "HIGH"
        \/ /\ serversOperation[s] = "RESTART"
           /\ Begins(s, "RESTART2") /\ relay'[s] = "HIGH"
        \/ /\ serversOperation[s] = "RESTART2"
           /\ Begins(s, "TURN_ON") /\ relay'[s] = "LOW"

LEMMA OperateSteps ==
  ASSUME TypeOK, Operate
  PROVE  /\ TypeOK'
         /\ i \in Server /\ pc = "operate"
         /\ UNCHANGED <<millis, serversLastPing, lag, quiet>>
         /\ \/ i + 1 < serversCount /\ i' = i + 1 /\ pc' = "button"
            \/ i + 1 = serversCount /\ i' = i /\ pc' = "order"
         /\ PhaseStep(i)
         /\ \A r \in Server \ {i} : Unmoved(r)
<1>1. /\ i \in Server /\ i \in Nat /\ pc = "operate"
      /\ UNCHANGED <<millis, serversLastPing, lag, quiet>>
      /\ \/ i + 1 < serversCount /\ i' = i + 1 /\ pc' = "button"
         \/ i + 1 = serversCount /\ i' = i /\ pc' = "order"
  BY Constants DEF Operate, TypeOK, Server
<1>2. i' \in Server /\ pc' \in {"button", "order"}
  BY <1>1, Constants DEF Server
<1>3. /\ serversOperation[i] \in Operation /\ millis \in Clock
      /\ serversTimers[i] \in Clock /\ Passed(serversTimers[i]) \in 0 .. Wrap - 1
  BY <1>1, TimersRead DEF TypeOK
<1>4. ASSUME NEW op \in Operation, Over(i, op)
      PROVE  op # "NO_OP" /\ serversOperation[i] = op /\ Passed(serversTimers[i]) > Delay[op]
  BY <1>3, <1>4, Constants DEF Over, Exceeded, Passed
<1>5. CASE NoPhaseEnds(i)
  <2>1. UNCHANGED <<serversOperation, serversTimers, relay, elapsed, driven, disturbed>>
    BY <1>5 DEF NoPhaseEnds
  <2>2. ASSUME serversOperation[i] # "NO_OP"
        PROVE  Passed(serversTimers[i]) <= Delay[serversOperation[i]]
    <3>1. ~Over(i, serversOperation[i])
      BY <1>3, <1>5 DEF NoPhaseEnds
    <3>2. Delay[serversOperation[i]] \in Nat
      BY <1>3, <2>2, Constants
    <3> QED
      BY <1>3, <3>1, <3>2 DEF Over, Exceeded, Passed
  <2>3. \A r \in Server : Unmoved(r)
    BY <2>1 DEF Unmoved
  <2>4. TypeOK'
    BY <1>1, <1>2, <2>1 DEF TypeOK
  <2> QED
    BY <1>1, <2>2, <2>3, <2>4 DEF PhaseStep
<1>6. CASE EndOperation(i)
  <2>1. /\ serversOperation[i] \in {"TURN_ON", "TURN_OFF"}
        /\ Passed(serversTimers[i]) > Delay[serversOperation[i]]
    BY <1>4, <1>6 DEF EndOperation, Operation
  <2>2. disconnect(i)
    BY <1>6 DEF EndOperation
  <2>3. /\ serversOperation'[i] = "NO_OP" /\ elapsed'[i] = 0
        /\ serversTimers' = serversTimers
        /\ \A r \in Server \ {i} :
             /\ serversOperation'[r] = serversOperation[r]
             /\ elapsed'[r] = elapsed[r] /\ disturbed'[r] = disturbed[r]
        /\ serversOperation' \in [Server -> Operation]
        /\ elapsed' \in [Server -> Nat] /\ disturbed' \in [Server -> BOOLEAN]
    BY <1>1, <1>6 DEF EndOperation, TypeOK, Operation
  <2>4. TypeOK'
    BY <1>1, <1>2, <2>2, <2>3, RelaySteps DEF TypeOK
  <2> QED
    BY <1>1, <2>1, <2>2, <2>3, <2>4, RelaySteps DEF PhaseStep, Unmoved
<1>7. ASSUME NEW old \in Operation, NEW op \in Operation,
             Over(i, old), Begin(i, op), connect(i) \/ disconnect(i)
      PROVE  TypeOK' /\ Begins(i, op) /\ \A r \in Server \ {i} : Unmoved(r)
  <2>1. TypeOK'
    BY <1>1, <1>2, <1>7, BeginSteps, RelaySteps DEF TypeOK
  <2> QED
    BY <1>1, <1>7, <2>1, BeginSteps, RelaySteps DEF Unmoved
<1>8. CASE RestartPause(i)
  <2>1. Over(i, "RESTART") /\ disconnect(i) /\ Begin(i, "RESTART2")
    BY <1>8 DEF RestartPause
  <2>2. /\ TypeOK' /\ Begins(i, "RESTART2")
        /\ \A r \in Server \ {i} : Unmoved(r)
    BY <1>7, <2>1 DEF Operation
  <2>3. /\ serversOperation[i] = "RESTART" /\ relay'[i] = "HIGH"
        /\ Passed(serversTimers[i]) > Delay["RESTART"]
    BY <1>1, <1>4, <2>1, RelaySteps DEF Operation
  <2> QED
    BY <1>1, <2>2, <2>3 DEF PhaseStep
<1>9. CASE RestartPress(i)
  <2>1. Over(i, "RESTART2") /\ connect(i) /\ Begin(i, "TURN_ON")
    BY <1>9 DEF RestartPress
  <2>2. /\ TypeOK' /\ Begins(i, "TURN_ON")
        /\ \A r \in Server \ {i} : Unmoved(r)
    BY <1>7, <2>1 DEF Operation
  <2>3. /\ serversOperation[i] = "RESTART2" /\ relay'[i] = "LOW"
        /\ Passed(serversTimers[i]) > Delay["RESTART2"]
    BY <1>1, <1>4, <2>1, RelaySteps DEF Operation
  <2> QED
    BY <1>1, <2>2, <2>3 DEF PhaseStep
<1> QED
  BY <1>5, <1>6, <1>8, <1>9 DEF Operate, PhaseEnds

(* What main.ino may call at the end of a round: an order that is          *)
(* accepted, or data of a server.                                          *)
Presses(s, op) ==
  /\ serversOperation[s] = "NO_OP" /\ (op = "TURN_ON" => ~isServerOn(s))
  /\ Begins(s, op) /\ relay'[s] = "LOW"
  /\ \A r \in Server \ {s} : Unmoved(r)
  /\ UNCHANGED <<serversLastPing, quiet>>

Hears(s) ==
  /\ serversLastPing'[s] = millis /\ quiet'[s] = 0
  /\ \A r \in Server \ {s} : Unheard(r)
  /\ UNCHANGED <<serversOperation, serversTimers, relay, elapsed, driven, disturbed>>

(* A number in a message is a uint8_t.                                     *)
LEMMA NumberRange ==
  ASSUME NEW m \in Message
  PROVE  server_number(m) \in Nat /\ m.type \in {"0x50", "0x51", "0x52", "0x30"}
<1>1. CASE m \in [type : {"0x50", "0x51", "0x52"}, number : Number]
  <2>1. m.number \in Int /\ m.type \in {"0x50", "0x51", "0x52"}
    BY <1>1, ServersAssumption DEF ServersAssumption
  <2>3. server_number(m) = m.number % 256
    BY <2>1 DEF server_number
  <2>2. \A x \in Int : x % 256 \in Nat
    BY Z3
  <2> QED
    BY <2>1, <2>2, <2>3
<1>2. CASE m \in [type : {"0x30"}, from : Server, json : {"object", "number"}]
  <2>1. m.from \in Nat
    BY <1>2, Constants DEF Server
  <2> QED
    BY <1>2, <2>1 DEF server_number
<1> QED
  BY <1>1, <1>2 DEF Message

LEMMA RoundSteps ==
  ASSUME TypeOK, Idle \/ \E m \in Message : Receive(m)
  PROVE  /\ TypeOK'
         /\ pc = "order" /\ pc' = "button" /\ i' = 0 /\ lag' = 0 /\ millis' = millis
         /\ \/ UNCHANGED <<handlerVars, historyVars>>
            \/ \E s \in Server, op \in {"TURN_ON", "TURN_OFF", "RESTART"} : Presses(s, op)
            \/ \E s \in Server : Hears(s)
<1>1. pc = "order" /\ pc' = "button" /\ i' = 0 /\ lag' = 0 /\ millis' = millis
  BY DEF Idle, Receive, NextRound
<1>2. 0 \in Server /\ 0 \in 0 .. MaxPass
  BY Constants DEF Server
<1>3. CASE Refuse
  BY <1>1, <1>2, <1>3 DEF Refuse, TypeOK, handlerVars, historyVars
<1>4. ASSUME NEW s \in Nat, NEW op \in {"TURN_ON", "TURN_OFF", "RESTART"},
             NEW on \in BOOLEAN, Accepts(s, on), op = "TURN_ON" => ~on, Press(s, op)
      PROVE  TypeOK' /\ s \in Server /\ Presses(s, op)
  <2>1. /\ s \in Server /\ serversOperation[s] = "NO_OP"
        /\ op = "TURN_ON" => ~isServerOn(s)
    BY <1>4, Constants DEF Accepts, Server
  <2>2. Begin(s, op) /\ connect(s) /\ UNCHANGED <<serversLastPing, quiet>>
    BY <1>4 DEF Press
  <2>3. op \in Operation
    BY DEF Operation
  <2>4. TypeOK'
    BY <1>1, <1>2, <2>1, <2>2, <2>3, BeginSteps, RelaySteps DEF TypeOK
  <2>5. /\ Begins(s, op) /\ relay'[s] = "LOW"
        /\ \A r \in Server \ {s} : Unmoved(r)
    BY <2>1, <2>2, <2>3, BeginSteps, RelaySteps DEF Unmoved
  <2> QED
    BY <2>1, <2>2, <2>4, <2>5 DEF Presses
<1>5. ASSUME NEW s \in Nat, s < serversCount, pingFromServer(s)
      PROVE  TypeOK' /\ s \in Server /\ Hears(s)
  <2>1. /\ s \in Server /\ millis \in Clock /\ 0 \in 0 .. SERVER_PING_TIME
        /\ serversLastPing' = [serversLastPing EXCEPT ![s] = millis]
        /\ quiet' = [quiet EXCEPT ![s] = 0]
        /\ UNCHANGED <<serversOperation, serversTimers, relay, elapsed, driven, disturbed>>
    BY <1>5, Constants DEF pingFromServer, Server, TypeOK
  <2>2. TypeOK'
    BY <1>1, <1>2, <2>1 DEF TypeOK
  <2>3. /\ serversLastPing'[s] = millis /\ quiet'[s] = 0
        /\ \A r \in Server \ {s} : Unheard(r)
    BY <2>1 DEF TypeOK, Unheard
  <2> QED
    BY <2>1, <2>2, <2>3 DEF Hears
<1>6. ASSUME NEW m \in Message, processing_unit(m)
      PROVE  \/ Refuse
             \/ \E s \in Nat, op \in {"TURN_ON", "TURN_OFF", "RESTART"}, on \in BOOLEAN :
                  Accepts(s, on) /\ (op = "TURN_ON" => ~on) /\ Press(s, op)
             \/ \E s \in Nat : s < serversCount /\ pingFromServer(s)
  <2> DEFINE s == server_number(m)
  <2>1. s \in Nat /\ m.type \in {"0x50", "0x51", "0x52", "0x30"}
    BY NumberRange
  <2>2. \/ m.type = "0x50" /\ turnOn(s)
        \/ m.type = "0x51" /\ turnOff(s)
        \/ m.type = "0x52" /\ restart(s)
        \/ m.type = "0x30" /\ pingFromServer(s)
    BY <1>6, <2>1 DEF processing_unit
  <2> HIDE DEF s
  <2>3. CASE turnOn(s)
    BY <2>1, <2>3 DEF turnOn
  <2>4. CASE turnOff(s)
    BY <2>1, <2>4 DEF turnOff
  <2>5. CASE restart(s)
    BY <2>1, <2>5 DEF restart
  <2>6. CASE pingFromServer(s)
    BY <2>1, <2>6 DEF pingFromServer
  <2> QED
    BY <2>2, <2>3, <2>4, <2>5, <2>6
<1>7. Refuse \/ \E m \in Message : processing_unit(m)
  BY DEF Idle, Receive
<1> QED
  BY <1>1, <1>3, <1>4, <1>5, <1>6, <1>7

(* The push button moves the relay only.                                   *)
LEMMA ButtonSteps ==
  ASSUME TypeOK, ButtonUp \/ ButtonDown \/ ButtonReleased
  PROVE  /\ TypeOK' /\ i \in Server
         /\ UNCHANGED <<millis, serversOperation, serversTimers, serversLastPing,
                        i, lag, elapsed, quiet>>
         /\ \A r \in Server \ {i} : Unmoved(r)
         /\ \/ pc = "button" /\ pc' = "operate" /\ Unmoved(i)
            \/ pc = "button" /\ pc' = "held" /\ relay'[i] = "LOW"
            \/ /\ pc = "held" /\ pc' = "operate" /\ relay'[i] = "HIGH"
               /\ disturbed'[i] = (serversOperation[i] # "NO_OP")
<1>1. i \in Server
  BY DEF TypeOK
<1>2. CASE ButtonUp
  BY <1>1, <1>2 DEF ButtonUp, TypeOK, Unmoved, handlerVars, historyVars
<1>3. CASE ButtonDown
  <2>1. connect(i) /\ disturbed' = disturbed
    BY <1>3 DEF ButtonDown
  <2> QED
    BY <1>1, <1>3, <2>1, RelaySteps DEF ButtonDown, TypeOK, Unmoved
<1>4. CASE ButtonReleased
  <2>1. /\ disconnect(i) /\ disturbed' \in [Server -> BOOLEAN]
        /\ disturbed'[i] = (serversOperation[i] # "NO_OP")
        /\ \A r \in Server \ {i} : disturbed'[r] = disturbed[r]
    BY <1>1, <1>4 DEF ButtonReleased, TypeOK
  <2>2. /\ pc = "held" /\ pc' = "operate"
        /\ UNCHANGED <<millis, serversOperation, serversTimers, serversLastPing,
                       i, lag, elapsed, quiet>>
    BY <1>4 DEF ButtonReleased
  <2>3. TypeOK'
    BY <2>1, <2>2, <1>1, RelaySteps DEF TypeOK
  <2> QED
    BY <1>1, <2>1, <2>2, <2>3, RelaySteps DEF Unmoved
<1> QED
  BY <1>2, <1>3, <1>4

-----------------------------------------------------------------------------
(* The invariant is inductive                                              *)

LEMMA TimersAre ==
  ASSUME TypeOK, NEW s \in Server
  PROVE  /\ Passed(serversTimers[s]) \in 0 .. Wrap - 1
         /\ Passed(serversLastPing[s]) \in 0 .. Wrap - 1
         /\ Passed(millis) = 0
         /\ serversOperation[s] \in Operation
         /\ elapsed[s] \in Nat /\ quiet[s] \in 0 .. SERVER_PING_TIME
         /\ lag \in 0 .. MaxPass /\ i \in Nat /\ s \in Nat
<1>1. serversTimers[s] \in Clock /\ serversLastPing[s] \in Clock
  BY DEF TypeOK
<1>2. i \in Nat /\ s \in Nat
  BY Constants DEF TypeOK, Server
<1> QED
  BY <1>1, <1>2, TimersRead DEF TypeOK

LEMMA InitInvariant == Init => IInv
<1> SUFFICES ASSUME Init PROVE IInv
  OBVIOUS
<1>1. TypeOK
  <2>1. 0 \in Server /\ 0 \in Clock
    BY Constants DEF Server, Clock
  <2> QED
    BY <2>1, Constants DEF Init, TypeOK, Operation
<1>2. TimersAreExact /\ PhasesEndInTime
  BY DEF Init, TimersAreExact, PhasesEndInTime
<1>3. PingsAreExact
  BY Constants DEF Init, PingsAreExact
<1>4. RelayFollowsOperation
  BY DEF Init, RelayFollowsOperation
<1> QED
  BY <1>1, <1>2, <1>3, <1>4 DEF IInv

LEMMA TickInvariant == IInv /\ Tick => IInv'
<1> SUFFICES ASSUME IInv, Tick PROVE IInv'
  OBVIOUS
<1>1. TypeOK
  BY DEF IInv
<1>2. /\ lag < MaxPass /\ lag' = lag + 1
      /\ UNCHANGED <<serversOperation, serversTimers, serversLastPing, relay,
                     pc, i, driven, disturbed>>
  BY DEF Tick, handlerVars
<1>3. \A s \in Server :
        /\ elapsed'[s] = IF serversOperation[s] = "NO_OP" THEN 0 ELSE elapsed[s] + 1
        /\ quiet'[s] = IF quiet[s] < SERVER_PING_TIME THEN quiet[s] + 1 ELSE quiet[s]
  BY DEF Tick
<1>4. TypeOK'
  <2>1. millis' \in Clock
    BY <1>1, Constants, NextTime DEF Tick, TypeOK, Clock
  <2>2. elapsed' \in [Server -> Nat] /\ quiet' \in [Server -> 0 .. SERVER_PING_TIME]
    BY <1>1, Constants DEF Tick, TypeOK
  <2>3. lag' \in 0 .. MaxPass
    BY <1>1, <1>2, Constants DEF TypeOK
  <2> QED
    BY <1>1, <1>2, <2>1, <2>2, <2>3 DEF TypeOK
<1>5. ASSUME NEW s \in Server, serversOperation[s] # "NO_OP"
      PROVE  Passed(serversTimers[s])' = elapsed[s] + 1
  <2>1. serversTimers[s] \in Clock /\ Passed(serversTimers[s]) = elapsed[s]
    BY <1>1, <1>5 DEF TypeOK, IInv, TimersAreExact
  <2>2. elapsed[s] + 1 < Wrap
    BY <1>1, <1>2, <1>5, TimersAre, Constants DEF IInv, PhasesEndInTime
  <2> QED
    BY <1>1, <1>2, <2>1, <2>2, TimersTick DEF Passed
<1>6. ASSUME NEW s \in Server, quiet[s] < SERVER_PING_TIME
      PROVE  Passed(serversLastPing[s])' = quiet[s] + 1
  <2>1. serversLastPing[s] \in Clock /\ Passed(serversLastPing[s]) = quiet[s]
    BY <1>1, <1>6 DEF TypeOK, IInv, PingsAreExact
  <2>2. quiet[s] + 1 < Wrap
    BY <1>1, <1>6, TimersAre, Constants
  <2> QED
    BY <1>1, <1>2, <2>1, <2>2, TimersTick DEF Passed
<1>7. TimersAreExact'
  BY <1>2, <1>3, <1>5 DEF TimersAreExact
<1>8. PhasesEndInTime'
  <2> SUFFICES ASSUME NEW s \in Server, serversOperation[s] # "NO_OP"
               PROVE  /\ elapsed'[s] <= Delay[serversOperation[s]] + MaxPass + lag'
                      /\ Visited(s) => elapsed'[s] <= Delay[serversOperation[s]] + lag'
    BY <1>2 DEF PhasesEndInTime, Visited
  <2>1. Delay[serversOperation[s]] \in Nat /\ elapsed[s] \in Nat /\ lag \in Nat
    BY <1>1, TimersAre, Constants
  <2> QED
    BY <1>2, <1>3, <2>1, Constants DEF IInv, PhasesEndInTime
<1>9. PingsAreExact'
  BY <1>2, <1>3, <1>6 DEF PingsAreExact
<1>10. RelayFollowsOperation'
  BY <1>2 DEF IInv, RelayFollowsOperation, Pressing
<1> QED
  BY <1>4, <1>7, <1>8, <1>9, <1>10 DEF IInv

LEMMA ButtonInvariant == IInv /\ (ButtonUp \/ ButtonDown \/ ButtonReleased) => IInv'
<1> SUFFICES ASSUME IInv, ButtonUp \/ ButtonDown \/ ButtonReleased PROVE IInv'
  OBVIOUS
<1>1. TypeOK
  BY DEF IInv
<1>2. /\ TypeOK' /\ i \in Server
      /\ UNCHANGED <<millis, serversOperation, serversTimers, serversLastPing,
                     i, lag, elapsed, quiet>>
      /\ pc # "order" /\ pc' # "order"
  BY <1>1, ButtonSteps
<1>3. TimersAreExact' /\ PhasesEndInTime' /\ PingsAreExact'
  BY <1>2 DEF IInv, TimersAreExact, PhasesEndInTime, PingsAreExact, Passed, Visited
<1>4. RelayFollowsOperation'
  BY <1>1, <1>2, ButtonSteps DEF IInv, RelayFollowsOperation, Pressing, Unmoved
<1> QED
  BY <1>2, <1>3, <1>4 DEF IInv

LEMMA OperateInvariant == IInv /\ Operate => IInv'
<1> SUFFICES ASSUME IInv, Operate PROVE IInv'
  OBVIOUS
<1>1. TypeOK
  BY DEF IInv
<1>2. /\ TypeOK' /\ i \in Server /\ i \in Nat /\ pc = "operate"
      /\ UNCHANGED <<millis, serversLastPing, lag, quiet>>
      /\ \/ i + 1 < serversCount /\ i' = i + 1 /\ pc' = "button"
         \/ i + 1 = serversCount /\ i' = i /\ pc' = "order"
      /\ PhaseStep(i)
      /\ \A r \in Server \ {i} : Unmoved(r)
  BY <1>1, OperateSteps DEF Server
<1>3. Passed(millis) = 0
  BY <1>1, <1>2, TimersAre
<1>4. PingsAreExact'
  BY <1>2 DEF IInv, PingsAreExact, Passed
<1>5. TimersAreExact'
  BY <1>2, <1>3 DEF IInv, TimersAreExact, PhaseStep, Begins, Unmoved, Passed
<1>6. PhasesEndInTime'
  <2> SUFFICES ASSUME NEW s \in Server, serversOperation'[s] # "NO_OP"
               PROVE  /\ elapsed'[s] <= Delay[serversOperation'[s]] + MaxPass + lag'
                      /\ Visited(s)' => elapsed'[s] <= Delay[serversOperation'[s]] + lag'
    BY DEF PhasesEndInTime
  <2>1. Delay[serversOperation'[s]] \in Nat /\ elapsed[s] \in Nat /\ lag \in Nat /\ lag' = lag
    BY <1>1, <1>2, TimersAre, Constants DEF TypeOK
  <2>2. CASE s # i
    <3>1. Visited(s)' => Visited(s)
      BY <1>1, <1>2, <2>2, TimersAre, Constants DEF Visited, Server
    <3> QED
      BY <1>2, <2>1, <2>2, <3>1 DEF IInv, PhasesEndInTime, Unmoved
  <2>3. CASE s = i /\ elapsed'[s] = 0
    BY <2>1, <2>3, Constants
  <2>4. CASE s = i /\ Unmoved(s) /\ Passed(serversTimers[s]) <= Delay[serversOperation[s]]
    BY <2>1, <2>4, Constants DEF IInv, TimersAreExact, Unmoved
  <2> QED
    BY <1>2, <2>2, <2>3, <2>4 DEF PhaseStep, Begins, Unmoved
<1>7. RelayFollowsOperation'
  BY <1>2 DEF IInv, RelayFollowsOperation, Pressing, PhaseStep, Begins, Unmoved
<1> QED
  BY <1>2, <1>4, <1>5, <1>6, <1>7 DEF IInv

LEMMA RoundInvariant == IInv /\ (Idle \/ \E m \in Message : Receive(m)) => IInv'
<1> SUFFICES ASSUME IInv, Idle \/ \E m \in Message : Receive(m) PROVE IInv'
  OBVIOUS
<1>1. TypeOK
  BY DEF IInv
<1>2. /\ TypeOK' /\ pc = "order" /\ pc' = "button" /\ i' = 0 /\ lag' = 0 /\ millis' = millis
      /\ \/ UNCHANGED <<handlerVars, historyVars>>
         \/ \E s \in Server, op \in {"TURN_ON", "TURN_OFF", "RESTART"} : Presses(s, op)
         \/ \E s \in Server : Hears(s)
  BY <1>1, RoundSteps
<1>3. ASSUME NEW s \in Server PROVE ~Visited(s)' /\ Visited(s)
  BY <1>1, <1>2, TimersAre DEF Visited
<1>4. ASSUME NEW r \in Server, Unmoved(r), serversOperation[r] # "NO_OP"
      PROVE  elapsed'[r] <= Delay[serversOperation'[r]] + MaxPass + lag'
  <2>1. Delay[serversOperation[r]] \in Nat /\ elapsed[r] \in Nat /\ lag \in 0 .. MaxPass
    BY <1>1, <1>4, TimersAre, Constants
  <2>2. elapsed[r] <= Delay[serversOperation[r]] + lag
    BY <1>3, <1>4 DEF IInv, PhasesEndInTime
  <2> QED
    BY <1>2, <1>4, <2>1, <2>2, Constants DEF Unmoved
<1>5. ASSUME NEW s \in Server, NEW op \in {"TURN_ON", "TURN_OFF", "RESTART"}, Presses(s, op)
      PROVE  IInv'
  <2>1. /\ Begins(s, op) /\ relay'[s] = "LOW" /\ UNCHANGED <<serversLastPing, quiet>>
        /\ \A r \in Server \ {s} : Unmoved(r)
    BY <1>5 DEF Presses
  <2>2. Passed(millis) = 0 /\ Delay[op] \in Nat
    BY <1>1, TimersAre, Constants DEF Operation
  <2>3. TimersAreExact'
    BY <1>2, <2>1, <2>2 DEF IInv, TimersAreExact, Begins, Unmoved, Passed
  <2>4. PhasesEndInTime'
    <3> SUFFICES ASSUME NEW r \in Server, serversOperation'[r] # "NO_OP"
                 PROVE  elapsed'[r] <= Delay[serversOperation'[r]] + MaxPass + lag'
      BY <1>3 DEF PhasesEndInTime
    <3>1. CASE r = s
      BY <1>2, <2>1, <2>2, <3>1, Constants DEF Begins
    <3>2. CASE r # s
      BY <1>4, <2>1, <3>2 DEF Unmoved
    <3> QED
      BY <3>1, <3>2
  <2>5. PingsAreExact'
    BY <1>2, <2>1 DEF IInv, PingsAreExact, Passed
  <2>6. RelayFollowsOperation'
    BY <1>2, <2>1 DEF IInv, RelayFollowsOperation, Pressing, Begins, Unmoved
  <2> QED
    BY <1>2, <2>3, <2>4, <2>5, <2>6 DEF IInv
<1>6. ASSUME UNCHANGED <<serversOperation, serversTimers, relay, elapsed, driven, disturbed>>,
             PingsAreExact'
      PROVE  IInv'
  <2>1. \A r \in Server : Unmoved(r)
    BY <1>6 DEF Unmoved
  <2>2. TimersAreExact' /\ RelayFollowsOperation'
    BY <1>2, <1>6 DEF IInv, TimersAreExact, RelayFollowsOperation, Pressing, Passed
  <2>3. PhasesEndInTime'
    BY <1>3, <1>4, <1>6, <2>1 DEF PhasesEndInTime
  <2> QED
    BY <1>2, <1>6, <2>2, <2>3 DEF IInv
<1>7. CASE UNCHANGED <<handlerVars, historyVars>>
  <2>1. PingsAreExact'
    BY <1>2, <1>7 DEF IInv, PingsAreExact, Passed, handlerVars, historyVars
  <2> QED
    BY <1>6, <1>7, <2>1 DEF handlerVars, historyVars
<1>8. ASSUME NEW s \in Server, Hears(s) PROVE IInv'
  <2>1. Passed(millis) = 0
    BY <1>1, TimersAre
  <2>2. PingsAreExact'
    BY <1>2, <1>8, <2>1 DEF IInv, PingsAreExact, Hears, Unheard, Passed
  <2> QED
    BY <1>6, <1>8, <2>2 DEF Hears
<1> QED
  BY <1>2, <1>5, <1>7, <1>8

LEMMA NextInvariant == IInv /\ [Next]_vars => IInv'
<1> SUFFICES ASSUME IInv, [Next]_vars PROVE IInv'
  OBVIOUS
<1>1. CASE Tick
  BY <1>1, TickInvariant
<1>2. CASE ButtonUp \/ ButtonDown \/ ButtonReleased
  BY <1>2, ButtonInvariant
<1>3. CASE Operate
  BY <1>3, OperateInvariant
<1>4. CASE Idle \/ \E m \in Message : Receive(m)
  BY <1>4, RoundInvariant
<1>5. CASE UNCHANGED vars
  <2>1. TypeOK'
    BY <1>5 DEF IInv, TypeOK, vars, handlerVars, historyVars
  <2> QED
    BY <1>5, <2>1 DEF IInv, TimersAreExact, PhasesEndInTime, PingsAreExact, Passed,
         Visited, RelayFollowsOperation, Pressing, vars, handlerVars, historyVars
<1> QED
  BY <1>1, <1>2, <1>3, <1>4, <1>5 DEF Next, Loop

-----------------------------------------------------------------------------
(* The timers of ServersHandler are the times they measure, and its relays *)
(* do what its operations say.                                             *)
THEOREM Invariance == Spec => []IInv
<1> QED
  BY InitInvariant, NextInvariant, PTL DEF Spec

(* The variables of ServersHandler keep their types: no order indexes past *)
(* the servers there are.                                                  *)
THEOREM TypeCorrect == Spec => []TypeOK
<1>1. IInv => TypeOK
  BY DEF IInv
<1> QED
  BY <1>1, Invariance, PTL

(* The relay presses exactly while an operation or a person does, but for  *)
(* the two exceptions RelayFollowsOperation names.                         *)
THEOREM RelayIsOperated == Spec => []RelayFollowsOperation
<1>1. IInv => RelayFollowsOperation
  BY DEF IInv
<1> QED
  BY <1>1, Invariance, PTL

(* No phase outlasts its delay by more than two rounds of the loop.        *)
THEOREM OrdersEnd == Spec => []OrdersEndInTime
<1>1. IInv => OrdersEndInTime
  <2> SUFFICES ASSUME IInv, NEW s \in Server, serversOperation[s] # "NO_OP"
               PROVE  elapsed[s] <= Delay[serversOperation[s]] + 2 * MaxPass
    BY DEF OrdersEndInTime
  <2>1. TypeOK
    BY DEF IInv
  <2>2. Delay[serversOperation[s]] \in Nat /\ elapsed[s] \in Nat /\ lag \in 0 .. MaxPass
    BY <2>1, TimersAre, Constants
  <2> QED
    BY <2>2, Constants DEF IInv, PhasesEndInTime
<1> QED
  BY <1>1, Invariance, PTL

(* A server that sent data within SERVER_PING_TIME is never switched on,   *)
(* which would be a press of the button of a running machine.              *)
THEOREM HeardIsNotPressed == Spec => NeverPressesHeard
<1>1. ASSUME IInv, [Next]_vars, NEW s \in Server, quiet[s] < SERVER_PING_TIME,
             serversOperation[s] = "NO_OP"
      PROVE  serversOperation'[s] # "TURN_ON"
  <2>1. TypeOK /\ isServerOn(s)
    <3>1. TypeOK /\ Passed(serversLastPing[s]) = quiet[s]
      BY <1>1 DEF IInv, PingsAreExact
    <3> QED
      BY <1>1, <3>1 DEF isServerOn, Passed
  <2>2. CASE Tick
    BY <1>1, <2>2 DEF Tick, handlerVars
  <2>3. CASE ButtonUp \/ ButtonDown \/ ButtonReleased
    BY <1>1, <2>1, <2>3, ButtonSteps
  <2>4. CASE Operate
    BY <1>1, <2>1, <2>4, OperateSteps DEF PhaseStep, Unmoved
  <2>5. CASE Idle \/ \E m \in Message : Receive(m)
    BY <1>1, <2>1, <2>5, RoundSteps DEF handlerVars, Presses, Begins, Unmoved, Hears
  <2>6. CASE UNCHANGED vars
    BY <1>1, <2>6 DEF vars, handlerVars
  <2> QED
    BY <1>1, <2>2, <2>3, <2>4, <2>5, <2>6 DEF Next, Loop
<1>2. IInv /\ [Next]_vars =>
        [\A s \in Server :
           quiet[s] < SERVER_PING_TIME /\ serversOperation[s] = "NO_OP" =>
             serversOperation'[s] # "TURN_ON"]_vars
  BY <1>1
<1> QED
  BY <1>2, Invariance, PTL DEF Spec, NeverPressesHeard

-----------------------------------------------------------------------------
(* Orders are plans of phases                                              *)

PlanTime == [press |-> TURN_ON_DELAY, hold |-> TURN_OFF_DELAY,
             pause |-> RESTART_OFF_ON_DELAY]

(* The plans, phase by phase.                                              *)
LEMMA PlanPhases ==
  /\ <<"press">> # <<>> /\ <<"hold">> # <<>>
  /\ <<"hold", "pause", "press">> # <<>> /\ <<"pause", "press">> # <<>>
  /\ Head(<<"press">>) = "press" /\ Head(<<"hold">>) = "hold"
  /\ Head(<<"hold", "pause", "press">>) = "hold" /\ Head(<<"pause", "press">>) = "pause"
  /\ Tail(<<"press">>) = <<>> /\ Tail(<<"hold">>) = <<>>
  /\ Tail(<<"hold", "pause", "press">>) = <<"pause", "press">>
  /\ Tail(<<"pause", "press">>) = <<"press">>
OBVIOUS

(* The phase of an operation, and the phases after it.                     *)
LEMMA PlanOf ==
  ASSUME NEW op \in Operation
  PROVE  LET p == PhasesLeft[op] IN
         /\ p = <<>> <=> op = "NO_OP"
         /\ op # "NO_OP" => PlanTime[Head(p)] = Delay[op]
         /\ op \in {"TURN_ON", "TURN_OFF"} => Tail(p) = <<>>
         /\ op = "RESTART" => Tail(p) = PhasesLeft["RESTART2"]
         /\ op = "RESTART2" => Tail(p) = PhasesLeft["TURN_ON"]
<1>1. /\ PhasesLeft["NO_OP"] = <<>>
      /\ PhasesLeft["TURN_ON"] = <<"press">> /\ PhasesLeft["TURN_OFF"] = <<"hold">>
      /\ PhasesLeft["RESTART"] = <<"hold", "pause", "press">>
      /\ PhasesLeft["RESTART2"] = <<"pause", "press">>
  BY DEF PhasesLeft
<1>2. /\ PlanTime["press"] = Delay["TURN_ON"] /\ PlanTime["hold"] = Delay["TURN_OFF"]
      /\ PlanTime["hold"] = Delay["RESTART"] /\ PlanTime["pause"] = Delay["RESTART2"]
  BY DEF PlanTime, Delay
<1> QED
  BY <1>1, <1>2, PlanPhases, Zenon DEF Operation

(* A step that begins or ends a phase of one server.                       *)
LEMMA PlanMoves ==
  ASSUME TypeOK, TypeOK', NEW s \in Server, elapsed'[s] = 0, NEW p, PlanLeft'[s] = p,
         \A r \in Server \ {s} :
           serversOperation'[r] = serversOperation[r] /\ elapsed'[r] = elapsed[r]
  PROVE  /\ elapsed' = [elapsed EXCEPT ![s] = 0]
         /\ PlanLeft' = [PlanLeft EXCEPT ![s] = p]
<1>1. elapsed' = [elapsed EXCEPT ![s] = 0]
  BY DEF TypeOK
<1>2. \A r \in Server \ {s} : PlanLeft'[r] = PlanLeft[r]
  BY DEF PlanLeft
<1>3. PlanLeft' = [r \in Server |-> PlanLeft'[r]] /\ PlanLeft = [r \in Server |-> PlanLeft[r]]
  BY DEF PlanLeft
<1> QED
  BY <1>1, <1>2, <1>3

LEMMA PlanStutters ==
  ASSUME UNCHANGED <<serversOperation, elapsed>>
  PROVE  UNCHANGED Plan!vars
BY DEF PlanLeft, Plan!vars

LEMMA TickIsPlanned ==
  ASSUME TypeOK, Tick
  PROVE  Plan!TimePasses
<1>1. UNCHANGED serversOperation
  BY DEF Tick, handlerVars
<1>2. PlanLeft' = PlanLeft
  BY <1>1 DEF PlanLeft
<1>3. \A s \in Server : PlanLeft[s] = <<>> <=> serversOperation[s] = "NO_OP"
  BY PlanOf DEF PlanLeft, TypeOK
<1>4. elapsed' = [s \in Server |-> IF PlanLeft[s] = <<>> THEN 0 ELSE elapsed[s] + 1]
  BY <1>3 DEF Tick
<1> QED
  BY <1>2, <1>4 DEF Plan!TimePasses

LEMMA OperateIsPlanned ==
  ASSUME IInv, Operate
  PROVE  (\E s \in Server : Plan!FinishPhase(s)) \/ UNCHANGED Plan!vars
<1>1. /\ TypeOK /\ TypeOK' /\ i \in Server /\ PhaseStep(i)
      /\ \A r \in Server \ {i} : Unmoved(r)
  BY OperateSteps DEF IInv
<1>2. CASE Unmoved(i)
  <2>1. \A r \in Server :
          serversOperation'[r] = serversOperation[r] /\ elapsed'[r] = elapsed[r]
    BY <1>1, <1>2 DEF Unmoved
  <2>2. UNCHANGED <<serversOperation, elapsed>>
    BY <1>1, <2>1 DEF TypeOK
  <2> QED
    BY <2>2, PlanStutters
<1>3. CASE ~Unmoved(i)
  <2>1. /\ serversOperation[i] # "NO_OP" /\ elapsed'[i] = 0
        /\ elapsed[i] > Delay[serversOperation[i]]
    BY <1>1, <1>3 DEF PhaseStep, Begins, IInv, TimersAreExact
  <2>2. PlanLeft'[i] = Tail(PlanLeft[i])
    <3>1. /\ serversOperation[i] \in Operation
          /\ PlanLeft[i] = PhasesLeft[serversOperation[i]]
          /\ PlanLeft'[i] = PhasesLeft[serversOperation'[i]]
      BY <1>1 DEF PlanLeft, TypeOK
    <3>2. PhasesLeft["NO_OP"] = <<>>
      BY DEF PhasesLeft
    <3> QED
      BY <1>1, <1>3, <3>1, <3>2, PlanOf DEF PhaseStep, Begins
  <2>3. /\ elapsed' = [elapsed EXCEPT ![i] = 0]
        /\ PlanLeft' = [PlanLeft EXCEPT ![i] = Tail(PlanLeft[i])]
    BY <1>1, <2>1, <2>2, PlanMoves DEF Unmoved
  <2>4. PlanLeft[i] # <<>> /\ elapsed[i] > PlanTime[Head(PlanLeft[i])]
    BY <1>1, <2>1, PlanOf DEF PlanLeft, TypeOK
  <2>5. PlanLeft' = [PlanLeft EXCEPT ![i] = Tail(@)]
    BY <2>3
  <2>6. Plan!FinishPhase(i)
    BY <2>3, <2>4, <2>5 DEF Plan!FinishPhase, PlanTime
  <2> QED
    BY <1>1, <2>6
<1> QED
  BY <1>2, <1>3

LEMMA RoundIsPlanned ==
  ASSUME TypeOK, Idle \/ \E m \in Message : Receive(m)
  PROVE  \/ \E s \in Server, p \in {Plan!TurnOn, Plan!TurnOff, Plan!Restart} :
              Plan!Accept(s, p)
         \/ UNCHANGED Plan!vars
<1>1. ASSUME NEW s \in Server, NEW op \in {"TURN_ON", "TURN_OFF", "RESTART"},
             Presses(s, op)
      PROVE  \E p \in {Plan!TurnOn, Plan!TurnOff, Plan!Restart} : Plan!Accept(s, p)
  <2>1. /\ TypeOK' /\ serversOperation[s] = "NO_OP" /\ serversOperation'[s] = op
        /\ elapsed'[s] = 0
        /\ \A r \in Server \ {s} :
             serversOperation'[r] = serversOperation[r] /\ elapsed'[r] = elapsed[r]
    BY <1>1, RoundSteps DEF Presses, Begins, Unmoved
  <2>2. PlanLeft[s] = <<>> /\ PlanLeft'[s] = PhasesLeft[op]
    BY <2>1 DEF PlanLeft, PhasesLeft
  <2>3. PICK p \in {Plan!TurnOn, Plan!TurnOff, Plan!Restart} : PlanLeft'[s] = p
    BY <2>2 DEF PhasesLeft, Plan!TurnOn, Plan!TurnOff, Plan!Restart
  <2>4. Plan!Accept(s, p)
    BY <2>1, <2>2, <2>3, PlanMoves DEF Plan!Accept
  <2> QED
    BY <2>4
<1>2. CASE UNCHANGED <<serversOperation, elapsed>>
  BY <1>2, PlanStutters
<1> QED
  BY <1>1, <1>2, RoundSteps DEF handlerVars, historyVars, Hears

(* Every order is carried out as a plan in real time: its phases follow    *)
(* one another, each lasts longer than its delay, and no order is accepted *)
(* meanwhile, wherever the clock wraps.                                    *)
THEOREM OrdersArePlanned == Spec => OrdersArePlans
<1>1. Init => Plan!Init
  BY DEF Init, Plan!Init, PlanLeft, PhasesLeft
<1>2. IInv /\ [Next]_vars => [Plan!Next]_Plan!vars
  <2> SUFFICES ASSUME IInv, [Next]_vars PROVE [Plan!Next]_Plan!vars
    OBVIOUS
  <2>1. TypeOK
    BY DEF IInv
  <2>2. CASE Tick
    BY <2>1, <2>2, TickIsPlanned DEF Plan!Next
  <2>3. CASE ButtonUp \/ ButtonDown \/ ButtonReleased
    BY <2>1, <2>3, ButtonSteps, PlanStutters
  <2>4. CASE Operate
    BY <2>4, OperateIsPlanned DEF Plan!Next
  <2>5. CASE Idle \/ \E m \in Message : Receive(m)
    BY <2>1, <2>5, RoundIsPlanned DEF Plan!Next
  <2>6. CASE UNCHANGED vars
    BY <2>6, PlanStutters DEF vars, handlerVars, historyVars
  <2> QED
    BY <2>2, <2>3, <2>4, <2>5, <2>6 DEF Next, Loop
<1> QED
  BY <1>1, <1>2, Invariance, PTL DEF Spec, OrdersArePlans, Plan!Spec
=============================================================================
