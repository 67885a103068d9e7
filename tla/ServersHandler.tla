--------------------------- MODULE ServersHandler ---------------------------
(***************************************************************************)
(* ServersHandler.cpp on the Arduino: a relay across the power button of   *)
(* each controlled server, the timed operations that close and open it,    *)
(* the push buttons that do the same by hand, and the guess, from the data *)
(* a server sends, whether it is on.                                       *)
(*                                                                         *)
(* One thread runs everything: loop() visits the servers in turn, blocks   *)
(* while a push button is down, and between two visits of the whole list   *)
(* main.ino calls at most one of the other methods.  Time passes between   *)
(* any two steps.  millis() is a counter of Wrap values (2^32 in the       *)
(* program, in milliseconds), and so are the timers.                       *)
(***************************************************************************)
EXTENDS Integers, Sequences

CONSTANTS
  serversCount,          \* NUM_OF_SERVERS of main.ino
  Wrap,                  \* number of values of a uint32_t
  TURN_ON_DELAY, TURN_OFF_DELAY, RESTART_OFF_ON_DELAY, SERVER_PING_TIME,
  Number,                \* bound: the integers that clients write into orders
  MaxPass                \* bound: time one round of the main loop may take

ASSUME ServersAssumption ==
  /\ serversCount \in Nat \ {0} /\ serversCount < 256
  /\ MaxPass \in Nat \ {0}
  /\ Wrap \in Nat
  /\ Number \subseteq Int
  /\ SERVER_PING_TIME \in Nat /\ SERVER_PING_TIME < Wrap
  /\ \A t \in {TURN_ON_DELAY, TURN_OFF_DELAY, RESTART_OFF_ON_DELAY} :
       t \in Nat /\ t + 2 * MaxPass < Wrap

VARIABLES
  millis,            \* the clock of the Arduino
  serversOperation, serversTimers, serversLastPing,
  relay,             \* level of the relay pin: LOW presses the power button
  pc, i,             \* where loop() is, and its loop variable
  lag,               \* time since this round of the main loop began
  elapsed,           \* history: real time since the operation's phase began
  quiet,             \* history: real time since data of the server, capped
  driven,            \* history: has the relay pin been written?
  disturbed          \* history: was the button used during the phase?

handlerVars == <<serversOperation, serversTimers, serversLastPing, relay>>
historyVars == <<elapsed, quiet, driven, disturbed>>
vars == <<millis, handlerVars, pc, i, lag, historyVars>>

Server == 0 .. serversCount - 1
Operation == {"NO_OP", "TURN_ON", "TURN_OFF", "RESTART", "RESTART2"}
Clock == 0 .. Wrap - 1

TypeOK ==
  /\ millis \in Clock
  /\ serversOperation \in [Server -> Operation]
  /\ serversTimers \in [Server -> Clock]
  /\ serversLastPing \in [Server -> Clock]
  /\ relay \in [Server -> {"LOW", "HIGH"}]
  /\ pc \in {"button", "held", "operate", "order"}
  /\ i \in Server
  /\ lag \in 0 .. MaxPass
  /\ elapsed \in [Server -> Nat]
  /\ quiet \in [Server -> 0 .. SERVER_PING_TIME]
  /\ driven \in [Server -> BOOLEAN]
  /\ disturbed \in [Server -> BOOLEAN]

(* The relay pins become outputs without being written, and an output that *)
(* was never written is LOW.                                               *)
Init ==
  /\ millis = 0
  /\ serversOperation = [s \in Server |-> "NO_OP"]
  /\ serversTimers = [s \in Server |-> millis]
  /\ serversLastPing = [s \in Server |-> millis]
  /\ relay = [s \in Server |-> "LOW"]
  /\ pc = "button" /\ i = 0 /\ lag = 0
  /\ elapsed = [s \in Server |-> 0]
  /\ quiet = [s \in Server |-> SERVER_PING_TIME]
  /\ driven = [s \in Server |-> FALSE]
  /\ disturbed = [s \in Server |-> FALSE]

-----------------------------------------------------------------------------
(* Operators named X_Y are X with a slip Y that the checks must notice.    *)

(* How long each operation lasts; no millis() - t exceeds Wrap.            *)
Delay == [NO_OP |-> Wrap, TURN_ON |-> TURN_ON_DELAY, TURN_OFF |-> TURN_OFF_DELAY,
          RESTART |-> TURN_OFF_DELAY, RESTART2 |-> RESTART_OFF_ON_DELAY]

Exceeded_Absolute(t, delay) == millis > t + delay

(* millis() - t > delay, in uint32_t.                                      *)
Exceeded(t, delay) == (millis - t) % Wrap > delay

isServerOn_Absolute(s) == millis < (serversLastPing[s] + SERVER_PING_TIME) % Wrap
isServerOn(s) == (millis - serversLastPing[s]) % Wrap < SERVER_PING_TIME

connect(s) ==
  /\ relay' = [relay EXCEPT ![s] = "LOW"]
  /\ driven' = [driven EXCEPT ![s] = TRUE]

disconnect(s) ==
  /\ relay' = [relay EXCEPT ![s] = "HIGH"]
  /\ driven' = [driven EXCEPT ![s] = TRUE]

Begin_OldTimer(s, op) ==
  /\ serversOperation' = [serversOperation EXCEPT ![s] = op]
  /\ elapsed' = [elapsed EXCEPT ![s] = 0]
  /\ disturbed' = [disturbed EXCEPT ![s] = FALSE]
  /\ UNCHANGED serversTimers

(* An operation begins a phase: its state, and the timer that measures it. *)
Begin(s, op) ==
  /\ serversOperation' = [serversOperation EXCEPT ![s] = op]
  /\ serversTimers' = [serversTimers EXCEPT ![s] = millis]
  /\ elapsed' = [elapsed EXCEPT ![s] = 0]
  /\ disturbed' = [disturbed EXCEPT ![s] = FALSE]

-----------------------------------------------------------------------------
(* loop()                                                                  *)

(* digitalRead finds the button up, or down for one reading only.          *)
ButtonUp ==
  /\ pc = "button"
  /\ pc' = "operate"
  /\ UNCHANGED <<millis, handlerVars, i, lag, historyVars>>

(* Two readings 50 ms apart find it down.                                  *)
ButtonDown ==
  /\ pc = "button"
  /\ pc' = "held"
  /\ connect(i)
  /\ UNCHANGED <<millis, serversOperation, serversTimers, serversLastPing, i,
                 lag, elapsed, quiet, disturbed>>

ButtonReleased_StaysConnected ==
  /\ pc = "held"
  /\ pc' = "operate"
  /\ disturbed' = [disturbed EXCEPT ![i] = serversOperation[i] # "NO_OP"]
  /\ UNCHANGED <<millis, handlerVars, i, lag, elapsed, quiet, driven>>

ButtonReleased ==
  /\ pc = "held"
  /\ pc' = "operate"
  /\ disconnect(i)
  /\ disturbed' = [disturbed EXCEPT ![i] = serversOperation[i] # "NO_OP"]
  /\ UNCHANGED <<millis, serversOperation, serversTimers, serversLastPing, i,
                 lag, elapsed, quiet>>

(* The cases of the switch: a phase whose delay has passed ends.           *)
Over(s, op) == serversOperation[s] = op /\ Exceeded(serversTimers[s], Delay[op])

EndOperation(s) ==
  /\ Over(s, "TURN_ON") \/ Over(s, "TURN_OFF")
  /\ disconnect(s)
  /\ serversOperation' = [serversOperation EXCEPT ![s] = "NO_OP"]
  /\ elapsed' = [elapsed EXCEPT ![s] = 0]
  /\ disturbed' = [disturbed EXCEPT ![s] = FALSE]
  /\ UNCHANGED serversTimers

RestartPause(s) == Over(s, "RESTART") /\ disconnect(s) /\ Begin(s, "RESTART2")

RestartPress(s) == Over(s, "RESTART2") /\ connect(s) /\ Begin(s, "TURN_ON")

PhaseEnds(s) == EndOperation(s) \/ RestartPause(s) \/ RestartPress(s)

NoPhaseEnds(s) ==
  /\ \A op \in Operation : ~Over(s, op)
  /\ UNCHANGED <<serversOperation, serversTimers, relay, elapsed, driven, disturbed>>

Operate_OnePast ==
  /\ pc = "operate"
  /\ PhaseEnds(i) \/ NoPhaseEnds(i)
  /\ i' = i + 1
  /\ pc' = IF i + 1 <= serversCount THEN "button" ELSE "order"
  /\ UNCHANGED <<millis, serversLastPing, lag, quiet>>

Operate ==
  /\ pc = "operate"
  /\ PhaseEnds(i) \/ NoPhaseEnds(i)
  /\ \/ i + 1 < serversCount /\ i' = i + 1 /\ pc' = "button"
     \/ i + 1 = serversCount /\ UNCHANGED i /\ pc' = "order"
  /\ UNCHANGED <<millis, serversLastPing, lag, quiet>>

-----------------------------------------------------------------------------
(* The other methods, for any uint8_t, and processing_unit of main.ino     *)

(* An index out of range, an order that is refused, or no call at all.     *)
Refuse == UNCHANGED <<handlerVars, historyVars>>

(* An order needs an idle server that is, or is not, thought to be on.     *)
Accepts(s, on) ==
  s < serversCount /\ serversOperation[s] = "NO_OP" /\ isServerOn(s) = on

Press(s, op) ==
  /\ Begin(s, op)
  /\ connect(s)
  /\ UNCHANGED <<serversLastPing, quiet>>

turnOn(s)  == IF Accepts(s, FALSE) THEN Press(s, "TURN_ON") ELSE Refuse
turnOff(s) == IF Accepts(s, TRUE) THEN Press(s, "TURN_OFF") ELSE Refuse
restart(s) == IF Accepts(s, TRUE) THEN Press(s, "RESTART") ELSE Refuse

pingFromServer(s) ==
  IF s < serversCount
  THEN /\ serversLastPing' = [serversLastPing EXCEPT ![s] = millis]
       /\ quiet' = [quiet EXCEPT ![s] = 0]
       /\ UNCHANGED <<serversOperation, serversTimers, relay, elapsed, driven, disturbed>>
  ELSE Refuse

(* A message that was received, decrypted and checked.  An order carries   *)
(* the number of a server as text; server data is JSON, an object or, at   *)
(* best, the number of the server that sent it.                            *)
Message ==
  [type : {"0x50", "0x51", "0x52"}, number : Number]
    \cup [type : {"0x30"}, from : Server, json : {"object", "number"}]

(* atoi of the payload, passed as a uint8_t.  Of an object it is 0.        *)
server_number(m) ==
  IF m.type = "0x30" THEN IF m.json = "number" THEN m.from ELSE 0
                     ELSE m.number % 256

processing_unit(m) ==
  LET s == server_number(m) IN
  CASE m.type = "0x50" -> turnOn(s)
    [] m.type = "0x51" -> turnOff(s)
    [] m.type = "0x52" -> restart(s)
    [] m.type = "0x30" -> pingFromServer(s)

(* The end of a round of the main loop and the beginning of the next.      *)
NextRound ==
  /\ pc = "order"
  /\ pc' = "button" /\ i' = 0 /\ lag' = 0
  /\ UNCHANGED millis

(* is_received found a message, or none that processing_unit acts on.      *)
Receive(m) == NextRound /\ processing_unit(m)
Idle == NextRound /\ Refuse

(* Time passes between any two steps; a round of the main loop, with the   *)
(* buttons held in it, takes at most MaxPass.                              *)
Tick ==
  /\ lag < MaxPass
  /\ lag' = lag + 1
  /\ millis' = (millis + 1) % Wrap
  /\ elapsed' = [s \in Server |->
       IF serversOperation[s] = "NO_OP" THEN 0 ELSE elapsed[s] + 1]
  /\ quiet' = [s \in Server |->
       IF quiet[s] < SERVER_PING_TIME THEN quiet[s] + 1 ELSE quiet[s]]
  /\ UNCHANGED <<handlerVars, pc, i, driven, disturbed>>

Loop == ButtonUp \/ ButtonDown \/ ButtonReleased \/ Operate

Next ==
  \/ Tick
  \/ Loop
  \/ Idle
  \/ \E m \in Message : Receive(m)

Spec == Init /\ [][Next]_vars

-----------------------------------------------------------------------------
(* Safety                                                                  *)

Pressing(s) == serversOperation[s] \in {"TURN_ON", "TURN_OFF", "RESTART"}

(* The relay presses the power button exactly while an operation or a      *)
(* person does.  Two exceptions are the code's: a relay nobody has written *)
(* presses from the start of the program, and letting go of the push       *)
(* button ends the press of an operation before its time.                  *)
RelayFollowsOperation ==
  \A s \in Server :
    LET byHand == pc = "held" /\ i = s IN
    /\ relay[s] = "LOW" => Pressing(s) \/ byHand \/ ~driven[s]
    /\ relay[s] = "HIGH" => ~byHand /\ (Pressing(s) => disturbed[s])

(* The phases that are left of each server's order.                        *)
PhasesLeft == [NO_OP |-> <<>>, TURN_ON |-> <<"press">>, TURN_OFF |-> <<"hold">>,
               RESTART |-> <<"hold", "pause", "press">>,
               RESTART2 |-> <<"pause", "press">>]

PlanLeft == [s \in Server |-> PhasesLeft[serversOperation[s]]]

Plan == INSTANCE PowerPlan WITH
  plan <- PlanLeft,
  Time <- [press |-> TURN_ON_DELAY, hold |-> TURN_OFF_DELAY,
           pause |-> RESTART_OFF_ON_DELAY]

(* An order is carried out as a plan of phases in real time, although the  *)
(* timers wrap and the loop may be late: every phase lasts longer than its *)
(* delay, in the order of the plan, and no order is accepted meanwhile.    *)
OrdersArePlans == Plan!Spec

(* turnOn never presses the power button of a server that sent data within *)
(* SERVER_PING_TIME: the press would suspend it or shut it down.           *)
NeverPressesHeard ==
  [][\A s \in Server :
       quiet[s] < SERVER_PING_TIME /\ serversOperation[s] = "NO_OP" =>
         serversOperation'[s] # "TURN_ON"]_vars

(* An accepted order does not hang: no phase outlasts its delay by more    *)
(* than the two rounds of the loop in which its end may fall, however the  *)
(* clock stands when it begins and whatever buttons are pressed.           *)
OrdersEndInTime ==
  \A s \in Server :
    serversOperation[s] # "NO_OP" =>
      elapsed[s] <= Delay[serversOperation[s]] + 2 * MaxPass

-----------------------------------------------------------------------------
(* The comments of main.ino and protocol-specifications.md say that 0x51   *)
(* is "restart server" and 0x52 "shutdown server": an order that presses   *)
(* the button of an idle server begins what its type says.                 *)
OrdersMatchTheirTypes ==
  [][\A m \in Message :
       LET s == server_number(m) IN
       Receive(m) /\ s \in Server => serversOperation'[s] \in
         {serversOperation[s]} \cup
         CASE m.type = "0x50" -> {"TURN_ON"}
           [] m.type = "0x51" -> {"RESTART"}
           [] m.type = "0x52" -> {"TURN_OFF"}
           [] OTHER -> {}]_vars

=============================================================================
