------------------------------ MODULE PowerPlan ------------------------------
(***************************************************************************)
(* What an order to the power button of a server means: a plan of phases,  *)
(* carried out one after the other, each for longer than its time, before  *)
(* another order is accepted.  The Arduino measures the phases with a      *)
(* counter that wraps; here they are measured in real time.                *)
(***************************************************************************)
EXTENDS Naturals, Sequences

CONSTANTS
  Server,     \* the controlled servers
  Time        \* the time of each phase

VARIABLES
  plan,       \* the phases left of the order each server carries out
  elapsed     \* real time since its current phase began

vars == <<plan, elapsed>>

(* "press" and "hold" push the power button, "pause" leaves it alone.      *)
Phase == {"press", "hold", "pause"}

TurnOn  == <<"press">>
TurnOff == <<"hold">>
Restart == <<"hold", "pause", "press">>

Init ==
  /\ plan = [s \in Server |-> <<>>]
  /\ elapsed = [s \in Server |-> 0]

Accept(s, p) ==
  /\ plan[s] = <<>>
  /\ plan' = [plan EXCEPT ![s] = p]
  /\ elapsed' = [elapsed EXCEPT ![s] = 0]

FinishPhase(s) ==
  /\ plan[s] # <<>>
  /\ elapsed[s] > Time[Head(plan[s])]
  /\ plan' = [plan EXCEPT ![s] = Tail(@)]
  /\ elapsed' = [elapsed EXCEPT ![s] = 0]

TimePasses ==
  /\ elapsed' = [s \in Server |-> IF plan[s] = <<>> THEN 0 ELSE elapsed[s] + 1]
  /\ UNCHANGED plan

Next ==
  \/ \E s \in Server, p \in {TurnOn, TurnOff, Restart} : Accept(s, p)
  \/ \E s \in Server : FinishPhase(s)
  \/ TimePasses

Spec == Init /\ [][Next]_vars

=============================================================================
