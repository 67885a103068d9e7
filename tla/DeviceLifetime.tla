--------------------------- MODULE DeviceLifetime ---------------------------
(***************************************************************************)
(* What memory.h promises of a shared DeviceData: "keep track of usage of  *)
(* the device, in cas the device no longer in use it will be freed".  An   *)
(* object is used by a set of users; users join it only while it lives,    *)
(* and it is freed by the step in which its last user leaves, once.        *)
(***************************************************************************)
CONSTANTS
  Device,         \* the objects
  User            \* whoever may hold a reference to an object

VARIABLES
  phase,          \* "none" before `new', "live", "freed" after `delete'
  users           \* the users that hold a reference to each object

vars == <<phase, users>>

Init ==
  /\ phase = [d \in Device |-> "none"]
  /\ users = [d \in Device |-> {}]

(* main.cpp creates an object for every connection it finds waiting.       *)
Create(D) ==
  /\ \A d \in D : phase[d] = "none"
  /\ phase' = [d \in Device |-> IF d \in D THEN "live" ELSE phase[d]]
  /\ UNCHANGED users

(* acquire; a broadcast takes references to several objects at once.       *)
Join(u, D) ==
  /\ \A d \in D : phase[d] = "live" /\ u \notin users[d]
  /\ users' = [d \in Device |-> IF d \in D THEN users[d] \cup {u} ELSE users[d]]
  /\ UNCHANGED phase

(* release: the last user out frees the object.                            *)
Leave(u, d) ==
  /\ u \in users[d]
  /\ users' = [users EXCEPT ![d] = @ \ {u}]
  /\ phase' = [phase EXCEPT ![d] = IF users[d] = {u} THEN "freed" ELSE @]

Next ==
  \/ \E D \in SUBSET Device : Create(D)
  \/ \E u \in User, D \in SUBSET Device : Join(u, D)
  \/ \E u \in User, d \in Device : Leave(u, d)

Spec == Init /\ [][Next]_vars

=============================================================================
