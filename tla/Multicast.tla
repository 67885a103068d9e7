----------------------------- MODULE Multicast -----------------------------
(***************************************************************************)
(* What network.h promises of the registry: a device that was added is     *)
(* "used in the future in any broadcast", one that was removed receives    *)
(* none, and a broadcast goes "to every device connected".  Every origin   *)
(* has a channel to every device, which loses, doubles and reorders        *)
(* nothing; a message enters the channels of those who are members when it *)
(* is cast.                                                                *)
(***************************************************************************)
EXTENDS Naturals, Sequences

CONSTANT Device

VARIABLES
  members,        \* the devices of the network
  casts,          \* how many messages each origin has cast
  channel,        \* the numbers of those on their way, by origin and device
  given           \* what each device was given, in order

vars == <<members, casts, channel, given>>

Init ==
  /\ members = {}
  /\ casts = [r \in Device |-> 0]
  /\ channel = [r \in Device |-> [d \in Device |-> <<>>]]
  /\ given = [d \in Device |-> <<>>]

(* add_device_to_network and remove_device_from_network.                   *)
Add(d) ==
  /\ d \notin members /\ members' = members \cup {d}
  /\ UNCHANGED <<casts, channel, given>>
Remove(d) ==
  /\ d \in members /\ members' = members \ {d}
  /\ UNCHANGED <<casts, channel, given>>

(* broadcast_to_network.                                                   *)
Cast(r) ==
  /\ casts' = [casts EXCEPT ![r] = @ + 1]
  /\ channel' = [channel EXCEPT ![r] =
       [d \in Device |->
          IF d \in members THEN Append(channel[r][d], casts[r] + 1) ELSE channel[r][d]]]
  /\ UNCHANGED <<members, given>>

(* A device is given the oldest message of one origin.                     *)
Give(r, d) ==
  /\ channel[r][d] # <<>>
  /\ given' = [given EXCEPT ![d] =
       Append(@, [origin |-> r, seq |-> Head(channel[r][d])])]
  /\ channel' = [channel EXCEPT ![r][d] = Tail(channel[r][d])]
  /\ UNCHANGED <<members, casts>>

Next ==
  \/ \E d \in Device : Add(d) \/ Remove(d)
  \/ \E r \in Device : Cast(r)
  \/ \E r, d \in Device : Give(r, d)

Spec == Init /\ [][Next]_vars

=============================================================================
