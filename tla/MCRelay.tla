------------------------------ MODULE MCRelay ------------------------------
(* Relay for TLC: devices and descriptors are model values.                *)
EXTENDS Relay, TLC

Origin == CHOOSE d \in Device : TRUE

(* Numbers of data messages: the other devices only ping, or all send one.     *)
OneFromOrigin == [d \in Device |-> IF d = Origin THEN 1 ELSE 0]
OneEach       == [d \in Device |-> 1]
TwoFromOrigin == [d \in Device |-> IF d = Origin THEN 2 ELSE 0]

AllMayEnd    == Device
OthersMayEnd == Device \ {Origin}
NoneMayEnd   == {}

(* Only descriptors are interchangeable: Origin is not like the others.    *)
Symmetry == Permutations(Fd)
=============================================================================
