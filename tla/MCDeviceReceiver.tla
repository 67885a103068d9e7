---------------------------- MODULE MCDeviceReceiver ----------------------------
(* DeviceReceiver for TLC: messages with a payload of one byte or none.         *)
EXTENDS DeviceReceiver

Lengths == {1}
Kinds == {"ping", "data", "unknown"}
=============================================================================
