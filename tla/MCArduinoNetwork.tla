-------------------------- MODULE MCArduinoNetwork --------------------------
(* ArduinoNetwork for TLC: the server's pings, some of them spoilt, and    *)
(* messages with a payload of one byte.                                    *)
EXTENDS ArduinoNetwork

Lengths == {1}
Kinds == {"serverPing", "spoiltPing", "data"}
=============================================================================
