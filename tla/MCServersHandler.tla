-------------------------- MODULE MCServersHandler --------------------------
(* ServersHandler for TLC: the numbers in orders.                          *)
EXTENDS ServersHandler

(* Both servers, one that is out of range, and -1 and 256 as a uint8_t.    *)
Numbers == {0, 1, 2, -1, 256}
=============================================================================
