----------------------------- MODULE MCMonitor -----------------------------
(* Monitor for TLC: motion, which is read in every round, and flame or     *)
(* smoke, which is read at intervals.                                      *)
EXTENDS Monitor

BothRead  == <<0, 1>>
BothUp    == <<4, 4>>
=============================================================================
