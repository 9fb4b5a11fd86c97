---------------------------- MODULE MCSensorMon ----------------------------
(* SensorMon for TLC: two thresholds, 2 and 3, and a hysteresis of 1.      *)
EXTENDS SensorMon

MCThreshold == [l \in 1 .. 2 |-> l + 1]
=============================================================================
