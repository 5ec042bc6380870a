----------------------------- MODULE MCMonitoring -----------------------------
(***************************************************************************)
(* A small instance of Monitoring for TLC: one flight with a schedule, a   *)
(* flight id nobody created, and readings on both sides of every threshold *)
(* and with two measures at once.                                          *)
(***************************************************************************)
EXTENDS Monitoring, TLC

CONSTANTS f1, f2

SeededSchedules ==
  (1 :> [flight |-> f1, scheduled |-> [start |-> 1, end |-> 3],
         estimated |-> [start |-> 1, end |-> 3]])

Reading(wind, visibility, precipitation, condition) ==
  [wind |-> wind, visibility |-> visibility, precipitation |-> precipitation,
   condition |-> condition]

ThresholdReadings ==
  { Reading(19, 30, 9, "SNOW"),
    Reading(20, 100, 0, "CLEAR"),
    Reading(0, 100, 10, "RAIN"),
    Reading(35, 100, 0, "CLOUDY"),
    Reading(0, 29, 10, "RAIN"),
    Reading(20, 100, 20, "RAIN"),
    Reading(0, 10, 0, "FOG"),
    Reading(50, 29, 20, "FOG"),
    Reading(49, 9, 0, "CLEAR"),
    Reading(34, 100, 0, "STORM") }

=============================================================================
