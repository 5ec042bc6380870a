------------------------------ MODULE MCAirport ------------------------------
(***************************************************************************)
(* A small instance of Airport for TLC: two flights that use one gate and  *)
(* one vehicle, which is added, until the first of them is delayed.        *)
(***************************************************************************)
EXTENDS Airport, TLC

CONSTANTS f1, f2, g1, v1

Request(f, from, to) ==
  [flight |-> f, gate |-> g1, vehicle |-> v1, staff |-> << >>,
   window |-> [start |-> from, end |-> to]]

ConsecutiveRequests ==
  { Request(f1, 1, 3), Request(f2, 3, 5) }

Schedule(f, from, to) ==
  [flight |-> f, scheduled |-> [start |-> from, end |-> to],
   estimated |-> [start |-> from, end |-> to]]

SeededSchedules == (1 :> Schedule(f1, 1, 3)) @@ (2 :> Schedule(f2, 3, 5))
=============================================================================
