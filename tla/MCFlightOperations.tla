-------------------------- MODULE MCFlightOperations --------------------------
(***************************************************************************)
(* Small instances of FlightOperations for TLC: a flight that is there     *)
(* from the start, with a schedule, and one that may be created; or none   *)
(* is there.  The first schedule id of the process is new, or it is the    *)
(* one of the first flight, which an earlier process created.              *)
(***************************************************************************)
EXTENDS FlightClaims, TLC

CONSTANTS f1, f2

SeededSchedules ==
  (1 :> [flight |-> f1, scheduled |-> [start |-> 1, end |-> 3],
         estimated |-> [start |-> 1, end |-> 3]])

\* What an earlier process left: its first schedule id, for its first flight.
EarlierSchedules ==
  (3 :> [flight |-> f1, scheduled |-> [start |-> 2, end |-> 4],
         estimated |-> [start |-> 2, end |-> 4]])

NoSchedules == << >>

NewWindows == {[start |-> 2, end |-> 4]}

\* A window that no delay turns into that of the first flight, nor back.
OtherWindows == {[start |-> 1, end |-> 6]}
=============================================================================
