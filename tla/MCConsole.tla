------------------------------ MODULE MCConsole ------------------------------
(***************************************************************************)
(* A small instance of Console for TLC: three users, a gate and a flight   *)
(* that are seeded, a vehicle that is added, and a flight that is created  *)
(* and to which the two can be allocated.                                  *)
(***************************************************************************)
EXTENDS Console, TLC

CONSTANTS f1, f2, g1, v1

Row(table, key, row) == [table |-> table, key |-> key, row |-> row]

Seeding ==
  << Row("users", "admin", "ADMINISTRATOR"),
     Row("users", "opsmgr", "OPERATIONS_MANAGER"),
     Row("users", "staff1", "GROUND_STAFF"),
     Row("resources", g1, "AVAILABLE"),
     Row("flights", f1, "SCHEDULED"),
     Row("flight_schedules", 1, [flight |-> f1, window |-> [start |-> 1, end |-> 3]]) >>

EmptyTable == << >>

OneRequest ==
  { [flight |-> f2, gate |-> g1, vehicle |-> v1, staff |-> << >>,
     window |-> [start |-> 1, end |-> 3]] }

NewWindows == {[start |-> 2, end |-> 4]}
=============================================================================
