------------------------------- MODULE Flight -------------------------------
(***************************************************************************)
(* The flight life cycle: the states of FlightStatus and the static edge   *)
(* table that Flight::transitionTo consults before every status change.    *)
(* This module has no state of its own; every service module that changes  *)
(* flights.status uses it.                                                 *)
(***************************************************************************)

FlightStatuses ==
  { "SCHEDULED", "APPROACHING", "ARRIVED", "EMERGENCY_LANDING",
    "GROUND_OPERATIONS", "BOARDING", "READY_FOR_DEPARTURE", "DEPARTED",
    "COMPLETED", "DELAYED", "CANCELLED" }

\* The states a flight that leaves `from` can reach in one transition.
Successors(from) ==
  CASE from = "SCHEDULED"           -> {"APPROACHING", "CANCELLED"}
    [] from = "APPROACHING"         -> {"ARRIVED", "EMERGENCY_LANDING", "CANCELLED"}
    [] from = "EMERGENCY_LANDING"   -> {"GROUND_OPERATIONS"}
    [] from = "ARRIVED"             -> {"GROUND_OPERATIONS"}
    [] from = "GROUND_OPERATIONS"   -> {"BOARDING", "DELAYED"}
    [] from = "BOARDING"            -> {"READY_FOR_DEPARTURE", "DELAYED"}
    [] from = "READY_FOR_DEPARTURE" -> {"DEPARTED", "DELAYED"}
    [] from = "DEPARTED"            -> {"COMPLETED"}
    [] from = "DELAYED"             -> {"GROUND_OPERATIONS", "BOARDING",
                                        "READY_FOR_DEPARTURE", "CANCELLED"}
    [] OTHER                        -> {}

IsTransitionAllowed(from, to) == to \in Successors(from)

\* The states in which AllocationService::allocate serves a flight.
AllocatableStates ==
  { "SCHEDULED", "APPROACHING", "ARRIVED", "EMERGENCY_LANDING",
    "GROUND_OPERATIONS", "DELAYED" }
=============================================================================
