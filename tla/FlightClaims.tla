----------------------------- MODULE FlightClaims -----------------------------
(***************************************************************************)
(* What the repository says of flights and emergencies and the code does   *)
(* not do.  Each property is checked by a run of its own, which finds it   *)
(* violated.                                                               *)
(***************************************************************************)
EXTENDS FlightOperations

\* tests/test_flight.cpp:31-32 read the schedule of a flight just created and
\* assert that there is one: when createFlight returns, the flight has a
\* schedule.  After a restart SC1000 comes again and the upsert changes the
\* estimates of the flight that has it instead.
CreatedFlightsHaveSchedules ==
  [][operation.step = "saveSchedule" /\ outcome'.kind = "done" =>
       \E s \in DOMAIN schedules' : schedules'[s].flight = operation.flight]_vars

\* EmergencyService.cpp:38, "After landing, ground operations can begin": an
\* emergency whose ground handling begins has a landing time.  The code
\* compares the flight of the emergency and the status of the flight only.
GroundHandlingAfterLanding ==
  \A e \in DOMAIN emergencies :
    emergencies[e].status = "GROUND_HANDLING" => emergencies[e].landed
=============================================================================
