---------------------------- MODULE FlightService ----------------------------
(***************************************************************************)
(* FlightService: the flights and their schedules.  createFlight commits   *)
(* two statements, one after the other; transitionFlightStatus, which      *)
(* DelayService and EmergencyService call too, commits one.                *)
(*                                                                         *)
(* `operation` is the flight, delay or emergency handler in progress, and  *)
(* `outcome` what the last one returned or threw.  Schedule ids "SC0001",  *)
(* "SC0002", ... are 1, 2, ....                                            *)
(***************************************************************************)
EXTENDS AirportDatabase

CONSTANTS
  SeedSchedules,     \* rows of flight_schedules when the run begins
  FirstScheduleId,   \* the number scheduleIdGen_ starts with in every process
  MaxScheduleId,     \* bound: ids the generator hands out
  EnteredWindows,    \* arrival and departure times the administrator enters
  EnteredStatuses    \* bound: target statuses the manager picks

VARIABLES
  schedules,         \* rows of flight_schedules, by schedule_id
  nextScheduleId,    \* scheduleIdGen_.counter_, in memory only
  operation,         \* the handler in progress
  outcome            \* what the handler that just ended returned or threw

ScheduleRows ==
  [flight : Flights, scheduled : TimeWindows, estimated : TimeWindows]

ASSUME ScheduleAssumption ==
  /\ DOMAIN SeedSchedules \subseteq Nat
  /\ SeedSchedules \in [DOMAIN SeedSchedules -> ScheduleRows]
  /\ \A s \in DOMAIN SeedSchedules : SeedSchedules[s].flight \in SeedFlights
  /\ \A s, t \in DOMAIN SeedSchedules :
       SeedSchedules[s].flight = SeedSchedules[t].flight => s = t
  /\ \A s \in DOMAIN SeedSchedules :
       SeedSchedules[s].estimated = SeedSchedules[s].scheduled
  /\ FirstScheduleId \in Nat
  /\ MaxScheduleId \in Nat
  /\ EnteredWindows \subseteq TimeWindows

AtMenu == [step |-> "menu"]

CreateOperations ==
  [step : {"saveSchedule"}, flight : Flights, window : TimeWindows, id : Nat]

\* `warned` is DelayOutcome::resourceWarnings, as the set of allocations warned of.
Outcomes == [kind : {"none", "done", "exception"}, warned : SUBSET Nat]

Ended(kind) == [kind |-> kind, warned |-> {}]

FlightTypeOK ==
  /\ DOMAIN schedules \subseteq Nat
  /\ schedules \in [DOMAIN schedules -> ScheduleRows]
  /\ nextScheduleId \in Nat
  /\ outcome \in Outcomes

FlightInit ==
  /\ schedules = SeedSchedules
  /\ nextScheduleId = FirstScheduleId
  /\ operation = AtMenu
  /\ outcome = Ended("none")

\* The handler ends; an exception is shown at the menu, too.
Finish(kind) ==
  /\ operation' = AtMenu
  /\ outcome' = Ended(kind)

Continue(next) ==
  /\ operation' = next
  /\ outcome' = Ended("none")

-----------------------------------------------------------------------------
(* createFlight                                                            *)

\* Mutant of NewFlight: the id is not looked up, saveFlight overwrites.
AnyFlight(f) == f \in Flights

NewFlight(f) == f \notin DOMAIN flights

RejectFlight(f) ==
  /\ operation = AtMenu
  /\ ~ NewFlight(f)
  /\ Finish("exception")
  /\ UNCHANGED <<flights, schedules, nextScheduleId>>

\* saveFlight, an upsert, and the next schedule id.
SaveFlight(f, window) ==
  /\ operation = AtMenu
  /\ NewFlight(f)
  /\ nextScheduleId <= MaxScheduleId
  /\ flights' = Inserted(flights, f, "SCHEDULED")
  /\ nextScheduleId' = nextScheduleId + 1
  /\ Continue([step |-> "saveSchedule", flight |-> f, window |-> window,
               id |-> nextScheduleId])
  /\ UNCHANGED schedules

\* saveFlightSchedule: an upsert.  On a schedule_id that is taken only the
\* estimates change; flight_id stays that of the row.
ScheduleSaved(id, f, window) ==
  IF id \in DOMAIN schedules
  THEN [schedules EXCEPT ![id].estimated = window]
  ELSE Inserted(schedules, id,
                [flight |-> f, scheduled |-> window, estimated |-> window])

SaveSchedule ==
  /\ operation.step = "saveSchedule"
  /\ schedules' = ScheduleSaved(operation.id, operation.flight, operation.window)
  /\ Finish("done")
  /\ UNCHANGED <<flights, nextScheduleId>>

-----------------------------------------------------------------------------
(* transitionFlightStatus                                                  *)

\* Mutant of MayTransition: the edge table is not consulted.
IsAnotherStatus(f, status) == f \in DOMAIN flights /\ flights[f] # status

\* getFlight and Flight::transitionTo throw otherwise.
MayTransition(f, status) ==
  /\ f \in DOMAIN flights
  /\ IsTransitionAllowed(FlightStatusOf(f), status)

\* What the manager's menu offers.
ManagerStatuses ==
  { "APPROACHING", "ARRIVED", "GROUND_OPERATIONS", "BOARDING",
    "READY_FOR_DEPARTURE", "DEPARTED", "COMPLETED", "CANCELLED" }

ChangeStatus(f, status) ==
  /\ operation = AtMenu
  /\ MayTransition(f, status)
  /\ flights' = StatusUpdated(flights, f, ToText(status))
  /\ Finish("done")
  /\ UNCHANGED <<schedules, nextScheduleId>>

RejectStatus(f, status) ==
  /\ operation = AtMenu
  /\ ~ MayTransition(f, status)
  /\ Finish("exception")
  /\ UNCHANGED <<flights, schedules, nextScheduleId>>

-----------------------------------------------------------------------------
\* What the administrator starts.
CreateCommand ==
  \E f \in Flights :
    RejectFlight(f) \/ \E window \in EnteredWindows : SaveFlight(f, window)

\* What the operations manager starts.
StatusCommand ==
  \E f \in Flights, status \in ManagerStatuses \cap EnteredStatuses :
    ChangeStatus(f, status) \/ RejectStatus(f, status)

\* findScheduleByFlightId reads one of these rows, updateScheduleEstimates
\* writes them all.
SchedulesOf(f) == {s \in DOMAIN schedules : schedules[s].flight = f}
=============================================================================
