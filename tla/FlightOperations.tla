-------------------------- MODULE FlightOperations --------------------------
(***************************************************************************)
(* FlightService, DelayService and EmergencyService on one database: the   *)
(* three change flights.status through one edge table, and each keeps      *)
(* tables and an id generator of its own.  The console runs one handler at *)
(* a time; between two statements of a handler a statement can fail or the *)
(* process can die.                                                        *)
(***************************************************************************)
EXTENDS DelayService, EmergencyService

CONSTANT Faults   \* which of "crash" and "statement" failures happen

allocationTables == <<resources, allocations, allocationStaff>>
scheduleVars == <<schedules, nextScheduleId>>
delayVars == <<delays, nextDelayId>>
emergencyVars == <<emergencies, nextEmergencyId>>

vars == <<flights, resources, allocations, allocationStaff, schedules,
          nextScheduleId, delays, nextDelayId, emergencies, nextEmergencyId,
          operation, outcome>>

Operations ==
  {AtMenu} \cup CreateOperations \cup DelayOperations \cup EmergencyOperations

TypeOK ==
  /\ DatabaseTypeOK
  /\ FlightTypeOK
  /\ DelayTypeOK
  /\ EmergencyTypeOK
  /\ operation \in Operations

Init == DatabaseInit /\ FlightInit /\ DelayInit /\ EmergencyInit

-----------------------------------------------------------------------------
\* The statements of the handler in progress.
Advance ==
  \/ SaveSchedule /\ UNCHANGED <<allocationTables, delayVars, emergencyVars>>
  \/ AdvanceDelay /\ UNCHANGED <<allocationTables, nextScheduleId, emergencyVars>>
  \/ AdvanceEmergency /\ UNCHANGED <<allocationTables, scheduleVars, delayVars>>

\* What the administrator starts at the menu.
AdministratorCommand ==
  CreateCommand /\ UNCHANGED <<allocationTables, delayVars, emergencyVars>>

\* What the operations manager starts at the menu.
ManagerCommand ==
  \/ StatusCommand /\ UNCHANGED <<allocationTables, delayVars, emergencyVars>>
  \/ DelayCommand /\ UNCHANGED <<allocationTables, nextScheduleId, emergencyVars>>
  \/ EmergencyCommand /\ UNCHANGED <<allocationTables, scheduleVars, delayVars>>

tablesAndGenerators ==
  <<flights, resources, allocations, allocationStaff, scheduleVars, delayVars,
    emergencyVars>>

\* Stmt::run or Stmt::next throws; what the handler committed stays.
StatementFails ==
  /\ "statement" \in Faults
  /\ operation # AtMenu
  /\ Finish("exception")
  /\ UNCHANGED tablesAndGenerators

\* The process ends and is started again: every generator starts over.
Restart ==
  /\ "crash" \in Faults
  /\ operation' = AtMenu
  /\ outcome' = Ended("none")
  /\ nextScheduleId' = FirstScheduleId
  /\ nextDelayId' = 1
  /\ nextEmergencyId' = 1
  /\ UNCHANGED <<flights, allocationTables, schedules, delays, emergencies>>

Next ==
  Advance \/ AdministratorCommand \/ ManagerCommand \/ StatementFails \/ Restart

Spec == Init /\ [][Next]_vars

\* A handler, once started, runs on by itself: it waits for nobody.
FairSpec == Spec /\ WF_vars(Advance)

-----------------------------------------------------------------------------
(* Safety                                                                  *)

\* A flight has at most one schedule, whatever ids come again: otherwise
\* findScheduleByFlightId would read one row and updateScheduleEstimates
\* overwrite the others with it.
OneSchedulePerFlight ==
  \A s, t \in DOMAIN schedules : schedules[s].flight = schedules[t].flight => s = t

\* A DELAYED flight has a delay on record: the history explains the status,
\* whichever statement of applyDelay was the last that was committed.
DelayedMeansRecorded ==
  \A f \in DOMAIN flights :
    flights[f] = "DELAYED" => \E d \in DOMAIN delays : delays[d].flight = f

\* No flight has two emergency records: the lifecycle leads through
\* EMERGENCY_LANDING once at most, and declareEmergency relies on it.
OneEmergencyPerFlight ==
  \A d, e \in DOMAIN emergencies :
    emergencies[d].flight = emergencies[e].flight => d = e

\* A flight with an emergency record has entered EMERGENCY_LANDING: it is
\* not waiting to be, and it did not arrive or get cancelled another way.
EmergencyEntersTheLifecycle ==
  \A e \in DOMAIN emergencies :
    flights[emergencies[e].flight] \notin {"SCHEDULED", "APPROACHING", "ARRIVED"}

\* Once an emergency is in GROUND_HANDLING its flight has left
\* EMERGENCY_LANDING, also when recordLanding, beginGroundHandling and
\* resolveEmergency are called again in any order.
HandlingFollowsFlight ==
  \A e \in DOMAIN emergencies :
    emergencies[e].status = "GROUND_HANDLING" =>
      flights[emergencies[e].flight] # "EMERGENCY_LANDING"

\* The minutes of the delays on record for a flight, each with its delay.
MinutesOf(f) ==
  UNION {{d} \X (1 .. delays[d].minutes) :
           d \in {e \in DOMAIN delays : delays[e].flight = f}}

RecordedMinutes(f) == Cardinality(MinutesOf(f))

\* The estimates of a schedule are its times moved, both alike.
MovedBy(s, minutes) ==
  /\ schedules[s].estimated.start = schedules[s].scheduled.start + minutes
  /\ schedules[s].estimated.end = schedules[s].scheduled.end + minutes

\* Schedules with estimates that the delay history does not account for.
Misled ==
  {s \in DOMAIN schedules :
     ~ \E minutes \in 0 .. RecordedMinutes(schedules[s].flight) : MovedBy(s, minutes)}

Unscheduled == {f \in DOMAIN flights : SchedulesOf(f) = {}}

\* The estimates of a flight are its scheduled times moved, both alike, by
\* no more minutes than its delay history accounts for.  Nothing but a
\* schedule id that comes again spoils this, and only for the one flight that
\* has the id: for each schedule with other estimates there is a flight of
\* its own that was created over it and has no schedule since.
EstimatesFollowDelays == ExistsInjection(Misled, Unscheduled)

EveryClashIsWarnedOf ==
  operation.step = "checkResources" /\ outcome'.kind = "done" =>
    \A a \in ActiveAllocations, b \in ActiveAllocations :
      /\ allocations[a].flight = operation.flight
      /\ a \notin outcome'.warned
      /\ allocations[b].flight # operation.flight
      /\ ResourcesOf(a) \cap ResourcesOf(b) # {}
      => InstantsOf(operation.window) \cap InstantsOf(allocations[b].window) = {}

\* When applyDelay returns, an allocation it does not warn of can be moved to
\* the new times as it is: no other flight has one of its resources then.
WarningsAreComplete == [][EveryClashIsWarnedOf]_vars

EveryStatementIsDone ==
  outcome'.kind = "done" =>
    /\ operation.step = "checkResources" =>
         /\ operation.id \in DOMAIN delays
         /\ delays[operation.id] =
              [flight |-> operation.flight, minutes |-> operation.minutes]
         /\ flights[operation.flight] = "DELAYED"
         /\ \E s \in DOMAIN schedules :
              /\ schedules[s].flight = operation.flight
              /\ schedules[s].estimated = operation.window
    /\ operation.step = "saveEmergency" =>
         /\ flights[operation.flight] = "EMERGENCY_LANDING"
         /\ emergencies'[operation.id].flight = operation.flight
    /\ operation.step = "markHandling" =>
         /\ flights[operation.flight] = "GROUND_OPERATIONS"
         /\ emergencies'[operation.id].flight = operation.flight

\* When a handler of several statements reports success, what each of them
\* wrote is there and agrees, whatever restarts left before and whichever ids
\* came again: the delay that was entered is on record, the flight DELAYED
\* and its schedule at the times that were checked; the emergency belongs to
\* the flight that is in it, and so does its handling.
DoneIsComplete == [][EveryStatementIsDone]_vars

(* Liveness                                                                *)

\* Every handler returns to the menu.
HandlersReturn == operation # AtMenu ~> operation = AtMenu

-----------------------------------------------------------------------------
(* The inductive invariant behind the safety properties: what the tables   *)
(* look like between any two statements, and how far the handler in        *)
(* progress has come.                                                      *)

\* The foreign keys of flight_schedules and emergency_landings.
RowsHaveFlights ==
  /\ \A s \in DOMAIN schedules : schedules[s].flight \in DOMAIN flights
  /\ \A e \in DOMAIN emergencies : emergencies[e].flight \in DOMAIN flights

\* createFlight saves the schedule of a flight that has none.
CreateProgress ==
  operation.step = "saveSchedule" =>
    operation.flight \in DOMAIN flights /\ SchedulesOf(operation.flight) = {}

\* applyDelay has recorded its delay, then set the status, then moved a schedule.
DelayProgress ==
  /\ operation.step \in {"delayFlight", "shiftSchedule", "checkResources"} =>
       /\ operation.id \in DOMAIN delays
       /\ delays[operation.id] =
            [flight |-> operation.flight, minutes |-> operation.minutes]
  /\ operation.step \in {"shiftSchedule", "checkResources"} =>
       operation.flight \in DOMAIN flights /\ flights[operation.flight] = "DELAYED"
  /\ operation.step = "checkResources" =>
       \E s \in SchedulesOf(operation.flight) : schedules[s].estimated = operation.window

\* declareEmergency has set the status of a flight that has no record;
\* beginGroundHandling has set the status of the flight of its record.
EmergencyProgress ==
  /\ operation.step = "saveEmergency" =>
       /\ operation.flight \in DOMAIN flights
       /\ flights[operation.flight] = "EMERGENCY_LANDING"
       /\ \A e \in DOMAIN emergencies : emergencies[e].flight # operation.flight
  /\ operation.step = "markHandling" =>
       /\ operation.id \in DOMAIN emergencies
       /\ emergencies[operation.id].flight = operation.flight
       /\ flights[operation.flight] = "GROUND_OPERATIONS"

\* What of a flight's recorded minutes its schedule has yet to be moved by.
PendingMinutes(f) ==
  IF operation.step \in {"delayFlight", "shiftSchedule"} /\ operation.flight = f
  THEN operation.minutes
  ELSE 0

\* The recorded minutes account for the estimates and for what is pending.
Accounted(s) ==
  LET f == schedules[s].flight
  IN  \E minutes \in 0 .. (RecordedMinutes(f) - PendingMinutes(f)) : MovedBy(s, minutes)

Unaccounted == {s \in DOMAIN schedules : ~ Accounted(s)}

\* A flight whose schedule createFlight is about to save is not given up yet.
GivenUp == {f \in Unscheduled : operation.step = "saveSchedule" => operation.flight # f}

\* Delays last for finitely many minutes, and at least one; what the estimates
\* may still need is kept for them.
EstimateProgress ==
  /\ operation.step \in {"recordDelay", "delayFlight", "shiftSchedule"} =>
       operation.minutes > 0
  /\ \A f \in Flights : IsFiniteSet(MinutesOf(f))
  /\ ExistsInjection(Unaccounted, GivenUp)

\* All of them together are preserved by every step of the services.
IInv ==
  /\ TypeOK
  /\ RowsHaveFlights
  /\ OneSchedulePerFlight
  /\ DelayedMeansRecorded
  /\ OneEmergencyPerFlight
  /\ EmergencyEntersTheLifecycle
  /\ HandlingFollowsFlight
  /\ CreateProgress
  /\ DelayProgress
  /\ EmergencyProgress
  /\ EstimateProgress
=============================================================================
