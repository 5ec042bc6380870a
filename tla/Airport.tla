------------------------------- MODULE Airport -------------------------------
(***************************************************************************)
(* The console program: the allocation and resource services, and the      *)
(* flight, delay and emergency services, on one database.  The menu loop   *)
(* of ConsoleUI::run starts one handler at a time, so a call of one group  *)
(* is open only while the other group is at the menu; when the process     *)
(* dies, both lose what they keep in memory.                               *)
(***************************************************************************)
EXTENDS ConflictDetector

CONSTANTS
  Requests, NoRequest, MaxAllocationId, AdminStatuses,
  SeedSchedules, FirstScheduleId, MaxScheduleId, EnteredWindows,
  EnteredStatuses, EnteredMinutes, MaxDelayId, MaxEmergencyId,
  Faults

VARIABLES
  nextAllocationId, call, result,
  schedules, nextScheduleId, delays, nextDelayId, emergencies,
  nextEmergencyId, operation, outcome

\* The allocation service, seen together with the calendar that it keeps.
Allocation == INSTANCE AllocationRefinement WITH ReachedStatuses <- FlightStatuses

Operations == INSTANCE FlightOperations

\* What the two services ask of their constants.
ASSUME AllocationAssumption ==
  /\ Requests \subseteq AllocationRequests
  /\ NoRequest \notin Requests
  /\ MaxAllocationId \in Nat
  /\ AdminStatuses \subseteq ResourceStatuses

ASSUME OperationAssumption ==
  /\ DOMAIN SeedSchedules \subseteq Nat
  /\ SeedSchedules \in [DOMAIN SeedSchedules ->
        [flight : Flights, scheduled : TimeWindows, estimated : TimeWindows]]
  /\ \A s \in DOMAIN SeedSchedules : SeedSchedules[s].flight \in SeedFlights
  /\ \A s, t \in DOMAIN SeedSchedules :
       SeedSchedules[s].flight = SeedSchedules[t].flight => s = t
  /\ \A s \in DOMAIN SeedSchedules :
       SeedSchedules[s].estimated = SeedSchedules[s].scheduled
  /\ FirstScheduleId \in Nat /\ MaxScheduleId \in Nat
  /\ EnteredWindows \subseteq TimeWindows
  /\ EnteredMinutes \subseteq Int
  /\ MaxDelayId \in Nat /\ MaxEmergencyId \in Nat

allocationVars == <<nextAllocationId, call, result>>

operationVars ==
  <<schedules, nextScheduleId, delays, nextDelayId, emergencies,
    nextEmergencyId, operation, outcome>>

vars == <<flights, resources, allocations, allocationStaff, allocationVars,
          operationVars>>

Init == Allocation!Init /\ Operations!Init

\* An allocation or resource handler begins or goes on.
AllocationTurn ==
  /\ operation = Operations!AtMenu
  /\ UNCHANGED operationVars

\* A flight, delay or emergency handler begins or goes on.
OperationTurn ==
  /\ call = Allocation!Idle
  /\ result' = IF flights' = flights THEN result ELSE Allocation!NoResult
  /\ UNCHANGED <<nextAllocationId, call>>

\* The handler in progress runs its next statement, or fails to.
HandlerStep ==
  \/ (Allocation!Advance \/ Allocation!StatementFails) /\ AllocationTurn
  \/ (Operations!Advance \/ Operations!StatementFails) /\ OperationTurn

ManagerCommand ==
  \/ Allocation!AllocationCommand /\ AllocationTurn
  \/ Operations!ManagerCommand /\ OperationTurn

AdministratorCommand ==
  \/ Allocation!ResourceCommand /\ AllocationTurn
  \/ Operations!AdministratorCommand /\ OperationTurn

Restart == Allocation!Restart /\ Operations!Restart

Next == HandlerStep \/ ManagerCommand \/ AdministratorCommand \/ Restart

Spec == Init /\ [][Next]_vars

-----------------------------------------------------------------------------
\* What the services keep invariant, each by itself, they keep invariant
\* together: a call of the one never finds the tables in a state the others
\* would not have left, whatever was interrupted before.
IInv == Allocation!IInv /\ Operations!IInv

\* To the allocation service the rest of the program is what its
\* specification assumes: flights appear as SCHEDULED and change along the
\* edge table, one statement at a time, and never inside a call; nobody else
\* writes resources or allocations.  All that is shown of AllocationService
\* alone therefore holds in the program.
AllocationSpec == Allocation!Spec

\* To a flight dispatcher the program is a calendar of reservations: whatever
\* the other handlers do in between, whatever fails and whenever the process
\* restarts, no two flights reserve one resource in overlapping windows, and
\* an allocation that was given up never comes back.
CalendarSpec == Allocation!CalendarSpec

\* When applyDelay returns, every allocation of the flight that cannot move
\* to the new times has been warned of.
WarningsAreComplete == Operations!WarningsAreComplete
=============================================================================
