---------------------------- MODULE Console_proofs ----------------------------
(***************************************************************************)
(* Proofs about the console: the program of Airport behind its start-up    *)
(* and its role checks.  While an empty database is being seeded nothing   *)
(* else is in it; once the console has opened it stays open, so that the   *)
(* program below it runs as Airport says, one user at a time.              *)
(***************************************************************************)
EXTENDS Console, AirportDatabase_proofs

AirportProofs == INSTANCE Airport_proofs

\* What is proved of the program is proved here of an instance of its module;
\* it is the program that the console runs.
LEMMA SameProgram ==
  /\ Program!Init <=> AirportProofs!Init
  /\ Program!Next <=> AirportProofs!Next
  /\ [Program!Next]_(Program!vars) <=> [AirportProofs!Next]_(AirportProofs!vars)
  /\ Program!IInv <=> AirportProofs!IInv
  /\ Program!IInv' <=> AirportProofs!IInv'
  /\ Program!Allocation!NoDoubleBooking <=> AirportProofs!Allocation!NoDoubleBooking
  BY DEF Program!allocationVars, AirportProofs!allocationVars, Program!operationVars,
         AirportProofs!operationVars, Program!vars, AirportProofs!vars, Program!Init,
         AirportProofs!Init, Program!AllocationTurn, AirportProofs!AllocationTurn,
         Program!OperationTurn, AirportProofs!OperationTurn, Program!HandlerStep,
         AirportProofs!HandlerStep, Program!ManagerCommand,
         AirportProofs!ManagerCommand, Program!AdministratorCommand,
         AirportProofs!AdministratorCommand, Program!Restart, AirportProofs!Restart,
         Program!Next, AirportProofs!Next, Program!IInv, AirportProofs!IInv,
         Program!FlightStatuses, AirportProofs!FlightStatuses,
         Program!Allocation!AllocateSteps, AirportProofs!Allocation!AllocateSteps,
         Program!Allocation!ReleaseSteps, AirportProofs!Allocation!ReleaseSteps,
         Program!Allocation!Idle, AirportProofs!Allocation!Idle,
         Program!Allocation!Calls, AirportProofs!Allocation!Calls,
         Program!Allocation!Results, AirportProofs!Allocation!Results,
         Program!Allocation!NoResult, AirportProofs!Allocation!NoResult,
         Program!Allocation!TypeOK, AirportProofs!Allocation!TypeOK,
         Program!Allocation!Init, AirportProofs!Allocation!Init,
         Program!Allocation!Return, AirportProofs!Allocation!Return,
         Program!Allocation!Proceed, AirportProofs!Allocation!Proceed,
         Program!Allocation!NextStaff, AirportProofs!Allocation!NextStaff,
         Program!Allocation!Serviceable, AirportProofs!Allocation!Serviceable,
         Program!Allocation!MayAllocate, AirportProofs!Allocation!MayAllocate,
         Program!Allocation!RejectAllocation, AirportProofs!Allocation!RejectAllocation,
         Program!Allocation!BeginAllocation, AirportProofs!Allocation!BeginAllocation,
         Program!Allocation!OccupyGate, AirportProofs!Allocation!OccupyGate,
         Program!Allocation!OccupyVehicle, AirportProofs!Allocation!OccupyVehicle,
         Program!Allocation!OccupyStaff, AirportProofs!Allocation!OccupyStaff,
         Program!Allocation!NewRow, AirportProofs!Allocation!NewRow,
         Program!Allocation!InsertAllocation, AirportProofs!Allocation!InsertAllocation,
         Program!Allocation!InsertRefused, AirportProofs!Allocation!InsertRefused,
         Program!Allocation!LinkStaff, AirportProofs!Allocation!LinkStaff,
         Program!Allocation!LinkRefused, AirportProofs!Allocation!LinkRefused,
         Program!Allocation!AllocationSucceeds,
         AirportProofs!Allocation!AllocationSucceeds, Program!Allocation!RejectRelease,
         AirportProofs!Allocation!RejectRelease, Program!Allocation!BeginRelease,
         AirportProofs!Allocation!BeginRelease, Program!Allocation!FreeGate,
         AirportProofs!Allocation!FreeGate, Program!Allocation!FreeVehicle,
         AirportProofs!Allocation!FreeVehicle, Program!Allocation!FreeStaff,
         AirportProofs!Allocation!FreeStaff, Program!Allocation!MarkReleased,
         AirportProofs!Allocation!MarkReleased, Program!Allocation!AddResource,
         AirportProofs!Allocation!AddResource, Program!Allocation!SetResourceStatus,
         AirportProofs!Allocation!SetResourceStatus, Program!Allocation!StatementFails,
         AirportProofs!Allocation!StatementFails, Program!Allocation!Restart,
         AirportProofs!Allocation!Restart, Program!Allocation!Advance,
         AirportProofs!Allocation!Advance, Program!Allocation!AllocationCommand,
         AirportProofs!Allocation!AllocationCommand, Program!Allocation!ResourceCommand,
         AirportProofs!Allocation!ResourceCommand, Program!Allocation!NoDoubleBooking,
         AirportProofs!Allocation!NoDoubleBooking, Program!Allocation!LinksHaveRows,
         AirportProofs!Allocation!LinksHaveRows, Program!Allocation!RowsHaveResources,
         AirportProofs!Allocation!RowsHaveResources, Program!Allocation!Occupied,
         AirportProofs!Allocation!Occupied, Program!Allocation!Clash,
         AirportProofs!Allocation!Clash, Program!Allocation!BookingsAreDisjoint,
         AirportProofs!Allocation!BookingsAreDisjoint,
         Program!Allocation!ChecksStillHold, AirportProofs!Allocation!ChecksStillHold,
         Program!Allocation!AllocationProgress,
         AirportProofs!Allocation!AllocationProgress,
         Program!Allocation!ReleaseProgress, AirportProofs!Allocation!ReleaseProgress,
         Program!Allocation!IInv, AirportProofs!Allocation!IInv,
         Program!Allocation!Requested, AirportProofs!Allocation!Requested,
         Program!Allocation!UnknownId, AirportProofs!Allocation!UnknownId,
         Program!Allocation!UnderMaintenance, AirportProofs!Allocation!UnderMaintenance,
         Program!Allocation!BookedByOther, AirportProofs!Allocation!BookedByOther,
         Program!Allocation!Unavailable, AirportProofs!Allocation!Unavailable,
         Program!Allocation!HasConflict, AirportProofs!Allocation!HasConflict,
         Program!Allocation!Resources, AirportProofs!Allocation!Resources,
         Program!Allocation!tables, AirportProofs!Allocation!tables,
         Program!Allocation!AllocationRows, AirportProofs!Allocation!AllocationRows,
         Program!Allocation!DatabaseTypeOK, AirportProofs!Allocation!DatabaseTypeOK,
         Program!Allocation!DatabaseInit, AirportProofs!Allocation!DatabaseInit,
         Program!Allocation!Inserted, AirportProofs!Allocation!Inserted,
         Program!Allocation!StatusUpdated, AirportProofs!Allocation!StatusUpdated,
         Program!Allocation!AllocationReleased,
         AirportProofs!Allocation!AllocationReleased, Program!Allocation!FlightStatusOf,
         AirportProofs!Allocation!FlightStatusOf, Program!Allocation!ResourceStatusOf,
         AirportProofs!Allocation!ResourceStatusOf,
         Program!Allocation!ActiveAllocations,
         AirportProofs!Allocation!ActiveAllocations, Program!Allocation!StaffOf,
         AirportProofs!Allocation!StaffOf, Program!Allocation!ResourcesOf,
         AirportProofs!Allocation!ResourcesOf,
         Program!Allocation!ListActiveAllocationsFor,
         AirportProofs!Allocation!ListActiveAllocationsFor, Program!Allocation!Listings,
         AirportProofs!Allocation!Listings, Program!Allocation!ResourceStatuses,
         AirportProofs!Allocation!ResourceStatuses, Program!Allocation!ParsedAmong,
         AirportProofs!Allocation!ParsedAmong, Program!Allocation!ParseFlightStatus,
         AirportProofs!Allocation!ParseFlightStatus,
         Program!Allocation!ParseResourceStatus,
         AirportProofs!Allocation!ParseResourceStatus, Program!Allocation!TimeWindows,
         AirportProofs!Allocation!TimeWindows, Program!Allocation!TimeWindowsOverlap,
         AirportProofs!Allocation!TimeWindowsOverlap, Program!Allocation!InstantsOf,
         AirportProofs!Allocation!InstantsOf, Program!Allocation!FlightStatuses,
         AirportProofs!Allocation!FlightStatuses, Program!Allocation!AllocatableStates,
         AirportProofs!Allocation!AllocatableStates, Program!Allocation!Range,
         AirportProofs!Allocation!Range, Program!Allocation!Cardinality,
         AirportProofs!Allocation!Cardinality, Program!Operations!allocationTables,
         AirportProofs!Operations!allocationTables, Program!Operations!scheduleVars,
         AirportProofs!Operations!scheduleVars, Program!Operations!delayVars,
         AirportProofs!Operations!delayVars, Program!Operations!emergencyVars,
         AirportProofs!Operations!emergencyVars, Program!Operations!Operations,
         AirportProofs!Operations!Operations, Program!Operations!TypeOK,
         AirportProofs!Operations!TypeOK, Program!Operations!Init,
         AirportProofs!Operations!Init, Program!Operations!Advance,
         AirportProofs!Operations!Advance, Program!Operations!AdministratorCommand,
         AirportProofs!Operations!AdministratorCommand,
         Program!Operations!ManagerCommand, AirportProofs!Operations!ManagerCommand,
         Program!Operations!tablesAndGenerators,
         AirportProofs!Operations!tablesAndGenerators,
         Program!Operations!StatementFails, AirportProofs!Operations!StatementFails,
         Program!Operations!Restart, AirportProofs!Operations!Restart,
         Program!Operations!OneSchedulePerFlight,
         AirportProofs!Operations!OneSchedulePerFlight,
         Program!Operations!DelayedMeansRecorded,
         AirportProofs!Operations!DelayedMeansRecorded,
         Program!Operations!OneEmergencyPerFlight,
         AirportProofs!Operations!OneEmergencyPerFlight,
         Program!Operations!EmergencyEntersTheLifecycle,
         AirportProofs!Operations!EmergencyEntersTheLifecycle,
         Program!Operations!HandlingFollowsFlight,
         AirportProofs!Operations!HandlingFollowsFlight, Program!Operations!MinutesOf,
         AirportProofs!Operations!MinutesOf, Program!Operations!RecordedMinutes,
         AirportProofs!Operations!RecordedMinutes, Program!Operations!MovedBy,
         AirportProofs!Operations!MovedBy, Program!Operations!Unscheduled,
         AirportProofs!Operations!Unscheduled, Program!Operations!RowsHaveFlights,
         AirportProofs!Operations!RowsHaveFlights, Program!Operations!CreateProgress,
         AirportProofs!Operations!CreateProgress, Program!Operations!DelayProgress,
         AirportProofs!Operations!DelayProgress, Program!Operations!EmergencyProgress,
         AirportProofs!Operations!EmergencyProgress, Program!Operations!PendingMinutes,
         AirportProofs!Operations!PendingMinutes, Program!Operations!Accounted,
         AirportProofs!Operations!Accounted, Program!Operations!Unaccounted,
         AirportProofs!Operations!Unaccounted, Program!Operations!GivenUp,
         AirportProofs!Operations!GivenUp, Program!Operations!EstimateProgress,
         AirportProofs!Operations!EstimateProgress, Program!Operations!IInv,
         AirportProofs!Operations!IInv, Program!Operations!EmergencyRows,
         AirportProofs!Operations!EmergencyRows, Program!Operations!EmergencyOperations,
         AirportProofs!Operations!EmergencyOperations,
         Program!Operations!EmergencyTypeOK, AirportProofs!Operations!EmergencyTypeOK,
         Program!Operations!EmergencyInit, AirportProofs!Operations!EmergencyInit,
         Program!Operations!RejectDeclaration,
         AirportProofs!Operations!RejectDeclaration,
         Program!Operations!DeclareEmergency, AirportProofs!Operations!DeclareEmergency,
         Program!Operations!SaveEmergency, AirportProofs!Operations!SaveEmergency,
         Program!Operations!SaveRefused, AirportProofs!Operations!SaveRefused,
         Program!Operations!RejectEmergency, AirportProofs!Operations!RejectEmergency,
         Program!Operations!RecordLanding, AirportProofs!Operations!RecordLanding,
         Program!Operations!MayHandle, AirportProofs!Operations!MayHandle,
         Program!Operations!RejectHandling, AirportProofs!Operations!RejectHandling,
         Program!Operations!BeginHandling, AirportProofs!Operations!BeginHandling,
         Program!Operations!MarkHandling, AirportProofs!Operations!MarkHandling,
         Program!Operations!ResolveEmergency, AirportProofs!Operations!ResolveEmergency,
         Program!Operations!EmergencyCommand, AirportProofs!Operations!EmergencyCommand,
         Program!Operations!AdvanceEmergency, AirportProofs!Operations!AdvanceEmergency,
         Program!Operations!DelayRows, AirportProofs!Operations!DelayRows,
         Program!Operations!DelayOperations, AirportProofs!Operations!DelayOperations,
         Program!Operations!DelayTypeOK, AirportProofs!Operations!DelayTypeOK,
         Program!Operations!DelayInit, AirportProofs!Operations!DelayInit,
         Program!Operations!Delayable, AirportProofs!Operations!Delayable,
         Program!Operations!RejectDelay, AirportProofs!Operations!RejectDelay,
         Program!Operations!BeginDelay, AirportProofs!Operations!BeginDelay,
         Program!Operations!RecordDelay, AirportProofs!Operations!RecordDelay,
         Program!Operations!RecordRefused, AirportProofs!Operations!RecordRefused,
         Program!Operations!DelayFlight, AirportProofs!Operations!DelayFlight,
         Program!Operations!DelayRefused, AirportProofs!Operations!DelayRefused,
         Program!Operations!Shifted, AirportProofs!Operations!Shifted,
         Program!Operations!ShiftSchedule, AirportProofs!Operations!ShiftSchedule,
         Program!Operations!NoSchedule, AirportProofs!Operations!NoSchedule,
         Program!Operations!Probe, AirportProofs!Operations!Probe,
         Program!Operations!ResourceWarnings, AirportProofs!Operations!ResourceWarnings,
         Program!Operations!ReportDelay, AirportProofs!Operations!ReportDelay,
         Program!Operations!DelayCommand, AirportProofs!Operations!DelayCommand,
         Program!Operations!AdvanceDelay, AirportProofs!Operations!AdvanceDelay,
         Program!Operations!ScheduleRows, AirportProofs!Operations!ScheduleRows,
         Program!Operations!AtMenu, AirportProofs!Operations!AtMenu,
         Program!Operations!CreateOperations, AirportProofs!Operations!CreateOperations,
         Program!Operations!Outcomes, AirportProofs!Operations!Outcomes,
         Program!Operations!Ended, AirportProofs!Operations!Ended,
         Program!Operations!FlightTypeOK, AirportProofs!Operations!FlightTypeOK,
         Program!Operations!FlightInit, AirportProofs!Operations!FlightInit,
         Program!Operations!Finish, AirportProofs!Operations!Finish,
         Program!Operations!Continue, AirportProofs!Operations!Continue,
         Program!Operations!NewFlight, AirportProofs!Operations!NewFlight,
         Program!Operations!RejectFlight, AirportProofs!Operations!RejectFlight,
         Program!Operations!SaveFlight, AirportProofs!Operations!SaveFlight,
         Program!Operations!ScheduleSaved, AirportProofs!Operations!ScheduleSaved,
         Program!Operations!SaveSchedule, AirportProofs!Operations!SaveSchedule,
         Program!Operations!MayTransition, AirportProofs!Operations!MayTransition,
         Program!Operations!ManagerStatuses, AirportProofs!Operations!ManagerStatuses,
         Program!Operations!ChangeStatus, AirportProofs!Operations!ChangeStatus,
         Program!Operations!RejectStatus, AirportProofs!Operations!RejectStatus,
         Program!Operations!CreateCommand, AirportProofs!Operations!CreateCommand,
         Program!Operations!StatusCommand, AirportProofs!Operations!StatusCommand,
         Program!Operations!SchedulesOf, AirportProofs!Operations!SchedulesOf,
         Program!Operations!Requested, AirportProofs!Operations!Requested,
         Program!Operations!UnknownId, AirportProofs!Operations!UnknownId,
         Program!Operations!UnderMaintenance, AirportProofs!Operations!UnderMaintenance,
         Program!Operations!BookedByOther, AirportProofs!Operations!BookedByOther,
         Program!Operations!Unavailable, AirportProofs!Operations!Unavailable,
         Program!Operations!HasConflict, AirportProofs!Operations!HasConflict,
         Program!Operations!Resources, AirportProofs!Operations!Resources,
         Program!Operations!AllocationRows, AirportProofs!Operations!AllocationRows,
         Program!Operations!DatabaseTypeOK, AirportProofs!Operations!DatabaseTypeOK,
         Program!Operations!DatabaseInit, AirportProofs!Operations!DatabaseInit,
         Program!Operations!Inserted, AirportProofs!Operations!Inserted,
         Program!Operations!StatusUpdated, AirportProofs!Operations!StatusUpdated,
         Program!Operations!FlightStatusOf, AirportProofs!Operations!FlightStatusOf,
         Program!Operations!ResourceStatusOf, AirportProofs!Operations!ResourceStatusOf,
         Program!Operations!AllocationRead, AirportProofs!Operations!AllocationRead,
         Program!Operations!ActiveAllocations,
         AirportProofs!Operations!ActiveAllocations, Program!Operations!StaffOf,
         AirportProofs!Operations!StaffOf, Program!Operations!ResourcesOf,
         AirportProofs!Operations!ResourcesOf,
         Program!Operations!ListActiveAllocationsFor,
         AirportProofs!Operations!ListActiveAllocationsFor, Program!Operations!Listings,
         AirportProofs!Operations!Listings, Program!Operations!ResourceStatuses,
         AirportProofs!Operations!ResourceStatuses,
         Program!Operations!AllocationStatuses,
         AirportProofs!Operations!AllocationStatuses, Program!Operations!TaskStatuses,
         AirportProofs!Operations!TaskStatuses, Program!Operations!EmergencyStatuses,
         AirportProofs!Operations!EmergencyStatuses,
         Program!Operations!WeatherConditions,
         AirportProofs!Operations!WeatherConditions,
         Program!Operations!WeatherAlertLevels,
         AirportProofs!Operations!WeatherAlertLevels, Program!Operations!ATCClearances,
         AirportProofs!Operations!ATCClearances, Program!Operations!Roles,
         AirportProofs!Operations!Roles, Program!Operations!ReportTypes,
         AirportProofs!Operations!ReportTypes, Program!Operations!Enumerators,
         AirportProofs!Operations!Enumerators, Program!Operations!ToText,
         AirportProofs!Operations!ToText, Program!Operations!ParsedAmong,
         AirportProofs!Operations!ParsedAmong, Program!Operations!ParseFlightStatus,
         AirportProofs!Operations!ParseFlightStatus,
         Program!Operations!ParseResourceStatus,
         AirportProofs!Operations!ParseResourceStatus,
         Program!Operations!ParseAllocationStatus,
         AirportProofs!Operations!ParseAllocationStatus, Program!Operations!TimeWindows,
         AirportProofs!Operations!TimeWindows, Program!Operations!TimeWindowsOverlap,
         AirportProofs!Operations!TimeWindowsOverlap, Program!Operations!FlightStatuses,
         AirportProofs!Operations!FlightStatuses, Program!Operations!Successors,
         AirportProofs!Operations!Successors, Program!Operations!IsTransitionAllowed,
         AirportProofs!Operations!IsTransitionAllowed, Program!Operations!Range,
         AirportProofs!Operations!Range, Program!Operations!Cardinality,
         AirportProofs!Operations!Cardinality, Program!Operations!IsFiniteSet,
         AirportProofs!Operations!IsFiniteSet, Program!Operations!ExistsInjection,
         AirportProofs!Operations!ExistsInjection, Program!Operations!Injection,
         AirportProofs!Operations!Injection, Program!Operations!IsInjective,
         AirportProofs!Operations!IsInjective

\* So are the services that the program is made of, and what they promise.
LEMMA SameServices ==
  /\ Program!Allocation!Init <=> AirportProofs!Allocation!Init
  /\ [Program!Allocation!Next]_(Program!Allocation!vars)
       <=> [AirportProofs!Allocation!Next]_(AirportProofs!Allocation!vars)
  BY DEF Program!FlightStatuses, AirportProofs!FlightStatuses,
         Program!Allocation!vars, AirportProofs!Allocation!vars,
         Program!Allocation!Idle, AirportProofs!Allocation!Idle,
         Program!Allocation!NoResult, AirportProofs!Allocation!NoResult,
         Program!Allocation!Init, AirportProofs!Allocation!Init,
         Program!Allocation!Return, AirportProofs!Allocation!Return,
         Program!Allocation!Proceed, AirportProofs!Allocation!Proceed,
         Program!Allocation!NextStaff, AirportProofs!Allocation!NextStaff,
         Program!Allocation!Serviceable, AirportProofs!Allocation!Serviceable,
         Program!Allocation!MayAllocate, AirportProofs!Allocation!MayAllocate,
         Program!Allocation!RejectAllocation,
         AirportProofs!Allocation!RejectAllocation,
         Program!Allocation!BeginAllocation,
         AirportProofs!Allocation!BeginAllocation,
         Program!Allocation!OccupyGate, AirportProofs!Allocation!OccupyGate,
         Program!Allocation!OccupyVehicle,
         AirportProofs!Allocation!OccupyVehicle,
         Program!Allocation!OccupyStaff, AirportProofs!Allocation!OccupyStaff,
         Program!Allocation!NewRow, AirportProofs!Allocation!NewRow,
         Program!Allocation!InsertAllocation,
         AirportProofs!Allocation!InsertAllocation,
         Program!Allocation!InsertRefused,
         AirportProofs!Allocation!InsertRefused, Program!Allocation!LinkStaff,
         AirportProofs!Allocation!LinkStaff, Program!Allocation!LinkRefused,
         AirportProofs!Allocation!LinkRefused,
         Program!Allocation!AllocationSucceeds,
         AirportProofs!Allocation!AllocationSucceeds,
         Program!Allocation!RejectRelease,
         AirportProofs!Allocation!RejectRelease,
         Program!Allocation!BeginRelease,
         AirportProofs!Allocation!BeginRelease, Program!Allocation!FreeGate,
         AirportProofs!Allocation!FreeGate, Program!Allocation!FreeVehicle,
         AirportProofs!Allocation!FreeVehicle, Program!Allocation!FreeStaff,
         AirportProofs!Allocation!FreeStaff, Program!Allocation!MarkReleased,
         AirportProofs!Allocation!MarkReleased, Program!Allocation!AddResource,
         AirportProofs!Allocation!AddResource,
         Program!Allocation!SetResourceStatus,
         AirportProofs!Allocation!SetResourceStatus,
         Program!Allocation!AddFlight, AirportProofs!Allocation!AddFlight,
         Program!Allocation!TransitionFlight,
         AirportProofs!Allocation!TransitionFlight,
         Program!Allocation!StatementFails,
         AirportProofs!Allocation!StatementFails, Program!Allocation!Restart,
         AirportProofs!Allocation!Restart, Program!Allocation!Advance,
         AirportProofs!Allocation!Advance,
         Program!Allocation!AllocationCommand,
         AirportProofs!Allocation!AllocationCommand,
         Program!Allocation!ResourceCommand,
         AirportProofs!Allocation!ResourceCommand,
         Program!Allocation!FlightChange,
         AirportProofs!Allocation!FlightChange, Program!Allocation!UserCommand,
         AirportProofs!Allocation!UserCommand, Program!Allocation!Next,
         AirportProofs!Allocation!Next, Program!Allocation!Requested,
         AirportProofs!Allocation!Requested, Program!Allocation!UnknownId,
         AirportProofs!Allocation!UnknownId,
         Program!Allocation!UnderMaintenance,
         AirportProofs!Allocation!UnderMaintenance,
         Program!Allocation!BookedByOther,
         AirportProofs!Allocation!BookedByOther,
         Program!Allocation!Unavailable, AirportProofs!Allocation!Unavailable,
         Program!Allocation!HasConflict, AirportProofs!Allocation!HasConflict,
         Program!Allocation!Resources, AirportProofs!Allocation!Resources,
         Program!Allocation!tables, AirportProofs!Allocation!tables,
         Program!Allocation!DatabaseInit,
         AirportProofs!Allocation!DatabaseInit, Program!Allocation!Inserted,
         AirportProofs!Allocation!Inserted, Program!Allocation!StatusUpdated,
         AirportProofs!Allocation!StatusUpdated,
         Program!Allocation!AllocationReleased,
         AirportProofs!Allocation!AllocationReleased,
         Program!Allocation!FlightStatusOf,
         AirportProofs!Allocation!FlightStatusOf,
         Program!Allocation!ResourceStatusOf,
         AirportProofs!Allocation!ResourceStatusOf,
         Program!Allocation!ActiveAllocations,
         AirportProofs!Allocation!ActiveAllocations,
         Program!Allocation!StaffOf, AirportProofs!Allocation!StaffOf,
         Program!Allocation!ResourcesOf, AirportProofs!Allocation!ResourcesOf,
         Program!Allocation!ListActiveAllocationsFor,
         AirportProofs!Allocation!ListActiveAllocationsFor,
         Program!Allocation!Listings, AirportProofs!Allocation!Listings,
         Program!Allocation!ParsedAmong, AirportProofs!Allocation!ParsedAmong,
         Program!Allocation!ParseFlightStatus,
         AirportProofs!Allocation!ParseFlightStatus,
         Program!Allocation!ParseResourceStatus,
         AirportProofs!Allocation!ParseResourceStatus,
         Program!Allocation!TimeWindowsOverlap,
         AirportProofs!Allocation!TimeWindowsOverlap,
         Program!Allocation!FlightStatuses,
         AirportProofs!Allocation!FlightStatuses,
         Program!Allocation!Successors, AirportProofs!Allocation!Successors,
         Program!Allocation!IsTransitionAllowed,
         AirportProofs!Allocation!IsTransitionAllowed,
         Program!Allocation!AllocatableStates,
         AirportProofs!Allocation!AllocatableStates, Program!Allocation!Range,
         AirportProofs!Allocation!Range, Program!Allocation!Cardinality,
         AirportProofs!Allocation!Cardinality

LEMMA SameHistories ==
  /\ AirportProofs!Operations!EstimatesFollowDelays <=> Program!Operations!EstimatesFollowDelays
  /\ AirportProofs!Operations!EveryStatementIsDone <=> Program!Operations!EveryStatementIsDone
  /\ AirportProofs!Operations!EveryClashIsWarnedOf <=> Program!Operations!EveryClashIsWarnedOf
  BY DEF Program!Operations!MinutesOf, AirportProofs!Operations!MinutesOf,
         Program!Operations!RecordedMinutes,
         AirportProofs!Operations!RecordedMinutes, Program!Operations!MovedBy,
         AirportProofs!Operations!MovedBy, Program!Operations!Misled,
         AirportProofs!Operations!Misled, Program!Operations!Unscheduled,
         AirportProofs!Operations!Unscheduled,
         Program!Operations!EstimatesFollowDelays,
         AirportProofs!Operations!EstimatesFollowDelays,
         Program!Operations!EveryClashIsWarnedOf,
         AirportProofs!Operations!EveryClashIsWarnedOf,
         Program!Operations!EveryStatementIsDone,
         AirportProofs!Operations!EveryStatementIsDone,
         Program!Operations!SchedulesOf, AirportProofs!Operations!SchedulesOf,
         Program!Operations!ActiveAllocations,
         AirportProofs!Operations!ActiveAllocations,
         Program!Operations!StaffOf, AirportProofs!Operations!StaffOf,
         Program!Operations!ResourcesOf, AirportProofs!Operations!ResourcesOf,
         Program!Operations!InstantsOf, AirportProofs!Operations!InstantsOf,
         Program!Operations!Cardinality, AirportProofs!Operations!Cardinality,
         Program!Operations!ExistsInjection,
         AirportProofs!Operations!ExistsInjection,
         Program!Operations!Injection, AirportProofs!Operations!Injection,
         Program!Operations!IsInjective, AirportProofs!Operations!IsInjective

LEMMA SamePromises ==
  /\ AirportProofs!Allocation!RecordsAreKept => Program!Allocation!RecordsAreKept
  /\ AirportProofs!Allocation!MaintenanceIsHonoured => Program!Allocation!MaintenanceIsHonoured
  /\ AirportProofs!Allocation!SuccessIsComplete => Program!Allocation!SuccessIsComplete
  /\ AirportProofs!Allocation!OccupiedBeforeRecorded => Program!Allocation!OccupiedBeforeRecorded
  /\ AirportProofs!Allocation!FreedBeforeReleased => Program!Allocation!FreedBeforeReleased
  /\ AirportProofs!Allocation!OnlyHoldersFree => Program!Allocation!OnlyHoldersFree
  /\ AirportProofs!Allocation!NoServiceAfterDeparture => Program!Allocation!NoServiceAfterDeparture
<1>1. AirportProofs!Allocation!RecordsAreKept => Program!Allocation!RecordsAreKept
  BY PTL
  DEF Program!Allocation!vars, AirportProofs!Allocation!vars,
      Program!Allocation!RecordsAreKept, AirportProofs!Allocation!RecordsAreKept,
      Program!Allocation!StaffOf, AirportProofs!Allocation!StaffOf
<1>2. AirportProofs!Allocation!MaintenanceIsHonoured => Program!Allocation!MaintenanceIsHonoured
  BY PTL
  DEF Program!Allocation!vars, AirportProofs!Allocation!vars,
      Program!Allocation!Idle, AirportProofs!Allocation!Idle,
      Program!Allocation!MaintenanceIsHonoured,
      AirportProofs!Allocation!MaintenanceIsHonoured
<1>3. AirportProofs!Allocation!SuccessIsComplete => Program!Allocation!SuccessIsComplete
  BY PTL
  DEF Program!Allocation!vars, AirportProofs!Allocation!vars,
      Program!Allocation!Idle, AirportProofs!Allocation!Idle,
      Program!Allocation!NewRow, AirportProofs!Allocation!NewRow,
      Program!Allocation!SuccessIsComplete,
      AirportProofs!Allocation!SuccessIsComplete, Program!Allocation!Requested,
      AirportProofs!Allocation!Requested, Program!Allocation!Range,
      AirportProofs!Allocation!Range
<1>4. AirportProofs!Allocation!OccupiedBeforeRecorded => Program!Allocation!OccupiedBeforeRecorded
  BY PTL
  DEF Program!Allocation!vars, AirportProofs!Allocation!vars,
      Program!Allocation!OccupiedBeforeRecorded,
      AirportProofs!Allocation!OccupiedBeforeRecorded,
      Program!Allocation!Requested, AirportProofs!Allocation!Requested,
      Program!Allocation!Range, AirportProofs!Allocation!Range
<1>5. AirportProofs!Allocation!FreedBeforeReleased => Program!Allocation!FreedBeforeReleased
  BY PTL
  DEF Program!Allocation!vars, AirportProofs!Allocation!vars,
      Program!Allocation!FreedBeforeReleased,
      AirportProofs!Allocation!FreedBeforeReleased,
      Program!Allocation!ActiveAllocations,
      AirportProofs!Allocation!ActiveAllocations, Program!Allocation!StaffOf,
      AirportProofs!Allocation!StaffOf, Program!Allocation!ResourcesOf,
      AirportProofs!Allocation!ResourcesOf
<1>6. AirportProofs!Allocation!OnlyHoldersFree => Program!Allocation!OnlyHoldersFree
  BY PTL
  DEF Program!Allocation!vars, AirportProofs!Allocation!vars,
      Program!Allocation!Idle, AirportProofs!Allocation!Idle,
      Program!Allocation!OnlyHoldersFree,
      AirportProofs!Allocation!OnlyHoldersFree,
      Program!Allocation!ActiveAllocations,
      AirportProofs!Allocation!ActiveAllocations, Program!Allocation!StaffOf,
      AirportProofs!Allocation!StaffOf, Program!Allocation!ResourcesOf,
      AirportProofs!Allocation!ResourcesOf,
      Program!Allocation!ListActiveAllocationsFor,
      AirportProofs!Allocation!ListActiveAllocationsFor,
      Program!Allocation!InstantsOf, AirportProofs!Allocation!InstantsOf
<1>7. AirportProofs!Allocation!NoServiceAfterDeparture => Program!Allocation!NoServiceAfterDeparture
  BY PTL
  DEF Program!Allocation!vars, AirportProofs!Allocation!vars,
      Program!Allocation!NoServiceAfterDeparture,
      AirportProofs!Allocation!NoServiceAfterDeparture
<1> QED BY <1>1, <1>2, <1>3, <1>4, <1>5, <1>6, <1>7, PTL

LEMMA SameCalendar == AirportProofs!Allocation!CalendarSpec => Program!Allocation!CalendarSpec
<1>1. /\ AirportProofs!Allocation!reservations = Program!Allocation!reservations
      /\ AirportProofs!Allocation!reservations' = Program!Allocation!reservations'
      /\ AirportProofs!Allocation!cancelled = Program!Allocation!cancelled
      /\ AirportProofs!Allocation!cancelled' = Program!Allocation!cancelled'
  BY DEF Program!Allocation!reservations,
         AirportProofs!Allocation!reservations, Program!Allocation!cancelled,
         AirportProofs!Allocation!cancelled,
         Program!Allocation!ActiveAllocations,
         AirportProofs!Allocation!ActiveAllocations,
         Program!Allocation!StaffOf, AirportProofs!Allocation!StaffOf,
         Program!Allocation!ResourcesOf, AirportProofs!Allocation!ResourcesOf
<1>2. \A a, f, w :
        AirportProofs!Allocation!Calendar!Reserve(a, f, w)
          <=> Program!Allocation!Calendar!Reserve(a, f, w)
  <2>1. \A f, w, r :
          AirportProofs!Allocation!Calendar!FreeFor(f, w, r)
            <=> Program!Allocation!Calendar!FreeFor(f, w, r)
    BY <1>1
    DEF Program!Allocation!Calendar!FreeFor,
        AirportProofs!Allocation!Calendar!FreeFor,
        Program!Allocation!Calendar!TimeWindowsOverlap,
        AirportProofs!Allocation!Calendar!TimeWindowsOverlap
  <2>2. \A a, f, w :
          AirportProofs!Allocation!Calendar!Belongs(a, f, w)
            <=> Program!Allocation!Calendar!Belongs(a, f, w)
    BY <1>1
    DEF Program!Allocation!Calendar!Belongs,
        AirportProofs!Allocation!Calendar!Belongs
  <2>3. SUFFICES ASSUME NEW a, NEW f, NEW w
                 PROVE  AirportProofs!Allocation!Calendar!Reserve(a, f, w)
                          <=> Program!Allocation!Calendar!Reserve(a, f, w)
    OBVIOUS
  <2> QED BY <1>1, <2>1, <2>2
          DEF Program!Allocation!Calendar!Reserve,
              AirportProofs!Allocation!Calendar!Reserve,
              Program!Allocation!Resources,
              AirportProofs!Allocation!Resources
<1>3. \A a : AirportProofs!Allocation!Calendar!Cancel(a)
                <=> Program!Allocation!Calendar!Cancel(a)
  BY <1>1
  DEF Program!Allocation!Calendar!Cancel, AirportProofs!Allocation!Calendar!Cancel
<1>4. AirportProofs!Allocation!Calendar!Next <=> Program!Allocation!Calendar!Next
  BY <1>2, <1>3
  DEF Program!Allocation!Calendar!Next, AirportProofs!Allocation!Calendar!Next
<1>5. /\ AirportProofs!Allocation!Calendar!Init <=> Program!Allocation!Calendar!Init
      /\ [AirportProofs!Allocation!Calendar!Next]_<<AirportProofs!Allocation!reservations,
                                                    AirportProofs!Allocation!cancelled>>
           <=> [Program!Allocation!Calendar!Next]_<<Program!Allocation!reservations,
                                                    Program!Allocation!cancelled>>
  BY <1>1, <1>4
  DEF Program!Allocation!Calendar!Init, AirportProofs!Allocation!Calendar!Init
<1> QED BY <1>5, PTL
        DEF Program!Allocation!CalendarSpec,
            AirportProofs!Allocation!CalendarSpec,
            Program!Allocation!Calendar!Spec,
            AirportProofs!Allocation!Calendar!Spec

\* The constants are what the program asks for.
LEMMA ProgramConstants ==
  /\ Requests \subseteq AirportProofs!AllocationRequests
  /\ AdminStatuses \subseteq AirportProofs!ResourceStatuses
  /\ AirportProofs!IsFiniteSet(Staff)
  /\ SeedFlights \subseteq Flights /\ SeedResources \subseteq AirportProofs!Resources
  /\ SeedSchedules \in [DOMAIN SeedSchedules ->
        [flight : Flights, scheduled : AirportProofs!TimeWindows,
         estimated : AirportProofs!TimeWindows]]
  /\ \A s \in DOMAIN SeedSchedules : SeedSchedules[s].estimated = SeedSchedules[s].scheduled
  /\ EnteredWindows \subseteq AirportProofs!TimeWindows
  BY ProgramAssumption, ScheduleAssumption, ResourceAssumption, SeedAssumption,
     FirstStartAssumption
  DEF Program!AllocationRequests, AirportProofs!AllocationRequests, Program!TimeWindows,
      AirportProofs!TimeWindows, TimeWindows, ResourceStatuses,
      AirportProofs!ResourceStatuses, ScheduleRows, IsFiniteSet,
      AirportProofs!IsFiniteSet, Resources, AirportProofs!Resources

LEMMA ProgramInit == Program!Init => Program!IInv
  BY AirportProofs!InitIInv, SameProgram, ProgramConstants, ProgramAssumption,
     ScheduleAssumption, ResourceAssumption

LEMMA ProgramNext == Program!IInv /\ [Program!Next]_(Program!vars) => Program!IInv'
  BY AirportProofs!NextIInv, SameProgram, ProgramConstants, ProgramAssumption,
     ScheduleAssumption, ResourceAssumption

-----------------------------------------------------------------------------
(* Start-up                                                                *)

\* The statement that a seeding runs next, and what is left after it.
LEMMA NextStatement ==
  ASSUME SeedingProgress, ~ ConsoleIsOpen
  PROVE  \E n \in DOMAIN SeedStatements :
           /\ Statement = SeedStatements[n]
           /\ Tail(startup) = SubSeq(SeedStatements, n + 1, Len(SeedStatements))
           /\ \A i \in 1 .. n - 1 : Stored(SeedStatements[i])
           /\ DOMAIN flights # {} => \E i \in 1 .. n - 1 : SeedStatements[i].table = "flights"
<1>1. SeedStatements \in Seq(Range(SeedStatements))
  BY SeedingAssumption
<1>2. PICK n \in DOMAIN SeedStatements :
         /\ startup = SubSeq(SeedStatements, n, Len(SeedStatements))
         /\ \A i \in 1 .. n - 1 : Stored(SeedStatements[i])
         /\ DOMAIN flights # {} => \E i \in 1 .. n - 1 : SeedStatements[i].table = "flights"
  BY DEF SeedingProgress
<1>3. n \in 1 .. Len(SeedStatements) /\ Len(SeedStatements) \in n .. Len(SeedStatements)
  BY <1>1
<1>4. /\ Head(startup) = SeedStatements[n]
      /\ Tail(startup) = SubSeq(SeedStatements, n + 1, Len(SeedStatements))
  BY <1>1, <1>2, <1>3, HeadTailOfSubSeq
<1> QED BY <1>2, <1>4 DEF Statement

\* What a process that starts now will run: everything, or nothing.
LEMMA OpeningIsAll ==
  /\ NeedsSeeding => /\ Opening # << >>
                     /\ 1 \in DOMAIN SeedStatements
                     /\ Opening = SubSeq(SeedStatements, 1, Len(SeedStatements))
  /\ ~ NeedsSeeding => Opening = << >>
<1>1. SeedStatements \in Seq(Range(SeedStatements)) /\ DOMAIN SeedStatements # {}
  BY SeedingAssumption
<1>2. 1 \in DOMAIN SeedStatements /\ SeedStatements # << >>
  BY <1>1
<1> QED BY <1>1, <1>2, SubSeqFull DEF Opening
\* The state of the program has the types that its tables have here.
LEMMA ProgramTypes ==
  /\ Program!IInv => DatabaseTypeOK /\ FlightTypeOK
  /\ Program!Allocation!DatabaseTypeOK' <=> DatabaseTypeOK'
  /\ Program!Operations!DatabaseTypeOK' <=> DatabaseTypeOK'
  /\ Program!Operations!FlightTypeOK' <=> FlightTypeOK'
  BY DEF Program!IInv, Program!Allocation!IInv, Program!Operations!IInv,
         Program!Allocation!TypeOK, Program!Operations!TypeOK,
         Program!Allocation!DatabaseTypeOK, Program!Operations!DatabaseTypeOK,
         Program!Operations!FlightTypeOK, DatabaseTypeOK, FlightTypeOK,
         Program!Allocation!Resources, Program!Operations!Resources, Resources,
         Program!Allocation!AllocationRows, Program!Operations!AllocationRows,
         AllocationRows, Program!Allocation!TimeWindows,
         Program!Operations!TimeWindows, TimeWindows,
         Program!Allocation!FlightStatuses, Program!Operations!FlightStatuses,
         FlightStatuses, Program!Allocation!ResourceStatuses,
         Program!Operations!ResourceStatuses, ResourceStatuses,
         Program!Operations!ScheduleRows, ScheduleRows, Program!Operations!Outcomes,
         Outcomes

\* A statement of the seeding writes one row of one table.
LEMMA SeedRow ==
  ASSUME NEW n \in DOMAIN SeedStatements
  PROVE  /\ IsSeedRow(SeedStatements[n])
         /\ SeedStatements[n].table \in {"users", "resources", "flights", "flight_schedules"}
         /\ \A i \in DOMAIN SeedStatements :
              SeedStatements[i].table = SeedStatements[n].table
                /\ SeedStatements[i].key = SeedStatements[n].key => i = n
<1>1. IsSeedRow(SeedStatements[n])
  BY SeedingAssumption
<1>2. SeedStatements[n].table \in {"users", "resources", "flights", "flight_schedules"}
  BY <1>1 DEF IsSeedRow
<1>3. \A i \in DOMAIN SeedStatements :
        SeedStatements[i].table = SeedStatements[n].table
          /\ SeedStatements[i].key = SeedStatements[n].key => i = n
  BY SeedingAssumption
<1> QED BY <1>1, <1>2, <1>3

\* The row that the next statement writes is new, or it is there as it would
\* be written.
LEMMA SeedKeepsRows ==
  ASSUME Program!IInv, SeedingProgress, OnlySeeded, UsersAreSeeded, SeedStep
  PROVE  /\ \A u \in DOMAIN users : u \in DOMAIN users' /\ users'[u] = users[u]
         /\ \A r \in DOMAIN resources : r \in DOMAIN resources' /\ resources'[r] = resources[r]
         /\ \A f \in DOMAIN flights : f \in DOMAIN flights' /\ flights'[f] = flights[f]
         /\ \A s \in DOMAIN schedules : s \in DOMAIN schedules' /\ schedules'[s] = schedules[s]
<1>1. ~ ConsoleIsOpen
  BY DEF SeedStep
<1>2. PICK n \in DOMAIN SeedStatements : Statement = SeedStatements[n]
  BY <1>1, NextStatement
<1>3. ASSUME NEW u \in DOMAIN users
      PROVE  u \in DOMAIN users' /\ users'[u] = users[u]
  <2>1. PICK i \in DOMAIN SeedStatements :
          /\ SeedStatements[i].table = "users" /\ SeedStatements[i].key = u
          /\ SeedStatements[i].row = users[u]
    BY DEF UsersAreSeeded
  <2>2. Statement.table = "users" /\ Statement.key = u => Statement.row = users[u]
    BY <1>2, <2>1, SeedRow
  <2> QED BY <2>2 DEF SeedStep, Inserted
<1>4. ASSUME NEW r \in DOMAIN resources
      PROVE  r \in DOMAIN resources' /\ resources'[r] = resources[r]
  BY <1>1 DEF SeedStep, Inserted, OnlySeeded
<1>5. ASSUME NEW f \in DOMAIN flights
      PROVE  f \in DOMAIN flights' /\ flights'[f] = flights[f]
  BY <1>1 DEF SeedStep, Inserted, OnlySeeded
<1>6. ASSUME NEW s \in DOMAIN schedules
      PROVE  s \in DOMAIN schedules' /\ schedules'[s] = schedules[s]
  <2>1. /\ schedules[s] \in ScheduleRows
        /\ schedules[s].estimated = schedules[s].scheduled
    BY <1>1, ProgramTypes DEF OnlySeeded, FlightTypeOK
  <2>2. PICK i \in DOMAIN SeedStatements :
          /\ SeedStatements[i].table = "flight_schedules" /\ SeedStatements[i].key = s
          /\ SeedStatements[i].row.window = schedules[s].scheduled
    BY <1>1 DEF OnlySeeded
  <2>3. Statement.table = "flight_schedules" /\ Statement.key = s =>
          Statement.row.window = schedules[s].estimated
    BY <1>2, <2>1, <2>2, SeedRow
  <2>4. [schedules[s] EXCEPT !.estimated = schedules[s].estimated] = schedules[s]
    BY <2>1 DEF ScheduleRows
  <2>5. CASE Statement.table = "flight_schedules" /\ Statement.key = s
    <3>1. schedules' = [schedules EXCEPT ![s].estimated = schedules[s].estimated]
      BY <2>3, <2>5 DEF SeedStep, ScheduleSaved
    <3> QED BY <2>4, <3>1
  <2>6. CASE Statement.table = "flight_schedules" /\ Statement.key # s
    BY <2>6 DEF SeedStep, ScheduleSaved, Inserted
  <2>7. CASE Statement.table # "flight_schedules"
    BY <2>7 DEF SeedStep
  <2> QED BY <2>5, <2>6, <2>7
<1> QED BY <1>3, <1>4, <1>5, <1>6

\* What the next statement adds.
LEMMA SeedAddsRow ==
  ASSUME SeedStep, NEW n \in DOMAIN SeedStatements, Statement = SeedStatements[n]
  PROVE  LET row == SeedStatements[n]
         IN  /\ DOMAIN users' =
                  IF row.table = "users" THEN DOMAIN users \cup {row.key} ELSE DOMAIN users
             /\ DOMAIN resources' =
                  IF row.table = "resources"
                  THEN DOMAIN resources \cup {row.key} ELSE DOMAIN resources
             /\ DOMAIN flights' =
                  IF row.table = "flights" THEN DOMAIN flights \cup {row.key} ELSE DOMAIN flights
             /\ DOMAIN schedules' =
                  IF row.table = "flight_schedules"
                  THEN DOMAIN schedules \cup {row.key} ELSE DOMAIN schedules
  BY DEF SeedStep, Inserted, ScheduleSaved

\* Users and resources come first: where a flight has been seeded they are all
\* there, whatever is still missing.
LEMMA FlightsComeLast ==
  ASSUME NEW n \in Int, n - 1 <= Len(SeedStatements),
         \A i \in 1 .. n - 1 : Stored(SeedStatements[i]),
         \E i \in 1 .. n - 1 : SeedStatements[i].table = "flights"
  PROVE  /\ SeededIn("users") \subseteq DOMAIN users
         /\ SeededIn("resources") \subseteq DOMAIN resources
<1>1. DOMAIN SeedStatements = 1 .. Len(SeedStatements) /\ Len(SeedStatements) \in Nat
  BY SeedingAssumption
<1>2. PICK i \in 1 .. n - 1 : SeedStatements[i].table = "flights"
  OBVIOUS
<1>3. \A j \in DOMAIN SeedStatements :
        SeedStatements[j].table \in {"users", "resources"} => j < i
  BY <1>1, <1>2, SeedingAssumption
<1>4. \A j \in DOMAIN SeedStatements :
        SeedStatements[j].table \in {"users", "resources"} => Stored(SeedStatements[j])
  BY <1>1, <1>2, <1>3
<1> QED BY <1>4 DEF SeededIn, Stored

\* After its statement a seeding goes on with the next one, or the console is
\* open and all there is to be seeded is there.
LEMMA SeedKeepsProgress ==
  ASSUME Program!IInv, SeedingProgress, OnlySeeded, UsersAreSeeded, SeedStep
  PROVE  SeedingProgress' /\ OpenedForGood' /\ OpenConsoleCanBeUsed'
<1>1. ~ ConsoleIsOpen
  BY DEF SeedStep
<1>2. PICK n \in DOMAIN SeedStatements :
        /\ Statement = SeedStatements[n]
        /\ Tail(startup) = SubSeq(SeedStatements, n + 1, Len(SeedStatements))
        /\ \A i \in 1 .. n - 1 : Stored(SeedStatements[i])
        /\ DOMAIN flights # {} => \E i \in 1 .. n - 1 : SeedStatements[i].table = "flights"
  BY <1>1, NextStatement
<1>3. /\ DOMAIN SeedStatements = 1 .. Len(SeedStatements) /\ Len(SeedStatements) \in Nat
      /\ SeedStatements \in Seq(Range(SeedStatements))
  BY SeedingAssumption
<1>4. startup' = SubSeq(SeedStatements, n + 1, Len(SeedStatements))
  BY <1>2 DEF SeedStep
<1>5. ASSUME NEW i \in 1 .. n
      PROVE  Stored(SeedStatements[i])'
  <2>1. SeedStatements[i].table \in {"users", "resources", "flights", "flight_schedules"}
    BY <1>3, SeedRow
  <2>2. i # n => Stored(SeedStatements[i])
    BY <1>2, <1>3
  <2> QED BY <1>2, <2>1, <2>2, SeedAddsRow DEF Stored
<1>6. DOMAIN flights' # {} => \E i \in 1 .. n : SeedStatements[i].table = "flights"
  <2>1. SeedStatements[n].table # "flights" => DOMAIN flights' = DOMAIN flights
    BY <1>2, SeedAddsRow
  <2>2. n \in 1 .. n /\ 1 .. n - 1 \subseteq 1 .. n
    BY <1>3
  <2> QED BY <1>2, <2>1, <2>2
<1>7. CASE n < Len(SeedStatements)
  <2>1. n + 1 \in DOMAIN SeedStatements /\ (n + 1) - 1 = n
    BY <1>3, <1>7
  <2>2. SeedingProgress'
    BY <1>4, <1>5, <1>6, <2>1 DEF SeedingProgress
  <2>3. \A i \in n + 1 .. Len(SeedStatements) : SeedStatements[i] \in Range(SeedStatements)
    BY <1>3
  <2>4. Len(startup') = Len(SeedStatements) - n
    BY <1>3, <1>4, <1>7, <2>1, <2>3, SubSeqProperties
  <2>5. startup' # << >>
    BY <1>3, <1>7, <2>4
  <2> QED BY <2>2, <2>5 DEF OpenedForGood, OpenConsoleCanBeUsed, ConsoleIsOpen
<1>8. CASE n = Len(SeedStatements)
  <2>1. startup' = << >>
    BY <1>3, <1>4, <1>8, SubSeqEmpty
  <2>2. \A i \in DOMAIN SeedStatements : Stored(SeedStatements[i])'
    BY <1>3, <1>5, <1>8
  <2>3. DOMAIN flights' # {}
    BY <2>2, SeedingAssumption DEF Stored
  <2>4. OpenConsoleCanBeUsed'
    BY <2>2 DEF OpenConsoleCanBeUsed, SeededIn, Stored
  <2> QED BY <2>1, <2>3, <2>4 DEF SeedingProgress, OpenedForGood, ConsoleIsOpen
<1> QED BY <1>3, <1>7, <1>8

\* The statement adds what it should, and nothing else.
LEMMA SeedKeepsFresh ==
  ASSUME Program!IInv, SeedingProgress, OnlySeeded, UsersAreSeeded, Seed
  PROVE  OnlySeeded' /\ UsersAreSeeded'
<1>1. ~ ConsoleIsOpen /\ SeedStep
  BY DEF Seed, SeedStep
<1>2. PICK n \in DOMAIN SeedStatements : Statement = SeedStatements[n]
  BY <1>1, NextStatement
<1>3. UsersAreSeeded'
  <2> SUFFICES ASSUME NEW u \in DOMAIN users'
               PROVE  \E i \in DOMAIN SeedStatements :
                        /\ SeedStatements[i].table = "users" /\ SeedStatements[i].key = u
                        /\ SeedStatements[i].row = users'[u]
    BY DEF UsersAreSeeded
  <2>1. CASE u \in DOMAIN users
    BY <1>1, <2>1, SeedKeepsRows DEF UsersAreSeeded
  <2>2. CASE u \notin DOMAIN users
    <3>1. SeedStatements[n].table = "users" /\ SeedStatements[n].key = u
      BY <1>1, <1>2, <2>2, SeedAddsRow
    <3>2. users'[u] = SeedStatements[n].row
      BY <1>1, <1>2, <3>1 DEF SeedStep, Inserted
    <3> QED BY <3>1, <3>2
  <2> QED BY <2>1, <2>2
<1>4. \A r \in DOMAIN resources' : resources'[r] = "AVAILABLE"
  BY <1>1 DEF OnlySeeded, SeedStep, Inserted
<1>5. \A f \in DOMAIN flights' : flights'[f] = "SCHEDULED"
  BY <1>1 DEF OnlySeeded, SeedStep, Inserted
<1>6. ASSUME NEW s \in DOMAIN schedules'
      PROVE  /\ schedules'[s].estimated = schedules'[s].scheduled
             /\ \E i \in DOMAIN SeedStatements :
                  /\ SeedStatements[i].table = "flight_schedules" /\ SeedStatements[i].key = s
                  /\ SeedStatements[i].row.flight = schedules'[s].flight
                  /\ SeedStatements[i].row.window = schedules'[s].scheduled
  <2>1. CASE s \in DOMAIN schedules
    BY <1>1, <2>1, SeedKeepsRows DEF OnlySeeded
  <2>2. CASE s \notin DOMAIN schedules
    <3>1. SeedStatements[n].table = "flight_schedules" /\ SeedStatements[n].key = s
      BY <1>1, <1>2, <2>2, SeedAddsRow
    <3>2. schedules'[s] = [flight |-> SeedStatements[n].row.flight,
                           scheduled |-> SeedStatements[n].row.window,
                           estimated |-> SeedStatements[n].row.window]
      BY <1>1, <1>2, <2>2, <3>1 DEF SeedStep, ScheduleSaved, Inserted
    <3> QED BY <3>1, <3>2
  <2> QED BY <2>1, <2>2
<1>7. UNCHANGED <<call, result, operation, allocations, allocationStaff, delays, emergencies>>
  BY DEF Seed, allocationVars
<1> QED BY <1>1, <1>3, <1>4, <1>5, <1>6, <1>7
        DEF OnlySeeded, Program!Allocation!Idle, Program!Allocation!NoResult, AtMenu

\* What was seeded is typed.
LEMMA SeedKeepsTypes ==
  ASSUME Program!IInv, SeedingProgress, OnlySeeded, UsersAreSeeded, UserTypeOK, Seed
  PROVE  DatabaseTypeOK' /\ FlightTypeOK' /\ UserTypeOK'
<1>1. PICK n \in DOMAIN SeedStatements : Statement = SeedStatements[n]
  BY NextStatement DEF Seed, SeedStep
<1>2. SeedStep /\ IsSeedRow(SeedStatements[n])
  BY SeedRow DEF Seed
<1>3. DatabaseTypeOK /\ FlightTypeOK
  BY ProgramTypes
<1>4. /\ DOMAIN flights' \subseteq Flights
      /\ flights' \in [DOMAIN flights' -> FlightStatuses]
  BY <1>1, <1>2, <1>3 DEF SeedStep, Inserted, IsSeedRow, DatabaseTypeOK, FlightStatuses
<1>5. /\ DOMAIN resources' \subseteq Resources
      /\ resources' \in [DOMAIN resources' -> ResourceStatuses]
  BY <1>1, <1>2, <1>3 DEF SeedStep, Inserted, IsSeedRow, DatabaseTypeOK, ResourceStatuses
<1>6. users' \in [DOMAIN users' -> Roles]
  BY <1>1, <1>2 DEF UserTypeOK, SeedStep, Inserted, IsSeedRow
<1>7. /\ DOMAIN schedules' \subseteq Nat
      /\ schedules' \in [DOMAIN schedules' -> ScheduleRows]
  <2>1. CASE Statement.table # "flight_schedules"
    BY <1>2, <1>3, <2>1 DEF SeedStep, FlightTypeOK
  <2>2. CASE Statement.table = "flight_schedules"
    <3>1. /\ Statement.key \in Nat
          /\ Statement.row.flight \in Flights /\ Statement.row.window \in TimeWindows
      BY <1>1, <1>2, <2>2 DEF IsSeedRow
    <3>2. schedules' =
            ScheduleSaved(Statement.key, Statement.row.flight, Statement.row.window)
      BY <1>2, <2>2 DEF SeedStep
    <3>3. DOMAIN schedules \subseteq Nat /\ schedules \in [DOMAIN schedules -> ScheduleRows]
      BY <1>3 DEF FlightTypeOK
    <3>4. CASE Statement.key \in DOMAIN schedules
      BY <3>1, <3>2, <3>3, <3>4 DEF ScheduleSaved, ScheduleRows
    <3>5. CASE Statement.key \notin DOMAIN schedules
      BY <3>1, <3>2, <3>3, <3>5 DEF ScheduleSaved, ScheduleRows, Inserted
    <3> QED BY <3>4, <3>5
  <2> QED BY <2>1, <2>2
<1>8. UNCHANGED <<allocations, allocationStaff, nextScheduleId, outcome, currentRole>>
  BY DEF Seed, allocationVars
<1> QED BY <1>3, <1>4, <1>5, <1>6, <1>7, <1>8
        DEF DatabaseTypeOK, FlightTypeOK, UserTypeOK

\* A database in which only seeded rows are is one in which the program may
\* start.
LEMMA FreshProgram ==
  ASSUME Program!IInv, Seed, DatabaseTypeOK', FlightTypeOK',
         call' = Program!Allocation!Idle, operation' = AtMenu,
         allocations' = << >>, allocationStaff' = {}, delays' = << >>, emergencies' = << >>,
         \A f \in DOMAIN flights' : flights'[f] = "SCHEDULED",
         \A s \in DOMAIN schedules' : schedules'[s].flight \in DOMAIN flights',
         \A s \in DOMAIN schedules' : schedules'[s].estimated = schedules'[s].scheduled,
         \A s, t \in DOMAIN schedules' : schedules'[s].flight = schedules'[t].flight => s = t
  PROVE  Program!IInv'
<1>1. Program!Allocation!TypeOK'
  BY ProgramTypes
  DEF Program!IInv, Program!Allocation!IInv, Program!Allocation!TypeOK, Seed, allocationVars
<1>2. /\ Program!Allocation!LinksHaveRows'
      /\ Program!Allocation!RowsHaveResources'
      /\ Program!Allocation!BookingsAreDisjoint'
  BY DEF Program!Allocation!LinksHaveRows, Program!Allocation!RowsHaveResources,
         Program!Allocation!BookingsAreDisjoint, Program!Allocation!ActiveAllocations
<1>3. call'.step = "idle"
  BY DEF Program!Allocation!Idle
<1>4. /\ Program!Allocation!ChecksStillHold'
      /\ Program!Allocation!AllocationProgress'
      /\ Program!Allocation!ReleaseProgress'
  BY <1>3
  DEF Program!Allocation!ChecksStillHold, Program!Allocation!AllocationProgress,
      Program!Allocation!ReleaseProgress, Program!Allocation!AllocateSteps,
      Program!Allocation!ReleaseSteps
<1>5. operation'.step = "menu"
  BY DEF AtMenu
<1>6. Program!Operations!TypeOK'
  BY ProgramTypes
  DEF Program!IInv, Program!Operations!IInv, Program!Operations!TypeOK,
      Program!Operations!DelayTypeOK, Program!Operations!EmergencyTypeOK, Seed
<1>7. /\ Program!Operations!RowsHaveFlights'
      /\ Program!Operations!OneSchedulePerFlight'
      /\ Program!Operations!DelayedMeansRecorded'
      /\ Program!Operations!OneEmergencyPerFlight'
      /\ Program!Operations!EmergencyEntersTheLifecycle'
      /\ Program!Operations!HandlingFollowsFlight'
  BY DEF Program!Operations!RowsHaveFlights, Program!Operations!OneSchedulePerFlight,
         Program!Operations!DelayedMeansRecorded, Program!Operations!OneEmergencyPerFlight,
         Program!Operations!EmergencyEntersTheLifecycle,
         Program!Operations!HandlingFollowsFlight
<1>8. /\ Program!Operations!CreateProgress'
      /\ Program!Operations!DelayProgress'
      /\ Program!Operations!EmergencyProgress'
  BY <1>5
  DEF Program!Operations!CreateProgress, Program!Operations!DelayProgress,
      Program!Operations!EmergencyProgress
<1>9. Program!Operations!EstimateProgress'
  <2>1. \A f : Program!Operations!MinutesOf(f)' = {}
    BY DEF Program!Operations!MinutesOf
  <2>2. Cardinality({}) = 0 /\ IsFiniteSet({})
    BY FS_EmptySet
  <2>3. ASSUME NEW s \in DOMAIN schedules'
        PROVE  Program!Operations!Accounted(s)'
    <3>1. \A f : Program!Operations!RecordedMinutes(f)' = 0
      BY <2>1, <2>2
      DEF Program!Operations!RecordedMinutes, Program!Operations!Cardinality, Cardinality
    <3>2. \A f : Program!Operations!PendingMinutes(f)' = 0
      BY <1>5 DEF Program!Operations!PendingMinutes
    <3>3. schedules'[s] \in ScheduleRows /\ schedules'[s].estimated = schedules'[s].scheduled
      BY DEF FlightTypeOK
    <3>4. Program!Operations!MovedBy(s, 0)'
      BY <3>3 DEF Program!Operations!MovedBy, ScheduleRows, TimeWindows
    <3>5. 0 \in 0 .. (Program!Operations!RecordedMinutes(schedules[s].flight)
                        - Program!Operations!PendingMinutes(schedules[s].flight))'
      BY <3>1, <3>2
    <3> QED BY <3>4, <3>5 DEF Program!Operations!Accounted
  <2>4. Program!Operations!Unaccounted' = {}
    BY <2>3 DEF Program!Operations!Unaccounted
  <2>5. \A T : [s \in {} |-> s] \in Program!Operations!Injection({}, T)
    BY DEF Program!Operations!Injection, Program!Operations!IsInjective
  <2>6. Program!Operations!ExistsInjection(Program!Operations!Unaccounted,
                                          Program!Operations!GivenUp)'
    BY <2>4, <2>5 DEF Program!Operations!ExistsInjection
  <2> QED BY <1>5, <2>1, <2>2, <2>6
          DEF Program!Operations!EstimateProgress, Program!Operations!IsFiniteSet, IsFiniteSet
<1> QED BY <1>1, <1>2, <1>4, <1>6, <1>7, <1>8, <1>9
        DEF Program!IInv, Program!Allocation!IInv, Program!Operations!IInv

\* A seeded schedule is that of a seeded flight, and the only one of it.
LEMMA SeedKeepsProgram ==
  ASSUME Program!IInv, SeedingProgress, OnlySeeded, UsersAreSeeded, UserTypeOK, Seed
  PROVE  Program!IInv'
<1>1. ~ ConsoleIsOpen /\ SeedStep
  BY DEF Seed, SeedStep
<1>2. PICK n \in DOMAIN SeedStatements :
        /\ Statement = SeedStatements[n]
        /\ \A i \in 1 .. n - 1 : Stored(SeedStatements[i])
  BY <1>1, NextStatement
<1>3. DatabaseTypeOK' /\ FlightTypeOK'
  BY SeedKeepsTypes
<1>4. DOMAIN SeedStatements = 1 .. Len(SeedStatements) /\ Len(SeedStatements) \in Nat
  BY SeedingAssumption
<1>5. ASSUME NEW s \in DOMAIN schedules'
      PROVE  \E i \in DOMAIN SeedStatements :
               /\ SeedStatements[i].table = "flight_schedules" /\ SeedStatements[i].key = s
               /\ SeedStatements[i].row.flight = schedules'[s].flight
  <2>1. CASE s \in DOMAIN schedules
    BY <1>1, <2>1, SeedKeepsRows DEF OnlySeeded
  <2>2. CASE s \notin DOMAIN schedules
    <3>1. SeedStatements[n].table = "flight_schedules" /\ SeedStatements[n].key = s
      BY <1>1, <1>2, <2>2, SeedAddsRow
    <3>2. schedules'[s].flight = SeedStatements[n].row.flight
      BY <1>1, <1>2, <2>2, <3>1 DEF SeedStep, ScheduleSaved, Inserted
    <3> QED BY <3>1, <3>2
  <2> QED BY <2>1, <2>2
<1>6. \A s, t \in DOMAIN schedules' : schedules'[s].flight = schedules'[t].flight => s = t
  <2> SUFFICES ASSUME NEW s \in DOMAIN schedules', NEW t \in DOMAIN schedules',
                      schedules'[s].flight = schedules'[t].flight
               PROVE  s = t
    OBVIOUS
  <2>1. PICK i \in DOMAIN SeedStatements :
          /\ SeedStatements[i].table = "flight_schedules" /\ SeedStatements[i].key = s
          /\ SeedStatements[i].row.flight = schedules'[s].flight
    BY <1>5
  <2>2. PICK j \in DOMAIN SeedStatements :
          /\ SeedStatements[j].table = "flight_schedules" /\ SeedStatements[j].key = t
          /\ SeedStatements[j].row.flight = schedules'[t].flight
    BY <1>5
  <2>3. i = j
    BY <2>1, <2>2, SeedingAssumption
  <2> QED BY <2>1, <2>2, <2>3
<1>7. ASSUME NEW s \in DOMAIN schedules'
      PROVE  schedules'[s].flight \in DOMAIN flights'
  <2>1. CASE s \in DOMAIN schedules
    <3>1. schedules[s].flight \in DOMAIN flights
      BY <2>1 DEF Program!IInv, Program!Operations!IInv, Program!Operations!RowsHaveFlights
    <3> QED BY <1>1, <2>1, <3>1, SeedKeepsRows
  <2>2. CASE s \notin DOMAIN schedules
    <3>1. SeedStatements[n].table = "flight_schedules" /\ SeedStatements[n].key = s
      BY <1>1, <1>2, <2>2, SeedAddsRow
    <3>2. schedules'[s].flight = SeedStatements[n].row.flight
      BY <1>1, <1>2, <2>2, <3>1 DEF SeedStep, ScheduleSaved, Inserted
    <3>3. PICK j \in DOMAIN SeedStatements :
            /\ SeedStatements[j].table = "flights"
            /\ SeedStatements[j].key = SeedStatements[n].row.flight
      BY <3>1, SeedingAssumption
    <3>4. j < n
      BY <3>1, <3>3, SeedingAssumption
    <3>5. Stored(SeedStatements[j])
      BY <1>2, <1>4, <3>4
    <3>6. SeedStatements[n].row.flight \in DOMAIN flights
      BY <3>3, <3>5 DEF Stored
    <3> QED BY <1>1, <3>2, <3>6, SeedKeepsRows
  <2> QED BY <2>1, <2>2
<1>8. \A f \in DOMAIN flights' : flights'[f] = "SCHEDULED"
  BY <1>1 DEF OnlySeeded, SeedStep, Inserted
<1>9. ASSUME NEW s \in DOMAIN schedules'
      PROVE  schedules'[s].estimated = schedules'[s].scheduled
  <2>1. CASE s \in DOMAIN schedules
    <3>1. schedules'[s] = schedules[s]
      BY <1>1, <2>1, SeedKeepsRows
    <3> QED BY <1>1, <2>1, <3>1 DEF OnlySeeded
  <2>2. CASE s \notin DOMAIN schedules
    <3>1. SeedStatements[n].table = "flight_schedules" /\ SeedStatements[n].key = s
      BY <1>1, <1>2, <2>2, SeedAddsRow
    <3> QED BY <1>1, <1>2, <2>2, <3>1 DEF SeedStep, ScheduleSaved, Inserted
  <2> QED BY <2>1, <2>2
<1>10. /\ call = Program!Allocation!Idle /\ operation = AtMenu
       /\ allocations = << >> /\ allocationStaff = {}
       /\ delays = << >> /\ emergencies = << >>
  BY <1>1 DEF OnlySeeded
<1>11. UNCHANGED <<call, operation, allocations, allocationStaff, delays, emergencies>>
  BY DEF Seed, allocationVars
<1>12. call' = Program!Allocation!Idle /\ operation' = AtMenu
  BY <1>10, <1>11 DEF Program!Allocation!Idle, AtMenu
<1> QED BY <1>3, <1>6, <1>7, <1>8, <1>9, <1>10, <1>11, <1>12, FreshProgram

-----------------------------------------------------------------------------
(* What each part of the program may do                                    *)

\* The allocation and resource handlers.
LEMMA AllocationHandlers ==
  /\ Program!Allocation!Advance =>
       /\ call # Program!Allocation!Idle
       /\ UNCHANGED flights /\ DOMAIN resources' = DOMAIN resources
  /\ Program!Allocation!AllocationCommand =>
       UNCHANGED <<flights, resources, allocations, allocationStaff>>
  /\ Program!Allocation!ResourceCommand =>
       /\ call = Program!Allocation!Idle
       /\ UNCHANGED <<call, flights, allocations, allocationStaff>>
       /\ DOMAIN resources \subseteq DOMAIN resources'
  /\ Program!Allocation!StatementFails =>
       /\ call' = Program!Allocation!Idle
       /\ UNCHANGED <<flights, resources, allocations, allocationStaff>>
<1>1. ASSUME Program!Allocation!Advance
      PROVE  /\ call # Program!Allocation!Idle
             /\ UNCHANGED flights /\ DOMAIN resources' = DOMAIN resources
  BY <1>1
  DEF Program!Allocation!Advance, Program!Allocation!OccupyGate,
      Program!Allocation!OccupyVehicle, Program!Allocation!OccupyStaff,
      Program!Allocation!InsertAllocation, Program!Allocation!InsertRefused,
      Program!Allocation!LinkStaff, Program!Allocation!LinkRefused,
      Program!Allocation!AllocationSucceeds, Program!Allocation!FreeGate,
      Program!Allocation!FreeVehicle, Program!Allocation!FreeStaff,
      Program!Allocation!MarkReleased, Program!Allocation!StatusUpdated,
      Program!Allocation!tables, Program!Allocation!Idle
<1>2. ASSUME Program!Allocation!AllocationCommand
      PROVE  UNCHANGED <<flights, resources, allocations, allocationStaff>>
  BY <1>2
  DEF Program!Allocation!AllocationCommand, Program!Allocation!RejectAllocation,
      Program!Allocation!BeginAllocation, Program!Allocation!RejectRelease,
      Program!Allocation!BeginRelease, Program!Allocation!tables
<1>3. ASSUME Program!Allocation!ResourceCommand
      PROVE  /\ call = Program!Allocation!Idle
             /\ UNCHANGED <<call, flights, allocations, allocationStaff>>
             /\ DOMAIN resources \subseteq DOMAIN resources'
  BY <1>3
  DEF Program!Allocation!ResourceCommand, Program!Allocation!AddResource,
      Program!Allocation!SetResourceStatus, Program!Allocation!Inserted,
      Program!Allocation!StatusUpdated
<1>4. ASSUME Program!Allocation!StatementFails
      PROVE  /\ call' = Program!Allocation!Idle
             /\ UNCHANGED <<flights, resources, allocations, allocationStaff>>
  BY <1>4
  DEF Program!Allocation!StatementFails, Program!Allocation!Return, Program!Allocation!tables
<1> QED BY <1>1, <1>2, <1>3, <1>4

\* The next statement of a flight, delay or emergency handler: only that of
\* createFlight belongs to the administrator.
LEMMA OperationAdvances ==
  ASSUME Program!Operations!TypeOK, Program!Operations!Advance
  PROVE  /\ operation # AtMenu
         /\ DOMAIN flights' = DOMAIN flights
         /\ UNCHANGED <<resources, allocations, allocationStaff>>
         /\ operation.step = "saveSchedule" =>
              operation' = AtMenu /\ UNCHANGED <<flights, delays, emergencies>>
         /\ operation.step # "saveSchedule" => DOMAIN schedules' = DOMAIN schedules
         /\ operation' = AtMenu \/ operation'.step # "saveSchedule"
<1>1. UNCHANGED <<resources, allocations, allocationStaff>>
  BY DEF Program!Operations!Advance, Program!Operations!allocationTables
<1>2. CASE Program!Operations!SaveSchedule /\ UNCHANGED <<delays, emergencies>>
  BY <1>1, <1>2
  DEF Program!Operations!SaveSchedule, Program!Operations!Finish,
      Program!Operations!AtMenu, AtMenu
<1>3. CASE Program!Operations!AdvanceDelay
  <2>1. operation.step \in {"recordDelay", "delayFlight"} =>
          /\ [operation EXCEPT !.step = "delayFlight"].step = "delayFlight"
          /\ [operation EXCEPT !.step = "shiftSchedule"].step = "shiftSchedule"
    BY DEF Program!Operations!TypeOK, Program!Operations!Operations,
           Program!Operations!AtMenu, Program!Operations!CreateOperations,
           Program!Operations!DelayOperations, Program!Operations!EmergencyOperations
  <2>2. CASE Program!Operations!RecordDelay \/ Program!Operations!DelayFlight
    <3>1. operation.step \in {"recordDelay", "delayFlight"} /\ operation # AtMenu
      BY <2>2 DEF Program!Operations!RecordDelay, Program!Operations!DelayFlight, AtMenu
    <3>2. operation'.step # "saveSchedule"
      BY <2>1, <2>2, <3>1
      DEF Program!Operations!RecordDelay, Program!Operations!DelayFlight,
          Program!Operations!Continue
    <3>3. DOMAIN flights' = DOMAIN flights /\ UNCHANGED schedules
      BY <2>2 DEF Program!Operations!RecordDelay, Program!Operations!DelayFlight,
                  Program!Operations!StatusUpdated
    <3> QED BY <1>1, <3>1, <3>2, <3>3
  <2>3. CASE Program!Operations!ShiftSchedule
    BY <1>1, <2>3
    DEF Program!Operations!ShiftSchedule, Program!Operations!Continue, AtMenu
  <2>4. CASE \/ Program!Operations!RecordRefused \/ Program!Operations!DelayRefused
             \/ Program!Operations!NoSchedule \/ Program!Operations!ReportDelay
    BY <1>1, <2>4
    DEF Program!Operations!RecordRefused, Program!Operations!DelayRefused,
        Program!Operations!NoSchedule, Program!Operations!ReportDelay,
        Program!Operations!Finish, Program!Operations!AtMenu, AtMenu
  <2> QED BY <1>3, <2>2, <2>3, <2>4 DEF Program!Operations!AdvanceDelay
<1>4. CASE Program!Operations!AdvanceEmergency /\ UNCHANGED schedules
  BY <1>1, <1>4
  DEF Program!Operations!AdvanceEmergency, Program!Operations!SaveEmergency,
      Program!Operations!SaveRefused, Program!Operations!MarkHandling,
      Program!Operations!Finish, Program!Operations!AtMenu, AtMenu
<1> QED BY <1>2, <1>3, <1>4
        DEF Program!Operations!Advance, Program!Operations!scheduleVars,
            Program!Operations!delayVars, Program!Operations!emergencyVars

\* What is started at the menu, by whom, and a statement that fails.
LEMMA OperationCommands ==
  /\ Program!Operations!ManagerCommand =>
       /\ DOMAIN flights' = DOMAIN flights
       /\ UNCHANGED <<resources, allocations, allocationStaff, schedules>>
       /\ operation' = AtMenu \/ operation'.step # "saveSchedule"
  /\ Program!Operations!AdministratorCommand =>
       /\ UNCHANGED <<resources, allocations, allocationStaff, schedules, delays, emergencies>>
       /\ \A f \in DOMAIN flights : f \in DOMAIN flights' /\ flights'[f] = flights[f]
       /\ operation' = AtMenu \/ operation'.step = "saveSchedule"
  /\ Program!Operations!StatementFails =>
       /\ operation' = AtMenu
       /\ UNCHANGED <<flights, resources, allocations, allocationStaff, schedules, delays,
                       emergencies>>
<1>1. ASSUME Program!Operations!ManagerCommand
      PROVE  /\ DOMAIN flights' = DOMAIN flights
             /\ UNCHANGED <<resources, allocations, allocationStaff, schedules>>
             /\ operation' = AtMenu \/ operation'.step # "saveSchedule"
  <2>1. UNCHANGED <<resources, allocations, allocationStaff>>
    BY <1>1 DEF Program!Operations!ManagerCommand, Program!Operations!allocationTables
  <2>2. CASE Program!Operations!StatusCommand \/ Program!Operations!DelayCommand
    BY <2>1, <2>2
    DEF Program!Operations!StatusCommand, Program!Operations!ChangeStatus,
        Program!Operations!RejectStatus, Program!Operations!DelayCommand,
        Program!Operations!RejectDelay, Program!Operations!BeginDelay,
        Program!Operations!Finish, Program!Operations!Continue,
        Program!Operations!StatusUpdated, Program!Operations!AtMenu, AtMenu
  <2>3. ASSUME NEW f, Program!Operations!RejectDeclaration(f)
                        \/ Program!Operations!DeclareEmergency(f)
        PROVE  DOMAIN flights' = DOMAIN flights /\ operation'.step # "saveSchedule"
    BY <2>3
    DEF Program!Operations!RejectDeclaration, Program!Operations!DeclareEmergency,
        Program!Operations!Finish, Program!Operations!Continue,
        Program!Operations!StatusUpdated, Program!Operations!AtMenu
  <2>4. ASSUME NEW id, \/ Program!Operations!RejectEmergency(id)
                       \/ Program!Operations!RecordLanding(id)
                       \/ Program!Operations!ResolveEmergency(id)
        PROVE  DOMAIN flights' = DOMAIN flights /\ operation'.step # "saveSchedule"
    BY <2>4
    DEF Program!Operations!RejectEmergency, Program!Operations!RecordLanding,
        Program!Operations!ResolveEmergency, Program!Operations!Finish,
        Program!Operations!AtMenu
  <2>5. ASSUME NEW f, NEW id, Program!Operations!RejectHandling(f, id)
                                \/ Program!Operations!BeginHandling(f, id)
        PROVE  DOMAIN flights' = DOMAIN flights /\ operation'.step # "saveSchedule"
    BY <2>5
    DEF Program!Operations!RejectHandling, Program!Operations!BeginHandling,
        Program!Operations!Finish, Program!Operations!Continue,
        Program!Operations!StatusUpdated, Program!Operations!AtMenu
  <2>6. CASE Program!Operations!EmergencyCommand /\ UNCHANGED schedules
    BY <2>1, <2>3, <2>4, <2>5, <2>6 DEF Program!Operations!EmergencyCommand
  <2> QED BY <1>1, <2>2, <2>6
          DEF Program!Operations!ManagerCommand, Program!Operations!scheduleVars
<1>2. ASSUME Program!Operations!AdministratorCommand
      PROVE  /\ UNCHANGED <<resources, allocations, allocationStaff, schedules, delays,
                             emergencies>>
             /\ \A f \in DOMAIN flights : f \in DOMAIN flights' /\ flights'[f] = flights[f]
             /\ operation' = AtMenu \/ operation'.step = "saveSchedule"
  BY <1>2
  DEF Program!Operations!AdministratorCommand, Program!Operations!CreateCommand,
      Program!Operations!RejectFlight, Program!Operations!SaveFlight,
      Program!Operations!NewFlight, Program!Operations!Inserted,
      Program!Operations!Finish, Program!Operations!Continue,
      Program!Operations!allocationTables, Program!Operations!delayVars,
      Program!Operations!emergencyVars, Program!Operations!AtMenu, AtMenu
<1>3. ASSUME Program!Operations!StatementFails
      PROVE  /\ operation' = AtMenu
             /\ UNCHANGED <<flights, resources, allocations, allocationStaff, schedules, delays,
                             emergencies>>
  BY <1>3
  DEF Program!Operations!StatementFails, Program!Operations!Finish,
      Program!Operations!AtMenu, Program!Operations!tablesAndGenerators,
      Program!Operations!scheduleVars, Program!Operations!delayVars, Program!Operations!emergencyVars, AtMenu
<1> QED BY <1>1, <1>2, <1>3
-----------------------------------------------------------------------------
(* The inductive invariant                                                 *)

\* What start-up left stays there: nobody takes an account, a flight or a
\* resource away.
LEMMA StartupIsKept ==
  ASSUME IInv, ConsoleIsOpen, UNCHANGED <<startup, users>>,
         DOMAIN flights \subseteq DOMAIN flights', DOMAIN resources \subseteq DOMAIN resources'
  PROVE  /\ SeedingProgress' /\ OnlySeeded' /\ UsersAreSeeded'
         /\ OpenedForGood' /\ OpenConsoleCanBeUsed'
  BY DEF IInv, ConsoleIsOpen, SeedingProgress, OnlySeeded, UsersAreSeeded, OpenedForGood,
         OpenConsoleCanBeUsed, SeededIn

\* The types of what the console keeps besides the program's tables.
LEMMA ConsoleTypes ==
  ASSUME IInv, Next, ~ Seed
  PROVE  UserTypeOK' /\ TaskTypeOK' /\ ReportTypeOK'
<1>1. UserTypeOK /\ TaskTypeOK /\ ReportTypeOK
  BY DEF IInv
<1>2. UserTypeOK'
  <2>1. ASSUME NEW name \in DOMAIN users, Login(name)
        PROVE  UserTypeOK'
    BY <1>1, <2>1 DEF Login, UserTypeOK, ParseUserRole, ParsedAmong, Roles
  <2> QED BY <1>1, <2>1
          DEF Next, ProgramStep, HandleLogin, HandleGroundTasks, HandleReports, Restart,
              consoleVars, UserTypeOK
<1>3. TaskTypeOK'
  <2>1. ASSUME NEW f \in Flights, NEW staff \in EnteredAssignees \cup {Unassigned},
               CreateTask(f, staff)
        PROVE  TaskTypeOK'
    <3>1. NewTask(f, staff) \in TaskRows
      BY DEF NewTask, TaskRows, TaskStatuses
    <3> QED BY <1>1, <2>1, <3>1 DEF CreateTask, TaskTypeOK, Inserted
  <2>2. ASSUME NEW f \in Flights, CreateTaskRefused(f)
        PROVE  TaskTypeOK'
    BY <1>1, <2>2 DEF CreateTaskRefused, TaskTypeOK
  <2>3. ASSUME NEW id, NEW status \in EnteredProgress, UpdateTaskStatus(id, status)
        PROVE  TaskTypeOK'
    <3>1. ToText(status) \in TaskStatuses
      BY TaskAssumption DEF ToText, Enumerators
    <3> QED BY <1>1, <2>3, <3>1 DEF UpdateTaskStatus, TaskTypeOK, TaskRows
  <2>4. CASE UNCHANGED tasks /\ nextTaskId' \in {nextTaskId, 1}
    BY <1>1, <2>4 DEF TaskTypeOK
  <2> QED BY <2>1, <2>2, <2>3, <2>4
          DEF Next, ProgramStep, HandleLogin, HandleGroundTasks, HandleReports, Restart,
              consoleVars, TaskManagerCommand, TaskStaffCommand
<1>4. ReportTypeOK'
  <2>1. ASSUME NEW type \in EnteredReports, SaveReport(type)
        PROVE  ReportTypeOK'
    <3>1. NewReport(type).type \in ReportTypes
      BY ReportAssumption DEF NewReport
    <3> QED BY <1>1, <2>1, <3>1 DEF SaveReport, ReportTypeOK, Inserted
  <2>2. CASE SaveReportRefused
    BY <1>1, <2>2 DEF SaveReportRefused, ReportTypeOK
  <2>3. CASE UNCHANGED reports /\ nextReportId' \in {nextReportId, 1}
    BY <1>1, <2>3 DEF ReportTypeOK
  <2> QED BY <2>1, <2>2, <2>3
          DEF Next, ProgramStep, HandleLogin, HandleGroundTasks, HandleReports, Restart,
              consoleVars, ReportCommand
<1> QED BY <1>2, <1>3, <1>4

\* A handler of the program, behind its role check.
LEMMA ProgramStepKeeps ==
  ASSUME IInv, ProgramStep
  PROVE  /\ Program!IInv'
         /\ DOMAIN flights \subseteq DOMAIN flights'
         /\ DOMAIN resources \subseteq DOMAIN resources'
         /\ HandlersHaveTheirRole'
<1>1. Program!IInv /\ HandlersHaveTheirRole /\ currentRole' = currentRole
  BY DEF IInv, ProgramStep, consoleVars
<1>2. Program!IInv'
  BY <1>1, ProgramNext DEF ProgramStep, Program!Next
<1>3. Program!Operations!TypeOK
  BY <1>1 DEF Program!IInv, Program!Operations!IInv
<1>4. CASE Program!HandlerStep
  <2>1. CASE Program!Allocation!Advance /\ Program!AllocationTurn
    BY <1>1, <1>2, <2>1, AllocationHandlers
    DEF Program!AllocationTurn, Program!operationVars, HandlersHaveTheirRole,
        Program!Operations!AtMenu, AtMenu
  <2>2. CASE Program!Allocation!StatementFails /\ Program!AllocationTurn
    BY <1>1, <1>2, <2>2, AllocationHandlers
    DEF Program!AllocationTurn, Program!operationVars, HandlersHaveTheirRole,
        Program!Operations!AtMenu, AtMenu
  <2>3. CASE Program!Operations!Advance /\ Program!OperationTurn
    BY <1>1, <1>2, <1>3, <2>3, OperationAdvances
    DEF Program!OperationTurn, HandlersHaveTheirRole
  <2>4. CASE Program!Operations!StatementFails /\ Program!OperationTurn
    BY <1>1, <1>2, <2>4, OperationCommands DEF Program!OperationTurn, HandlersHaveTheirRole
  <2>5. \/ Program!Allocation!Advance /\ Program!AllocationTurn
        \/ Program!Allocation!StatementFails /\ Program!AllocationTurn
        \/ Program!Operations!Advance /\ Program!OperationTurn
        \/ Program!Operations!StatementFails /\ Program!OperationTurn
    BY <1>4 DEF Program!HandlerStep
  <2> QED BY <1>2, <2>1, <2>2, <2>3, <2>4, <2>5
<1>5. CASE RequireRole("OPERATIONS_MANAGER") /\ Program!ManagerCommand
  <2>1. CASE Program!Allocation!AllocationCommand /\ Program!AllocationTurn
    BY <1>1, <1>2, <1>5, <2>1, AllocationHandlers
    DEF Program!AllocationTurn, Program!operationVars, HandlersHaveTheirRole, RequireRole,
        Program!Operations!AtMenu, AtMenu
  <2>2. CASE Program!Operations!ManagerCommand /\ Program!OperationTurn
    BY <1>1, <1>2, <1>5, <2>2, OperationCommands
    DEF Program!OperationTurn, HandlersHaveTheirRole, RequireRole
  <2> QED BY <1>5, <2>1, <2>2 DEF Program!ManagerCommand
<1>6. CASE RequireRole("ADMINISTRATOR") /\ Program!AdministratorCommand
  <2>1. CASE Program!Allocation!ResourceCommand /\ Program!AllocationTurn
    BY <1>1, <1>2, <1>6, <2>1, AllocationHandlers
    DEF Program!AllocationTurn, Program!operationVars, HandlersHaveTheirRole, RequireRole,
        Program!Operations!AtMenu, AtMenu
  <2>2. CASE Program!Operations!AdministratorCommand /\ Program!OperationTurn
    BY <1>1, <1>2, <1>6, <2>2, OperationCommands
    DEF Program!OperationTurn, HandlersHaveTheirRole, RequireRole
  <2> QED BY <1>6, <2>1, <2>2 DEF Program!AdministratorCommand
<1> QED BY <1>4, <1>5, <1>6 DEF ProgramStep

\* Between two handlers the console itself changes nothing of the program.
LEMMA PromptKeeps ==
  ASSUME IInv, HandleLogin \/ HandleGroundTasks \/ HandleReports
  PROVE  Program!IInv' /\ HandlersHaveTheirRole' /\ UNCHANGED <<startup, users, flights, resources>>
<1>1. UNCHANGED <<allocationVars, programVars, startup, users>> /\ AtPrompt
  BY DEF HandleLogin, HandleGroundTasks, HandleReports, Login
<1>2. UNCHANGED Program!vars
  BY <1>1 DEF allocationVars, programVars, Program!vars, Program!allocationVars,
              Program!operationVars
<1>3. Program!IInv'
  BY <1>2, ProgramNext DEF IInv
<1>4. HandlersHaveTheirRole'
  BY <1>1 DEF AtPrompt, HandlersHaveTheirRole, allocationVars, programVars,
              Program!Allocation!Idle, AtMenu
<1> QED BY <1>1, <1>3, <1>4 DEF programVars

\* The first process finds an empty database.
LEMMA InitIInv == Init => IInv
<1> SUFFICES ASSUME Init PROVE IInv
  OBVIOUS
<1>1. Program!IInv
  BY ProgramInit DEF Init
<1>2. /\ flights = << >> /\ resources = << >> /\ schedules = << >>
      /\ allocations = << >> /\ allocationStaff = {} /\ delays = << >> /\ emergencies = << >>
      /\ call = Program!Allocation!Idle /\ result = Program!Allocation!NoResult
      /\ operation = AtMenu
  <2>1. \A S : S = {} => [f \in S |-> "SCHEDULED"] = << >> /\ [r \in S |-> "AVAILABLE"] = << >>
    OBVIOUS
  <2> QED BY <2>1, FirstStartAssumption
          DEF Init, Program!Init, Program!Allocation!Init, Program!Operations!Init,
              Program!Allocation!DatabaseInit, Program!Operations!DatabaseInit,
              Program!Operations!FlightInit, Program!Operations!DelayInit,
              Program!Operations!EmergencyInit, Program!Operations!AtMenu, AtMenu
<1>3. UserTypeOK /\ TaskTypeOK /\ ReportTypeOK
  BY DEF Init, UserInit, UserTypeOK, TaskInit, TaskTypeOK, ReportInit, ReportTypeOK
<1>4. users = << >> /\ startup = SubSeq(SeedStatements, 1, Len(SeedStatements)) /\ startup # << >>
  BY <1>2, OpeningIsAll DEF Init, UserInit, NeedsSeeding
<1>5. SeedingProgress
  <2>1. 1 \in DOMAIN SeedStatements
    BY SeedingAssumption
  <2> QED BY <1>2, <1>4, <2>1 DEF SeedingProgress
<1>6. OnlySeeded /\ UsersAreSeeded /\ HandlersHaveTheirRole
  BY <1>2, <1>4 DEF OnlySeeded, UsersAreSeeded, HandlersHaveTheirRole
<1>7. OpenedForGood /\ OpenConsoleCanBeUsed
  BY <1>4 DEF OpenedForGood, OpenConsoleCanBeUsed, ConsoleIsOpen
<1> QED BY <1>1, <1>3, <1>5, <1>6, <1>7 DEF IInv

\* The process ends and is started again, in the middle of a seeding as well.
LEMMA RestartKeeps ==
  ASSUME IInv, Restart
  PROVE  IInv'
<1>1. Program!IInv'
  BY ProgramNext DEF IInv, Restart, Program!Next
<1>2. /\ UNCHANGED <<flights, resources, schedules, allocations, allocationStaff, delays,
                     emergencies, users>>
      /\ call' = Program!Allocation!Idle /\ result' = Program!Allocation!NoResult
      /\ operation' = AtMenu /\ startup' = Opening
  BY DEF Restart, Program!Restart, Program!Allocation!Restart, Program!Operations!Restart,
         Program!Allocation!tables, Program!Operations!Finish, Program!Operations!AtMenu,
         AtMenu, Program!Operations!scheduleVars
<1>3. UserTypeOK' /\ TaskTypeOK' /\ ReportTypeOK'
  <2>1. ~ Seed \/ Restart
    OBVIOUS
  <2> QED BY <1>2 DEF IInv, Restart, UserTypeOK, TaskTypeOK, ReportTypeOK
<1>4. CASE NeedsSeeding
  <2>1. ~ ConsoleIsOpen /\ ~ ConsoleIsOpen'
    BY <1>2, <1>4, OpeningIsAll DEF IInv, OpenedForGood, NeedsSeeding, ConsoleIsOpen
  <2>2. SeedingProgress'
    <3>1. startup' = SubSeq(SeedStatements, 1, Len(SeedStatements)) /\ DOMAIN flights' = {}
      BY <1>2, <1>4, OpeningIsAll DEF NeedsSeeding
    <3>2. 1 \in DOMAIN SeedStatements
      BY SeedingAssumption
    <3> QED BY <3>1, <3>2 DEF SeedingProgress
  <2>3. OnlySeeded' /\ UsersAreSeeded'
    BY <1>2, <2>1 DEF IInv, OnlySeeded, UsersAreSeeded
  <2> QED BY <1>1, <1>2, <1>3, <2>1, <2>2, <2>3
          DEF IInv, OpenedForGood, OpenConsoleCanBeUsed, HandlersHaveTheirRole
<1>5. CASE ~ NeedsSeeding
  <2>1. ConsoleIsOpen' /\ DOMAIN flights' # {}
    BY <1>2, <1>5, OpeningIsAll DEF NeedsSeeding, ConsoleIsOpen
  <2>2. SeededIn("users") \subseteq DOMAIN users /\ SeededIn("resources") \subseteq DOMAIN resources
    <3>1. CASE ConsoleIsOpen
      BY <3>1 DEF IInv, OpenConsoleCanBeUsed
    <3>2. CASE ~ ConsoleIsOpen
      <4>1. PICK n \in DOMAIN SeedStatements :
              /\ \A i \in 1 .. n - 1 : Stored(SeedStatements[i])
              /\ \E i \in 1 .. n - 1 : SeedStatements[i].table = "flights"
        BY <1>2, <2>1, <3>2 DEF IInv, SeedingProgress
      <4>2. n \in Int /\ n - 1 <= Len(SeedStatements)
        BY <4>1, SeedingAssumption
      <4> QED BY <4>1, <4>2, FlightsComeLast
    <3> QED BY <3>1, <3>2
  <2>3. OpenConsoleCanBeUsed'
    BY <1>2, <2>2 DEF OpenConsoleCanBeUsed, SeededIn
  <2>4. UsersAreSeeded'
    BY <1>2 DEF IInv, UsersAreSeeded
  <2> QED BY <1>1, <1>2, <1>3, <2>1, <2>3, <2>4
          DEF IInv, SeedingProgress, OnlySeeded, OpenedForGood, HandlersHaveTheirRole
<1> QED BY <1>4, <1>5

\* A statement of the seeding.
LEMMA SeedKeeps ==
  ASSUME IInv, Seed
  PROVE  IInv'
<1>1. /\ Program!IInv /\ SeedingProgress /\ OnlySeeded /\ UsersAreSeeded
      /\ UserTypeOK /\ TaskTypeOK /\ ReportTypeOK /\ ~ ConsoleIsOpen /\ SeedStep
  BY DEF IInv, Seed, SeedStep
<1>2. Program!IInv' /\ UserTypeOK'
  BY <1>1, SeedKeepsProgram, SeedKeepsTypes
<1>3. SeedingProgress' /\ OpenedForGood' /\ OpenConsoleCanBeUsed'
  BY <1>1, SeedKeepsProgress
<1>4. OnlySeeded' /\ UsersAreSeeded'
  BY <1>1, SeedKeepsFresh
<1>5. TaskTypeOK' /\ ReportTypeOK'
  BY <1>1 DEF Seed, TaskTypeOK, ReportTypeOK
<1>6. HandlersHaveTheirRole'
  BY <1>1 DEF OnlySeeded, HandlersHaveTheirRole, Seed, allocationVars,
              Program!Allocation!Idle, AtMenu
<1> QED BY <1>2, <1>3, <1>4, <1>5, <1>6 DEF IInv

LEMMA NextIInv == IInv /\ [Next]_vars => IInv'
<1> SUFFICES ASSUME IInv, [Next]_vars PROVE IInv'
  OBVIOUS
<1>1. CASE Seed
  BY <1>1, SeedKeeps
<1>2. CASE Restart
  BY <1>2, RestartKeeps
<1>3. CASE ProgramStep
  <2>1. ConsoleIsOpen /\ ~ Seed /\ UNCHANGED <<startup, users>>
    BY <1>3 DEF ProgramStep, Seed, SeedStep, consoleVars
  <2> QED BY <1>3, <2>1, ProgramStepKeeps, ConsoleTypes, StartupIsKept DEF IInv, Next
<1>4. CASE HandleLogin \/ HandleGroundTasks \/ HandleReports
  <2>1. ConsoleIsOpen /\ ~ Seed
    BY <1>4 DEF HandleLogin, HandleGroundTasks, HandleReports, AtPrompt, Seed, SeedStep
  <2>2. UNCHANGED <<startup, users, flights, resources>> /\ Program!IInv' /\ HandlersHaveTheirRole'
    BY <1>4, PromptKeeps
  <2> QED BY <1>4, <2>1, <2>2, ConsoleTypes, StartupIsKept DEF IInv, Next
<1>5. CASE UNCHANGED vars
  <2>1. UNCHANGED Program!vars
    BY <1>5 DEF vars, allocationVars, programVars, Program!vars, Program!allocationVars,
                Program!operationVars
  <2>2. Program!IInv'
    BY <2>1, ProgramNext DEF IInv
  <2>3. UNCHANGED <<startup, users, currentRole, tasks, nextTaskId, reports, nextReportId, call,
                    result, operation, flights, resources, schedules, allocations, allocationStaff,
                    delays, emergencies>>
    BY <1>5 DEF vars, allocationVars, programVars, consoleVars
  <2>4. UserTypeOK' /\ TaskTypeOK' /\ ReportTypeOK' /\ HandlersHaveTheirRole' /\ UsersAreSeeded'
    BY <2>3 DEF IInv, UserTypeOK, TaskTypeOK, ReportTypeOK, HandlersHaveTheirRole, UsersAreSeeded
  <2>5. SeedingProgress'
    BY <2>3 DEF IInv, SeedingProgress, ConsoleIsOpen, Stored
  <2>6. OnlySeeded' /\ OpenedForGood' /\ OpenConsoleCanBeUsed'
    BY <2>3 DEF IInv, OnlySeeded, OpenedForGood, OpenConsoleCanBeUsed, SeededIn, ConsoleIsOpen
  <2> QED BY <2>2, <2>4, <2>5, <2>6 DEF IInv
<1> QED BY <1>1, <1>2, <1>3, <1>4, <1>5 DEF Next

-----------------------------------------------------------------------------
(* What the console keeps                                                  *)

\* The whole program keeps what its parts keep, whoever is logged in and
\* however often it is started, from an empty database on.
THEOREM InductiveInvariant == Spec => []IInv
  BY InitIInv, NextIInv, PTL DEF Spec

\* Every variable of the console and of the program below it has its type.
THEOREM TypeCorrect == Spec => []TypeOK
<1>1. IInv => TypeOK
  BY DEF IInv, TypeOK, Program!IInv, Program!Allocation!IInv, Program!Operations!IInv
<1> QED BY <1>1, InductiveInvariant, PTL

\* Once the console is open every seeded account and resource is there, at
\* whatever statement the starts before were cut short.
THEOREM OpenConsoleCanBeUsedHolds == Spec => []OpenConsoleCanBeUsed
<1>1. IInv => OpenConsoleCanBeUsed
  BY DEF IInv
<1> QED BY <1>1, InductiveInvariant, PTL

\* No resource is booked twice at one time by the program that its users run.
THEOREM ConsoleNeverDoubleBooks == Spec => []Program!Allocation!NoDoubleBooking
<1>1. IInv => Program!Allocation!NoDoubleBooking
  BY AirportProofs!IInvMeansNoDoubleBooking, SameProgram, ProgramConstants, ProgramAssumption,
     ScheduleAssumption, ResourceAssumption DEF IInv
<1> QED BY <1>1, InductiveInvariant, PTL

\* Starting the program again loses no status that its users set.
THEOREM SeedingNeverOverwritesHolds == Spec => SeedingNeverOverwrites
<1> DEFINE Kept == /\ \A f \in DOMAIN flights : flights'[f] = flights[f]
                   /\ \A r \in DOMAIN resources : resources'[r] = resources[r]
                   /\ \A s \in DOMAIN schedules : schedules'[s] = schedules[s]
                   /\ \A u \in DOMAIN users : users'[u] = users[u]
<1>1. IInv /\ Next /\ ~ ConsoleIsOpen => Kept
  <2> SUFFICES ASSUME IInv, Next, ~ ConsoleIsOpen PROVE Kept
    OBVIOUS
  <2>1. CASE Seed
    BY <2>1, SeedKeepsRows DEF Seed, IInv
  <2>2. CASE Restart
    BY <2>2
    DEF Restart, Program!Restart, Program!Allocation!Restart, Program!Operations!Restart,
        Program!Allocation!tables, Program!Operations!Finish
  <2> QED BY <2>1, <2>2
          DEF Next, ProgramStep, HandleLogin, HandleGroundTasks, HandleReports, AtPrompt
<1>2. IInv /\ [Next]_vars => [~ ConsoleIsOpen => Kept]_vars
  BY <1>1
<1> QED BY <1>2, InductiveInvariant, PTL DEF Spec, SeedingNeverOverwrites

\* A ground task stays, and keeps its flight and its assignee.
THEOREM TasksAreKeptHolds == Spec => TasksAreKept
<1> DEFINE Kept == \A t \in DOMAIN tasks :
                     /\ t \in DOMAIN tasks'
                     /\ [tasks'[t] EXCEPT !.status = tasks[t].status] = tasks[t]
                     /\ nextTaskId' # nextTaskId => tasks'[t] = tasks[t]
<1>1. IInv /\ Next => Kept
  <2> SUFFICES ASSUME IInv, Next PROVE Kept
    OBVIOUS
  <2>1. \A t \in DOMAIN tasks : tasks[t] \in TaskRows
    BY DEF IInv, TaskTypeOK
  <2>2. \A row \in TaskRows : [row EXCEPT !.status = row.status] = row
    BY DEF TaskRows
  <2>3. (\A t \in DOMAIN tasks : t \in DOMAIN tasks' /\ tasks'[t] = tasks[t]) => Kept
    BY <2>1, <2>2
  <2>4. CASE UNCHANGED tasks
    BY <2>3, <2>4
  <2>5. CASE TaskManagerCommand
    <3>1. \A t \in DOMAIN tasks : t \in DOMAIN tasks' /\ tasks'[t] = tasks[t]
      BY <2>5 DEF TaskManagerCommand, CreateTaskRefused, CreateTask, Inserted
    <3> QED BY <2>3, <3>1
  <2>6. CASE TaskStaffCommand
    <3>1. PICK id \in 1 .. MaxTaskId, status \in EnteredProgress : UpdateTaskStatus(id, status)
      BY <2>6 DEF TaskStaffCommand
    <3>2. \A row \in TaskRows :
            [[row EXCEPT !.status = ToText(status)] EXCEPT !.status = row.status] = row
      BY DEF TaskRows
    <3>3. nextTaskId' = nextTaskId /\ DOMAIN tasks' = DOMAIN tasks
      BY <3>1 DEF UpdateTaskStatus
    <3>4. ASSUME NEW t \in DOMAIN tasks
          PROVE  [tasks'[t] EXCEPT !.status = tasks[t].status] = tasks[t]
      <4>1. tasks'[t] = IF t = id THEN [tasks[t] EXCEPT !.status = ToText(status)] ELSE tasks[t]
        BY <3>1 DEF UpdateTaskStatus
      <4> QED BY <2>1, <2>2, <3>2, <4>1
    <3> QED BY <3>3, <3>4
  <2> QED BY <2>4, <2>5, <2>6
          DEF Next, Seed, ProgramStep, HandleLogin, HandleGroundTasks, HandleReports, Restart,
              consoleVars
<1>2. IInv /\ [Next]_vars => [Kept]_vars
  BY <1>1
<1> QED BY <1>2, InductiveInvariant, PTL DEF Spec, TasksAreKept

\* The allocation report that is saved now lists as SUCCESS what is active.
LEMMA AllocationsAreListed ==
  ASSUME DatabaseTypeOK
  PROVE  LET listed == NewReport("ALLOCATION").content
         IN  /\ {a \in DOMAIN listed : listed[a].row.status = "SUCCESS"} = ActiveAllocations
             /\ \A a \in ActiveAllocations, s \in Staff :
                  s \in listed[a].staff <=> a \in ListActiveAllocationsFor(s)
<1> DEFINE listed == NewReport("ALLOCATION").content
<1>1. listed = [a \in DOMAIN allocations |-> [row |-> AllocationRead(a), staff |-> StaffOf(a)]]
  BY DEF NewReport, Content
<1>2. ASSUME NEW a \in DOMAIN allocations
      PROVE  AllocationRead(a).status = allocations[a].status
  <2>1. allocations[a] \in AllocationRows
    BY DEF DatabaseTypeOK
  <2> QED BY <2>1 DEF AllocationRead, AllocationRows, ParseAllocationStatus, ParsedAmong
<1>3. {a \in DOMAIN listed : listed[a].row.status = "SUCCESS"} = ActiveAllocations
  BY <1>1, <1>2 DEF ActiveAllocations
<1>4. ASSUME NEW a \in ActiveAllocations, NEW s \in Staff
      PROVE  s \in listed[a].staff <=> a \in ListActiveAllocationsFor(s)
  <2>1. a \in DOMAIN allocations /\ allocations[a] \in AllocationRows
    BY DEF DatabaseTypeOK, ActiveAllocations
  <2>2. s # allocations[a].gate /\ s # allocations[a].vehicle
    BY <2>1, ResourceAssumption DEF AllocationRows
  <2>3. s \in listed[a].staff <=> s \in StaffOf(a)
    BY <1>1, <2>1
  <2> QED BY <2>2, <2>3 DEF ListActiveAllocationsFor, ResourcesOf
<1> QED BY <1>3, <1>4

\* A report is never changed, and an allocation report is what the conflict
\* queries said when it was made.
THEOREM ReportsAreSnapshotsHolds == Spec => ReportsAreSnapshots
<1> DEFINE Listed(content) ==
             /\ {a \in DOMAIN content : content[a].row.status = "SUCCESS"} = ActiveAllocations
             /\ \A a \in ActiveAllocations, s \in Staff :
                  s \in content[a].staff <=> a \in ListActiveAllocationsFor(s)
           Snapshots ==
             /\ \A r \in DOMAIN reports : r \in DOMAIN reports' /\ reports'[r] = reports[r]
             /\ \A r \in DOMAIN reports' \ DOMAIN reports :
                  reports'[r].type = "ALLOCATION" => Listed(reports'[r].content)
<1>1. IInv /\ Next => Snapshots
  <2> SUFFICES ASSUME IInv, Next PROVE Snapshots
    OBVIOUS
  <2>1. CASE UNCHANGED reports
    BY <2>1
  <2>2. CASE SaveReportRefused
    BY <2>2 DEF SaveReportRefused
  <2>3. ASSUME NEW type \in EnteredReports, SaveReport(type)
        PROVE  Snapshots
    <3>1. nextReportId \notin DOMAIN reports /\ reports' = Inserted(reports, nextReportId, NewReport(type))
      BY <2>3 DEF SaveReport
    <3>2. \A r \in DOMAIN reports : r \in DOMAIN reports' /\ reports'[r] = reports[r]
      BY <3>1 DEF Inserted
    <3>3. \A r \in DOMAIN reports' \ DOMAIN reports : reports'[r] = NewReport(type)
      BY <3>1 DEF Inserted
    <3>4. NewReport(type).type = type
      BY DEF NewReport
    <3>5. Listed(NewReport("ALLOCATION").content)
      BY ProgramTypes, AllocationsAreListed DEF IInv
    <3> QED BY <3>2, <3>3, <3>4, <3>5
  <2> QED BY <2>1, <2>2, <2>3
          DEF Next, Seed, ProgramStep, HandleLogin, HandleGroundTasks, HandleReports,
              ReportCommand, Restart, consoleVars
<1>2. IInv /\ [Next]_vars => [Snapshots]_vars
  BY <1>1
<1> QED BY <1>2, InductiveInvariant, PTL DEF Spec, ReportsAreSnapshots

\* Every change of a table is made for a user whose duty it is, up to the
\* last statement of a handler.
THEOREM EveryChangeHasItsRoleHolds == Spec => EveryChangeHasItsRole
<1> DEFINE Entitled == /\ Administered => currentRole = "ADMINISTRATOR"
                       /\ Managed => currentRole = "OPERATIONS_MANAGER"
                       /\ Worked => currentRole = "GROUND_STAFF"
                       /\ reports' # reports => currentRole # "NONE"
                       /\ users' = users
<1>1. IInv /\ Next /\ ConsoleIsOpen => Entitled
  <2> SUFFICES ASSUME IInv, Next, ConsoleIsOpen PROVE Entitled
    OBVIOUS
  <2>1. Program!Operations!TypeOK /\ HandlersHaveTheirRole
    BY DEF IInv, Program!IInv, Program!Operations!IInv
  <2>2. CASE UNCHANGED <<flights, resources, allocations, allocationStaff, schedules, delays,
                         emergencies, tasks, users>>
             /\ (reports' # reports => currentRole # "NONE")
    BY <2>2 DEF Administered, Managed, Worked
  <2>3. CASE HandleGroundTasks
    <3>1. UNCHANGED <<flights, resources, allocations, allocationStaff, schedules, delays,
                      emergencies, reports, users>>
      BY <2>3 DEF HandleGroundTasks, allocationVars, programVars
    <3>2. CASE RequireRole("OPERATIONS_MANAGER") /\ TaskManagerCommand
      <4>1. ~ Worked
        BY <3>2 DEF Worked, TaskManagerCommand, CreateTaskRefused, CreateTask, Inserted
      <4> QED BY <3>1, <3>2, <4>1 DEF Administered, RequireRole
    <3>3. CASE RequireRole("GROUND_STAFF") /\ TaskStaffCommand
      <4>1. DOMAIN tasks' = DOMAIN tasks
        BY <3>3 DEF TaskStaffCommand, UpdateTaskStatus
      <4> QED BY <3>1, <3>3, <4>1 DEF Administered, Managed, RequireRole
    <3> QED BY <2>3, <3>2, <3>3 DEF HandleGroundTasks
  <2>4. CASE Program!HandlerStep /\ UNCHANGED <<tasks, reports, users>>
    <3>1. CASE Program!Allocation!Advance /\ Program!AllocationTurn
      BY <2>1, <2>4, <3>1, AllocationHandlers
      DEF Program!AllocationTurn, Program!operationVars, HandlersHaveTheirRole,
          Administered, Managed, Worked
    <3>2. CASE Program!Allocation!StatementFails /\ Program!AllocationTurn
      BY <2>2, <2>4, <3>2, AllocationHandlers DEF Program!AllocationTurn, Program!operationVars
    <3>3. CASE Program!Operations!Advance
      <4>1. CASE operation.step = "saveSchedule"
        BY <2>1, <2>4, <3>3, <4>1, OperationAdvances
        DEF HandlersHaveTheirRole, Managed, Worked
      <4>2. CASE operation.step # "saveSchedule"
        BY <2>1, <2>4, <3>3, <4>2, OperationAdvances
        DEF HandlersHaveTheirRole, Administered, Worked
      <4> QED BY <4>1, <4>2
    <3>4. CASE Program!Operations!StatementFails
      BY <2>2, <2>4, <3>4, OperationCommands
    <3> QED BY <2>4, <3>1, <3>2, <3>3, <3>4 DEF Program!HandlerStep
  <2>5. CASE /\ RequireRole("OPERATIONS_MANAGER") /\ Program!ManagerCommand
             /\ UNCHANGED <<tasks, reports, users>>
    <3>1. CASE Program!Allocation!AllocationCommand /\ Program!AllocationTurn
      BY <2>2, <2>5, <3>1, AllocationHandlers DEF Program!AllocationTurn, Program!operationVars
    <3>2. CASE Program!Operations!ManagerCommand
      BY <2>5, <3>2, OperationCommands DEF RequireRole, Administered, Worked
    <3> QED BY <2>5, <3>1, <3>2 DEF Program!ManagerCommand
  <2>6. CASE /\ RequireRole("ADMINISTRATOR") /\ Program!AdministratorCommand
             /\ UNCHANGED <<tasks, reports, users>>
    <3>1. CASE Program!Allocation!ResourceCommand /\ Program!AllocationTurn
      BY <2>6, <3>1, AllocationHandlers
      DEF Program!AllocationTurn, Program!operationVars, RequireRole, Managed, Worked
    <3>2. CASE Program!Operations!AdministratorCommand
      BY <2>6, <3>2, OperationCommands DEF RequireRole, Managed, Worked
    <3> QED BY <2>6, <3>1, <3>2 DEF Program!AdministratorCommand
  <2>7. CASE ProgramStep
    BY <2>4, <2>5, <2>6, <2>7 DEF ProgramStep, consoleVars
  <2>8. CASE HandleLogin
    BY <2>2, <2>8 DEF HandleLogin, Login, allocationVars, programVars
  <2>9. CASE HandleReports
    BY <2>2, <2>9 DEF HandleReports, RequireLogin, allocationVars, programVars
  <2>10. CASE Restart
    BY <2>2, <2>10
    DEF Restart, Program!Restart, Program!Allocation!Restart, Program!Operations!Restart,
        Program!Allocation!tables, Program!Operations!allocationTables
  <2> QED BY <2>3, <2>7, <2>8, <2>9, <2>10 DEF Next, Seed, SeedStep
<1>2. IInv /\ [Next]_vars => [ConsoleIsOpen => Entitled]_vars
  BY <1>1
<1> QED BY <1>2, InductiveInvariant, PTL DEF Spec, EveryChangeHasItsRole

-----------------------------------------------------------------------------
(* The program that the console runs                                       *)

\* Every step of the console is one of the program, changes nothing of it, or
\* finds it at the menu.
LEMMA ProgramSteps ==
  ASSUME IInv, [Next]_vars
  PROVE  Program!Next \/ UNCHANGED Program!vars \/ (Seed /\ operation = AtMenu)
<1>1. CASE Seed
  BY <1>1 DEF Seed, SeedStep, IInv, OnlySeeded
<1>2. CASE ProgramStep \/ Restart
  BY <1>2 DEF ProgramStep, Restart, Program!Next
<1>3. CASE HandleLogin \/ HandleGroundTasks \/ HandleReports \/ UNCHANGED vars
  BY <1>3
  DEF HandleLogin, HandleGroundTasks, HandleReports, vars, allocationVars, programVars,
      Program!vars, Program!allocationVars, Program!operationVars
<1> QED BY <1>1, <1>2, <1>3 DEF Next

\* A statement of the seeding adds a flight or a resource, like a user, or
\* nothing that the allocation service knows of.
LEMMA SeedRefinesAllocation ==
  ASSUME IInv, Seed
  PROVE  [Program!Allocation!Next]_(Program!Allocation!vars)
<1>1. /\ SeedStep /\ ~ ConsoleIsOpen
      /\ call = Program!Allocation!Idle /\ result = Program!Allocation!NoResult
      /\ UNCHANGED <<allocations, allocationStaff, nextAllocationId, call, result>>
  BY DEF Seed, SeedStep, IInv, OnlySeeded, allocationVars
<1>2. PICK n \in DOMAIN SeedStatements : Statement = SeedStatements[n]
  BY <1>1, NextStatement DEF IInv
<1>3. IsSeedRow(Statement)
  BY <1>2, SeedRow
<1>4. CASE UNCHANGED <<flights, resources>>
  BY <1>1, <1>4 DEF Program!Allocation!vars
<1>5. CASE Statement.table = "flights" /\ Statement.key \notin DOMAIN flights
  <2>1. Program!Allocation!AddFlight(Statement.key)
    BY <1>1, <1>5
    DEF SeedStep, Inserted, Program!Allocation!AddFlight, Program!Allocation!Inserted
  <2>2. Statement.key \in Flights
    BY <1>3, <1>5 DEF IsSeedRow
  <2> QED BY <2>1, <2>2
          DEF Program!Allocation!FlightChange, Program!Allocation!UserCommand,
              Program!Allocation!Next
<1>6. CASE Statement.table = "resources" /\ Statement.key \notin DOMAIN resources
  <2>1. Program!Allocation!AddResource(Statement.key)
    BY <1>1, <1>6
    DEF SeedStep, Inserted, Program!Allocation!AddResource, Program!Allocation!Inserted
  <2>2. Statement.key \in Program!Allocation!Resources
    BY <1>3, <1>6 DEF IsSeedRow, Resources, Program!Allocation!Resources
  <2> QED BY <2>1, <2>2
          DEF Program!Allocation!ResourceCommand, Program!Allocation!UserCommand,
              Program!Allocation!Next
<1>7. CASE /\ Statement.table = "flights" => Statement.key \in DOMAIN flights
           /\ Statement.table = "resources" => Statement.key \in DOMAIN resources
  <2>1. /\ flights \in [DOMAIN flights -> FlightStatuses]
        /\ resources \in [DOMAIN resources -> ResourceStatuses]
    BY ProgramTypes DEF IInv, DatabaseTypeOK
  <2>2. /\ \A f \in DOMAIN flights : flights[f] = "SCHEDULED"
        /\ \A r \in DOMAIN resources : resources[r] = "AVAILABLE"
    BY <1>1 DEF IInv, OnlySeeded
  <2>3. UNCHANGED flights
    BY <1>1, <1>7, <2>1, <2>2 DEF SeedStep, Inserted
  <2>4. UNCHANGED resources
    BY <1>1, <1>7, <2>1, <2>2 DEF SeedStep, Inserted
  <2> QED BY <1>4, <2>3, <2>4
<1> QED BY <1>5, <1>6, <1>7

LEMMA NextRefinesAllocation ==
  ASSUME IInv, [Next]_vars
  PROVE  [Program!Allocation!Next]_(Program!Allocation!vars)
<1>1. CASE Program!Next
  <2>1. AirportProofs!Next
    BY <1>1, SameProgram
  <2>2. AirportProofs!FlightsKnown
    BY ProgramTypes DEF IInv, DatabaseTypeOK, AirportProofs!FlightsKnown
  <2> QED BY <2>1, <2>2, AirportProofs!NextRefinesAllocation, SameServices,
             ProgramConstants, ProgramAssumption, ScheduleAssumption, ResourceAssumption
<1>2. CASE UNCHANGED Program!vars
  BY <1>2 DEF Program!vars, Program!allocationVars, Program!Allocation!vars
<1> QED BY <1>1, <1>2, ProgramSteps, SeedRefinesAllocation

\* Console's property AllocationSpec: to the allocation service the console,
\* from the first start on, is what its specification assumes.
THEOREM AllocationIsImplemented == Spec => AllocationSpec
<1>1. Init => Program!Allocation!Init
  BY DEF Init, Program!Init
<1> QED BY <1>1, NextRefinesAllocation, InductiveInvariant, PTL
        DEF Spec, AllocationSpec, Program!AllocationSpec, Program!Allocation!Spec

LEMMA AllocationPromises ==
  Program!Allocation!Spec =>
    /\ Program!Allocation!RecordsAreKept
    /\ Program!Allocation!MaintenanceIsHonoured
    /\ Program!Allocation!SuccessIsComplete
    /\ Program!Allocation!OccupiedBeforeRecorded
    /\ Program!Allocation!FreedBeforeReleased
    /\ Program!Allocation!OnlyHoldersFree
    /\ Program!Allocation!NoServiceAfterDeparture
    /\ Program!Allocation!CalendarSpec
<1>1. Program!Allocation!Spec <=> AirportProofs!Allocation!Spec
  BY SameServices, PTL DEF Program!Allocation!Spec, AirportProofs!Allocation!Spec
<1>2. AirportProofs!Allocation!Spec =>
        /\ AirportProofs!Allocation!RecordsAreKept
        /\ AirportProofs!Allocation!MaintenanceIsHonoured
        /\ AirportProofs!Allocation!SuccessIsComplete
        /\ AirportProofs!Allocation!OccupiedBeforeRecorded
        /\ AirportProofs!Allocation!FreedBeforeReleased
        /\ AirportProofs!Allocation!OnlyHoldersFree
        /\ AirportProofs!Allocation!NoServiceAfterDeparture
        /\ AirportProofs!Allocation!CalendarSpec
  BY AirportProofs!AllocationPromises, ProgramConstants, ProgramAssumption,
     ScheduleAssumption, ResourceAssumption
<1> QED BY <1>1, <1>2, SamePromises, SameCalendar, PTL

\* All that the allocation service promises of its calls and its records holds
\* for the users of the console, from an empty database on.
THEOREM ConsoleKeepsAllocationPromises ==
  Spec =>
    /\ Program!Allocation!RecordsAreKept
    /\ Program!Allocation!MaintenanceIsHonoured
    /\ Program!Allocation!SuccessIsComplete
    /\ Program!Allocation!OccupiedBeforeRecorded
    /\ Program!Allocation!FreedBeforeReleased
    /\ Program!Allocation!OnlyHoldersFree
    /\ Program!Allocation!NoServiceAfterDeparture
  BY AllocationIsImplemented, AllocationPromises, PTL
  DEF AllocationSpec, Program!AllocationSpec

\* To the users of the console the whole program is a calendar of reservations.
THEOREM CalendarIsImplemented == Spec => CalendarSpec
  BY AllocationIsImplemented, AllocationPromises, PTL
  DEF AllocationSpec, Program!AllocationSpec, CalendarSpec, Program!CalendarSpec

\* Statuses, schedules, estimates, delays and emergency records agree for the
\* users of the console, as in the program without its start-up and its roles.
THEOREM ConsoleKeepsFlightHistories ==
  Spec => [](/\ Program!Operations!OneSchedulePerFlight
             /\ Program!Operations!DelayedMeansRecorded
             /\ Program!Operations!OneEmergencyPerFlight
             /\ Program!Operations!EmergencyEntersTheLifecycle
             /\ Program!Operations!HandlingFollowsFlight
             /\ Program!Operations!EstimatesFollowDelays)
<1>1. IInv => Program!Operations!EstimatesFollowDelays
  BY AirportProofs!IInvMeansEstimatesFollowDelays, SameProgram, SameHistories,
     ProgramConstants, ProgramAssumption, ScheduleAssumption, ResourceAssumption
  DEF IInv
<1>2. IInv => /\ Program!Operations!OneSchedulePerFlight
              /\ Program!Operations!DelayedMeansRecorded
              /\ Program!Operations!OneEmergencyPerFlight
              /\ Program!Operations!EmergencyEntersTheLifecycle
              /\ Program!Operations!HandlingFollowsFlight
              /\ Program!Operations!EstimatesFollowDelays
  BY <1>1 DEF IInv, Program!IInv, Program!Operations!IInv
<1> QED BY <1>2, InductiveInvariant, PTL

LEMMA HandlersStep ==
  IInv /\ [Next]_vars =>
    /\ [Program!Operations!EveryStatementIsDone]_(Program!Operations!vars)
    /\ [Program!Operations!EveryClashIsWarnedOf]_(Program!Operations!vars)
<1> SUFFICES ASSUME IInv, [Next]_vars
             PROVE  /\ [Program!Operations!EveryStatementIsDone]_(Program!Operations!vars)
                    /\ [Program!Operations!EveryClashIsWarnedOf]_(Program!Operations!vars)
  OBVIOUS
<1>1. CASE Program!Next
  <2>1. AirportProofs!IInv /\ AirportProofs!Next
    BY <1>1, SameProgram DEF IInv
  <2>2. /\ AirportProofs!Operations!EveryStatementIsDone
        /\ AirportProofs!Operations!EveryClashIsWarnedOf
    BY <2>1, AirportProofs!DoneStep, AirportProofs!WarningStep, ProgramConstants,
       ProgramAssumption, ScheduleAssumption, ResourceAssumption
  <2> QED BY <2>2, SameHistories
<1>2. CASE UNCHANGED Program!vars
  BY <1>2 DEF Program!vars, Program!operationVars, Program!Operations!vars
<1>3. CASE operation = AtMenu
  BY <1>3 DEF AtMenu, Program!Operations!EveryStatementIsDone,
              Program!Operations!EveryClashIsWarnedOf
<1> QED BY <1>1, <1>2, <1>3, ProgramSteps

\* What a handler reports to the user of the console is true: a success means
\* that all its statements are done, and a delay that comes without a warning
\* leaves every allocation of the flight free to move with it.
THEOREM ConsoleReportsTruly ==
  Spec => Program!Operations!DoneIsComplete /\ Program!WarningsAreComplete
  BY HandlersStep, InductiveInvariant, PTL
  DEF Spec, Program!WarningsAreComplete, Program!Operations!DoneIsComplete,
      Program!Operations!WarningsAreComplete
=============================================================================
