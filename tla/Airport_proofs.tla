---------------------------- MODULE Airport_proofs ----------------------------
(***************************************************************************)
(* Proofs about the console program as a whole.  To the allocation service *)
(* the other services are the environment its specification assumes: the   *)
(* steps of its own handlers are steps of AllocationService, and a step of *)
(* a flight, delay or emergency handler adds one flight, changes one       *)
(* status along the edge table, or changes nothing the service knows of.   *)
(***************************************************************************)
EXTENDS Airport, AirportDatabase_proofs

-----------------------------------------------------------------------------
(* What is proved of the services is proved here of instances of their     *)
(* modules; they are the instances that Airport is made of.                *)

AllocationProofs ==
  INSTANCE AllocationRefinement_proofs WITH ReachedStatuses <- FlightStatuses

OperationProofs == INSTANCE FlightOperations_proofs

\* Both sides are one text: nothing is left of them but Airport's own names.
LEMMA SameAllocation ==
  /\ Allocation!Init <=> AllocationProofs!Init
  /\ [Allocation!Next]_(Allocation!vars) <=> [AllocationProofs!Next]_(AllocationProofs!vars)
  /\ Allocation!IInv <=> AllocationProofs!IInv
  /\ Allocation!IInv' <=> AllocationProofs!IInv'
  /\ Allocation!NoDoubleBooking <=> AllocationProofs!NoDoubleBooking
  BY DEF Allocation!vars, AllocationProofs!vars, Allocation!AllocateSteps,
         AllocationProofs!AllocateSteps, Allocation!ReleaseSteps,
         AllocationProofs!ReleaseSteps, Allocation!Idle, AllocationProofs!Idle,
         Allocation!Calls, AllocationProofs!Calls, Allocation!Results,
         AllocationProofs!Results, Allocation!NoResult, AllocationProofs!NoResult,
         Allocation!TypeOK, AllocationProofs!TypeOK, Allocation!Init,
         AllocationProofs!Init, Allocation!Return, AllocationProofs!Return,
         Allocation!Proceed, AllocationProofs!Proceed, Allocation!NextStaff,
         AllocationProofs!NextStaff, Allocation!Serviceable, AllocationProofs!Serviceable,
         Allocation!MayAllocate, AllocationProofs!MayAllocate,
         Allocation!RejectAllocation, AllocationProofs!RejectAllocation,
         Allocation!BeginAllocation, AllocationProofs!BeginAllocation,
         Allocation!OccupyGate, AllocationProofs!OccupyGate, Allocation!OccupyVehicle,
         AllocationProofs!OccupyVehicle, Allocation!OccupyStaff,
         AllocationProofs!OccupyStaff, Allocation!NewRow, AllocationProofs!NewRow,
         Allocation!InsertAllocation, AllocationProofs!InsertAllocation,
         Allocation!InsertRefused, AllocationProofs!InsertRefused, Allocation!LinkStaff,
         AllocationProofs!LinkStaff, Allocation!LinkRefused, AllocationProofs!LinkRefused,
         Allocation!AllocationSucceeds, AllocationProofs!AllocationSucceeds,
         Allocation!RejectRelease, AllocationProofs!RejectRelease,
         Allocation!BeginRelease, AllocationProofs!BeginRelease, Allocation!FreeGate,
         AllocationProofs!FreeGate, Allocation!FreeVehicle, AllocationProofs!FreeVehicle,
         Allocation!FreeStaff, AllocationProofs!FreeStaff, Allocation!MarkReleased,
         AllocationProofs!MarkReleased, Allocation!AddResource,
         AllocationProofs!AddResource, Allocation!SetResourceStatus,
         AllocationProofs!SetResourceStatus, Allocation!AddFlight,
         AllocationProofs!AddFlight, Allocation!TransitionFlight,
         AllocationProofs!TransitionFlight, Allocation!StatementFails,
         AllocationProofs!StatementFails, Allocation!Restart, AllocationProofs!Restart,
         Allocation!Advance, AllocationProofs!Advance, Allocation!AllocationCommand,
         AllocationProofs!AllocationCommand, Allocation!ResourceCommand,
         AllocationProofs!ResourceCommand, Allocation!FlightChange,
         AllocationProofs!FlightChange, Allocation!UserCommand,
         AllocationProofs!UserCommand, Allocation!NoDoubleBooking,
         AllocationProofs!NoDoubleBooking, Allocation!InstantsOf,
         AllocationProofs!InstantsOf, Allocation!Next, AllocationProofs!Next,
         Allocation!LinksHaveRows, AllocationProofs!LinksHaveRows,
         Allocation!RowsHaveResources, AllocationProofs!RowsHaveResources,
         Allocation!Occupied, AllocationProofs!Occupied, Allocation!Clash,
         AllocationProofs!Clash, Allocation!BookingsAreDisjoint,
         AllocationProofs!BookingsAreDisjoint, Allocation!ChecksStillHold,
         AllocationProofs!ChecksStillHold, Allocation!AllocationProgress,
         AllocationProofs!AllocationProgress, Allocation!ReleaseProgress,
         AllocationProofs!ReleaseProgress, Allocation!IInv, AllocationProofs!IInv,
         Allocation!Requested, AllocationProofs!Requested, Allocation!UnknownId,
         AllocationProofs!UnknownId, Allocation!UnderMaintenance,
         AllocationProofs!UnderMaintenance, Allocation!BookedByOther,
         AllocationProofs!BookedByOther, Allocation!Unavailable,
         AllocationProofs!Unavailable, Allocation!HasConflict,
         AllocationProofs!HasConflict, Allocation!Resources, AllocationProofs!Resources,
         Allocation!tables, AllocationProofs!tables, Allocation!AllocationRows,
         AllocationProofs!AllocationRows, Allocation!DatabaseTypeOK,
         AllocationProofs!DatabaseTypeOK, Allocation!DatabaseInit,
         AllocationProofs!DatabaseInit, Allocation!Inserted, AllocationProofs!Inserted,
         Allocation!StatusUpdated, AllocationProofs!StatusUpdated,
         Allocation!AllocationReleased, AllocationProofs!AllocationReleased,
         Allocation!FlightStatusOf, AllocationProofs!FlightStatusOf,
         Allocation!ResourceStatusOf, AllocationProofs!ResourceStatusOf,
         Allocation!ActiveAllocations, AllocationProofs!ActiveAllocations,
         Allocation!StaffOf, AllocationProofs!StaffOf, Allocation!ResourcesOf,
         AllocationProofs!ResourcesOf, Allocation!ListActiveAllocationsFor,
         AllocationProofs!ListActiveAllocationsFor, Allocation!Listings,
         AllocationProofs!Listings, Allocation!ResourceStatuses,
         AllocationProofs!ResourceStatuses, Allocation!ParsedAmong,
         AllocationProofs!ParsedAmong, Allocation!ParseFlightStatus,
         AllocationProofs!ParseFlightStatus, Allocation!ParseResourceStatus,
         AllocationProofs!ParseResourceStatus, Allocation!TimeWindows,
         AllocationProofs!TimeWindows, Allocation!TimeWindowsOverlap,
         AllocationProofs!TimeWindowsOverlap, Allocation!FlightStatuses,
         AllocationProofs!FlightStatuses, Allocation!Successors,
         AllocationProofs!Successors, Allocation!IsTransitionAllowed,
         AllocationProofs!IsTransitionAllowed, Allocation!AllocatableStates,
         AllocationProofs!AllocatableStates, Allocation!Range, AllocationProofs!Range,
         Allocation!Cardinality, AllocationProofs!Cardinality

\* So are the promises of the service.
LEMMA SamePromises ==
  /\ AllocationProofs!RecordsAreKept => Allocation!RecordsAreKept
  /\ AllocationProofs!MaintenanceIsHonoured => Allocation!MaintenanceIsHonoured
  /\ AllocationProofs!SuccessIsComplete => Allocation!SuccessIsComplete
  /\ AllocationProofs!OccupiedBeforeRecorded => Allocation!OccupiedBeforeRecorded
  /\ AllocationProofs!FreedBeforeReleased => Allocation!FreedBeforeReleased
  /\ AllocationProofs!OnlyHoldersFree => Allocation!OnlyHoldersFree
  /\ AllocationProofs!NoServiceAfterDeparture => Allocation!NoServiceAfterDeparture
<1>1. AllocationProofs!RecordsAreKept => Allocation!RecordsAreKept
  BY PTL DEF Allocation!vars, AllocationProofs!vars, Allocation!RecordsAreKept,
         AllocationProofs!RecordsAreKept, Allocation!StaffOf,
         AllocationProofs!StaffOf
<1>2. AllocationProofs!MaintenanceIsHonoured => Allocation!MaintenanceIsHonoured
  BY PTL DEF Allocation!vars, AllocationProofs!vars, Allocation!Idle,
         AllocationProofs!Idle, Allocation!MaintenanceIsHonoured,
         AllocationProofs!MaintenanceIsHonoured
<1>3. AllocationProofs!SuccessIsComplete => Allocation!SuccessIsComplete
  BY PTL DEF Allocation!vars, AllocationProofs!vars, Allocation!Idle,
         AllocationProofs!Idle, Allocation!NewRow, AllocationProofs!NewRow,
         Allocation!SuccessIsComplete, AllocationProofs!SuccessIsComplete,
         Allocation!Requested, AllocationProofs!Requested, Allocation!Range,
         AllocationProofs!Range
<1>4. AllocationProofs!OccupiedBeforeRecorded => Allocation!OccupiedBeforeRecorded
  BY PTL DEF Allocation!vars, AllocationProofs!vars,
         Allocation!OccupiedBeforeRecorded, AllocationProofs!OccupiedBeforeRecorded,
         Allocation!Requested, AllocationProofs!Requested, Allocation!Range,
         AllocationProofs!Range
<1>5. AllocationProofs!FreedBeforeReleased => Allocation!FreedBeforeReleased
  BY PTL DEF Allocation!vars, AllocationProofs!vars, Allocation!FreedBeforeReleased,
         AllocationProofs!FreedBeforeReleased, Allocation!ActiveAllocations,
         AllocationProofs!ActiveAllocations, Allocation!StaffOf,
         AllocationProofs!StaffOf, Allocation!ResourcesOf,
         AllocationProofs!ResourcesOf
<1>6. AllocationProofs!OnlyHoldersFree => Allocation!OnlyHoldersFree
  BY PTL DEF Allocation!vars, AllocationProofs!vars, Allocation!Idle,
         AllocationProofs!Idle, Allocation!OnlyHoldersFree,
         AllocationProofs!OnlyHoldersFree, Allocation!ActiveAllocations,
         AllocationProofs!ActiveAllocations, Allocation!StaffOf,
         AllocationProofs!StaffOf, Allocation!ResourcesOf,
         AllocationProofs!ResourcesOf, Allocation!ListActiveAllocationsFor,
         AllocationProofs!ListActiveAllocationsFor, Allocation!InstantsOf,
         AllocationProofs!InstantsOf
<1>7. AllocationProofs!NoServiceAfterDeparture => Allocation!NoServiceAfterDeparture
  BY PTL DEF Allocation!vars, AllocationProofs!vars,
         Allocation!NoServiceAfterDeparture, AllocationProofs!NoServiceAfterDeparture
<1> QED BY <1>1, <1>2, <1>3, <1>4, <1>5, <1>6, <1>7, PTL

LEMMA SameCalendar == AllocationProofs!CalendarSpec => Allocation!CalendarSpec
<1>1. /\ AllocationProofs!reservations = Allocation!reservations
      /\ AllocationProofs!reservations' = Allocation!reservations'
      /\ AllocationProofs!cancelled = Allocation!cancelled
      /\ AllocationProofs!cancelled' = Allocation!cancelled'
  BY DEF Allocation!reservations, AllocationProofs!reservations,
         Allocation!cancelled, AllocationProofs!cancelled,
         Allocation!ActiveAllocations, AllocationProofs!ActiveAllocations,
         Allocation!StaffOf, AllocationProofs!StaffOf, Allocation!ResourcesOf,
         AllocationProofs!ResourcesOf
<1>2. \A a, f, w :
        AllocationProofs!Calendar!Reserve(a, f, w) <=> Allocation!Calendar!Reserve(a, f, w)
  <2>1. \A f, w, r :
          AllocationProofs!Calendar!FreeFor(f, w, r) <=> Allocation!Calendar!FreeFor(f, w, r)
    BY <1>1
    DEF Allocation!Calendar!FreeFor, AllocationProofs!Calendar!FreeFor,
        Allocation!Calendar!TimeWindowsOverlap,
        AllocationProofs!Calendar!TimeWindowsOverlap
  <2>2. \A a, f, w :
          AllocationProofs!Calendar!Belongs(a, f, w) <=> Allocation!Calendar!Belongs(a, f, w)
    BY <1>1 DEF Allocation!Calendar!Belongs, AllocationProofs!Calendar!Belongs
  <2>3. SUFFICES ASSUME NEW a, NEW f, NEW w
                 PROVE  AllocationProofs!Calendar!Reserve(a, f, w)
                          <=> Allocation!Calendar!Reserve(a, f, w)
    OBVIOUS
  <2> QED BY <1>1, <2>1, <2>2
          DEF Allocation!Calendar!Reserve,
              AllocationProofs!Calendar!Reserve, Allocation!Resources,
              AllocationProofs!Resources
<1>3. \A a : AllocationProofs!Calendar!Cancel(a) <=> Allocation!Calendar!Cancel(a)
  BY <1>1 DEF Allocation!Calendar!Cancel, AllocationProofs!Calendar!Cancel
<1>4. AllocationProofs!Calendar!Next <=> Allocation!Calendar!Next
  BY <1>2, <1>3 DEF Allocation!Calendar!Next, AllocationProofs!Calendar!Next
<1>5. /\ AllocationProofs!Calendar!Init <=> Allocation!Calendar!Init
      /\ [AllocationProofs!Calendar!Next]_<<AllocationProofs!reservations,
                                            AllocationProofs!cancelled>>
           <=> [Allocation!Calendar!Next]_<<Allocation!reservations, Allocation!cancelled>>
  BY <1>1, <1>4 DEF Allocation!Calendar!Init, AllocationProofs!Calendar!Init
<1> QED BY <1>5, PTL
        DEF Allocation!CalendarSpec, AllocationProofs!CalendarSpec,
            Allocation!Calendar!Spec, AllocationProofs!Calendar!Spec

LEMMA SameOperations ==
  /\ Operations!Init <=> OperationProofs!Init
  /\ Operations!Next <=> OperationProofs!Next
  /\ Operations!IInv <=> OperationProofs!IInv
  /\ Operations!IInv' <=> OperationProofs!IInv'
  BY DEF Operations!allocationTables, OperationProofs!allocationTables,
         Operations!scheduleVars, OperationProofs!scheduleVars, Operations!delayVars,
         OperationProofs!delayVars, Operations!emergencyVars,
         OperationProofs!emergencyVars, Operations!Operations,
         OperationProofs!Operations, Operations!TypeOK, OperationProofs!TypeOK,
         Operations!Init, OperationProofs!Init, Operations!Advance,
         OperationProofs!Advance, Operations!AdministratorCommand,
         OperationProofs!AdministratorCommand, Operations!ManagerCommand,
         OperationProofs!ManagerCommand, Operations!tablesAndGenerators,
         OperationProofs!tablesAndGenerators, Operations!StatementFails,
         OperationProofs!StatementFails, Operations!Restart, OperationProofs!Restart,
         Operations!Next, OperationProofs!Next, Operations!OneSchedulePerFlight,
         OperationProofs!OneSchedulePerFlight, Operations!DelayedMeansRecorded,
         OperationProofs!DelayedMeansRecorded, Operations!OneEmergencyPerFlight,
         OperationProofs!OneEmergencyPerFlight, Operations!EmergencyEntersTheLifecycle,
         OperationProofs!EmergencyEntersTheLifecycle, Operations!HandlingFollowsFlight,
         OperationProofs!HandlingFollowsFlight, Operations!MinutesOf,
         OperationProofs!MinutesOf, Operations!RecordedMinutes,
         OperationProofs!RecordedMinutes, Operations!MovedBy, OperationProofs!MovedBy,
         Operations!Unscheduled, OperationProofs!Unscheduled,
         Operations!RowsHaveFlights, OperationProofs!RowsHaveFlights,
         Operations!CreateProgress, OperationProofs!CreateProgress,
         Operations!DelayProgress, OperationProofs!DelayProgress,
         Operations!EmergencyProgress, OperationProofs!EmergencyProgress,
         Operations!PendingMinutes, OperationProofs!PendingMinutes,
         Operations!Accounted, OperationProofs!Accounted, Operations!Unaccounted,
         OperationProofs!Unaccounted, Operations!GivenUp, OperationProofs!GivenUp,
         Operations!EstimateProgress, OperationProofs!EstimateProgress, Operations!IInv,
         OperationProofs!IInv, Operations!EmergencyRows, OperationProofs!EmergencyRows,
         Operations!EmergencyOperations, OperationProofs!EmergencyOperations,
         Operations!EmergencyTypeOK, OperationProofs!EmergencyTypeOK,
         Operations!EmergencyInit, OperationProofs!EmergencyInit,
         Operations!RejectDeclaration, OperationProofs!RejectDeclaration,
         Operations!DeclareEmergency, OperationProofs!DeclareEmergency,
         Operations!SaveEmergency, OperationProofs!SaveEmergency,
         Operations!SaveRefused, OperationProofs!SaveRefused,
         Operations!RejectEmergency, OperationProofs!RejectEmergency,
         Operations!RecordLanding, OperationProofs!RecordLanding, Operations!MayHandle,
         OperationProofs!MayHandle, Operations!RejectHandling,
         OperationProofs!RejectHandling, Operations!BeginHandling,
         OperationProofs!BeginHandling, Operations!MarkHandling,
         OperationProofs!MarkHandling, Operations!ResolveEmergency,
         OperationProofs!ResolveEmergency, Operations!EmergencyCommand,
         OperationProofs!EmergencyCommand, Operations!AdvanceEmergency,
         OperationProofs!AdvanceEmergency, Operations!DelayRows,
         OperationProofs!DelayRows, Operations!DelayOperations,
         OperationProofs!DelayOperations, Operations!DelayTypeOK,
         OperationProofs!DelayTypeOK, Operations!DelayInit, OperationProofs!DelayInit,
         Operations!Delayable, OperationProofs!Delayable, Operations!RejectDelay,
         OperationProofs!RejectDelay, Operations!BeginDelay, OperationProofs!BeginDelay,
         Operations!RecordDelay, OperationProofs!RecordDelay, Operations!RecordRefused,
         OperationProofs!RecordRefused, Operations!DelayFlight,
         OperationProofs!DelayFlight, Operations!DelayRefused,
         OperationProofs!DelayRefused, Operations!Shifted, OperationProofs!Shifted,
         Operations!ShiftSchedule, OperationProofs!ShiftSchedule, Operations!NoSchedule,
         OperationProofs!NoSchedule, Operations!Probe, OperationProofs!Probe,
         Operations!ResourceWarnings, OperationProofs!ResourceWarnings,
         Operations!ReportDelay, OperationProofs!ReportDelay, Operations!DelayCommand,
         OperationProofs!DelayCommand, Operations!AdvanceDelay,
         OperationProofs!AdvanceDelay, Operations!ScheduleRows,
         OperationProofs!ScheduleRows, Operations!AtMenu, OperationProofs!AtMenu,
         Operations!CreateOperations, OperationProofs!CreateOperations,
         Operations!Outcomes, OperationProofs!Outcomes, Operations!Ended,
         OperationProofs!Ended, Operations!FlightTypeOK, OperationProofs!FlightTypeOK,
         Operations!FlightInit, OperationProofs!FlightInit, Operations!Finish,
         OperationProofs!Finish, Operations!Continue, OperationProofs!Continue,
         Operations!NewFlight, OperationProofs!NewFlight, Operations!RejectFlight,
         OperationProofs!RejectFlight, Operations!SaveFlight,
         OperationProofs!SaveFlight, Operations!ScheduleSaved,
         OperationProofs!ScheduleSaved, Operations!SaveSchedule,
         OperationProofs!SaveSchedule, Operations!MayTransition,
         OperationProofs!MayTransition, Operations!ManagerStatuses,
         OperationProofs!ManagerStatuses, Operations!ChangeStatus,
         OperationProofs!ChangeStatus, Operations!RejectStatus,
         OperationProofs!RejectStatus, Operations!CreateCommand,
         OperationProofs!CreateCommand, Operations!StatusCommand,
         OperationProofs!StatusCommand, Operations!SchedulesOf,
         OperationProofs!SchedulesOf, Operations!Requested, OperationProofs!Requested,
         Operations!UnknownId, OperationProofs!UnknownId, Operations!UnderMaintenance,
         OperationProofs!UnderMaintenance, Operations!BookedByOther,
         OperationProofs!BookedByOther, Operations!Unavailable,
         OperationProofs!Unavailable, Operations!HasConflict,
         OperationProofs!HasConflict, Operations!Resources, OperationProofs!Resources,
         Operations!AllocationRows, OperationProofs!AllocationRows,
         Operations!DatabaseTypeOK, OperationProofs!DatabaseTypeOK,
         Operations!DatabaseInit, OperationProofs!DatabaseInit, Operations!Inserted,
         OperationProofs!Inserted, Operations!StatusUpdated,
         OperationProofs!StatusUpdated, Operations!FlightStatusOf,
         OperationProofs!FlightStatusOf, Operations!ResourceStatusOf,
         OperationProofs!ResourceStatusOf, Operations!AllocationRead,
         OperationProofs!AllocationRead, Operations!ActiveAllocations,
         OperationProofs!ActiveAllocations, Operations!StaffOf, OperationProofs!StaffOf,
         Operations!ResourcesOf, OperationProofs!ResourcesOf,
         Operations!ListActiveAllocationsFor, OperationProofs!ListActiveAllocationsFor,
         Operations!Listings, OperationProofs!Listings, Operations!ResourceStatuses,
         OperationProofs!ResourceStatuses, Operations!AllocationStatuses,
         OperationProofs!AllocationStatuses, Operations!TaskStatuses,
         OperationProofs!TaskStatuses, Operations!EmergencyStatuses,
         OperationProofs!EmergencyStatuses, Operations!WeatherConditions,
         OperationProofs!WeatherConditions, Operations!WeatherAlertLevels,
         OperationProofs!WeatherAlertLevels, Operations!ATCClearances,
         OperationProofs!ATCClearances, Operations!Roles, OperationProofs!Roles,
         Operations!ReportTypes,
         OperationProofs!ReportTypes, Operations!Enumerators,
         OperationProofs!Enumerators, Operations!ToText, OperationProofs!ToText,
         Operations!ParsedAmong, OperationProofs!ParsedAmong,
         Operations!ParseFlightStatus, OperationProofs!ParseFlightStatus,
         Operations!ParseResourceStatus, OperationProofs!ParseResourceStatus,
         Operations!ParseAllocationStatus, OperationProofs!ParseAllocationStatus,
         Operations!TimeWindows, OperationProofs!TimeWindows,
         Operations!TimeWindowsOverlap, OperationProofs!TimeWindowsOverlap,
         Operations!FlightStatuses, OperationProofs!FlightStatuses,
         Operations!Successors, OperationProofs!Successors,
         Operations!IsTransitionAllowed, OperationProofs!IsTransitionAllowed,
         Operations!Range, OperationProofs!Range, Operations!Cardinality,
         OperationProofs!Cardinality, Operations!IsFiniteSet,
         OperationProofs!IsFiniteSet, Operations!ExistsInjection,
         OperationProofs!ExistsInjection, Operations!Injection,
         OperationProofs!Injection, Operations!IsInjective, OperationProofs!IsInjective

\* So are the properties of the flight services.
LEMMA SameHistories ==
  /\ Operations!EstimatesFollowDelays <=> OperationProofs!EstimatesFollowDelays
  /\ Operations!EveryStatementIsDone <=> OperationProofs!EveryStatementIsDone
  BY DEF Operations!MinutesOf, OperationProofs!MinutesOf, Operations!RecordedMinutes,
         OperationProofs!RecordedMinutes, Operations!MovedBy,
         OperationProofs!MovedBy, Operations!Misled, OperationProofs!Misled,
         Operations!Unscheduled, OperationProofs!Unscheduled,
         Operations!EstimatesFollowDelays, OperationProofs!EstimatesFollowDelays,
         Operations!EveryStatementIsDone, OperationProofs!EveryStatementIsDone,
         Operations!SchedulesOf, OperationProofs!SchedulesOf, Operations!Cardinality,
         OperationProofs!Cardinality, Operations!ExistsInjection,
         OperationProofs!ExistsInjection, Operations!Injection,
         OperationProofs!Injection, Operations!IsInjective,
         OperationProofs!IsInjective

\* The constants are what the services ask for.
LEMMA ServiceConstants ==
  /\ Requests \subseteq AllocationProofs!AllocationRequests
  /\ FlightStatuses \subseteq AllocationProofs!FlightStatuses
  /\ AdminStatuses \subseteq AllocationProofs!ResourceStatuses
  /\ AllocationProofs!IsFiniteSet(Staff) /\ OperationProofs!IsFiniteSet(Staff)
  /\ SeedSchedules \in [DOMAIN SeedSchedules -> OperationProofs!ScheduleRows]
  /\ EnteredWindows \subseteq OperationProofs!TimeWindows
  BY AllocationAssumption, OperationAssumption, ResourceAssumption
  DEF AllocationRequests, AllocationProofs!AllocationRequests, TimeWindows,
      AllocationProofs!TimeWindows, FlightStatuses, AllocationProofs!FlightStatuses,
      ResourceStatuses, AllocationProofs!ResourceStatuses,
      OperationProofs!ScheduleRows, OperationProofs!TimeWindows, IsFiniteSet,
      AllocationProofs!IsFiniteSet, OperationProofs!IsFiniteSet

-----------------------------------------------------------------------------
(* The refinement                                                          *)

\* What a flight, delay or emergency handler does to the tables of the
\* allocation service.
LEMMA OperationsStep ==
  ASSUME Operations!Next
  PROVE  FlightsStep /\ UNCHANGED <<resources, allocations, allocationStaff>>
<1>1. OperationProofs!FlightsStep /\ UNCHANGED OperationProofs!allocationTables
  BY OperationProofs!NextFlightsStep, SameOperations, ServiceConstants,
     OperationAssumption, SeedAssumption, ResourceAssumption
  DEF Resources, OperationProofs!Resources
<1>2. OperationProofs!FlightsStep <=> FlightsStep
  BY DEF OperationProofs!FlightsStep, OperationProofs!AddsFlight,
         OperationProofs!MovesFlight, OperationProofs!Inserted,
         OperationProofs!StatusUpdated, OperationProofs!FlightStatusOf,
         OperationProofs!ParseFlightStatus, OperationProofs!ParsedAmong,
         OperationProofs!Successors, OperationProofs!FlightStatuses, FlightsStep,
         AddsFlight, MovesFlight, Inserted, StatusUpdated, FlightStatusOf,
         ParseFlightStatus, ParsedAmong, Successors, FlightStatuses
<1> QED BY <1>1, <1>2 DEF OperationProofs!allocationTables

\* A handler of the flight services is one of the changes of flights that
\* AllocationService expects, or nothing to it.
LEMMA OperationTurnRefines ==
  ASSUME FlightsKnown, FlightsStep, OperationTurn,
         UNCHANGED <<resources, allocations, allocationStaff>>
  PROVE  [Allocation!Next]_(Allocation!vars)
<1>1. CASE UNCHANGED flights
  BY <1>1 DEF OperationTurn, Allocation!vars
<1>2. ASSUME ~ UNCHANGED flights
      PROVE  Allocation!FlightChange
  <2>1. /\ call = Allocation!Idle
        /\ result' = Allocation!NoResult
        /\ UNCHANGED <<nextAllocationId, call>>
    BY <1>2 DEF OperationTurn
  <2>2. ASSUME NEW f \in Flights, AddsFlight(f)
        PROVE  Allocation!AddFlight(f)
    BY <2>1, <2>2 DEF AddsFlight, Allocation!AddFlight, Allocation!Inserted, Inserted
  <2>3. ASSUME NEW f \in DOMAIN flights, NEW status \in FlightStatuses,
               MovesFlight(f, status)
        PROVE  Allocation!TransitionFlight(f, status)
    BY <2>1, <2>3
    DEF MovesFlight, FlightStatusOf, StatusUpdated, Successors, ParseFlightStatus,
        ParsedAmong, FlightStatuses, Allocation!TransitionFlight,
        Allocation!IsTransitionAllowed, Allocation!Successors,
        Allocation!FlightStatusOf, Allocation!ParseFlightStatus, Allocation!ParsedAmong,
        Allocation!FlightStatuses, Allocation!StatusUpdated
  <2> QED BY <1>2, <2>2, <2>3 DEF FlightsStep, FlightsKnown, Allocation!FlightChange
<1> QED BY <1>1, <1>2 DEF Allocation!Next, Allocation!UserCommand

\* Every step of the program is a step of AllocationService, or none to it.
LEMMA NextRefinesAllocation ==
  ASSUME FlightsKnown, Next
  PROVE  [Allocation!Next]_(Allocation!vars)
<1>1. ASSUME \/ Allocation!Advance \/ Allocation!StatementFails
             \/ Allocation!AllocationCommand \/ Allocation!ResourceCommand
      PROVE  Allocation!Next
  BY <1>1 DEF Allocation!Next, Allocation!UserCommand
<1>2. ASSUME OperationTurn,
             \/ Operations!Advance \/ Operations!StatementFails
             \/ Operations!ManagerCommand \/ Operations!AdministratorCommand
      PROVE  [Allocation!Next]_(Allocation!vars)
  <2>1. FlightsStep /\ UNCHANGED <<resources, allocations, allocationStaff>>
    BY <1>2, OperationsStep DEF Operations!Next
  <2> QED BY <1>2, <2>1, OperationTurnRefines
<1>3. CASE Restart
  BY <1>3 DEF Restart, Allocation!Next
<1> QED BY <1>1, <1>2, <1>3
        DEF Next, HandlerStep, ManagerCommand, AdministratorCommand

\* The handlers of the allocation service never write a flight.
LEMMA AllocationKeepsFlights ==
  ASSUME \/ Allocation!Advance \/ Allocation!StatementFails
         \/ Allocation!AllocationCommand \/ Allocation!ResourceCommand
         \/ Allocation!Restart
  PROVE  UNCHANGED flights
  BY DEF Allocation!Advance, Allocation!OccupyGate, Allocation!OccupyVehicle,
      Allocation!OccupyStaff, Allocation!InsertAllocation, Allocation!InsertRefused,
      Allocation!LinkStaff, Allocation!LinkRefused, Allocation!AllocationSucceeds,
      Allocation!FreeGate, Allocation!FreeVehicle, Allocation!FreeStaff,
      Allocation!MarkReleased, Allocation!StatementFails, Allocation!AllocationCommand,
      Allocation!RejectAllocation, Allocation!BeginAllocation,
      Allocation!RejectRelease, Allocation!BeginRelease, Allocation!ResourceCommand,
      Allocation!AddResource, Allocation!SetResourceStatus, Allocation!tables,
      Allocation!Restart

LEMMA NextFlightsStep ==
  ASSUME Next
  PROVE  FlightsStep
<1>1. UNCHANGED flights => FlightsStep
  BY DEF FlightsStep
<1> QED BY <1>1, AllocationKeepsFlights, OperationsStep
        DEF Operations!Next, Next, HandlerStep, ManagerCommand, AdministratorCommand, Restart

\* Airport's property AllocationSpec: whatever is shown of AllocationService
\* alone holds in the program, in which the other services are the
\* environment that it assumes.
THEOREM AllocationIsImplemented == Spec => AllocationSpec
<1>1. Init => Allocation!Init /\ FlightsKnown
  <2>1. Init => Allocation!Init
    BY DEF Init
  <2>2. Init => flights = [f \in SeedFlights |-> "SCHEDULED"]
    BY DEF Init, Allocation!Init, Allocation!DatabaseInit
  <2> QED BY <2>1, <2>2, SeedAssumption DEF FlightsKnown
<1>2. FlightsKnown /\ [Next]_vars => FlightsKnown'
  BY NextFlightsStep, FlightsStepKnown DEF FlightsKnown, vars
<1>3. FlightsKnown /\ [Next]_vars => [Allocation!Next]_(Allocation!vars)
  BY NextRefinesAllocation DEF vars, allocationVars, Allocation!vars
<1> QED BY <1>1, <1>2, <1>3, PTL DEF Spec, AllocationSpec, Allocation!Spec

-----------------------------------------------------------------------------
(* The program's inductive invariant                                       *)

\* A step of a service keeps the invariant of that service.
LEMMA AllocationKeepsIInv ==
  ASSUME Allocation!IInv, [Allocation!Next]_(Allocation!vars)
  PROVE  Allocation!IInv'
  BY AllocationProofs!NextIInv, SameAllocation, ServiceConstants, AllocationAssumption,
     SeedAssumption, ResourceAssumption
  DEF Resources, AllocationProofs!Resources

LEMMA OperationsKeepIInv ==
  ASSUME Operations!IInv, Operations!Next
  PROVE  Operations!IInv'
  BY OperationProofs!NextIInv, SameOperations, ServiceConstants, OperationAssumption,
     SeedAssumption, ResourceAssumption
  DEF Resources, OperationProofs!Resources

\* A handler of the allocation service changes nothing that the invariant of
\* the flight services is about.
LEMMA AllocationTurnKeepsOperations ==
  ASSUME Operations!IInv, Allocation!IInv', UNCHANGED <<flights, operationVars>>
  PROVE  Operations!IInv'
<1>1. Operations!DatabaseTypeOK'
  BY DEF Allocation!IInv, Allocation!TypeOK, Allocation!DatabaseTypeOK,
         Allocation!Resources, Allocation!AllocationRows, Allocation!FlightStatuses,
         Allocation!ResourceStatuses, Allocation!TimeWindows,
         Operations!DatabaseTypeOK, Operations!Resources, Operations!AllocationRows,
         Operations!FlightStatuses, Operations!ResourceStatuses, Operations!TimeWindows
<1>2. Operations!TypeOK'
  BY <1>1
  DEF Operations!IInv, Operations!TypeOK, Operations!FlightTypeOK,
      Operations!DelayTypeOK, Operations!EmergencyTypeOK, operationVars
<1>3. /\ Operations!RowsHaveFlights'
      /\ Operations!OneSchedulePerFlight'
      /\ Operations!DelayedMeansRecorded'
      /\ Operations!OneEmergencyPerFlight'
      /\ Operations!EmergencyEntersTheLifecycle'
      /\ Operations!HandlingFollowsFlight'
  BY DEF Operations!IInv, Operations!RowsHaveFlights, Operations!OneSchedulePerFlight,
         Operations!DelayedMeansRecorded, Operations!OneEmergencyPerFlight,
         Operations!EmergencyEntersTheLifecycle, Operations!HandlingFollowsFlight,
         operationVars
<1>4. Operations!CreateProgress' /\ Operations!DelayProgress' /\ Operations!EmergencyProgress'
  BY DEF Operations!IInv, Operations!CreateProgress, Operations!DelayProgress,
         Operations!EmergencyProgress, Operations!SchedulesOf, operationVars
<1>5. Operations!EstimateProgress'
  <2>1. \A f : /\ Operations!MinutesOf(f)' = Operations!MinutesOf(f)
               /\ Operations!PendingMinutes(f)' = Operations!PendingMinutes(f)
    BY DEF Operations!MinutesOf, Operations!PendingMinutes, operationVars
  <2>2. Operations!Unaccounted' = Operations!Unaccounted
    BY <2>1
    DEF Operations!Unaccounted, Operations!Accounted, Operations!RecordedMinutes,
        Operations!MovedBy, operationVars
  <2>3. Operations!GivenUp' = Operations!GivenUp
    BY DEF Operations!GivenUp, Operations!Unscheduled, Operations!SchedulesOf,
           operationVars
  <2> QED BY <2>1, <2>2, <2>3
          DEF Operations!IInv, Operations!EstimateProgress, operationVars
<1> QED BY <1>2, <1>3, <1>4, <1>5 DEF Operations!IInv

LEMMA InitIInv == Init => IInv
<1> SUFFICES ASSUME Init PROVE IInv
  OBVIOUS
<1>1. Allocation!IInv
  BY AllocationProofs!InitIInv, SameAllocation, ServiceConstants, AllocationAssumption,
     SeedAssumption, ResourceAssumption
  DEF Init, Resources, AllocationProofs!Resources
<1>2. Operations!IInv
  BY OperationProofs!InitIInv, SameOperations, ServiceConstants, OperationAssumption,
     SeedAssumption, ResourceAssumption
  DEF Init, Resources, OperationProofs!Resources
<1> QED BY <1>1, <1>2 DEF IInv

LEMMA NextIInv == IInv /\ [Next]_vars => IInv'
<1> SUFFICES ASSUME IInv, [Next]_vars PROVE IInv'
  OBVIOUS
<1>1. FlightsKnown
  BY DEF IInv, Allocation!IInv, Allocation!TypeOK, Allocation!DatabaseTypeOK, FlightsKnown
<1>2. [Allocation!Next]_(Allocation!vars)
  BY <1>1, NextRefinesAllocation DEF vars, allocationVars, Allocation!vars
<1>3. Allocation!IInv'
  BY <1>2, AllocationKeepsIInv DEF IInv
<1>4. CASE \/ Operations!Advance \/ Operations!StatementFails
           \/ Operations!ManagerCommand \/ Operations!AdministratorCommand
           \/ Operations!Restart
  BY <1>3, <1>4, OperationsKeepIInv DEF IInv, Operations!Next
<1>5. ASSUME \/ Allocation!Advance \/ Allocation!StatementFails
             \/ Allocation!AllocationCommand \/ Allocation!ResourceCommand,
             AllocationTurn
      PROVE  IInv'
  <2>1. UNCHANGED flights
    BY <1>5, AllocationKeepsFlights
  <2> QED BY <1>3, <1>5, <2>1, AllocationTurnKeepsOperations DEF IInv, AllocationTurn
<1>6. CASE UNCHANGED vars
  BY <1>3, <1>6, AllocationTurnKeepsOperations DEF IInv, vars
<1> QED BY <1>4, <1>5, <1>6
        DEF Next, HandlerStep, ManagerCommand, AdministratorCommand, Restart

\* Both services keep their invariants in the program, handler after handler,
\* whatever fails and whenever the process is restarted.
THEOREM InductiveInvariant == Spec => []IInv
  BY InitIInv, NextIInv, PTL DEF Spec

-----------------------------------------------------------------------------
(* What the invariants mean for the program                                *)

\* The invariant of the program means what the one of the service does.
LEMMA IInvMeansNoDoubleBooking == IInv => Allocation!NoDoubleBooking
  BY AllocationProofs!IInvMeansNoDoubleBooking, SameAllocation, ServiceConstants,
     AllocationAssumption, SeedAssumption, ResourceAssumption
  DEF IInv, Resources, AllocationProofs!Resources

\* Two flights never hold one gate, vehicle or staff member at one instant,
\* whatever the handlers of the other services did in between.
THEOREM ProgramNeverDoubleBooks == Spec => []Allocation!NoDoubleBooking
  BY InductiveInvariant, IInvMeansNoDoubleBooking, PTL

\* A behaviour of the service keeps its promises and is one of the calendar.
LEMMA AllocationPromises ==
  Allocation!Spec =>
    /\ Allocation!RecordsAreKept
    /\ Allocation!MaintenanceIsHonoured
    /\ Allocation!SuccessIsComplete
    /\ Allocation!OccupiedBeforeRecorded
    /\ Allocation!FreedBeforeReleased
    /\ Allocation!OnlyHoldersFree
    /\ Allocation!NoServiceAfterDeparture
    /\ Allocation!CalendarSpec
<1>1. Allocation!Spec <=> AllocationProofs!Spec
  BY SameAllocation, PTL DEF Allocation!Spec, AllocationProofs!Spec
<1>2. AllocationProofs!Spec =>
        /\ AllocationProofs!RecordsAreKept
        /\ AllocationProofs!MaintenanceIsHonoured
        /\ AllocationProofs!SuccessIsComplete
        /\ AllocationProofs!OccupiedBeforeRecorded
        /\ AllocationProofs!FreedBeforeReleased
        /\ AllocationProofs!OnlyHoldersFree
        /\ AllocationProofs!NoServiceAfterDeparture
        /\ AllocationProofs!CalendarSpec
  BY AllocationProofs!RecordsAreKeptHolds, AllocationProofs!MaintenanceIsHonouredHolds,
     AllocationProofs!SuccessIsCompleteHolds, AllocationProofs!OccupiedBeforeRecordedHolds,
     AllocationProofs!FreedBeforeReleasedHolds, AllocationProofs!OnlyHoldersFreeHolds,
     AllocationProofs!NoServiceAfterDepartureHolds, AllocationProofs!CalendarIsImplemented,
     ServiceConstants, AllocationAssumption, SeedAssumption, ResourceAssumption
  DEF Resources, AllocationProofs!Resources
<1> QED BY <1>1, <1>2, SamePromises, SameCalendar, PTL

\* All that the allocation service promises of its calls and its records holds
\* in the program, whatever handlers of the other services run in between and
\* wherever they are interrupted.
THEOREM ProgramKeepsAllocationPromises ==
  Spec =>
    /\ Allocation!RecordsAreKept
    /\ Allocation!MaintenanceIsHonoured
    /\ Allocation!SuccessIsComplete
    /\ Allocation!OccupiedBeforeRecorded
    /\ Allocation!FreedBeforeReleased
    /\ Allocation!OnlyHoldersFree
    /\ Allocation!NoServiceAfterDeparture
  BY AllocationIsImplemented, AllocationPromises, PTL DEF AllocationSpec

\* To a dispatcher the whole program is a calendar of reservations.
THEOREM CalendarIsImplemented == Spec => CalendarSpec
  BY AllocationIsImplemented, AllocationPromises, PTL DEF AllocationSpec, CalendarSpec

LEMMA IInvMeansEstimatesFollowDelays == IInv => Operations!EstimatesFollowDelays
  BY OperationProofs!EstimatesMeaning, SameOperations, SameHistories, ServiceConstants,
     OperationAssumption, SeedAssumption, ResourceAssumption
  DEF IInv, Resources, OperationProofs!Resources

\* Statuses, schedules, delays and emergency records agree in the program as
\* they do when the allocation service is left out.
THEOREM ProgramKeepsFlightHistories ==
  Spec => [](/\ Operations!OneSchedulePerFlight
             /\ Operations!DelayedMeansRecorded
             /\ Operations!OneEmergencyPerFlight
             /\ Operations!EmergencyEntersTheLifecycle
             /\ Operations!HandlingFollowsFlight
             /\ Operations!EstimatesFollowDelays)
<1>1. IInv => /\ Operations!OneSchedulePerFlight
              /\ Operations!DelayedMeansRecorded
              /\ Operations!OneEmergencyPerFlight
              /\ Operations!EmergencyEntersTheLifecycle
              /\ Operations!HandlingFollowsFlight
              /\ Operations!EstimatesFollowDelays
  BY IInvMeansEstimatesFollowDelays DEF IInv, Operations!IInv
<1> QED BY <1>1, InductiveInvariant, PTL

LEMMA DoneStep == IInv /\ Next => Operations!EveryStatementIsDone
<1> SUFFICES ASSUME IInv, Next PROVE Operations!EveryStatementIsDone
  OBVIOUS
<1>1. CASE Operations!Next
  BY <1>1, OperationProofs!DoneStep, SameOperations, SameHistories, ServiceConstants,
     OperationAssumption, SeedAssumption, ResourceAssumption
  DEF IInv, Resources, OperationProofs!Resources
<1>2. CASE AllocationTurn
  BY <1>2 DEF AllocationTurn, Operations!AtMenu, Operations!EveryStatementIsDone
<1> QED BY <1>1, <1>2
        DEF Next, HandlerStep, ManagerCommand, AdministratorCommand, Restart, Operations!Next

\* A handler that reports success has done all its statements in the program,
\* too: what they wrote is there when the handler returns to the menu.
THEOREM ProgramCompletesHandlers == Spec => Operations!DoneIsComplete
<1>1. IInv /\ [Next]_vars => [Operations!EveryStatementIsDone]_(Operations!vars)
  BY DoneStep DEF vars, operationVars, Operations!vars
<1> QED BY <1>1, InductiveInvariant, PTL DEF Spec, Operations!DoneIsComplete

-----------------------------------------------------------------------------
(* The warnings of applyDelay                                              *)

\* The request that allocation a would be for another window.
Moved(a, staff, window) ==
  [flight |-> allocations[a].flight, gate |-> allocations[a].gate,
   vehicle |-> allocations[a].vehicle, staff |-> staff, window |-> window]

\* DelayService asks the questions of ConflictDetector.
LEMMA SameQuestions ==
  /\ Operations!ActiveAllocations = ActiveAllocations
  /\ \A a : Operations!ResourcesOf(a) = ResourcesOf(a)
  /\ \A w : Operations!InstantsOf(w) = InstantsOf(w)
  /\ \A f, w :
       Operations!ResourceWarnings(f, w) =
         {a \in DOMAIN allocations :
            /\ allocations[a].flight = f
            /\ AllocationRead(a).status = "SUCCESS"
            /\ \E staff \in Listings(StaffOf(a)) : HasConflict(Moved(a, staff, w))}
  BY DEF Operations!ActiveAllocations, ActiveAllocations, Operations!ResourcesOf,
         ResourcesOf, Operations!StaffOf, StaffOf, Operations!InstantsOf, InstantsOf,
         Operations!ResourceWarnings, Operations!AllocationRead, AllocationRead,
         Operations!ParseAllocationStatus, ParseAllocationStatus,
         Operations!ParsedAmong, ParsedAmong, Operations!AllocationStatuses,
         AllocationStatuses, Operations!Listings, Listings, Operations!Range, Range,
         Operations!Cardinality, Cardinality, Operations!Probe, Moved,
         Operations!HasConflict, HasConflict, Operations!UnknownId, UnknownId,
         Operations!Requested, Requested, Operations!Unavailable, Unavailable,
         Operations!UnderMaintenance, UnderMaintenance, Operations!ResourceStatusOf,
         ResourceStatusOf, Operations!ParseResourceStatus, ParseResourceStatus,
         Operations!ResourceStatuses, ResourceStatuses, Operations!BookedByOther,
         BookedByOther, Operations!ListActiveAllocationsFor, ListActiveAllocationsFor,
         Operations!TimeWindowsOverlap, TimeWindowsOverlap

\* An allocation that has no conflict in another window fits there.
LEMMA UnwarnedFits ==
  ASSUME DatabaseTypeOK, NEW window \in TimeWindows,
         NEW a \in ActiveAllocations, NEW b \in ActiveAllocations,
         NEW staff \in Listings(StaffOf(a)), ~ HasConflict(Moved(a, staff, window)),
         allocations[b].flight # allocations[a].flight,
         ResourcesOf(a) \cap ResourcesOf(b) # {}
  PROVE  InstantsOf(window) \cap InstantsOf(allocations[b].window) = {}
<1> DEFINE probe == Moved(a, staff, window)
<1>1. PICK r : r \in ResourcesOf(a) /\ r \in ResourcesOf(b)
  OBVIOUS
<1>2. Range(staff) = StaffOf(a)
  BY ListingProperties DEF StaffOf
<1>3. ~ Unavailable(r, probe)
  BY <1>1, <1>2 DEF HasConflict, ResourcesOf, Moved
<1>4. ~ TimeWindowsOverlap(window, allocations[b].window)
  BY <1>1, <1>3 DEF Unavailable, BookedByOther, ListActiveAllocationsFor, Moved
<1>5. allocations[b].window \in TimeWindows
  BY DEF DatabaseTypeOK, AllocationRows, ActiveAllocations
<1> QED BY <1>4, <1>5, CommonInstantMeansOverlap

\* In the last statement of applyDelay, only ReportDelay reports success.
LEMMA DelayIsReportedBy ==
  ASSUME Next, operation.step = "checkResources", outcome'.kind = "done"
  PROVE  Operations!ReportDelay
<1>1. operation # Operations!AtMenu
  BY DEF Operations!AtMenu
<1>2. ~ AllocationTurn
  BY <1>1 DEF AllocationTurn
<1>3. ~ Operations!StatementFails /\ ~ Operations!Restart
  BY DEF Operations!StatementFails, Operations!Restart, Operations!Finish, Operations!Ended
<1>4. ~ Operations!CreateCommand /\ ~ Operations!StatusCommand
  BY <1>1
  DEF Operations!CreateCommand, Operations!RejectFlight, Operations!SaveFlight,
      Operations!StatusCommand, Operations!ChangeStatus, Operations!RejectStatus
<1>5. ~ Operations!DelayCommand
  BY <1>1 DEF Operations!DelayCommand, Operations!RejectDelay, Operations!BeginDelay
<1>6. ~ Operations!EmergencyCommand
  BY <1>1
  DEF Operations!EmergencyCommand, Operations!RejectDeclaration,
      Operations!DeclareEmergency, Operations!RejectEmergency,
      Operations!RecordLanding, Operations!ResolveEmergency,
      Operations!RejectHandling, Operations!BeginHandling
<1>7. Operations!Advance
  BY <1>2, <1>3, <1>4, <1>5, <1>6
  DEF Next, HandlerStep, ManagerCommand, AdministratorCommand, Restart,
      Operations!ManagerCommand, Operations!AdministratorCommand
<1> QED BY <1>7
        DEF Operations!Advance, Operations!SaveSchedule, Operations!AdvanceDelay,
            Operations!RecordDelay, Operations!RecordRefused, Operations!DelayFlight,
            Operations!DelayRefused, Operations!ShiftSchedule, Operations!NoSchedule,
            Operations!AdvanceEmergency, Operations!SaveEmergency,
            Operations!SaveRefused, Operations!MarkHandling

LEMMA WarningStep == IInv /\ Next => Operations!EveryClashIsWarnedOf
<1> SUFFICES ASSUME IInv, Next, operation.step = "checkResources",
                    outcome'.kind = "done",
                    NEW a \in ActiveAllocations, NEW b \in ActiveAllocations,
                    allocations[a].flight = operation.flight,
                    a \notin outcome'.warned,
                    allocations[b].flight # operation.flight,
                    ResourcesOf(a) \cap ResourcesOf(b) # {}
             PROVE  InstantsOf(operation.window)
                      \cap InstantsOf(allocations[b].window) = {}
  BY SameQuestions DEF Operations!EveryClashIsWarnedOf
<1>1. DatabaseTypeOK
  BY DEF IInv, Allocation!IInv, Allocation!TypeOK, Allocation!DatabaseTypeOK,
         Allocation!Resources, Allocation!AllocationRows, Allocation!FlightStatuses,
         Allocation!ResourceStatuses, Allocation!TimeWindows, DatabaseTypeOK,
         Resources, AllocationRows, FlightStatuses, ResourceStatuses, TimeWindows
<1>2. operation.window \in TimeWindows
  BY DEF IInv, Operations!IInv, Operations!TypeOK, Operations!Operations,
         Operations!AtMenu, Operations!CreateOperations,
         Operations!DelayOperations, Operations!EmergencyOperations,
         Operations!TimeWindows, TimeWindows
<1>3. outcome'.warned = Operations!ResourceWarnings(operation.flight, operation.window)
  BY DelayIsReportedBy DEF Operations!ReportDelay
<1>4. a \in DOMAIN allocations /\ AllocationRead(a).status = "SUCCESS"
  BY <1>1
  DEF ActiveAllocations, DatabaseTypeOK, AllocationRows, AllocationRead,
      ParseAllocationStatus, ParsedAmong, AllocationStatuses
<1>5. PICK staff : staff \in Listings(StaffOf(a))
  BY ListingExists DEF StaffOf
<1>6. ~ HasConflict(Moved(a, staff, operation.window))
  BY <1>3, <1>4, <1>5, SameQuestions
<1> QED BY <1>1, <1>2, <1>5, <1>6, UnwarnedFits

\* An allocation that applyDelay does not warn of can be moved to the new times
\* of its flight as it is.
THEOREM WarningsAreCompleteHolds == Spec => WarningsAreComplete
<1>1. IInv /\ [Next]_vars => [Operations!EveryClashIsWarnedOf]_(Operations!vars)
  BY WarningStep DEF vars, operationVars, Operations!vars
<1> QED BY <1>1, InductiveInvariant, PTL
        DEF Spec, WarningsAreComplete, Operations!WarningsAreComplete
=============================================================================
