-------------------------- MODULE Monitoring_proofs --------------------------
(***************************************************************************)
(* Proofs about Monitoring: the views of FlightMonitor while the flight,   *)
(* delay and emergency handlers change what they view.  TypeOK first, from *)
(* that of FlightOperations; then what one transition of the edge table    *)
(* does to the answers of the ATC and to the phase of the flight, on which *)
(* the rest depends.                                                       *)
(***************************************************************************)
EXTENDS Monitoring, AirportDatabase_proofs

OperationProofs == INSTANCE FlightOperations_proofs

\* What is proved of the flight services is proved here of an instance of
\* their module; it is the instance that Monitoring is made of.
LEMMA SameOperations ==
  /\ Operations!Init <=> OperationProofs!Init
  /\ Operations!Next <=> OperationProofs!Next
  /\ Operations!TypeOK <=> OperationProofs!TypeOK
  /\ Operations!TypeOK' <=> OperationProofs!TypeOK'
  BY DEF Operations!allocationTables, OperationProofs!allocationTables,
         Operations!scheduleVars, OperationProofs!scheduleVars, Operations!delayVars,
         OperationProofs!delayVars, Operations!emergencyVars,
         OperationProofs!emergencyVars, Operations!vars, OperationProofs!vars,
         Operations!Operations, OperationProofs!Operations, Operations!TypeOK,
         OperationProofs!TypeOK, Operations!Init, OperationProofs!Init,
         Operations!Advance, OperationProofs!Advance, Operations!AdministratorCommand,
         OperationProofs!AdministratorCommand, Operations!ManagerCommand,
         OperationProofs!ManagerCommand, Operations!tablesAndGenerators,
         OperationProofs!tablesAndGenerators, Operations!StatementFails,
         OperationProofs!StatementFails, Operations!Restart, OperationProofs!Restart,
         Operations!Next, OperationProofs!Next, Operations!EmergencyRows,
         OperationProofs!EmergencyRows, Operations!EmergencyOperations,
         OperationProofs!EmergencyOperations, Operations!EmergencyTypeOK,
         OperationProofs!EmergencyTypeOK, Operations!EmergencyInit,
         OperationProofs!EmergencyInit, Operations!RejectDeclaration,
         OperationProofs!RejectDeclaration, Operations!DeclareEmergency,
         OperationProofs!DeclareEmergency, Operations!SaveEmergency,
         OperationProofs!SaveEmergency, Operations!SaveRefused,
         OperationProofs!SaveRefused, Operations!RejectEmergency,
         OperationProofs!RejectEmergency, Operations!RecordLanding,
         OperationProofs!RecordLanding, Operations!MayHandle, OperationProofs!MayHandle,
         Operations!RejectHandling, OperationProofs!RejectHandling,
         Operations!BeginHandling, OperationProofs!BeginHandling,
         Operations!MarkHandling, OperationProofs!MarkHandling,
         Operations!ResolveEmergency, OperationProofs!ResolveEmergency,
         Operations!EmergencyCommand, OperationProofs!EmergencyCommand,
         Operations!AdvanceEmergency, OperationProofs!AdvanceEmergency,
         Operations!DelayRows, OperationProofs!DelayRows, Operations!DelayOperations,
         OperationProofs!DelayOperations, Operations!DelayTypeOK,
         OperationProofs!DelayTypeOK, Operations!DelayInit, OperationProofs!DelayInit,
         Operations!Delayable, OperationProofs!Delayable, Operations!RejectDelay,
         OperationProofs!RejectDelay, Operations!BeginDelay, OperationProofs!BeginDelay,
         Operations!RecordDelay, OperationProofs!RecordDelay, Operations!RecordRefused,
         OperationProofs!RecordRefused, Operations!DelayFlight,
         OperationProofs!DelayFlight, Operations!DelayRefused,
         OperationProofs!DelayRefused, Operations!Shifted, OperationProofs!Shifted,
         Operations!ShiftSchedule, OperationProofs!ShiftSchedule, Operations!NoSchedule,
         OperationProofs!NoSchedule, Operations!Probe, OperationProofs!Probe,
         Operations!ResourceWarnings, OperationProofs!ResourceWarnings,
         Operations!ReportDelay, OperationProofs!ReportDelay, Operations!DelayCommand,
         OperationProofs!DelayCommand, Operations!AdvanceDelay,
         OperationProofs!AdvanceDelay, Operations!ScheduleRows,
         OperationProofs!ScheduleRows, Operations!AtMenu, OperationProofs!AtMenu,
         Operations!CreateOperations, OperationProofs!CreateOperations,
         Operations!Outcomes, OperationProofs!Outcomes, Operations!Ended,
         OperationProofs!Ended, Operations!FlightTypeOK, OperationProofs!FlightTypeOK,
         Operations!FlightInit, OperationProofs!FlightInit, Operations!Finish,
         OperationProofs!Finish, Operations!Continue, OperationProofs!Continue,
         Operations!NewFlight, OperationProofs!NewFlight, Operations!RejectFlight,
         OperationProofs!RejectFlight, Operations!SaveFlight,
         OperationProofs!SaveFlight, Operations!ScheduleSaved,
         OperationProofs!ScheduleSaved, Operations!SaveSchedule,
         OperationProofs!SaveSchedule, Operations!MayTransition,
         OperationProofs!MayTransition, Operations!ManagerStatuses,
         OperationProofs!ManagerStatuses, Operations!ChangeStatus,
         OperationProofs!ChangeStatus, Operations!RejectStatus,
         OperationProofs!RejectStatus, Operations!CreateCommand,
         OperationProofs!CreateCommand, Operations!StatusCommand,
         OperationProofs!StatusCommand, Operations!SchedulesOf,
         OperationProofs!SchedulesOf, Operations!Requested, OperationProofs!Requested,
         Operations!UnknownId, OperationProofs!UnknownId, Operations!UnderMaintenance,
         OperationProofs!UnderMaintenance, Operations!BookedByOther,
         OperationProofs!BookedByOther, Operations!Unavailable,
         OperationProofs!Unavailable, Operations!HasConflict,
         OperationProofs!HasConflict, Operations!Resources, OperationProofs!Resources,
         Operations!AllocationRows, OperationProofs!AllocationRows,
         Operations!DatabaseTypeOK, OperationProofs!DatabaseTypeOK,
         Operations!DatabaseInit, OperationProofs!DatabaseInit, Operations!Inserted,
         OperationProofs!Inserted, Operations!StatusUpdated,
         OperationProofs!StatusUpdated, Operations!FlightStatusOf,
         OperationProofs!FlightStatusOf, Operations!ResourceStatusOf,
         OperationProofs!ResourceStatusOf, Operations!AllocationRead,
         OperationProofs!AllocationRead, Operations!ActiveAllocations,
         OperationProofs!ActiveAllocations, Operations!StaffOf, OperationProofs!StaffOf,
         Operations!ResourcesOf, OperationProofs!ResourcesOf,
         Operations!ListActiveAllocationsFor, OperationProofs!ListActiveAllocationsFor,
         Operations!Listings, OperationProofs!Listings, Operations!ResourceStatuses,
         OperationProofs!ResourceStatuses, Operations!AllocationStatuses,
         OperationProofs!AllocationStatuses, Operations!TaskStatuses,
         OperationProofs!TaskStatuses, Operations!EmergencyStatuses,
         OperationProofs!EmergencyStatuses, Operations!WeatherConditions,
         OperationProofs!WeatherConditions, Operations!WeatherAlertLevels,
         OperationProofs!WeatherAlertLevels, Operations!ATCClearances,
         OperationProofs!ATCClearances, Operations!Roles, OperationProofs!Roles,
         Operations!ReportTypes,
         OperationProofs!ReportTypes, Operations!Enumerators,
         OperationProofs!Enumerators, Operations!ToText, OperationProofs!ToText,
         Operations!ParsedAmong, OperationProofs!ParsedAmong,
         Operations!ParseFlightStatus, OperationProofs!ParseFlightStatus,
         Operations!ParseResourceStatus, OperationProofs!ParseResourceStatus,
         Operations!ParseAllocationStatus, OperationProofs!ParseAllocationStatus,
         Operations!TimeWindows, OperationProofs!TimeWindows,
         Operations!TimeWindowsOverlap, OperationProofs!TimeWindowsOverlap,
         Operations!FlightStatuses, OperationProofs!FlightStatuses,
         Operations!Successors, OperationProofs!Successors,
         Operations!IsTransitionAllowed, OperationProofs!IsTransitionAllowed,
         Operations!Range, OperationProofs!Range, Operations!Cardinality,
         OperationProofs!Cardinality

\* The constants are what the services ask for.
LEMMA ServiceConstants ==
  /\ OperationProofs!IsFiniteSet(Staff)
  /\ SeedSchedules \in [DOMAIN SeedSchedules -> OperationProofs!ScheduleRows]
  /\ EnteredWindows \subseteq OperationProofs!TimeWindows
  BY ScheduleAssumption, ResourceAssumption
  DEF ScheduleRows, TimeWindows, IsFiniteSet, OperationProofs!ScheduleRows,
      OperationProofs!TimeWindows, OperationProofs!IsFiniteSet

-----------------------------------------------------------------------------
(* Type correctness                                                        *)

\* Whenever a handler of the flight services is in progress, or none, the
\* state is one of FlightOperations.
LEMMA TypeOKParts ==
  /\ TypeOK /\ operation \in Operations!Operations => Operations!TypeOK
  /\ Operations!TypeOK /\ MonitorTypeOK => TypeOK
  /\ Operations!TypeOK' /\ MonitorTypeOK' => TypeOK'
  BY DEF TypeOK, DatabaseTypeOK, FlightTypeOK, Resources, AllocationRows, TimeWindows,
         FlightStatuses, ResourceStatuses, ScheduleRows, Outcomes, Operations!TypeOK,
         Operations!DatabaseTypeOK, Operations!FlightTypeOK, Operations!Resources,
         Operations!AllocationRows, Operations!TimeWindows, Operations!FlightStatuses,
         Operations!ResourceStatuses, Operations!ScheduleRows, Operations!Outcomes

\* The monitor waits for the weather only.
LEMMA MonitorWaits ==
  ASSUME operation.step = "observeWeather"
  PROVE  ~ Operations!Advance /\ ~ Operations!ManagerCommand /\ operation # AtMenu
<1>1. operation # Operations!AtMenu /\ operation # AtMenu
  BY DEF Operations!AtMenu, AtMenu
<1>2. ~ Operations!Advance
  BY DEF Operations!Advance, Operations!SaveSchedule, Operations!AdvanceDelay,
         Operations!RecordDelay, Operations!RecordRefused, Operations!DelayFlight,
         Operations!DelayRefused, Operations!ShiftSchedule, Operations!NoSchedule,
         Operations!ReportDelay, Operations!AdvanceEmergency,
         Operations!SaveEmergency, Operations!SaveRefused, Operations!MarkHandling
<1>3. ~ Operations!StatusCommand /\ ~ Operations!DelayCommand
  BY <1>1
  DEF Operations!StatusCommand, Operations!ChangeStatus, Operations!RejectStatus,
      Operations!DelayCommand, Operations!RejectDelay, Operations!BeginDelay
<1>4. ~ Operations!EmergencyCommand
  BY <1>1
  DEF Operations!EmergencyCommand, Operations!RejectDeclaration,
      Operations!DeclareEmergency, Operations!RejectEmergency,
      Operations!RecordLanding, Operations!ResolveEmergency,
      Operations!RejectHandling, Operations!BeginHandling
<1> QED BY <1>1, <1>2, <1>3, <1>4 DEF Operations!ManagerCommand

\* An answer of the ATC is a row of its log.
LEMMA AnswersAreRows ==
  ASSUME TypeOK, NEW f \in DOMAIN flights
  PROVE  AtcStatus(f) \in AtcRows
<1>1. f \in Flights
  BY DEF TypeOK, DatabaseTypeOK
<1>2. GetATCClearance(f) \in ATCClearances
  BY DEF GetATCClearance, ATCClearances
<1>3. ToText(GetATCClearance(f)) \in ATCClearances
  BY <1>2 DEF ToText, Enumerators, ATCClearances
<1>4. GetDepartureStatus(f) \in DepartureInfos
  BY DEF GetDepartureStatus, DepartureInfos
<1>5. GetArrivalStatus(f) \in ArrivalInfos
  BY DEF GetArrivalStatus, ArrivalInfos
<1> QED BY <1>1, <1>3, <1>4, <1>5 DEF AtcStatus, AtcRows

AnswersTyped == \A f \in DOMAIN flights : AtcStatus(f) \in AtcRows

LEMMA AnswersAlwaysRows == TypeOK => AnswersTyped
  BY AnswersAreRows DEF AnswersTyped

\* A reading is logged as it is.
LEMMA ReadingsAreLogged ==
  ASSUME NEW data \in Readings
  PROVE  data \in WeatherData /\ Logged(data) = data
<1>1. data \in WeatherData
  BY WeatherAssumption
<1>2. ToText(data.condition) = data.condition
  BY <1>1 DEF WeatherData, ToText, Enumerators, WeatherConditions
<1> QED BY <1>1, <1>2 DEF Logged, WeatherData

\* What is shown is a snapshot of its type.
LEMMA SnapshotsTyped ==
  ASSUME operation \in MonitorOperations, NEW data \in WeatherData
  PROVE  Snapshot(data) \in Snapshots
<1>1. CheckWeatherAlert(data) \in WeatherAlertLevels
  BY DEF CheckWeatherAlert, WeatherAlertLevels
<1> QED BY <1>1
        DEF Snapshot, Snapshots, MonitorOperations, DetectedIssues

LEMMA InitTypeOK == Init => TypeOK
<1> SUFFICES ASSUME Init PROVE TypeOK
  OBVIOUS
<1>1. Operations!TypeOK
  BY OperationProofs!InitTypeOK, SameOperations, ServiceConstants, ScheduleAssumption,
     OperationAssumption, SeedAssumption, ResourceAssumption
  DEF Init, Resources, OperationProofs!Resources
<1>2. MonitorTypeOK
  BY DEF Init, MonitorInit, AtcInit, WeatherInit, MonitorTypeOK, AtcTypeOK, WeatherTypeOK
<1> QED BY <1>1, <1>2, TypeOKParts

\* A handler of the flight services, and a restart.
LEMMA OperationTypeOK ==
  ASSUME TypeOK, OperationStep \/ Restart
  PROVE  TypeOK'
<1>1. MonitorTypeOK'
  BY DEF TypeOK, MonitorTypeOK, AtcTypeOK, WeatherTypeOK, OperationStep, Restart
<1>2. Operations!Next
  BY DEF OperationStep, Restart, Operations!Next
<1>3. CASE operation \in Operations!Operations
  <2>1. Operations!TypeOK'
    BY <1>2, <1>3, TypeOKParts, OperationProofs!NextTypeOK, SameOperations,
       ServiceConstants, ScheduleAssumption, OperationAssumption, SeedAssumption,
       ResourceAssumption
    DEF Resources, OperationProofs!Resources
  <2> QED BY <1>1, <2>1, TypeOKParts
<1>4. CASE operation \in MonitorOperations
  <2>1. operation.step = "observeWeather"
    BY <1>4 DEF MonitorOperations
  <2>2. Operations!StatementFails \/ Operations!Restart
    BY <2>1, MonitorWaits DEF OperationStep, Restart
  <2>3. operation' \in Operations!Operations /\ outcome' \in Outcomes
    BY <2>2
    DEF Operations!StatementFails, Operations!Restart, Operations!Finish,
        Operations!AtMenu, Operations!Ended, Operations!Operations, Outcomes
  <2>4. DatabaseTypeOK' /\ Operations!DelayTypeOK' /\ Operations!EmergencyTypeOK'
    BY <2>2
    DEF Operations!StatementFails, Operations!Restart, Operations!tablesAndGenerators,
        Operations!allocationTables, Operations!scheduleVars, Operations!delayVars,
        Operations!emergencyVars, TypeOK, DatabaseTypeOK, Operations!DelayTypeOK,
        Operations!EmergencyTypeOK
  <2>5. FlightTypeOK'
    BY <2>2, <2>3, ScheduleAssumption
    DEF Operations!StatementFails, Operations!Restart, Operations!tablesAndGenerators,
        Operations!scheduleVars, TypeOK, FlightTypeOK
  <2> QED BY <1>1, <2>3, <2>4, <2>5 DEF TypeOK
<1> QED BY <1>3, <1>4 DEF TypeOK

\* A view.
LEMMA ViewTypeOK ==
  ASSUME TypeOK, ViewStep
  PROVE  TypeOK'
<1>1. DatabaseTypeOK' /\ Operations!DelayTypeOK' /\ Operations!EmergencyTypeOK'
  BY DEF ViewStep, tablesAndGenerators, TypeOK, DatabaseTypeOK, Operations!DelayTypeOK,
         Operations!EmergencyTypeOK
<1>2. outcome' \in Outcomes => FlightTypeOK'
  BY DEF ViewStep, tablesAndGenerators, TypeOK, FlightTypeOK
<1>3. \A kind \in {"none", "done", "exception"} : Ended(kind) \in Outcomes
  BY DEF Ended, Outcomes
<1>4. AtMenu \in Operations!Operations
  BY DEF AtMenu, Operations!AtMenu, Operations!Operations
<1>5. ASSUME MonitorTypeOK', outcome' \in Outcomes,
             operation' \in Operations!Operations \cup MonitorOperations
      PROVE  TypeOK'
  BY <1>1, <1>2, <1>5 DEF TypeOK
<1>6. ASSUME NEW f \in DOMAIN flights, GetFlightStatus(f)
      PROVE  AtcTypeOK'
  <2>1. atcLog' = Append(atcLog, AtcStatus(f)) /\ atcLog \in Seq(AtcRows)
    BY <1>6 DEF GetFlightStatus, TypeOK, MonitorTypeOK, AtcTypeOK
  <2> QED BY <2>1, AnswersAreRows, AppendProperties DEF AtcTypeOK
<1>7. ASSUME NEW data \in Readings, GetCurrentWeather(data)
      PROVE  WeatherTypeOK'
  <2>1. weatherLog' = Append(weatherLog, data) /\ weatherLog \in Seq(WeatherData)
    BY <1>7, ReadingsAreLogged DEF GetCurrentWeather, TypeOK, MonitorTypeOK, WeatherTypeOK
  <2> QED BY <2>1, ReadingsAreLogged, AppendProperties DEF WeatherTypeOK
<1>8. ASSUME NEW f \in Flights, RejectView(f) \/ ViewATC(f)
      PROVE  TypeOK'
  <2>1. MonitorTypeOK'
    BY <1>6, <1>8
    DEF RejectView, ViewATC, GetFlightStatus, TypeOK, MonitorTypeOK, AtcTypeOK,
        WeatherTypeOK
  <2> QED BY <1>3, <1>4, <1>5, <1>8, <2>1 DEF RejectView, ViewATC, Finish
<1>9. CASE ViewWeather
  <2>1. MonitorTypeOK'
    BY <1>7, <1>9 DEF ViewWeather, TypeOK, MonitorTypeOK, AtcTypeOK
  <2> QED BY <1>3, <1>4, <1>5, <1>9, <2>1 DEF ViewWeather, Finish
<1>10. ASSUME NEW f \in Flights, BeginMonitor(f)
       PROVE  TypeOK'
  <2>1. f \in DOMAIN flights
    BY <1>10 DEF BeginMonitor, GetFlightStatus
  <2>2. MonitorTypeOK'
    BY <1>6, <1>10, <2>1 DEF BeginMonitor, TypeOK, MonitorTypeOK, WeatherTypeOK
  <2>3. FlightStatusOf(f) \in FlightStatuses
    BY DEF FlightStatusOf, ParseFlightStatus, ParsedAmong, FlightStatuses
  <2>4. operation' \in MonitorOperations
    BY <1>10, <2>1, <2>3, AnswersAreRows DEF BeginMonitor, Continue, MonitorOperations
  <2> QED BY <1>3, <1>5, <1>10, <2>2, <2>4 DEF BeginMonitor, Continue
<1>11. CASE EndMonitor
  <2>1. operation \in MonitorOperations
    BY <1>11
    DEF EndMonitor, TypeOK, Operations!Operations, Operations!AtMenu,
        Operations!CreateOperations, Operations!DelayOperations,
        Operations!EmergencyOperations
  <2>2. PICK data \in Readings : GetCurrentWeather(data) /\ snapshot' = Snapshot(data)
    BY <1>11 DEF EndMonitor
  <2>3. MonitorTypeOK'
    BY <1>7, <1>11, <2>1, <2>2, SnapshotsTyped, ReadingsAreLogged
    DEF EndMonitor, TypeOK, MonitorTypeOK, AtcTypeOK
  <2> QED BY <1>3, <1>4, <1>5, <1>11, <2>3 DEF EndMonitor, Finish
<1> QED BY <1>8, <1>9, <1>10, <1>11 DEF ViewStep, ViewCommand

LEMMA NextTypeOK == TypeOK /\ [Next]_vars => TypeOK'
<1> SUFFICES ASSUME TypeOK, [Next]_vars PROVE TypeOK'
  OBVIOUS
<1>1. CASE UNCHANGED vars
  BY <1>1
  DEF vars, tablesAndGenerators, monitorVars, TypeOK, DatabaseTypeOK, FlightTypeOK,
      Operations!DelayTypeOK, Operations!EmergencyTypeOK, MonitorTypeOK, AtcTypeOK,
      WeatherTypeOK
<1> QED BY <1>1, OperationTypeOK, ViewTypeOK DEF Next

\* Every state of the monitored program has its type.
THEOREM TypeCorrect == Spec => []TypeOK
  BY InitTypeOK, NextTypeOK, PTL DEF Spec

-----------------------------------------------------------------------------
(* The flights live as FlightLifecycle says                                *)

\* What a step of the program does to the flights.
LEMMA NextFlightsStep ==
  ASSUME [Next]_vars
  PROVE  FlightsStep
<1>1. UNCHANGED flights => FlightsStep
  BY DEF FlightsStep
<1>2. ASSUME Operations!Next
      PROVE  FlightsStep
  <2>1. OperationProofs!FlightsStep
    BY <1>2, OperationProofs!NextFlightsStep, SameOperations, ServiceConstants,
       ScheduleAssumption, OperationAssumption, SeedAssumption, ResourceAssumption
    DEF Resources, OperationProofs!Resources
  <2>2. OperationProofs!FlightsStep <=> FlightsStep
    BY DEF OperationProofs!FlightsStep, OperationProofs!AddsFlight,
           OperationProofs!MovesFlight, OperationProofs!Inserted,
           OperationProofs!StatusUpdated, OperationProofs!FlightStatusOf,
           OperationProofs!ParseFlightStatus, OperationProofs!ParsedAmong,
           OperationProofs!Successors, OperationProofs!FlightStatuses, FlightsStep,
           AddsFlight, MovesFlight, Inserted, StatusUpdated, FlightStatusOf,
           ParseFlightStatus, ParsedAmong, Successors, FlightStatuses
  <2> QED BY <2>1, <2>2
<1>3. OperationStep \/ Restart => Operations!Next
  BY DEF OperationStep, Restart, Operations!Next
<1>4. ViewStep \/ UNCHANGED vars => UNCHANGED flights
  BY DEF ViewStep, vars, tablesAndGenerators
<1> QED BY <1>1, <1>2, <1>3, <1>4 DEF Next

\* An edge of the table is a stutter of the lifecycle or one of its moves.
LEMMA EdgesArePhases ==
  ASSUME NEW from \in FlightStatuses, NEW to \in Successors(from)
  PROVE  \/ PhaseOf(to) = PhaseOf(from)
         \/ PhaseOf(from) = "expected" /\ PhaseOf(to) = "landing"
         \/ PhaseOf(from) = "landing"  /\ PhaseOf(to) = "handled"
         \/ PhaseOf(from) = "handled"  /\ PhaseOf(to) = "ready"
         \/ PhaseOf(from) = "ready"    /\ PhaseOf(to) = "handled"
         \/ PhaseOf(from) = "ready"    /\ PhaseOf(to) = "gone"
         \/ PhaseOf(from) = "expected" /\ PhaseOf(to) = "cancelled"
         \/ PhaseOf(from) = "handled"  /\ PhaseOf(to) = "cancelled"
  BY DEF FlightStatuses, Successors, PhaseOf

\* The phases of all flights: what the refinement puts for `phase`.
PhasesNow == [f \in DOMAIN flights |-> PhaseOf(flights[f])]

LEMMA FlightsStepRefines ==
  ASSUME TypeOK, FlightsStep
  PROVE  [Lifecycle!Next]_PhasesNow
<1>1. flights \in [DOMAIN flights -> FlightStatuses] /\ DOMAIN flights \subseteq Flights
  BY DEF TypeOK, DatabaseTypeOK
<1>2. CASE UNCHANGED flights
  BY <1>2 DEF PhasesNow
<1>3. ASSUME NEW f \in Flights, AddsFlight(f)
      PROVE  Lifecycle!Next
  <2>1. PhaseOf("SCHEDULED") = "expected"
    BY DEF PhaseOf
  <2>2. Lifecycle!Announce(f)
    BY <1>3, <2>1 DEF AddsFlight, Inserted, Lifecycle!Announce
  <2> QED BY <2>2 DEF Lifecycle!Next
<1>4. ASSUME NEW f \in DOMAIN flights, NEW status \in FlightStatuses,
             MovesFlight(f, status)
      PROVE  [Lifecycle!Next]_PhasesNow
  <2>1. status \in Successors(flights[f])
    BY <1>1, <1>4, FlightStatusTexts DEF MovesFlight, FlightStatusOf
  <2>2. /\ DOMAIN flights' = DOMAIN flights
        /\ flights'[f] = status
        /\ \A g \in DOMAIN flights \ {f} : flights'[g] = flights[g]
    BY <1>4 DEF MovesFlight, StatusUpdated
  <2>3. PhasesNow' = [PhasesNow EXCEPT ![f] = PhaseOf(status)]
    BY <2>2 DEF PhasesNow
  <2>4. CASE PhaseOf(status) = PhaseOf(flights[f])
    BY <2>3, <2>4 DEF PhasesNow
  <2>5. CASE PhaseOf(status) # PhaseOf(flights[f])
    <3>1. \/ PhaseOf(flights[f]) = "expected" /\ PhaseOf(status) = "landing"
          \/ PhaseOf(flights[f]) = "landing"  /\ PhaseOf(status) = "handled"
          \/ PhaseOf(flights[f]) = "handled"  /\ PhaseOf(status) = "ready"
          \/ PhaseOf(flights[f]) = "ready"    /\ PhaseOf(status) = "handled"
          \/ PhaseOf(flights[f]) = "ready"    /\ PhaseOf(status) = "gone"
          \/ PhaseOf(flights[f]) = "expected" /\ PhaseOf(status) = "cancelled"
          \/ PhaseOf(flights[f]) = "handled"  /\ PhaseOf(status) = "cancelled"
      BY <1>1, <2>1, <2>5, EdgesArePhases
    <3>2. \/ Lifecycle!Land(f) \/ Lifecycle!Handle(f) \/ Lifecycle!Finish(f)
          \/ Lifecycle!Delay(f) \/ Lifecycle!Leave(f) \/ Lifecycle!Cancel(f)
      BY <2>3, <3>1
      DEF PhasesNow, Lifecycle!Land, Lifecycle!Handle, Lifecycle!Finish,
          Lifecycle!Delay, Lifecycle!Leave, Lifecycle!Cancel, Lifecycle!Move
    <3>3. f \in Flights
      BY <1>1
    <3> QED BY <3>2, <3>3 DEF Lifecycle!Next
  <2> QED BY <2>4, <2>5
<1> QED BY <1>2, <1>3, <1>4 DEF FlightsStep

\* Monitoring's property LifecycleSpec: a delay, an emergency, a restart in
\* between, the flight never goes back.
THEOREM LifecycleIsImplemented == Spec => LifecycleSpec
<1>1. Init => Lifecycle!Init
  <2> SUFFICES ASSUME Init PROVE Lifecycle!Init
    OBVIOUS
  <2>1. flights = [f \in SeedFlights |-> "SCHEDULED"]
    BY DEF Init, Operations!Init, Operations!DatabaseInit
  <2> QED BY <2>1, SeedAssumption DEF Lifecycle!Init, PhaseOf
<1>2. TypeOK /\ [Next]_vars => [Lifecycle!Next]_PhasesNow
  BY NextFlightsStep, FlightsStepRefines
<1> QED BY <1>1, <1>2, TypeCorrect, PTL
        DEF Spec, LifecycleSpec, Lifecycle!Spec, PhasesNow
-----------------------------------------------------------------------------
(* What the ATC log tells never goes back                                  *)

\* How far a flight of a status is, in each of the three answers.
ClearanceOf(status) ==
  CASE status \in {"SCHEDULED", "APPROACHING"} -> 0 [] status = "CANCELLED" -> 2 [] OTHER -> 1

DepartureOf(status) ==
  CASE status = "DEPARTED" -> 1 [] status = "COMPLETED" -> 2 [] status = "CANCELLED" -> 3
    [] OTHER -> 0

ArrivalOf(status) ==
  CASE status = "SCHEDULED" -> 0 [] status = "APPROACHING" -> 1
    [] status \in {"ARRIVED", "EMERGENCY_LANDING"} -> 2 [] OTHER -> 3

\* No edge of the table leads back in any of them.
LEMMA EdgesGoForward ==
  ASSUME NEW from \in FlightStatuses, NEW to \in Successors(from)
  PROVE  /\ ClearanceOf(from) <= ClearanceOf(to)
         /\ DepartureOf(from) <= DepartureOf(to)
         /\ ArrivalOf(from) <= ArrivalOf(to)
  BY DEF FlightStatuses, Successors, ClearanceOf, DepartureOf, ArrivalOf

\* The stages of a row are numbers, so rows are ordered.
LEMMA StagesAreNumbers ==
  ASSUME NEW row \in AtcRows
  PROVE  /\ ClearanceStage[row.clearance] \in Int
         /\ DepartureStage(row.departure) \in Int
         /\ ArrivalStage(row.arrival) \in Int
<1>1. row.clearance \in {"PENDING", "HOLD", "GRANTED", "DENIED"}
  BY DEF AtcRows, ATCClearances
<1>2. ClearanceStage[row.clearance] \in Int
  BY <1>1 DEF ClearanceStage
<1> QED BY <1>2 DEF DepartureStage, ArrivalStage

LEMMA NoLaterIsAnOrder ==
  ASSUME NEW first \in AtcRows, NEW second \in AtcRows, NEW third \in AtcRows
  PROVE  /\ NoLater(first, first)
         /\ NoLater(first, second) /\ NoLater(second, third) => NoLater(first, third)
  BY StagesAreNumbers DEF NoLater

\* The stages of an answer are those of the status it is derived from.
AnswersFollowStatus ==
  \A f \in DOMAIN flights :
    /\ ClearanceStage[AtcStatus(f).clearance] = ClearanceOf(flights[f])
    /\ DepartureStage(AtcStatus(f).departure) = DepartureOf(flights[f])
    /\ ArrivalStage(AtcStatus(f).arrival) = ArrivalOf(flights[f])

LEMMA AnswerStages == TypeOK => AnswersFollowStatus
<1> SUFFICES ASSUME TypeOK, NEW f \in DOMAIN flights
    PROVE  /\ ClearanceStage[AtcStatus(f).clearance] = ClearanceOf(flights[f])
           /\ DepartureStage(AtcStatus(f).departure) = DepartureOf(flights[f])
           /\ ArrivalStage(AtcStatus(f).arrival) = ArrivalOf(flights[f])
  BY DEF AnswersFollowStatus
<1>1. flights[f] \in FlightStatuses /\ FlightStatusOf(f) = flights[f]
  BY FlightStatusTexts DEF TypeOK, DatabaseTypeOK, FlightStatusOf
<1>2. AtcStatus(f).clearance = GetATCClearance(f)
  BY DEF AtcStatus, ToText, Enumerators, ATCClearances, GetATCClearance
<1>3. ClearanceStage[GetATCClearance(f)] = ClearanceOf(flights[f])
  BY <1>1 DEF GetATCClearance, ClearanceStage, ClearanceOf, FlightStatuses
<1>4. DepartureStage(GetDepartureStatus(f)) = DepartureOf(flights[f])
  BY <1>1 DEF GetDepartureStatus, DepartureStage, DepartureOf, FlightStatuses
<1>5. ArrivalStage(GetArrivalStatus(f)) = ArrivalOf(flights[f])
  BY <1>1 DEF GetArrivalStatus, ArrivalStage, ArrivalOf, FlightStatuses
<1> QED BY <1>2, <1>3, <1>4, <1>5 DEF AtcStatus

\* The next answer about a flight is no earlier than the one of now.
LEMMA AnswersGoForward ==
  ASSUME TypeOK, TypeOK', FlightsStep, NEW f \in DOMAIN flights
  PROVE  /\ f \in DOMAIN flights'
         /\ NoLater(AtcStatus(f), AtcStatus(f)')
<1>1. flights \in [DOMAIN flights -> FlightStatuses]
  BY DEF TypeOK, DatabaseTypeOK
<1>2. /\ f \in DOMAIN flights'
      /\ flights'[f] = flights[f] \/ flights'[f] \in Successors(flights[f])
  BY <1>1, FlightStatusTexts
  DEF FlightsStep, AddsFlight, MovesFlight, Inserted, StatusUpdated, FlightStatusOf
<1>3. /\ ClearanceOf(flights[f]) <= ClearanceOf(flights'[f])
      /\ DepartureOf(flights[f]) <= DepartureOf(flights'[f])
      /\ ArrivalOf(flights[f]) <= ArrivalOf(flights'[f])
  <2>1. CASE flights'[f] = flights[f]
    BY <2>1 DEF ClearanceOf, DepartureOf, ArrivalOf
  <2>2. CASE flights'[f] \in Successors(flights[f])
    BY <1>1, <2>2, EdgesGoForward
  <2> QED BY <1>2, <2>1, <2>2
<1>4. AnswersFollowStatus /\ AnswersFollowStatus'
  BY AnswerStages, PTL
<1> QED BY <1>2, <1>3, <1>4 DEF AnswersFollowStatus, NoLater
\* What a step of the program does to the ATC's log.
LogStep ==
  \/ UNCHANGED atcLog
  \/ \E f \in DOMAIN flights : atcLog' = Append(atcLog, AtcStatus(f)) /\ UNCHANGED flights

LEMMA NextLogStep == [Next]_vars => LogStep
  BY DEF Next, OperationStep, ViewStep, Restart, ViewCommand, RejectView, ViewATC,
         ViewWeather, BeginMonitor, EndMonitor, GetFlightStatus, tablesAndGenerators,
         vars, monitorVars, LogStep

\* The rows there were are behind a flight that has moved on; the row that is
\* appended is the answer of now.
LEMMA FeedStaysBehind ==
  ASSUME TypeOK, TypeOK', FeedIsBehind, FlightsStep, LogStep
  PROVE  FeedIsBehind'
<1>1. atcLog \in Seq(AtcRows) /\ atcLog' \in Seq(AtcRows)
  BY DEF TypeOK, MonitorTypeOK, AtcTypeOK
<1>2. ASSUME NEW i \in DOMAIN atcLog
      PROVE  \E f \in DOMAIN flights' :
               atcLog[i].flight = f /\ NoLater(atcLog[i], AtcStatus(f)')
  <2>1. PICK f \in DOMAIN flights : atcLog[i].flight = f /\ NoLater(atcLog[i], AtcStatus(f))
    BY <1>2 DEF FeedIsBehind
  <2>2. f \in DOMAIN flights' /\ NoLater(AtcStatus(f), AtcStatus(f)')
    BY AnswersGoForward
  <2>3. atcLog[i] \in AtcRows /\ AtcStatus(f) \in AtcRows
    BY <1>1, <1>2, AnswersAreRows
  <2>4. \A g \in DOMAIN flights' : AtcStatus(g)' \in AtcRows
    <3>1. AnswersTyped'
      BY AnswersAlwaysRows, PTL
    <3> QED BY <3>1 DEF AnswersTyped
  <2>5. NoLater(atcLog[i], AtcStatus(f)')
    BY <2>1, <2>2, <2>3, <2>4, NoLaterIsAnOrder
  <2> QED BY <2>1, <2>2, <2>5
<1>3. CASE UNCHANGED atcLog
  BY <1>2, <1>3 DEF FeedIsBehind
<1>4. ASSUME NEW f \in DOMAIN flights, atcLog' = Append(atcLog, AtcStatus(f)),
             UNCHANGED flights
      PROVE  FeedIsBehind'
  <2>1. AtcStatus(f)' = AtcStatus(f)
    BY <1>4 DEF AtcStatus, GetATCClearance, GetDepartureStatus, GetArrivalStatus,
                FlightStatusOf
  <2>2. AtcStatus(f) \in AtcRows /\ AtcStatus(f).flight = f
    BY AnswersAreRows DEF AtcStatus
  <2>3. SUFFICES ASSUME NEW i \in DOMAIN atcLog'
                 PROVE  \E g \in DOMAIN flights' :
                          atcLog'[i].flight = g /\ NoLater(atcLog'[i], AtcStatus(g)')
    BY DEF FeedIsBehind
  <2>4. CASE i \in DOMAIN atcLog
    <3>1. atcLog'[i] = atcLog[i]
      BY <1>1, <1>4, <2>2, <2>4
    <3> QED BY <1>2, <2>4, <3>1
  <2>5. CASE i \notin DOMAIN atcLog
    <3>1. atcLog'[i] = AtcStatus(f)
      BY <1>1, <1>4, <2>2, <2>3, <2>5
    <3>2. NoLater(AtcStatus(f), AtcStatus(f)')
      BY <2>1, <2>2, NoLaterIsAnOrder
    <3> QED BY <1>4, <2>2, <3>1, <3>2
  <2> QED BY <2>4, <2>5
<1> QED BY <1>3, <1>4 DEF LogStep

\* Two rows of the log stay as they are; the one that is appended is the
\* answer of now, and the rows there were are behind it.
LEMMA FeedStaysInOrder ==
  ASSUME TypeOK, FeedIsBehind, FeedNeverGoesBack, LogStep
  PROVE  FeedNeverGoesBack'
<1>1. atcLog \in Seq(AtcRows)
  BY DEF TypeOK, MonitorTypeOK, AtcTypeOK
<1>2. CASE UNCHANGED atcLog
  BY <1>2 DEF FeedNeverGoesBack, NoLater
<1>3. ASSUME NEW f \in DOMAIN flights, atcLog' = Append(atcLog, AtcStatus(f))
      PROVE  FeedNeverGoesBack'
  <2>1. AtcStatus(f) \in AtcRows /\ AtcStatus(f).flight = f
    BY AnswersAreRows DEF AtcStatus
  <2>2. \A i \in DOMAIN atcLog : atcLog'[i] = atcLog[i]
    BY <1>1, <1>3, <2>1
  <2>3. \A i \in DOMAIN atcLog' \ DOMAIN atcLog : i = Len(atcLog) + 1 /\ atcLog'[i] = AtcStatus(f)
    BY <1>1, <1>3, <2>1
  <2>4. DOMAIN atcLog = 1 .. Len(atcLog) /\ Len(atcLog) \in Nat
    BY <1>1
  <2>5. SUFFICES ASSUME NEW i \in DOMAIN atcLog', NEW j \in DOMAIN atcLog',
                        i < j, atcLog'[i].flight = atcLog'[j].flight
                 PROVE  NoLater(atcLog'[i], atcLog'[j])
    BY DEF FeedNeverGoesBack
  <2>6. i \in DOMAIN atcLog
    BY <1>1, <1>3, <2>1, <2>3, <2>4, <2>5
  <2>7. CASE j \in DOMAIN atcLog
    BY <2>2, <2>5, <2>6, <2>7 DEF FeedNeverGoesBack
  <2>8. CASE j \notin DOMAIN atcLog
    <3>1. atcLog'[j] = AtcStatus(f) /\ atcLog'[i] = atcLog[i]
      BY <2>2, <2>3, <2>6, <2>8
    <3>2. atcLog[i].flight = f
      BY <2>1, <2>5, <3>1
    <3> QED BY <2>6, <3>1, <3>2 DEF FeedIsBehind
  <2> QED BY <2>7, <2>8
<1> QED BY <1>2, <1>3 DEF LogStep

\* Only BeginMonitor leaves a monitor waiting, having read what it waits with.
LEMMA MonitorKeepsProgress ==
  ASSUME TypeOK, TypeOK', MonitorProgress, [Next]_vars
  PROVE  MonitorProgress'
<1>1. CASE UNCHANGED vars
  BY <1>1 DEF vars, tablesAndGenerators, monitorVars, MonitorProgress, AtcStatus,
              GetATCClearance, GetDepartureStatus, GetArrivalStatus, FlightStatusOf
<1>2. CASE OperationStep \/ Restart
  <2>1. CASE operation \in Operations!Operations
    <3>1. Operations!Next
      BY <1>2 DEF OperationStep, Restart, Operations!Next
    <3>2. Operations!TypeOK'
      BY <2>1, <3>1, TypeOKParts, OperationProofs!NextTypeOK, SameOperations,
         ServiceConstants, ScheduleAssumption, OperationAssumption, SeedAssumption,
         ResourceAssumption
      DEF Resources, OperationProofs!Resources
    <3>3. operation'.step # "observeWeather"
      BY <3>2
      DEF Operations!TypeOK, Operations!Operations, Operations!AtMenu,
          Operations!CreateOperations, Operations!DelayOperations,
          Operations!EmergencyOperations
    <3> QED BY <3>3 DEF MonitorProgress
  <2>2. CASE operation \in MonitorOperations
    <3>1. Operations!StatementFails \/ Operations!Restart
      BY <1>2, <2>2, MonitorWaits DEF MonitorOperations, OperationStep, Restart
    <3>2. operation'.step # "observeWeather"
      BY <3>1 DEF Operations!StatementFails, Operations!Restart, Operations!Finish,
                  Operations!AtMenu
    <3> QED BY <3>2 DEF MonitorProgress
  <2> QED BY <2>1, <2>2 DEF TypeOK
<1>3. ASSUME NEW f \in Flights, BeginMonitor(f), UNCHANGED flights
      PROVE  MonitorProgress'
  <2>1. f \in DOMAIN flights /\ atcLog' = Append(atcLog, AtcStatus(f))
    BY <1>3 DEF BeginMonitor, GetFlightStatus
  <2>2. atcLog \in Seq(AtcRows) /\ AtcStatus(f) \in AtcRows
    BY <2>1, AnswersAreRows DEF TypeOK, MonitorTypeOK, AtcTypeOK
  <2>3. atcLog' # << >> /\ LastOf(atcLog') = AtcStatus(f)
    BY <2>1, <2>2 DEF LastOf
  <2>4. FlightStatusOf(f) = flights[f]
    BY <2>1, FlightStatusTexts DEF TypeOK, DatabaseTypeOK, FlightStatusOf
  <2>5. AtcStatus(f)' = AtcStatus(f)
    BY <1>3 DEF AtcStatus, GetATCClearance, GetDepartureStatus, GetArrivalStatus,
                FlightStatusOf
  <2>6. operation' = [step |-> "observeWeather", flight |-> f,
                      status |-> FlightStatusOf(f), atc |-> AtcStatus(f)]
    BY <1>3 DEF BeginMonitor, Continue
  <2> QED BY <1>3, <2>1, <2>3, <2>4, <2>5, <2>6 DEF MonitorProgress
<1>4. CASE ViewStep
  <2>1. UNCHANGED flights
    BY <1>4 DEF ViewStep, tablesAndGenerators
  <2>2. ASSUME operation' = AtMenu
        PROVE  MonitorProgress'
    BY <2>2 DEF AtMenu, MonitorProgress
  <2> QED BY <1>3, <1>4, <2>1, <2>2
          DEF ViewStep, ViewCommand, RejectView, ViewATC, ViewWeather, EndMonitor, Finish
<1> QED BY <1>1, <1>2, <1>4 DEF Next

\* The invariant that FeedNeverGoesBack rests on: the rows of the log are not
\* ahead of the flights they are about, so the next row may be appended.
THEOREM InductiveInvariant == Spec => []IInv
<1>1. Init => IInv
  <2> SUFFICES ASSUME Init PROVE IInv
    OBVIOUS
  <2>1. atcLog = << >> /\ operation.step # "observeWeather"
    BY DEF Init, MonitorInit, AtcInit, Operations!Init, Operations!FlightInit,
           Operations!AtMenu
  <2>2. MonitorProgress /\ FeedIsBehind /\ FeedNeverGoesBack
    BY <2>1 DEF MonitorProgress, FeedIsBehind, FeedNeverGoesBack
  <2> QED BY <2>2, InitTypeOK DEF IInv
<1>2. IInv /\ [Next]_vars => IInv'
  BY NextTypeOK, NextFlightsStep, NextLogStep, FeedStaysBehind, FeedStaysInOrder,
     MonitorKeepsProgress DEF IInv
<1> QED BY <1>1, <1>2, PTL DEF Spec

\* Monitoring's invariant FeedNeverGoesBack, of a log of any length.
THEOREM FeedNeverGoesBackHolds == Spec => []FeedNeverGoesBack
<1>1. IInv => FeedNeverGoesBack
  BY DEF IInv
<1> QED BY <1>1, InductiveInvariant, PTL
-----------------------------------------------------------------------------
(* What a snapshot shows                                                   *)

\* A step that shows a snapshot is the end of a monitor, from a reading that
\* it logs, and what it had read of the flight before is still so.
LEMMA SnapshotsShown ==
  ASSUME IInv, [Next]_vars, ~ UNCHANGED vars, snapshot' # NoSnapshot
  PROVE  \E data \in Readings :
           /\ weatherLog' = Append(weatherLog, data)
           /\ snapshot' = Snapshot(data)
           /\ atcLog' = atcLog /\ atcLog # << >> /\ LastOf(atcLog) = operation.atc
           /\ operation.flight \in DOMAIN flights
           /\ operation.status = flights[operation.flight]
           /\ operation.atc = AtcStatus(operation.flight)
<1>1. EndMonitor
  BY DEF Next, OperationStep, Restart, ViewStep, ViewCommand, RejectView, ViewATC,
         ViewWeather, BeginMonitor
<1>2. PICK data \in Readings : GetCurrentWeather(data) /\ snapshot' = Snapshot(data)
  BY <1>1 DEF EndMonitor
<1>3. weatherLog' = Append(weatherLog, data)
  BY <1>2, ReadingsAreLogged DEF GetCurrentWeather
<1> QED BY <1>1, <1>2, <1>3 DEF EndMonitor, IInv, MonitorProgress

\* Monitoring's property SnapshotIsLogged.
THEOREM SnapshotIsLoggedHolds == Spec => SnapshotIsLogged
<1> DEFINE Shown ==
             snapshot' # NoSnapshot =>
               /\ atcLog' # << >> /\ LastOf(atcLog') = snapshot'.atc
               /\ LastOf(weatherLog') = snapshot'.weather
               /\ snapshot'.atc = AtcStatus(snapshot'.flight)
               /\ snapshot'.status = flights[snapshot'.flight]
<1>1. IInv /\ [Next]_vars => [Shown]_vars
  <2> SUFFICES ASSUME IInv, [Next]_vars, ~ UNCHANGED vars, snapshot' # NoSnapshot
      PROVE  Shown
    OBVIOUS
  <2>1. PICK data \in Readings :
           /\ weatherLog' = Append(weatherLog, data)
           /\ snapshot' = Snapshot(data)
           /\ atcLog' = atcLog /\ atcLog # << >> /\ LastOf(atcLog) = operation.atc
           /\ operation.flight \in DOMAIN flights
           /\ operation.status = flights[operation.flight]
           /\ operation.atc = AtcStatus(operation.flight)
    BY SnapshotsShown
  <2>2. /\ snapshot'.flight = operation.flight /\ snapshot'.status = operation.status
        /\ snapshot'.atc = operation.atc /\ snapshot'.weather = data
    BY <2>1 DEF Snapshot
  <2>3. weatherLog \in Seq(WeatherData) /\ data \in WeatherData
    BY ReadingsAreLogged DEF IInv, TypeOK, MonitorTypeOK, WeatherTypeOK
  <2>4. LastOf(weatherLog') = data
    BY <2>1, <2>3 DEF LastOf
  <2> QED BY <2>1, <2>2, <2>4
<1> QED BY <1>1, InductiveInvariant, PTL DEF Spec, SnapshotIsLogged

\* Monitoring's property ProblemsAreReported: of every flight and of all the
\* weather that can be drawn.
THEOREM ProblemsAreReportedHolds == Spec => ProblemsAreReported
<1> DEFINE Reported ==
             snapshot' # NoSnapshot =>
               (snapshot'.issues = {} <=>
                  /\ flights[snapshot'.flight]
                       \notin {"DELAYED", "CANCELLED", "EMERGENCY_LANDING"}
                  /\ snapshot'.alert \in {"NONE", "ADVISORY"})
<1>1. IInv /\ [Next]_vars => [Reported]_vars
  <2> SUFFICES ASSUME IInv, [Next]_vars, ~ UNCHANGED vars, snapshot' # NoSnapshot
      PROVE  Reported
    OBVIOUS
  <2> DEFINE f == operation.flight
             status == operation.status
  <2>1. PICK data \in Readings :
           /\ snapshot' = Snapshot(data)
           /\ f \in DOMAIN flights /\ status = flights[f]
           /\ operation.atc = AtcStatus(f)
    BY SnapshotsShown
  <2> DEFINE alert == CheckWeatherAlert(data)
  <2>2. /\ snapshot'.flight = f /\ snapshot'.alert = alert
        /\ snapshot'.issues = DetectedIssues(status, operation.atc, alert)
    BY <2>1 DEF Snapshot
  <2>3. status \in FlightStatuses /\ FlightStatusOf(f) = status
    BY <2>1, FlightStatusTexts DEF IInv, TypeOK, DatabaseTypeOK, FlightStatusOf
  <2>4. operation.atc.clearance = GetATCClearance(f)
    BY <2>1 DEF AtcStatus, ToText, Enumerators, ATCClearances, GetATCClearance
  <2>5. /\ operation.atc.clearance = "HOLD" <=> status \in {"EMERGENCY_LANDING", "DELAYED"}
        /\ operation.atc.clearance = "DENIED" <=> status = "CANCELLED"
    BY <2>1, <2>3, <2>4 DEF GetATCClearance, FlightStatuses
  <2>6. RequiresAttention(alert) <=> alert \notin {"NONE", "ADVISORY"}
    BY DEF RequiresAttention, CheckWeatherAlert
  <2>7. snapshot'.issues = {} <=>
          /\ ~ RequiresAttention(alert)
          /\ operation.atc.clearance # "HOLD" /\ operation.atc.clearance # "DENIED"
          /\ status # "EMERGENCY_LANDING"
    BY <2>2 DEF DetectedIssues, Issues
  <2> QED BY <2>1, <2>2, <2>5, <2>6, <2>7
<1> QED BY <1>1, InductiveInvariant, PTL DEF Spec, ProblemsAreReported

\* The three thresholds of the alert against the levels of the measures.
LEMMA AlertOfTheWorst ==
  ASSUME NEW data \in WeatherData
  PROVE  LET levels == MeasureLevels(data)
             level  == LevelOf(CheckWeatherAlert(data))
         IN  level \in levels /\ \A l \in levels : l <= level
<1>1. /\ data.wind \in Int /\ data.visibility \in Int /\ data.precipitation \in Int
      /\ data.wind <= 60
  BY DEF WeatherData
<1> DEFINE w == CASE data.wind >= 50 -> 3 [] data.wind \in 35 .. 49 -> 2
                  [] data.wind \in 20 .. 34 -> 1 [] data.wind < 20 -> 0
           v == CASE data.visibility < 10 -> 3 [] data.visibility \in 10 .. 29 -> 2
                  [] data.visibility >= 30 -> 0
           p == CASE data.precipitation >= 20 -> 2 [] data.precipitation \in 10 .. 19 -> 1
                  [] data.precipitation < 10 -> 0
           c == CASE data.condition = "STORM" -> 3 [] data.condition = "FOG" -> 2
                  [] data.condition \notin {"STORM", "FOG"} -> 0
<1>2. MeasureLevels(data) = {w, v, p, c}
  BY DEF MeasureLevels
<1>3. w \in 0 .. 3 /\ v \in {0, 2, 3} /\ p \in 0 .. 2 /\ c \in {0, 2, 3}
  BY <1>1
<1>4. IsSevere(data) <=> w = 3 \/ v = 3 \/ c = 3
  BY <1>1 DEF IsSevere
<1>5. IsDegraded(data) <=> w >= 2 \/ v >= 2 \/ p = 2 \/ c = 2 \/ data.condition = "FOG"
  BY <1>1 DEF IsDegraded
<1>6. data.condition = "FOG" <=> c = 2
  OBVIOUS
<1>7. IsMinor(data) <=> w >= 1 \/ p >= 1
  BY <1>1 DEF IsMinor
<1> HIDE DEF w, v, p, c
<1> QED BY <1>2, <1>3, <1>4, <1>5, <1>6, <1>7 DEF CheckWeatherAlert, LevelOf

\* Monitoring's property AlertIsTheWorstMeasure.
THEOREM AlertIsTheWorstMeasureHolds == Spec => AlertIsTheWorstMeasure
<1> DEFINE Worst ==
             snapshot' # NoSnapshot =>
               LET levels == MeasureLevels(snapshot'.weather)
                   level  == LevelOf(snapshot'.alert)
               IN  level \in levels /\ \A l \in levels : l <= level
<1>1. IInv /\ [Next]_vars => [Worst]_vars
  <2> SUFFICES ASSUME IInv, [Next]_vars, ~ UNCHANGED vars, snapshot' # NoSnapshot
      PROVE  Worst
    OBVIOUS
  <2>1. PICK data \in Readings : snapshot' = Snapshot(data)
    BY SnapshotsShown
  <2>2. snapshot'.weather = data /\ snapshot'.alert = CheckWeatherAlert(data)
    BY <2>1 DEF Snapshot
  <2> QED BY <2>2, ReadingsAreLogged, AlertOfTheWorst
<1> QED BY <1>1, InductiveInvariant, PTL DEF Spec, AlertIsTheWorstMeasure
=============================================================================
