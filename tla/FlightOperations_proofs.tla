------------------------ MODULE FlightOperations_proofs ------------------------
(***************************************************************************)
(* Proofs about FlightOperations: FlightService, DelayService and          *)
(* EmergencyService on one database, for every value of their constants.   *)
(* TypeOK first, then the inductive invariant IInv, one lemma for the      *)
(* steps of each service, and the properties that follow from it.          *)
(***************************************************************************)
EXTENDS FlightOperations, AirportDatabase_proofs

-----------------------------------------------------------------------------
(* Type correctness                                                        *)

\* The step of an operation tells which handler it is in.
LEMMA OperationCases ==
  ASSUME operation \in Operations
  PROVE  /\ operation.step = "saveSchedule" => operation \in CreateOperations
         /\ operation.step \in {"recordDelay", "delayFlight", "shiftSchedule"} =>
              operation \in [step : {"recordDelay", "delayFlight", "shiftSchedule"},
                             flight : Flights, minutes : Int, id : Nat]
         /\ operation.step = "checkResources" =>
              operation \in [step : {"checkResources"}, flight : Flights, minutes : Int,
                             id : Nat, window : TimeWindows]
         /\ operation.step \in {"saveEmergency", "markHandling"} =>
              operation \in EmergencyOperations
         /\ operation.step = "menu" <=> operation = AtMenu
  BY DEF Operations, AtMenu, CreateOperations, DelayOperations, EmergencyOperations

LEMMA EndedOutcomes ==
  \A kind \in {"none", "done", "exception"} : Ended(kind) \in Outcomes
  BY DEF Ended, Outcomes

\* The tables and generators, without the handler in progress.
TablesTypeOK ==
  /\ DatabaseTypeOK
  /\ DOMAIN schedules \subseteq Nat
  /\ schedules \in [DOMAIN schedules -> ScheduleRows]
  /\ nextScheduleId \in Nat
  /\ DelayTypeOK
  /\ EmergencyTypeOK

LEMMA TypeOKParts ==
  TypeOK <=> TablesTypeOK /\ outcome \in Outcomes /\ operation \in Operations
  BY DEF TypeOK, FlightTypeOK, TablesTypeOK

LEMMA InitTypeOK == Init => TypeOK
<1> SUFFICES ASSUME Init PROVE TypeOK
  OBVIOUS
<1>1. DatabaseTypeOK
  BY SeedAssumption DEF Init, DatabaseInit, DatabaseTypeOK, FlightStatuses, ResourceStatuses
<1>2. FlightTypeOK /\ operation \in Operations
  BY ScheduleAssumption, EndedOutcomes DEF Init, FlightInit, FlightTypeOK, Operations
<1>3. DelayTypeOK /\ EmergencyTypeOK
  BY DEF Init, DelayInit, DelayTypeOK, EmergencyInit, EmergencyTypeOK
<1> QED BY <1>1, <1>2, <1>3 DEF TypeOK

\* A change of the flights table alone.
LEMMA FlightsTypeOK ==
  ASSUME DatabaseTypeOK, UNCHANGED allocationTables,
         DOMAIN flights' \subseteq Flights,
         flights' \in [DOMAIN flights' -> FlightStatuses]
  PROVE  DatabaseTypeOK'
  BY DEF DatabaseTypeOK, allocationTables

\* A flight that is added, and one that changes its status.
LEMMA NewStatusTypeOK ==
  ASSUME DatabaseTypeOK, UNCHANGED allocationTables,
         NEW f, NEW status \in FlightStatuses,
         \/ f \in Flights /\ flights' = Inserted(flights, f, status)
         \/ flights' = StatusUpdated(flights, f, status)
  PROVE  DatabaseTypeOK'
<1>1. DOMAIN flights' \subseteq Flights /\ flights' \in [DOMAIN flights' -> FlightStatuses]
  <2>1. CASE f \in Flights /\ flights' = Inserted(flights, f, status)
    BY <2>1 DEF Inserted, DatabaseTypeOK
  <2>2. CASE flights' = StatusUpdated(flights, f, status)
    BY <2>2 DEF StatusUpdated, DatabaseTypeOK
  <2> QED BY <2>1, <2>2
<1> QED BY <1>1, FlightsTypeOK

\* createFlight and the manager's transitions.
LEMMA FlightServiceTypeOK ==
  ASSUME TypeOK, CreateCommand \/ StatusCommand \/ SaveSchedule,
         UNCHANGED <<allocationTables, delayVars, emergencyVars>>
  PROVE  TypeOK'
<1>1. TablesTypeOK
  BY TypeOKParts
<1>2. DelayTypeOK' /\ EmergencyTypeOK'
  BY <1>1 DEF TablesTypeOK, DelayTypeOK, EmergencyTypeOK, delayVars, emergencyVars
<1>3. ASSUME NEW f \in Flights, RejectFlight(f)
      PROVE  TypeOK'
  BY <1>1, <1>2, <1>3, EndedOutcomes
  DEF RejectFlight, Finish, TypeOK, FlightTypeOK, TablesTypeOK, DatabaseTypeOK,
      Operations, allocationTables
<1>4. ASSUME NEW f \in Flights, NEW window \in EnteredWindows, SaveFlight(f, window)
      PROVE  TypeOK'
  <2>1. DatabaseTypeOK'
    BY <1>1, <1>4, NewStatusTypeOK DEF SaveFlight, TablesTypeOK, FlightStatuses
  <2>2. FlightTypeOK' /\ operation' \in CreateOperations
    BY <1>1, <1>4, ScheduleAssumption, EndedOutcomes
    DEF SaveFlight, Continue, TablesTypeOK, FlightTypeOK, CreateOperations
  <2> QED BY <1>2, <2>1, <2>2 DEF TypeOK, Operations
<1>5. CASE SaveSchedule
  <2>1. operation \in CreateOperations
    BY <1>5, OperationCases DEF SaveSchedule, TypeOK
  <2>2. DOMAIN schedules' \subseteq Nat /\ schedules' \in [DOMAIN schedules' -> ScheduleRows]
    BY <1>1, <1>5, <2>1
    DEF SaveSchedule, ScheduleSaved, Inserted, TablesTypeOK, ScheduleRows, CreateOperations
  <2> QED BY <1>1, <1>2, <1>5, <2>2, EndedOutcomes
          DEF SaveSchedule, Finish, TypeOK, FlightTypeOK, TablesTypeOK, DatabaseTypeOK,
              Operations, allocationTables
<1>6. ASSUME NEW f \in Flights, NEW status \in ManagerStatuses,
             ChangeStatus(f, status) \/ RejectStatus(f, status)
      PROVE  TypeOK'
  <2>1. DatabaseTypeOK'
    <3>1. CASE ChangeStatus(f, status)
      <4>1. ToText(status) = status /\ status \in FlightStatuses
        BY FlightStatusTexts DEF ManagerStatuses, FlightStatuses
      <4> QED BY <1>1, <3>1, <4>1, NewStatusTypeOK DEF ChangeStatus, TablesTypeOK
    <3>2. CASE RejectStatus(f, status)
      BY <1>1, <3>2 DEF RejectStatus, TablesTypeOK, DatabaseTypeOK, allocationTables
    <3> QED BY <1>6, <3>1, <3>2
  <2> QED BY <1>1, <1>2, <1>6, <2>1, EndedOutcomes
          DEF ChangeStatus, RejectStatus, Finish, TypeOK, FlightTypeOK, TablesTypeOK,
              Operations
<1> QED BY <1>3, <1>4, <1>5, <1>6 DEF CreateCommand, StatusCommand

\* applyDelay.
LEMMA DelayServiceTypeOK ==
  ASSUME TypeOK, DelayCommand \/ AdvanceDelay,
         UNCHANGED <<allocationTables, nextScheduleId, emergencyVars>>
  PROVE  TypeOK'
<1> DEFINE DelaySteps == [step : {"recordDelay", "delayFlight", "shiftSchedule"},
                          flight : Flights, minutes : Int, id : Nat]
<1>1. TablesTypeOK /\ DelaySteps \subseteq Operations
  BY TypeOKParts DEF Operations, DelayOperations
<1>2. EmergencyTypeOK'
  BY <1>1 DEF TablesTypeOK, EmergencyTypeOK, emergencyVars
<1>3. ASSUME UNCHANGED <<flights, schedules, delays>>, nextDelayId' \in Nat,
             operation' \in Operations, outcome' \in Outcomes
      PROVE  TypeOK'
  BY <1>1, <1>2, <1>3
  DEF TypeOK, FlightTypeOK, DelayTypeOK, TablesTypeOK, DatabaseTypeOK, allocationTables
<1>4. ASSUME NEW f \in Flights, NEW minutes \in EnteredMinutes, RejectDelay(f, minutes)
      PROVE  TypeOK'
  BY <1>1, <1>3, <1>4, EndedOutcomes
  DEF RejectDelay, Finish, Operations, TablesTypeOK, DelayTypeOK
<1>5. ASSUME NEW f \in Flights, NEW minutes \in EnteredMinutes, BeginDelay(f, minutes)
      PROVE  TypeOK'
  <2>1. operation' \in DelaySteps /\ nextDelayId' \in Nat
    BY <1>1, <1>5, DelayAssumption DEF BeginDelay, Continue, TablesTypeOK, DelayTypeOK
  <2> QED BY <1>1, <1>3, <1>5, <2>1, EndedOutcomes DEF BeginDelay, Continue
<1>6. CASE RecordDelay
  <2>1. operation \in DelaySteps
    BY <1>6, OperationCases DEF RecordDelay, TypeOK
  <2>2. DelayTypeOK'
    BY <1>1, <1>6, <2>1 DEF RecordDelay, Inserted, DelayTypeOK, DelayRows, TablesTypeOK
  <2>3. operation' \in DelaySteps
    BY <1>6, <2>1 DEF RecordDelay, Continue
  <2> QED BY <1>1, <1>2, <1>6, <2>2, <2>3, EndedOutcomes
          DEF RecordDelay, Continue, TypeOK, FlightTypeOK, TablesTypeOK, DatabaseTypeOK,
              allocationTables
<1>7. CASE RecordRefused \/ DelayRefused \/ NoSchedule
  BY <1>1, <1>3, <1>7, EndedOutcomes
  DEF RecordRefused, DelayRefused, NoSchedule, Finish, Operations, TablesTypeOK, DelayTypeOK
<1>8. CASE DelayFlight
  <2>1. operation' \in DelaySteps
    <3>1. operation \in DelaySteps
      BY <1>8, OperationCases DEF DelayFlight, TypeOK
    <3> QED BY <1>8, <3>1 DEF DelayFlight, Continue
  <2>2. DatabaseTypeOK'
    BY <1>1, <1>8, NewStatusTypeOK DEF DelayFlight, TablesTypeOK, FlightStatuses
  <2> QED BY <1>1, <1>2, <1>8, <2>1, <2>2, EndedOutcomes
          DEF DelayFlight, Continue, TypeOK, FlightTypeOK, DelayTypeOK, TablesTypeOK
<1>9. CASE ShiftSchedule
  <2>1. operation \in DelaySteps
    BY <1>9, OperationCases DEF ShiftSchedule, TypeOK
  <2>2. PICK row \in SchedulesOf(operation.flight) :
          LET window == Shifted(schedules[row].estimated, operation.minutes)
          IN  /\ schedules' =
                   [s \in DOMAIN schedules |->
                      IF s \in SchedulesOf(operation.flight)
                      THEN [schedules[s] EXCEPT !.estimated = window]
                      ELSE schedules[s]]
              /\ Continue([step |-> "checkResources", flight |-> operation.flight,
                           minutes |-> operation.minutes, id |-> operation.id,
                           window |-> window])
    BY <1>9 DEF ShiftSchedule
  <2> DEFINE window == Shifted(schedules[row].estimated, operation.minutes)
  <2>3. schedules[row].estimated \in TimeWindows
    BY <1>1 DEF SchedulesOf, TablesTypeOK, ScheduleRows
  <2>4. window \in TimeWindows
    BY <2>1, <2>3 DEF Shifted, TimeWindows
  <2>5. DOMAIN schedules' \subseteq Nat /\ schedules' \in [DOMAIN schedules' -> ScheduleRows]
    BY <1>1, <2>2, <2>4 DEF TablesTypeOK, ScheduleRows
  <2>6. operation' \in Operations
    BY <2>1, <2>2, <2>4 DEF Continue, Operations, DelayOperations
  <2> QED BY <1>1, <1>2, <1>9, <2>2, <2>5, <2>6, EndedOutcomes
          DEF ShiftSchedule, Continue, TypeOK, FlightTypeOK, DelayTypeOK, TablesTypeOK,
              DatabaseTypeOK, allocationTables
<1>10. CASE ReportDelay
  <2>1. ResourceWarnings(operation.flight, operation.window) \subseteq Nat
    BY <1>1 DEF ResourceWarnings, TablesTypeOK, DatabaseTypeOK
  <2> QED BY <1>1, <1>3, <1>10, <2>1
          DEF ReportDelay, Outcomes, Operations, TablesTypeOK, DelayTypeOK
<1> QED BY <1>4, <1>5, <1>6, <1>7, <1>8, <1>9, <1>10 DEF DelayCommand, AdvanceDelay

\* Declaring, landing, handling and resolving an emergency.
LEMMA EmergencyServiceTypeOK ==
  ASSUME TypeOK, EmergencyCommand \/ AdvanceEmergency,
         UNCHANGED <<allocationTables, scheduleVars, delayVars>>
  PROVE  TypeOK'
<1>1. TablesTypeOK /\ EmergencyOperations \subseteq Operations
  BY TypeOKParts DEF Operations
<1>2. DelayTypeOK'
  BY <1>1 DEF TablesTypeOK, DelayTypeOK, delayVars
<1>3. ASSUME DatabaseTypeOK', EmergencyTypeOK', operation' \in Operations,
             outcome' \in Outcomes
      PROVE  TypeOK'
  BY <1>1, <1>2, <1>3 DEF TypeOK, FlightTypeOK, TablesTypeOK, scheduleVars
<1>4. UNCHANGED flights => DatabaseTypeOK'
  BY <1>1 DEF TablesTypeOK, DatabaseTypeOK, allocationTables
<1>5. UNCHANGED emergencies /\ nextEmergencyId' \in Nat => EmergencyTypeOK'
  BY <1>1 DEF TablesTypeOK, EmergencyTypeOK
<1>6. ASSUME NEW f \in Flights, RejectDeclaration(f) \/ DeclareEmergency(f)
      PROVE  TypeOK'
  <2>1. CASE RejectDeclaration(f)
    BY <1>1, <1>3, <1>4, <1>5, <2>1, EndedOutcomes
    DEF RejectDeclaration, Finish, Operations, TablesTypeOK, EmergencyTypeOK
  <2>2. CASE DeclareEmergency(f)
    <3>1. DatabaseTypeOK'
      BY <1>1, <2>2, NewStatusTypeOK DEF DeclareEmergency, TablesTypeOK, FlightStatuses
    <3>2. operation' \in EmergencyOperations /\ nextEmergencyId' \in Nat
      BY <1>1, <2>2
      DEF DeclareEmergency, Continue, EmergencyOperations, TablesTypeOK, EmergencyTypeOK
    <3> QED BY <1>1, <1>3, <1>5, <2>2, <3>1, <3>2, EndedOutcomes
            DEF DeclareEmergency, Continue
  <2> QED BY <1>6, <2>1, <2>2
<1>7. ASSUME NEW id,
             RejectEmergency(id) \/ RecordLanding(id) \/ ResolveEmergency(id)
      PROVE  TypeOK'
  <2>1. EmergencyTypeOK'
    BY <1>1, <1>7
    DEF RejectEmergency, RecordLanding, ResolveEmergency, TablesTypeOK, EmergencyTypeOK,
        EmergencyRows, EmergencyStatuses
  <2> QED BY <1>3, <1>4, <1>7, <2>1, EndedOutcomes
          DEF RejectEmergency, RecordLanding, ResolveEmergency, Finish, Operations
<1>8. ASSUME NEW f \in Flights, NEW id \in 1 .. MaxEmergencyId,
             RejectHandling(f, id) \/ BeginHandling(f, id)
      PROVE  TypeOK'
  <2>1. CASE RejectHandling(f, id)
    BY <1>1, <1>3, <1>4, <1>5, <2>1, EndedOutcomes
    DEF RejectHandling, Finish, Operations, TablesTypeOK, EmergencyTypeOK
  <2>2. CASE BeginHandling(f, id)
    <3>1. DatabaseTypeOK'
      BY <1>1, <2>2, NewStatusTypeOK DEF BeginHandling, TablesTypeOK, FlightStatuses
    <3>2. operation' \in EmergencyOperations
      BY <2>2, EmergencyAssumption DEF BeginHandling, Continue, EmergencyOperations
    <3> QED BY <1>1, <1>3, <1>5, <2>2, <3>1, <3>2, EndedOutcomes
            DEF BeginHandling, Continue, TablesTypeOK, EmergencyTypeOK
  <2> QED BY <1>8, <2>1, <2>2
<1>9. CASE SaveEmergency \/ SaveRefused \/ MarkHandling
  <2>1. operation \in EmergencyOperations
    BY <1>9, OperationCases DEF SaveEmergency, SaveRefused, MarkHandling, TypeOK
  <2>2. EmergencyTypeOK'
    <3>1. CASE SaveEmergency
      BY <1>1, <2>1, <3>1
      DEF SaveEmergency, Inserted, TablesTypeOK, EmergencyTypeOK, EmergencyRows,
          EmergencyStatuses, EmergencyOperations
    <3>2. CASE SaveRefused \/ MarkHandling
      BY <1>1, <3>2
      DEF SaveRefused, MarkHandling, TablesTypeOK, EmergencyTypeOK, EmergencyRows,
          EmergencyStatuses
    <3> QED BY <1>9, <3>1, <3>2
  <2> QED BY <1>3, <1>4, <1>9, <2>2, EndedOutcomes
          DEF SaveEmergency, SaveRefused, MarkHandling, Finish, Operations
<1> QED BY <1>6, <1>7, <1>8, <1>9 DEF EmergencyCommand, AdvanceEmergency

LEMMA NextTypeOK == TypeOK /\ [Next]_vars => TypeOK'
<1> SUFFICES ASSUME TypeOK, [Next]_vars PROVE TypeOK'
  OBVIOUS
<1>1. CASE Advance \/ AdministratorCommand \/ ManagerCommand
  BY <1>1, FlightServiceTypeOK, DelayServiceTypeOK, EmergencyServiceTypeOK
  DEF Advance, AdministratorCommand, ManagerCommand
<1>2. CASE StatementFails \/ Restart \/ UNCHANGED vars
  BY <1>2, ScheduleAssumption, EndedOutcomes
  DEF StatementFails, Restart, vars, tablesAndGenerators, allocationTables, scheduleVars,
      delayVars, emergencyVars, Finish, TypeOK, DatabaseTypeOK, FlightTypeOK, DelayTypeOK,
      EmergencyTypeOK, Operations
<1> QED BY <1>1, <1>2 DEF Next

\* Every state of the flight services has its type.
THEOREM TypeCorrect == Spec => []TypeOK
  BY InitTypeOK, NextTypeOK, PTL DEF Spec

-----------------------------------------------------------------------------
(* The inductive invariant                                                 *)

\* IInv without TypeOK, which NextTypeOK takes care of, and without what it
\* says of the estimates (EstimateStep): what the tables say, and how far the
\* handler has come.
History ==
  /\ RowsHaveFlights
  /\ OneSchedulePerFlight
  /\ DelayedMeansRecorded
  /\ OneEmergencyPerFlight
  /\ EmergencyEntersTheLifecycle
  /\ HandlingFollowsFlight

Progress == CreateProgress /\ DelayProgress /\ EmergencyProgress

LEMMA IInvParts == IInv <=> TypeOK /\ History /\ Progress /\ EstimateProgress
  BY DEF IInv, History, Progress

\* A handler that ends leaves no progress to account for.
LEMMA MenuProgress ==
  ASSUME operation' = AtMenu
  PROVE  Progress'
  BY DEF Progress, CreateProgress, DelayProgress, EmergencyProgress, AtMenu

LEMMA SameHistory ==
  ASSUME History, UNCHANGED <<flights, schedules, delays, emergencies>>
  PROVE  History'
  BY DEF History, RowsHaveFlights, OneSchedulePerFlight, DelayedMeansRecorded,
         OneEmergencyPerFlight, EmergencyEntersTheLifecycle, HandlingFollowsFlight

\* A transition along the edge table keeps the history true, if one to
\* DELAYED has been recorded.
LEMMA TransitionKeepsHistory ==
  ASSUME IInv, NEW f, NEW status, MayTransition(f, status),
         flights' = StatusUpdated(flights, f, status),
         UNCHANGED <<schedules, delays, emergencies>>,
         status = "DELAYED" => \E d \in DOMAIN delays : delays[d].flight = f
  PROVE  History'
<1>1. /\ f \in DOMAIN flights /\ flights[f] \in FlightStatuses
      /\ status \in Successors(flights[f])
  BY FlightStatusTexts
  DEF MayTransition, IsTransitionAllowed, FlightStatusOf, IInv, TypeOK, DatabaseTypeOK
<1>2. /\ status \in FlightStatuses \ {"SCHEDULED"}
      /\ status = "APPROACHING" => flights[f] = "SCHEDULED"
      /\ status \in {"ARRIVED", "EMERGENCY_LANDING"} => flights[f] = "APPROACHING"
  BY <1>1, EdgeTable
<1>3. /\ DOMAIN flights' = DOMAIN flights
      /\ \A g \in DOMAIN flights :
           flights'[g] = IF g = f THEN status ELSE flights[g]
  BY DEF StatusUpdated
<1>4. RowsHaveFlights' /\ OneSchedulePerFlight' /\ OneEmergencyPerFlight'
  BY <1>3 DEF IInv, RowsHaveFlights, OneSchedulePerFlight, OneEmergencyPerFlight
<1>5. DelayedMeansRecorded'
  BY <1>3 DEF IInv, DelayedMeansRecorded
<1>6. EmergencyEntersTheLifecycle' /\ HandlingFollowsFlight'
  <2> SUFFICES ASSUME NEW e \in DOMAIN emergencies
               PROVE  /\ flights'[emergencies[e].flight]
                            \notin {"SCHEDULED", "APPROACHING", "ARRIVED"}
                      /\ emergencies[e].status = "GROUND_HANDLING" =>
                           flights'[emergencies[e].flight] # "EMERGENCY_LANDING"
    BY DEF EmergencyEntersTheLifecycle, HandlingFollowsFlight
  <2>1. /\ emergencies[e].flight \in DOMAIN flights
        /\ flights[emergencies[e].flight] \notin {"SCHEDULED", "APPROACHING", "ARRIVED"}
        /\ emergencies[e].status = "GROUND_HANDLING" =>
             flights[emergencies[e].flight] # "EMERGENCY_LANDING"
    BY DEF IInv, RowsHaveFlights, EmergencyEntersTheLifecycle, HandlingFollowsFlight
  <2> QED BY <2>1, <1>2, <1>3
<1> QED BY <1>4, <1>5, <1>6 DEF History

\* createFlight and the manager's transitions: a new flight has no schedule,
\* and the manager's menu does not offer DELAYED.
LEMMA FlightServiceStep ==
  ASSUME IInv, CreateCommand \/ StatusCommand \/ SaveSchedule,
         UNCHANGED <<delays, emergencies>>
  PROVE  History' /\ Progress'
<1>1. ASSUME UNCHANGED <<flights, schedules>>, operation' = AtMenu
      PROVE  History' /\ Progress'
  BY <1>1, SameHistory, MenuProgress, IInvParts
<1>2. ASSUME NEW f \in Flights, RejectFlight(f)
      PROVE  History' /\ Progress'
  BY <1>1, <1>2 DEF RejectFlight, Finish
<1>3. ASSUME NEW f \in Flights, NEW window \in EnteredWindows, SaveFlight(f, window)
      PROVE  History' /\ Progress'
  <2>1. /\ f \notin DOMAIN flights
        /\ flights' = Inserted(flights, f, "SCHEDULED")
        /\ operation' = [step |-> "saveSchedule", flight |-> f, window |-> window,
                         id |-> nextScheduleId]
        /\ UNCHANGED schedules
    BY <1>3 DEF SaveFlight, NewFlight, Continue
  <2>2. /\ DOMAIN flights' = DOMAIN flights \cup {f}
        /\ flights'[f] = "SCHEDULED"
        /\ \A g \in DOMAIN flights : flights'[g] = flights[g]
    BY <2>1 DEF Inserted
  <2>3. /\ \A s \in DOMAIN schedules :
             schedules[s].flight \in DOMAIN flights /\ schedules[s].flight # f
        /\ \A e \in DOMAIN emergencies :
             emergencies[e].flight \in DOMAIN flights /\ emergencies[e].flight # f
    BY <2>1 DEF IInv, RowsHaveFlights
  <2>4. History'
    BY <2>1, <2>2, <2>3
    DEF IInv, History, RowsHaveFlights, OneSchedulePerFlight, DelayedMeansRecorded,
        OneEmergencyPerFlight, EmergencyEntersTheLifecycle, HandlingFollowsFlight
  <2>5. Progress'
    BY <2>1, <2>2, <2>3
    DEF Progress, CreateProgress, DelayProgress, EmergencyProgress, SchedulesOf
  <2> QED BY <2>4, <2>5
<1>4. CASE SaveSchedule
  <2>1. /\ operation.flight \in DOMAIN flights
        /\ \A s \in DOMAIN schedules : schedules[s].flight # operation.flight
        /\ UNCHANGED flights /\ operation' = AtMenu
    BY <1>4 DEF SaveSchedule, Finish, IInv, CreateProgress, SchedulesOf
  <2>2. schedules \in [DOMAIN schedules -> ScheduleRows]
    BY DEF IInv, TypeOK, FlightTypeOK
  <2>3. /\ \A s \in DOMAIN schedules' :
             \/ s \in DOMAIN schedules /\ schedules'[s].flight = schedules[s].flight
             \/ /\ s = operation.id /\ s \notin DOMAIN schedules
                /\ schedules'[s].flight = operation.flight
    BY <1>4, <2>2 DEF SaveSchedule, ScheduleSaved, Inserted, ScheduleRows
  <2>4. OneSchedulePerFlight' /\ RowsHaveFlights'
    BY <2>1, <2>3 DEF IInv, OneSchedulePerFlight, RowsHaveFlights
  <2>5. History'
    BY <2>1, <2>4
    DEF IInv, History, DelayedMeansRecorded, OneEmergencyPerFlight,
        EmergencyEntersTheLifecycle, HandlingFollowsFlight
  <2> QED BY <2>1, <2>5, MenuProgress
<1>5. ASSUME NEW f \in Flights, NEW status \in ManagerStatuses,
             ChangeStatus(f, status) \/ RejectStatus(f, status)
      PROVE  History' /\ Progress'
  <2>1. CASE ChangeStatus(f, status)
    <3>1. ToText(status) = status /\ status # "DELAYED"
      BY FlightStatusTexts DEF ManagerStatuses, FlightStatuses
    <3> QED BY <2>1, <3>1, TransitionKeepsHistory, MenuProgress DEF ChangeStatus, Finish
  <2>2. CASE RejectStatus(f, status)
    BY <1>1, <2>2 DEF RejectStatus, Finish
  <2> QED BY <1>5, <2>1, <2>2
<1> QED BY <1>2, <1>3, <1>4, <1>5 DEF CreateCommand, StatusCommand

\* applyDelay: the record first, then the status, then the schedule.
LEMMA DelayServiceStep ==
  ASSUME IInv, DelayCommand \/ AdvanceDelay, UNCHANGED emergencies
  PROVE  History' /\ Progress'
<1>1. ASSUME UNCHANGED <<flights, schedules, delays>>, operation' = AtMenu
      PROVE  History' /\ Progress'
  BY <1>1, SameHistory, MenuProgress, IInvParts
<1>2. ASSUME NEW f \in Flights, NEW minutes \in EnteredMinutes,
             RejectDelay(f, minutes) \/ BeginDelay(f, minutes)
      PROVE  History' /\ Progress'
  <2>1. CASE RejectDelay(f, minutes)
    BY <1>1, <2>1 DEF RejectDelay, Finish
  <2>2. CASE BeginDelay(f, minutes)
    BY <2>2, SameHistory, IInvParts
    DEF BeginDelay, Continue, Progress, CreateProgress, DelayProgress, EmergencyProgress
  <2> QED BY <1>2, <2>1, <2>2
<1>3. CASE RecordDelay
  <2>1. operation \in [step : {"recordDelay", "delayFlight", "shiftSchedule"},
                       flight : Flights, minutes : Int, id : Nat]
    BY <1>3, OperationCases DEF RecordDelay, IInv, TypeOK
  <2>2. /\ DOMAIN delays' = DOMAIN delays \cup {operation.id}
        /\ \A d \in DOMAIN delays : delays'[d] = delays[d]
        /\ delays'[operation.id] =
             [flight |-> operation.flight, minutes |-> operation.minutes]
        /\ UNCHANGED <<flights, schedules>>
    BY <1>3 DEF RecordDelay, Inserted
  <2>3. /\ operation'.step = "delayFlight" /\ operation'.id = operation.id
        /\ operation'.flight = operation.flight /\ operation'.minutes = operation.minutes
    BY <1>3, <2>1 DEF RecordDelay, Continue
  <2>4. History'
    <3>1. DelayedMeansRecorded'
      BY <2>2 DEF IInv, DelayedMeansRecorded
    <3> QED BY <2>2, <3>1
            DEF IInv, History, RowsHaveFlights, OneSchedulePerFlight,
                OneEmergencyPerFlight, EmergencyEntersTheLifecycle, HandlingFollowsFlight
  <2>5. Progress'
    BY <2>2, <2>3 DEF Progress, CreateProgress, DelayProgress, EmergencyProgress
  <2> QED BY <2>4, <2>5
<1>4. CASE RecordRefused \/ DelayRefused \/ NoSchedule \/ ReportDelay
  BY <1>1, <1>4 DEF RecordRefused, DelayRefused, NoSchedule, ReportDelay, Finish
<1>5. CASE DelayFlight
  <2>1. operation \in [step : {"recordDelay", "delayFlight", "shiftSchedule"},
                       flight : Flights, minutes : Int, id : Nat]
    BY <1>5, OperationCases DEF DelayFlight, IInv, TypeOK
  <2>2. /\ operation.id \in DOMAIN delays
        /\ delays[operation.id] =
             [flight |-> operation.flight, minutes |-> operation.minutes]
    BY <1>5 DEF DelayFlight, IInv, DelayProgress
  <2>3. History'
    BY <1>5, <2>2, TransitionKeepsHistory DEF DelayFlight
  <2>4. /\ operation'.step = "shiftSchedule" /\ operation'.id = operation.id
        /\ operation'.flight = operation.flight /\ operation'.minutes = operation.minutes
    BY <1>5, <2>1 DEF DelayFlight, Continue
  <2>5. operation.flight \in DOMAIN flights' /\ flights'[operation.flight] = "DELAYED"
    BY <1>5 DEF DelayFlight, MayTransition, StatusUpdated
  <2>6. Progress'
    BY <1>5, <2>2, <2>4, <2>5
    DEF DelayFlight, Progress, CreateProgress, DelayProgress, EmergencyProgress
  <2> QED BY <2>3, <2>6
<1>6. CASE ShiftSchedule
  <2>1. PICK row \in SchedulesOf(operation.flight) :
          LET window == Shifted(schedules[row].estimated, operation.minutes)
          IN  /\ schedules' =
                   [s \in DOMAIN schedules |->
                      IF s \in SchedulesOf(operation.flight)
                      THEN [schedules[s] EXCEPT !.estimated = window]
                      ELSE schedules[s]]
              /\ Continue([step |-> "checkResources", flight |-> operation.flight,
                           minutes |-> operation.minutes, id |-> operation.id,
                           window |-> window])
    BY <1>6 DEF ShiftSchedule
  <2> DEFINE window == Shifted(schedules[row].estimated, operation.minutes)
  <2>2. operation' = [step |-> "checkResources", flight |-> operation.flight,
                      minutes |-> operation.minutes, id |-> operation.id,
                      window |-> window]
        /\ UNCHANGED <<flights, delays>>
    BY <1>6, <2>1 DEF Continue, ShiftSchedule
  <2>3. schedules \in [DOMAIN schedules -> ScheduleRows]
    BY DEF IInv, TypeOK, FlightTypeOK
  <2>4. /\ DOMAIN schedules' = DOMAIN schedules
        /\ \A s \in DOMAIN schedules :
             /\ schedules'[s].flight = schedules[s].flight
             /\ s \in SchedulesOf(operation.flight) => schedules'[s].estimated = window
    BY <2>1, <2>3 DEF ScheduleRows
  <2>5. History'
    <3>1. OneSchedulePerFlight' /\ RowsHaveFlights'
      BY <2>2, <2>4 DEF IInv, OneSchedulePerFlight, RowsHaveFlights
    <3> QED BY <2>2, <3>1
            DEF IInv, History, DelayedMeansRecorded, OneEmergencyPerFlight,
                EmergencyEntersTheLifecycle, HandlingFollowsFlight
  <2>6. DelayProgress'
    <3>1. /\ operation.id \in DOMAIN delays
          /\ delays[operation.id] =
               [flight |-> operation.flight, minutes |-> operation.minutes]
          /\ operation.flight \in DOMAIN flights /\ flights[operation.flight] = "DELAYED"
      BY <1>6 DEF ShiftSchedule, IInv, DelayProgress
    <3>2. /\ row \in DOMAIN schedules' /\ schedules'[row].flight = operation'.flight
          /\ schedules'[row].estimated = operation'.window
      BY <2>2, <2>4 DEF SchedulesOf
    <3> HIDE DEF window
    <3> QED BY <3>1, <3>2, <2>2 DEF DelayProgress, SchedulesOf
  <2>7. CreateProgress' /\ EmergencyProgress'
    BY <2>2 DEF CreateProgress, EmergencyProgress
  <2> QED BY <2>5, <2>6, <2>7 DEF Progress
<1> QED BY <1>2, <1>3, <1>4, <1>5, <1>6 DEF DelayCommand, AdvanceDelay

\* The steps that only change an emergency row: its flight stays.
LEMMA RowStatusKeepsHistory ==
  ASSUME IInv, NEW id, UNCHANGED <<flights, schedules, delays>>,
         DOMAIN emergencies' = DOMAIN emergencies,
         \A e \in DOMAIN emergencies :
           /\ emergencies'[e].flight = emergencies[e].flight
           /\ emergencies'[e].status = "GROUND_HANDLING" =>
                \/ emergencies[e].status = "GROUND_HANDLING"
                \/ flights[emergencies[e].flight] = "GROUND_OPERATIONS"
  PROVE  History'
<1>1. HandlingFollowsFlight'
  BY DEF IInv, HandlingFollowsFlight
<1>2. RowsHaveFlights' /\ OneEmergencyPerFlight' /\ EmergencyEntersTheLifecycle'
  BY DEF IInv, RowsHaveFlights, OneEmergencyPerFlight, EmergencyEntersTheLifecycle
<1> QED BY <1>1, <1>2 DEF IInv, History, OneSchedulePerFlight, DelayedMeansRecorded

\* Emergencies: the status first, then the row.
LEMMA EmergencyServiceStep ==
  ASSUME IInv, EmergencyCommand \/ AdvanceEmergency, UNCHANGED <<schedules, delays>>
  PROVE  History' /\ Progress'
<1>1. ASSUME UNCHANGED <<flights, emergencies>>, operation' = AtMenu
      PROVE  History' /\ Progress'
  BY <1>1, SameHistory, MenuProgress, IInvParts
<1>2. emergencies \in [DOMAIN emergencies -> EmergencyRows]
  BY DEF IInv, TypeOK, EmergencyTypeOK
<1>3. ASSUME NEW f \in Flights, RejectDeclaration(f) \/ DeclareEmergency(f)
      PROVE  History' /\ Progress'
  <2>1. CASE RejectDeclaration(f)
    BY <1>1, <2>1 DEF RejectDeclaration, Finish
  <2>2. CASE DeclareEmergency(f)
    <3>1. /\ f \in DOMAIN flights /\ flights[f] = "APPROACHING"
          /\ f \in DOMAIN flights' /\ flights'[f] = "EMERGENCY_LANDING"
      BY <2>2, EdgeTable, FlightStatusTexts
      DEF DeclareEmergency, MayTransition, IsTransitionAllowed, FlightStatusOf, IInv,
          TypeOK, DatabaseTypeOK, StatusUpdated
    <3>2. \A e \in DOMAIN emergencies : emergencies[e].flight # f
      BY <3>1 DEF IInv, EmergencyEntersTheLifecycle
    <3>3. History'
      BY <2>2, TransitionKeepsHistory DEF DeclareEmergency
    <3>4. Progress'
      BY <2>2, <3>1, <3>2
      DEF DeclareEmergency, Continue, Progress, CreateProgress, DelayProgress,
          EmergencyProgress
    <3> QED BY <3>3, <3>4
  <2> QED BY <1>3, <2>1, <2>2
<1>4. ASSUME NEW id,
             RejectEmergency(id) \/ RecordLanding(id) \/ ResolveEmergency(id)
      PROVE  History' /\ Progress'
  <2>1. CASE RejectEmergency(id)
    BY <1>1, <2>1 DEF RejectEmergency, Finish
  <2>2. CASE RecordLanding(id) \/ ResolveEmergency(id)
    <3>1. DOMAIN emergencies' = DOMAIN emergencies
          /\ \A e \in DOMAIN emergencies :
               /\ emergencies'[e].flight = emergencies[e].flight
               /\ emergencies'[e].status = "GROUND_HANDLING" =>
                    emergencies[e].status = "GROUND_HANDLING"
      BY <1>2, <2>2 DEF RecordLanding, ResolveEmergency, EmergencyRows
    <3> QED BY <2>2, <3>1, RowStatusKeepsHistory, MenuProgress
            DEF RecordLanding, ResolveEmergency, Finish
  <2> QED BY <1>4, <2>1, <2>2
<1>5. ASSUME NEW f \in Flights, NEW id, RejectHandling(f, id) \/ BeginHandling(f, id)
      PROVE  History' /\ Progress'
  <2>1. CASE RejectHandling(f, id)
    BY <1>1, <2>1 DEF RejectHandling, Finish
  <2>2. CASE BeginHandling(f, id)
    <3>1. /\ id \in DOMAIN emergencies /\ emergencies[id].flight = f
          /\ f \in DOMAIN flights /\ flights'[f] = "GROUND_OPERATIONS"
      BY <2>2 DEF BeginHandling, MayHandle, MayTransition, StatusUpdated
    <3>2. History'
      BY <2>2, TransitionKeepsHistory DEF BeginHandling, MayHandle
    <3>3. Progress'
      BY <2>2, <3>1
      DEF BeginHandling, Continue, Progress, CreateProgress, DelayProgress,
          EmergencyProgress
    <3> QED BY <3>2, <3>3
  <2> QED BY <1>5, <2>1, <2>2
<1>6. CASE SaveEmergency
  <2>1. /\ operation.flight \in DOMAIN flights
        /\ flights[operation.flight] = "EMERGENCY_LANDING"
        /\ \A e \in DOMAIN emergencies : emergencies[e].flight # operation.flight
        /\ UNCHANGED flights /\ operation' = AtMenu
    BY <1>6 DEF SaveEmergency, Finish, IInv, EmergencyProgress
  <2>2. /\ DOMAIN emergencies' = DOMAIN emergencies \cup {operation.id}
        /\ operation.id \notin DOMAIN emergencies
        /\ \A e \in DOMAIN emergencies : emergencies'[e] = emergencies[e]
        /\ emergencies'[operation.id].flight = operation.flight
        /\ emergencies'[operation.id].status = "DECLARED"
    BY <1>6 DEF SaveEmergency, Inserted
  <2>3. OneEmergencyPerFlight'
    BY <2>1, <2>2 DEF IInv, OneEmergencyPerFlight
  <2>4. RowsHaveFlights' /\ EmergencyEntersTheLifecycle' /\ HandlingFollowsFlight'
    BY <2>1, <2>2
    DEF IInv, RowsHaveFlights, EmergencyEntersTheLifecycle, HandlingFollowsFlight
  <2>5. OneSchedulePerFlight' /\ DelayedMeansRecorded'
    BY <2>1 DEF IInv, OneSchedulePerFlight, DelayedMeansRecorded
  <2> QED BY <2>1, <2>3, <2>4, <2>5, MenuProgress DEF History
<1>7. CASE SaveRefused
  BY <1>1, <1>7 DEF SaveRefused, Finish
<1>8. CASE MarkHandling
  <2>1. /\ emergencies[operation.id].flight = operation.flight
        /\ flights[operation.flight] = "GROUND_OPERATIONS"
    BY <1>8 DEF MarkHandling, IInv, EmergencyProgress
  <2>2. DOMAIN emergencies' = DOMAIN emergencies
        /\ \A e \in DOMAIN emergencies :
             /\ emergencies'[e].flight = emergencies[e].flight
             /\ emergencies'[e].status = "GROUND_HANDLING" =>
                  \/ emergencies[e].status = "GROUND_HANDLING"
                  \/ flights[emergencies[e].flight] = "GROUND_OPERATIONS"
    BY <1>2, <1>8, <2>1 DEF MarkHandling, EmergencyRows
  <2> QED BY <1>8, <2>2, RowStatusKeepsHistory, MenuProgress DEF MarkHandling, Finish
<1> QED BY <1>3, <1>4, <1>5, <1>6, <1>7, <1>8 DEF EmergencyCommand, AdvanceEmergency

-----------------------------------------------------------------------------
(* The estimates                                                           *)

\* Fewer misled rows, and more flights that were given up.
LEMMA InjectionKept ==
  ASSUME NEW S, NEW T, ExistsInjection(S, T), NEW S1 \in SUBSET S, NEW T1, T \subseteq T1
  PROVE  ExistsInjection(S1, T1)
<1>1. PICK owner \in [S -> T] : \A a, b \in S : owner[a] = owner[b] => a = b
  BY DEF ExistsInjection, Injection, IsInjective
<1> DEFINE kept == [s \in S1 |-> owner[s]]
<1>2. kept \in [S1 -> T1] /\ \A a, b \in S1 : kept[a] = kept[b] => a = b
  BY <1>1
<1> HIDE DEF kept
<1>3. kept \in Injection(S1, T1)
  BY <1>2 DEF Injection, IsInjective
<1> QED BY <1>3 DEF ExistsInjection

\* One more misled row, and one more flight for it.
LEMMA InjectionExtended ==
  ASSUME NEW S, NEW T, ExistsInjection(S, T),
         NEW x, NEW y, y \notin T,
         NEW S1 \in SUBSET (S \cup {x}), NEW T1, T \cup {y} \subseteq T1
  PROVE  ExistsInjection(S1, T1)
<1>1. PICK owner \in [S -> T] : \A a, b \in S : owner[a] = owner[b] => a = b
  BY DEF ExistsInjection, Injection, IsInjective
<1> DEFINE extended == [s \in S1 |-> IF s = x THEN y ELSE owner[s]]
<1>2. extended \in [S1 -> T1]
  BY <1>1
<1>3. \A a, b \in S1 : extended[a] = extended[b] => a = b
  <2> SUFFICES ASSUME NEW a \in S1, NEW b \in S1, extended[a] = extended[b]
               PROVE  a = b
    OBVIOUS
  <2>1. CASE a = x \/ b = x
    BY <1>1, <2>1
  <2>2. CASE a # x /\ b # x
    BY <1>1, <2>2
  <2> QED BY <2>1, <2>2
<1> HIDE DEF extended
<1>4. extended \in Injection(S1, T1)
  BY <1>2, <1>3 DEF Injection, IsInjective
<1> QED BY <1>4 DEF ExistsInjection

PendingTypeOK == \A f \in Flights : PendingMinutes(f) \in Int

LEMMA PendingTypes == TypeOK => PendingTypeOK
  BY OperationCases DEF TypeOK, PendingTypeOK, PendingMinutes

\* The minutes on record and those that are pending are numbers.
LEMMA EstimateTypes ==
  ASSUME TypeOK, \A f \in Flights : IsFiniteSet(MinutesOf(f))
  PROVE  /\ \A f \in Flights : RecordedMinutes(f) \in Nat /\ PendingMinutes(f) \in Int
         /\ \A s \in DOMAIN schedules :
              /\ schedules[s].flight \in Flights
              /\ schedules[s].scheduled \in TimeWindows
              /\ schedules[s].estimated \in TimeWindows
<1>1. \A f \in Flights : RecordedMinutes(f) \in Nat
  BY FS_CardinalityType DEF RecordedMinutes
<1>2. \A f \in Flights : PendingMinutes(f) \in Int
  BY PendingTypes DEF PendingTypeOK
<1>3. schedules \in [DOMAIN schedules -> ScheduleRows]
  BY DEF TypeOK, FlightTypeOK
<1> QED BY <1>1, <1>2, <1>3 DEF ScheduleRows

\* What is pending is a part of what is recorded, so a row that is accounted
\* for is explained, and a flight that was given up has no schedule.
LEMMA EstimatesMeaning == IInv => EstimatesFollowDelays
<1> SUFFICES ASSUME IInv PROVE EstimatesFollowDelays
  OBVIOUS
<1>1. /\ TypeOK /\ \A f \in Flights : IsFiniteSet(MinutesOf(f))
      /\ ExistsInjection(Unaccounted, GivenUp)
  BY DEF IInv, EstimateProgress
<1>2. \A f \in Flights : PendingMinutes(f) >= 0
  <2> SUFFICES ASSUME NEW f \in Flights,
                      operation.step \in {"delayFlight", "shiftSchedule"}
               PROVE  operation.minutes >= 0
    BY DEF PendingMinutes
  <2>1. operation.minutes \in Int
    BY <1>1, OperationCases DEF TypeOK
  <2> QED BY <2>1 DEF IInv, EstimateProgress
<1>3. Misled \subseteq Unaccounted
  <2> SUFFICES ASSUME NEW s \in DOMAIN schedules, Accounted(s)
               PROVE  \E minutes \in 0 .. RecordedMinutes(schedules[s].flight) :
                        MovedBy(s, minutes)
    BY DEF Misled, Unaccounted
  <2> QED BY <1>1, <1>2, EstimateTypes DEF Accounted
<1>4. GivenUp \subseteq Unscheduled
  BY DEF GivenUp
<1> QED BY <1>1, <1>3, <1>4, InjectionKept DEF EstimatesFollowDelays

\* A step that leaves schedules and delays alone: what is pending is done or
\* given up, and so is a flight that createFlight had not saved a schedule for.
LEMMA SameEstimates ==
  ASSUME IInv, TypeOK', UNCHANGED <<schedules, delays>>, DOMAIN flights' = DOMAIN flights,
         operation'.step = "saveSchedule" => UNCHANGED operation,
         operation'.step \in {"recordDelay", "delayFlight", "shiftSchedule"} =>
           operation'.minutes > 0,
         \A f \in Flights : PendingMinutes(f)' <= PendingMinutes(f)
  PROVE  EstimateProgress'
<1>1. /\ TypeOK /\ \A f \in Flights : IsFiniteSet(MinutesOf(f))
      /\ ExistsInjection(Unaccounted, GivenUp)
  BY DEF IInv, EstimateProgress
<1>2. \A f : MinutesOf(f)' = MinutesOf(f)
  BY DEF MinutesOf
<1>3. PendingTypeOK'
  BY PendingTypes, PTL
<1>4. Unaccounted' \subseteq Unaccounted
  <2> SUFFICES ASSUME NEW s \in DOMAIN schedules, Accounted(s)
               PROVE  Accounted(s)'
    BY DEF Unaccounted
  <2> DEFINE f == schedules[s].flight
  <2>1. PICK minutes \in 0 .. (RecordedMinutes(f) - PendingMinutes(f)) :
          MovedBy(s, minutes)
    BY DEF Accounted
  <2>2. f \in Flights /\ RecordedMinutes(f) \in Nat /\ PendingMinutes(f) \in Int
    BY <1>1, EstimateTypes
  <2>3. RecordedMinutes(f)' = RecordedMinutes(f)
    BY <1>2 DEF RecordedMinutes
  <2>4. MovedBy(s, minutes)'
    BY <2>1 DEF MovedBy
  <2>5. PendingMinutes(f)' \in Int /\ PendingMinutes(f)' <= PendingMinutes(f)
    BY <1>3, <2>2 DEF PendingTypeOK
  <2>6. minutes \in 0 .. (RecordedMinutes(f)' - PendingMinutes(f)')
    BY <2>1, <2>2, <2>3, <2>5
  <2> QED BY <2>4, <2>6 DEF Accounted
<1>5. GivenUp \subseteq GivenUp'
  BY DEF GivenUp, Unscheduled, SchedulesOf
<1>6. ExistsInjection(Unaccounted', GivenUp')
  BY <1>1, <1>4, <1>5, InjectionKept
<1>7. \A f \in Flights : IsFiniteSet(MinutesOf(f)')
  BY <1>1, <1>2
<1> QED BY <1>6, <1>7 DEF EstimateProgress

\* saveFlight: the new flight has no schedule yet, and none is given up.
LEMMA SaveFlightEstimates ==
  ASSUME IInv, TypeOK', NEW f \in Flights, NEW window, SaveFlight(f, window),
         UNCHANGED delays
  PROVE  EstimateProgress'
<1>1. /\ f \notin DOMAIN flights /\ DOMAIN flights' = DOMAIN flights \cup {f}
      /\ operation.step = "menu"
      /\ operation'.step = "saveSchedule" /\ operation'.flight = f
      /\ UNCHANGED schedules
  BY DEF SaveFlight, NewFlight, Inserted, Continue, AtMenu
<1>2. /\ \A g \in Flights : IsFiniteSet(MinutesOf(g))
      /\ ExistsInjection(Unaccounted, GivenUp)
  BY DEF IInv, EstimateProgress
<1>3. \A g : MinutesOf(g)' = MinutesOf(g) /\ PendingMinutes(g)' = 0 /\ PendingMinutes(g) = 0
  BY <1>1 DEF MinutesOf, PendingMinutes
<1>4. Unaccounted' = Unaccounted
  BY <1>1, <1>3 DEF Unaccounted, Accounted, RecordedMinutes, MovedBy
<1>5. GivenUp \subseteq GivenUp'
  BY <1>1 DEF GivenUp, Unscheduled, SchedulesOf
<1>6. ExistsInjection(Unaccounted', GivenUp')
  BY <1>2, <1>4, <1>5, InjectionKept
<1> QED BY <1>1, <1>2, <1>3, <1>6 DEF EstimateProgress

\* saveFlightSchedule: a row of its own has not moved; a row of another
\* flight may be misled now, and the new flight is given up for it.
LEMMA SaveScheduleEstimates ==
  ASSUME IInv, TypeOK', SaveSchedule, UNCHANGED delays
  PROVE  EstimateProgress'
<1>1. /\ operation.step = "saveSchedule" /\ operation'.step = "menu"
      /\ schedules' = ScheduleSaved(operation.id, operation.flight, operation.window)
      /\ UNCHANGED flights
  BY DEF SaveSchedule, Finish, AtMenu
<1>2. /\ \A f \in Flights : IsFiniteSet(MinutesOf(f))
      /\ ExistsInjection(Unaccounted, GivenUp)
  BY DEF IInv, EstimateProgress
<1>3. \A f : MinutesOf(f)' = MinutesOf(f) /\ PendingMinutes(f)' = 0 /\ PendingMinutes(f) = 0
  BY <1>1 DEF MinutesOf, PendingMinutes
<1>4. \A s \in DOMAIN schedules : s # operation.id => schedules'[s] = schedules[s]
  BY <1>1 DEF ScheduleSaved, Inserted
<1>5. /\ operation.flight \in DOMAIN flights
      /\ \A s \in DOMAIN schedules : schedules[s].flight # operation.flight
  BY <1>1 DEF IInv, CreateProgress, SchedulesOf
<1>6. DOMAIN schedules' = DOMAIN schedules \cup {operation.id}
  BY <1>1 DEF ScheduleSaved, Inserted
<1>7. schedules \in [DOMAIN schedules -> ScheduleRows]
  BY DEF IInv, TypeOK, FlightTypeOK
<1>8. \A s \in DOMAIN schedules : schedules'[s].flight = schedules[s].flight
  BY <1>1, <1>7 DEF ScheduleSaved, Inserted, ScheduleRows
<1>9. Unaccounted' \subseteq Unaccounted \cup {operation.id}
  BY <1>3, <1>4, <1>6 DEF Unaccounted, Accounted, RecordedMinutes, MovedBy
<1>10. ExistsInjection(Unaccounted', GivenUp')
  <2>1. CASE operation.id \in DOMAIN schedules
    <3>1. GivenUp \cup {operation.flight} \subseteq GivenUp'
      BY <1>1, <1>5, <1>6, <1>8, <2>1 DEF GivenUp, Unscheduled, SchedulesOf
    <3>2. operation.flight \notin GivenUp
      BY <1>1 DEF GivenUp
    <3> QED BY <1>2, <1>9, <3>1, <3>2, InjectionExtended
  <2>2. CASE operation.id \notin DOMAIN schedules
    <3>1. schedules'[operation.id] =
            [flight |-> operation.flight, scheduled |-> operation.window,
             estimated |-> operation.window]
      BY <1>1, <2>2 DEF ScheduleSaved, Inserted
    <3>2. operation.id \notin Unaccounted'
      <4>1. operation \in CreateOperations
        BY <1>1, OperationCases DEF IInv, TypeOK
      <4>2. PICK id \in Nat, f \in Flights, window \in TimeWindows :
              id = operation.id /\ f = operation.flight /\ window = operation.window
        BY <4>1 DEF CreateOperations
      <4>3. RecordedMinutes(f)' \in Nat
        BY <1>2, <1>3, FS_CardinalityType DEF RecordedMinutes
      <4>4. MovedBy(id, 0)'
        BY <3>1, <4>2 DEF MovedBy, TimeWindows
      <4>5. 0 \in 0 .. (RecordedMinutes(f)' - PendingMinutes(f)')
        BY <1>3, <4>3
      <4>6. schedules'[id].flight = f
        BY <3>1, <4>2
      <4>7. id \notin Unaccounted'
        BY <4>4, <4>5, <4>6 DEF Unaccounted, Accounted
      <4> QED BY <4>2, <4>7
    <3>3. Unaccounted' \subseteq Unaccounted
      BY <1>9, <3>2
    <3>4. GivenUp \subseteq GivenUp'
      <4> SUFFICES ASSUME NEW f \in GivenUp PROVE f \in GivenUp'
        OBVIOUS
      <4>1. /\ f \in DOMAIN flights /\ f # operation.flight
            /\ \A s \in DOMAIN schedules : schedules[s].flight # f
        BY <1>1 DEF GivenUp, Unscheduled, SchedulesOf
      <4>2. \A s \in DOMAIN schedules' : schedules'[s].flight # f
        BY <1>6, <1>8, <3>1, <4>1
      <4> QED BY <1>1, <4>1, <4>2 DEF GivenUp, Unscheduled, SchedulesOf
    <3> QED BY <1>2, <3>3, <3>4, InjectionKept
  <2> QED BY <2>1, <2>2
<1> QED BY <1>1, <1>2, <1>3, <1>10 DEF EstimateProgress

\* What one more delay adds to the minutes of its flight.
LEMMA RecordedMinutesAdded ==
  ASSUME NEW f \in Flights, TypeOK, IsFiniteSet(MinutesOf(f)),
         NEW id, id \notin DOMAIN delays, NEW row \in DelayRows, row.minutes > 0,
         delays' = Inserted(delays, id, row)
  PROVE  /\ IsFiniteSet(MinutesOf(f)')
         /\ RecordedMinutes(f)' =
              RecordedMinutes(f) + (IF row.flight = f THEN row.minutes ELSE 0)
<1> DEFINE added == {id} \X (1 .. row.minutes)
<1>1. delays \in [DOMAIN delays -> DelayRows] /\ row.minutes \in Int
  BY DEF TypeOK, DelayTypeOK, DelayRows
<1>2. /\ DOMAIN delays' = DOMAIN delays \cup {id} /\ delays'[id] = row
      /\ \A d \in DOMAIN delays : delays'[d] = delays[d]
  BY DEF Inserted
<1>3. CASE row.flight # f
  <2>1. MinutesOf(f)' = MinutesOf(f)
    BY <1>2, <1>3 DEF MinutesOf
  <2>2. RecordedMinutes(f) \in Nat
    BY FS_CardinalityType DEF RecordedMinutes
  <2> QED BY <1>3, <2>1, <2>2 DEF RecordedMinutes
<1>4. CASE row.flight = f
  <2>1. MinutesOf(f)' = MinutesOf(f) \cup added
    BY <1>2, <1>4 DEF MinutesOf
  <2>2. MinutesOf(f) \cap added = {}
    BY DEF MinutesOf
  <2>3. IsFiniteSet(added) /\ Cardinality(added) = row.minutes
    <3>1. IsFiniteSet(1 .. row.minutes) /\ Cardinality(1 .. row.minutes) = row.minutes
      BY <1>1, FS_Interval
    <3>2. IsFiniteSet({id}) /\ Cardinality({id}) = 1
      BY FS_Singleton
    <3>3. Cardinality(added) = 1 * row.minutes
      BY <3>1, <3>2, FS_Product
    <3> HIDE DEF added
    <3>4. 1 * row.minutes = row.minutes
      BY <1>1
    <3> QED BY <3>1, <3>2, <3>3, <3>4, FS_Product DEF added
  <2> HIDE DEF added
  <2>4. /\ IsFiniteSet(MinutesOf(f) \cup added)
        /\ Cardinality(MinutesOf(f) \cup added) =
             Cardinality(MinutesOf(f)) + Cardinality(added)
    <3>1. /\ IsFiniteSet(MinutesOf(f) \cup added)
          /\ Cardinality(MinutesOf(f) \cup added) =
               Cardinality(MinutesOf(f)) + Cardinality(added) - 0
      BY <2>2, <2>3, FS_Union, FS_EmptySet
    <3>2. Cardinality(MinutesOf(f)) \in Nat /\ Cardinality(added) \in Nat
      BY <2>3, FS_CardinalityType
    <3> QED BY <3>1, <3>2
  <2> QED BY <1>4, <2>1, <2>3, <2>4 DEF RecordedMinutes
<1> QED BY <1>3, <1>4

\* saveDelay: what is added to the record is what is pending from now on.
LEMMA RecordDelayEstimates ==
  ASSUME IInv, TypeOK', RecordDelay
  PROVE  EstimateProgress'
<1> DEFINE row == [flight |-> operation.flight, minutes |-> operation.minutes]
<1>1. operation \in [step : {"recordDelay", "delayFlight", "shiftSchedule"},
                     flight : Flights, minutes : Int, id : Nat]
  BY OperationCases DEF RecordDelay, IInv, TypeOK
<1>2. /\ operation.step = "recordDelay" /\ operation'.step = "delayFlight"
      /\ operation'.flight = operation.flight /\ operation'.minutes = operation.minutes
      /\ operation.id \notin DOMAIN delays /\ delays' = Inserted(delays, operation.id, row)
      /\ UNCHANGED <<flights, schedules>>
  BY <1>1 DEF RecordDelay, Continue
<1>3. /\ TypeOK /\ \A f \in Flights : IsFiniteSet(MinutesOf(f))
      /\ ExistsInjection(Unaccounted, GivenUp)
      /\ operation.minutes > 0 /\ operation.minutes \in Int
  BY <1>1, <1>2 DEF IInv, EstimateProgress
<1>4. row \in DelayRows /\ row.flight = operation.flight /\ row.minutes = operation.minutes
  BY <1>1 DEF DelayRows
<1> HIDE DEF row
<1>5. \A f \in Flights :
        /\ IsFiniteSet(MinutesOf(f)')
        /\ RecordedMinutes(f)' =
             RecordedMinutes(f) + (IF operation.flight = f THEN operation.minutes ELSE 0)
  BY <1>2, <1>3, <1>4, RecordedMinutesAdded
<1>6. \A f \in Flights :
        /\ PendingMinutes(f) = 0
        /\ PendingMinutes(f)' = IF operation.flight = f THEN operation.minutes ELSE 0
  BY <1>2 DEF PendingMinutes
<1>7. Unaccounted' \subseteq Unaccounted
  <2> SUFFICES ASSUME NEW s \in DOMAIN schedules, Accounted(s)
               PROVE  Accounted(s)'
    BY <1>2 DEF Unaccounted
  <2>1. PICK f \in Flights : f = schedules[s].flight /\ RecordedMinutes(f) \in Nat
    BY <1>3, EstimateTypes
  <2>2. PICK minutes \in 0 .. (RecordedMinutes(f) - PendingMinutes(f)) :
          MovedBy(s, minutes)
    BY <2>1 DEF Accounted
  <2>3. RecordedMinutes(f)' - PendingMinutes(f)' = RecordedMinutes(f) - PendingMinutes(f)
    BY <1>3, <1>5, <1>6, <2>1
  <2>4. MovedBy(s, minutes)' /\ schedules'[s].flight = f
    BY <1>2, <2>1, <2>2 DEF MovedBy
  <2> QED BY <2>2, <2>3, <2>4 DEF Accounted
<1>8. GivenUp \subseteq GivenUp'
  BY <1>2 DEF GivenUp, Unscheduled, SchedulesOf
<1>9. ExistsInjection(Unaccounted', GivenUp')
  BY <1>3, <1>7, <1>8, InjectionKept
<1> QED BY <1>2, <1>3, <1>5, <1>9 DEF EstimateProgress

\* updateScheduleEstimates: the one schedule of the flight moves by what was
\* pending, and nothing is pending any more.
LEMMA ShiftScheduleEstimates ==
  ASSUME IInv, TypeOK', ShiftSchedule
  PROVE  EstimateProgress'
<1>1. operation \in [step : {"recordDelay", "delayFlight", "shiftSchedule"},
                     flight : Flights, minutes : Int, id : Nat]
  BY OperationCases DEF ShiftSchedule, IInv, TypeOK
<1>2. PICK row \in SchedulesOf(operation.flight) :
        schedules' =
          [s \in DOMAIN schedules |->
             IF s \in SchedulesOf(operation.flight)
             THEN [schedules[s] EXCEPT
                     !.estimated = Shifted(schedules[row].estimated, operation.minutes)]
             ELSE schedules[s]]
  BY DEF ShiftSchedule
<1>3. /\ operation.step = "shiftSchedule" /\ operation'.step = "checkResources"
      /\ UNCHANGED <<flights, delays>>
  BY DEF ShiftSchedule, Continue
<1>4. /\ TypeOK /\ \A f \in Flights : IsFiniteSet(MinutesOf(f))
      /\ ExistsInjection(Unaccounted, GivenUp)
      /\ operation.minutes > 0 /\ operation.minutes \in Int
  BY <1>1, <1>3 DEF IInv, EstimateProgress
<1>5. SchedulesOf(operation.flight) = {row}
  BY DEF IInv, OneSchedulePerFlight, SchedulesOf
<1>6. schedules \in [DOMAIN schedules -> ScheduleRows]
  BY DEF IInv, TypeOK, FlightTypeOK
<1>7. /\ DOMAIN schedules' = DOMAIN schedules
      /\ \A s \in DOMAIN schedules :
           /\ schedules'[s].flight = schedules[s].flight
           /\ schedules'[s].scheduled = schedules[s].scheduled
           /\ s # row => schedules'[s].estimated = schedules[s].estimated
      /\ row \in DOMAIN schedules /\ schedules[row].flight = operation.flight
      /\ schedules'[row].estimated = Shifted(schedules[row].estimated, operation.minutes)
  BY <1>2, <1>5, <1>6 DEF ScheduleRows, SchedulesOf
<1>8. \A f \in Flights :
        /\ MinutesOf(f)' = MinutesOf(f) /\ RecordedMinutes(f)' = RecordedMinutes(f)
        /\ PendingMinutes(f)' = 0
        /\ PendingMinutes(f) = IF operation.flight = f THEN operation.minutes ELSE 0
  BY <1>3 DEF MinutesOf, RecordedMinutes, PendingMinutes
<1>9. Unaccounted' \subseteq Unaccounted
  <2> SUFFICES ASSUME NEW s \in DOMAIN schedules, Accounted(s)
               PROVE  Accounted(s)'
    BY <1>7 DEF Unaccounted
  <2>1. PICK f \in Flights :
          /\ f = schedules[s].flight /\ RecordedMinutes(f) \in Nat
          /\ schedules[s].scheduled \in TimeWindows /\ schedules[s].estimated \in TimeWindows
    BY <1>4, EstimateTypes
  <2>2. PICK minutes \in 0 .. (RecordedMinutes(f) - PendingMinutes(f)) :
          MovedBy(s, minutes)
    BY <2>1 DEF Accounted
  <2>3. CASE s # row
    <3>1. f # operation.flight
      BY <1>5, <2>1, <2>3 DEF SchedulesOf
    <3>2. MovedBy(s, minutes)' /\ schedules'[s].flight = f
      BY <1>7, <2>1, <2>2, <2>3 DEF MovedBy
    <3> QED BY <1>8, <2>1, <2>2, <3>1, <3>2 DEF Accounted
  <2>4. CASE s = row
    <3>1. /\ MovedBy(s, minutes) /\ minutes \in Nat
          /\ minutes + operation.minutes \in 0 .. RecordedMinutes(f)
      BY <1>4, <1>7, <1>8, <2>1, <2>2, <2>4
    <3>2. PICK later : later = minutes + operation.minutes
      OBVIOUS
    <3>3. MovedBy(s, later)'
      <4>1. /\ schedules'[s].estimated.start = schedules[s].estimated.start + operation.minutes
            /\ schedules'[s].estimated.end = schedules[s].estimated.end + operation.minutes
        BY <1>7, <2>4 DEF Shifted
      <4> QED BY <1>4, <1>7, <2>1, <3>1, <3>2, <4>1 DEF MovedBy, TimeWindows
    <3>4. /\ schedules'[s].flight = f
          /\ later \in 0 .. (RecordedMinutes(f)' - PendingMinutes(f)')
      BY <1>7, <1>8, <2>1, <3>1, <3>2
    <3> QED BY <3>3, <3>4 DEF Accounted
  <2> QED BY <2>3, <2>4
<1>10. GivenUp \subseteq GivenUp'
  BY <1>3, <1>7 DEF GivenUp, Unscheduled, SchedulesOf
<1>11. ExistsInjection(Unaccounted', GivenUp')
  BY <1>4, <1>9, <1>10, InjectionKept
<1> QED BY <1>3, <1>4, <1>8, <1>11 DEF EstimateProgress

\* What is pending when a handler has ended, or has just begun: nothing.
LEMMA NothingPending ==
  ASSUME IInv, operation'.step \notin {"delayFlight", "shiftSchedule"}
  PROVE  \A f \in Flights : PendingMinutes(f)' <= PendingMinutes(f)
<1> SUFFICES ASSUME NEW f \in Flights PROVE 0 <= PendingMinutes(f)
  BY DEF PendingMinutes
<1>1. operation.step \in {"delayFlight", "shiftSchedule"} =>
        operation.minutes \in Int /\ operation.minutes > 0
  BY OperationCases DEF IInv, TypeOK, EstimateProgress
<1> QED BY <1>1 DEF PendingMinutes

\* Every step keeps the estimates accounted for, or gives up a flight.
LEMMA EstimateStep == IInv /\ TypeOK' /\ [Next]_vars => EstimateProgress'
<1> SUFFICES ASSUME IInv, TypeOK', [Next]_vars PROVE EstimateProgress'
  OBVIOUS
<1> DEFINE Begun == {"saveSchedule", "recordDelay", "delayFlight", "shiftSchedule"}
<1>1. ASSUME UNCHANGED <<schedules, delays>>, DOMAIN flights' = DOMAIN flights,
             operation'.step \notin Begun
      PROVE  EstimateProgress'
  BY <1>1, NothingPending, SameEstimates
<1>2. \A f, status : DOMAIN StatusUpdated(flights, f, status) = DOMAIN flights
  BY DEF StatusUpdated
<1>3. CASE AdministratorCommand
  <2>1. UNCHANGED delays
    BY <1>3 DEF AdministratorCommand, delayVars
  <2>2. ASSUME NEW f \in Flights, RejectFlight(f) PROVE EstimateProgress'
    BY <1>1, <2>1, <2>2 DEF RejectFlight, Finish, AtMenu
  <2> QED BY <1>3, <2>1, <2>2, SaveFlightEstimates DEF AdministratorCommand, CreateCommand
<1>4. CASE ManagerCommand
  <2>1. CASE StatusCommand /\ UNCHANGED <<allocationTables, delayVars, emergencyVars>>
    BY <1>1, <1>2, <2>1
    DEF StatusCommand, ChangeStatus, RejectStatus, Finish, AtMenu, delayVars
  <2>2. CASE DelayCommand
    <3>1. PICK f \in Flights, minutes \in EnteredMinutes :
            RejectDelay(f, minutes) \/ BeginDelay(f, minutes)
      BY <2>2 DEF DelayCommand
    <3>2. CASE RejectDelay(f, minutes)
      BY <1>1, <3>2 DEF RejectDelay, Finish, AtMenu
    <3>3. CASE BeginDelay(f, minutes)
      BY <3>3, NothingPending, SameEstimates DEF BeginDelay, Delayable, Continue
    <3> QED BY <3>1, <3>2, <3>3
  <2>3. CASE EmergencyCommand /\ UNCHANGED <<allocationTables, scheduleVars, delayVars>>
    <3>1. UNCHANGED <<schedules, delays>>
      BY <2>3 DEF scheduleVars, delayVars
    <3>2. ASSUME NEW f \in Flights, RejectDeclaration(f) \/ DeclareEmergency(f)
          PROVE  EstimateProgress'
      BY <1>1, <1>2, <3>1, <3>2
      DEF RejectDeclaration, DeclareEmergency, Finish, Continue, AtMenu
    <3>3. ASSUME NEW id, RejectEmergency(id) \/ RecordLanding(id) \/ ResolveEmergency(id)
          PROVE  EstimateProgress'
      BY <1>1, <3>1, <3>3
      DEF RejectEmergency, RecordLanding, ResolveEmergency, Finish, AtMenu
    <3>4. ASSUME NEW f, NEW id, RejectHandling(f, id) \/ BeginHandling(f, id)
          PROVE  EstimateProgress'
      BY <1>1, <1>2, <3>1, <3>4 DEF RejectHandling, BeginHandling, Finish, Continue, AtMenu
    <3> QED BY <2>3, <3>2, <3>3, <3>4 DEF EmergencyCommand
  <2> QED BY <1>4, <2>1, <2>2, <2>3 DEF ManagerCommand
<1>5. CASE Advance
  <2>1. CASE SaveSchedule /\ UNCHANGED <<allocationTables, delayVars, emergencyVars>>
    BY <2>1, SaveScheduleEstimates DEF delayVars
  <2>2. CASE AdvanceDelay
    <3>1. CASE RecordRefused \/ DelayRefused \/ NoSchedule \/ ReportDelay
      BY <1>1, <3>1
      DEF RecordRefused, DelayRefused, NoSchedule, ReportDelay, Finish, AtMenu
    <3>2. CASE DelayFlight
      <4>1. operation \in [step : {"recordDelay", "delayFlight", "shiftSchedule"},
                           flight : Flights, minutes : Int, id : Nat]
        BY <3>2, OperationCases DEF DelayFlight, IInv, TypeOK
      <4>2. /\ operation'.step = "shiftSchedule" /\ operation'.flight = operation.flight
            /\ operation'.minutes = operation.minutes /\ operation.step = "delayFlight"
        BY <3>2, <4>1 DEF DelayFlight, Continue
      <4>3. operation.minutes > 0
        BY <4>2 DEF IInv, EstimateProgress
      <4>4. \A f \in Flights : PendingMinutes(f)' <= PendingMinutes(f)
        BY <4>1, <4>2 DEF PendingMinutes
      <4> QED BY <1>2, <3>2, <4>2, <4>3, <4>4, SameEstimates DEF DelayFlight
    <3> QED BY <2>2, <3>1, <3>2, RecordDelayEstimates, ShiftScheduleEstimates
            DEF AdvanceDelay
  <2>3. CASE AdvanceEmergency /\ UNCHANGED <<allocationTables, scheduleVars, delayVars>>
    BY <1>1, <2>3
    DEF AdvanceEmergency, SaveEmergency, SaveRefused, MarkHandling, Finish, AtMenu,
        scheduleVars, delayVars
  <2> QED BY <1>5, <2>1, <2>2, <2>3 DEF Advance
<1>6. CASE StatementFails \/ Restart
  BY <1>1, <1>6
  DEF StatementFails, Restart, Finish, AtMenu, tablesAndGenerators, scheduleVars, delayVars
<1>7. CASE UNCHANGED vars
  <2>1. \A f \in Flights : PendingMinutes(f)' = PendingMinutes(f) /\ PendingMinutes(f) \in Int
    BY <1>7, OperationCases DEF vars, PendingMinutes, IInv, TypeOK
  <2> QED BY <1>7, <2>1, SameEstimates DEF vars, IInv, EstimateProgress
<1> QED BY <1>3, <1>4, <1>5, <1>6, <1>7 DEF Next

LEMMA InitIInv == Init => IInv
<1> SUFFICES ASSUME Init PROVE IInv
  OBVIOUS
<1>1. History
  BY ScheduleAssumption
  DEF Init, DatabaseInit, FlightInit, DelayInit, EmergencyInit, History, RowsHaveFlights,
      OneSchedulePerFlight, DelayedMeansRecorded, OneEmergencyPerFlight,
      EmergencyEntersTheLifecycle, HandlingFollowsFlight
<1>2. Progress
  BY DEF Init, FlightInit, AtMenu, Progress, CreateProgress, DelayProgress,
         EmergencyProgress
<1>3. EstimateProgress
  <2>1. \A f : MinutesOf(f) = {}
    BY DEF Init, DelayInit, MinutesOf
  <2>2. \A s \in DOMAIN schedules : Accounted(s)
    <3> SUFFICES ASSUME NEW s \in DOMAIN schedules PROVE Accounted(s)
      OBVIOUS
    <3>1. \A f : RecordedMinutes(f) = 0 /\ PendingMinutes(f) = 0
      BY <2>1, FS_EmptySet DEF RecordedMinutes, PendingMinutes, Init, FlightInit, AtMenu
    <3>2. schedules[s] \in ScheduleRows /\ schedules[s].estimated = schedules[s].scheduled
      BY ScheduleAssumption DEF Init, FlightInit
    <3>3. MovedBy(s, 0)
      BY <3>2 DEF MovedBy, ScheduleRows, TimeWindows
    <3> QED BY <3>1, <3>3 DEF Accounted
  <2>3. Unaccounted = {}
    BY <2>2 DEF Unaccounted
  <2>4. [s \in {} |-> s] \in Injection({}, GivenUp)
    BY DEF Injection, IsInjective
  <2>5. ExistsInjection(Unaccounted, GivenUp)
    BY <2>3, <2>4 DEF ExistsInjection
  <2> QED BY <2>1, <2>5, FS_EmptySet DEF EstimateProgress, Init, FlightInit, AtMenu
<1> QED BY <1>1, <1>2, <1>3, InitTypeOK, IInvParts

LEMMA NextIInv == IInv /\ [Next]_vars => IInv'
<1> SUFFICES ASSUME IInv, [Next]_vars PROVE IInv'
  OBVIOUS
<1>1. TypeOK'
  BY NextTypeOK DEF IInv
<1>2. History' /\ Progress' => IInv'
  BY <1>1, EstimateStep DEF IInv, History, Progress
<1>3. CASE Advance \/ AdministratorCommand \/ ManagerCommand
  BY <1>2, <1>3, FlightServiceStep, DelayServiceStep, EmergencyServiceStep
  DEF Advance, AdministratorCommand, ManagerCommand, scheduleVars, delayVars, emergencyVars
<1>4. CASE StatementFails \/ Restart
  BY <1>2, <1>4, SameHistory, MenuProgress, IInvParts
  DEF StatementFails, Restart, Finish, tablesAndGenerators, scheduleVars, delayVars,
      emergencyVars
<1>5. CASE UNCHANGED vars
  <2>1. Progress'
    BY <1>5
    DEF vars, IInv, Progress, CreateProgress, DelayProgress, EmergencyProgress, SchedulesOf
  <2> QED BY <1>2, <1>5, <2>1, SameHistory, IInvParts DEF vars
<1> QED BY <1>3, <1>4, <1>5 DEF Next

\* The inductive invariant holds in every state, whatever fails and whenever
\* the process is restarted.
THEOREM InductiveInvariant == Spec => []IInv
  BY InitIInv, NextIInv, PTL DEF Spec

-----------------------------------------------------------------------------
(* The properties                                                          *)

\* A flight has at most one schedule, whatever schedule ids come again.
THEOREM OneSchedulePerFlightHolds == Spec => []OneSchedulePerFlight
  BY InductiveInvariant, PTL DEF IInv

\* A DELAYED flight has a delay on record.
THEOREM DelayedMeansRecordedHolds == Spec => []DelayedMeansRecorded
  BY InductiveInvariant, PTL DEF IInv

\* No flight has two emergency records.
THEOREM OneEmergencyPerFlightHolds == Spec => []OneEmergencyPerFlight
  BY InductiveInvariant, PTL DEF IInv

\* A flight with an emergency record has entered EMERGENCY_LANDING.
THEOREM EmergencyEntersTheLifecycleHolds == Spec => []EmergencyEntersTheLifecycle
  BY InductiveInvariant, PTL DEF IInv

\* The flight of an emergency in GROUND_HANDLING has left EMERGENCY_LANDING.
THEOREM HandlingFollowsFlightHolds == Spec => []HandlingFollowsFlight
  BY InductiveInvariant, PTL DEF IInv

\* Estimates that the delay history does not account for are those of a row
\* that a new flight was created over, one flight for each.
THEOREM EstimatesFollowDelaysHolds == Spec => []EstimatesFollowDelays
  BY InductiveInvariant, EstimatesMeaning, PTL

\* A command starts at the menu.
LEMMA CommandsStartAtMenu ==
  ASSUME AdministratorCommand \/ ManagerCommand
  PROVE  operation = AtMenu
<1>1. CreateCommand \/ StatusCommand => operation = AtMenu
  BY DEF CreateCommand, RejectFlight, SaveFlight, StatusCommand, ChangeStatus, RejectStatus
<1>2. DelayCommand => operation = AtMenu
  BY DEF DelayCommand, RejectDelay, BeginDelay
<1>3. EmergencyCommand => operation = AtMenu
  BY DEF EmergencyCommand, RejectDeclaration, DeclareEmergency, RejectEmergency,
         RecordLanding, ResolveEmergency, RejectHandling, BeginHandling
<1> QED BY <1>1, <1>2, <1>3 DEF AdministratorCommand, ManagerCommand

\* Inside a handler of EmergencyService, success is reported by the statement
\* that writes the row.
LEMMA DoneIsReportedBy ==
  ASSUME Next, outcome'.kind = "done"
  PROVE  /\ operation.step = "saveEmergency" => SaveEmergency
         /\ operation.step = "markHandling" => MarkHandling
<1> SUFFICES ASSUME operation.step \in {"saveEmergency", "markHandling"}
             PROVE  /\ operation.step = "saveEmergency" => SaveEmergency
                    /\ operation.step = "markHandling" => MarkHandling
  OBVIOUS
<1>1. ~ AdministratorCommand /\ ~ ManagerCommand
  BY CommandsStartAtMenu DEF AtMenu
<1>2. ~ StatementFails /\ ~ Restart
  BY DEF StatementFails, Restart, Finish, Ended
<1>3. Advance
  BY <1>1, <1>2 DEF Next
<1> QED BY <1>3
        DEF Advance, SaveSchedule, AdvanceDelay, RecordDelay, RecordRefused, DelayFlight,
            DelayRefused, ShiftSchedule, NoSchedule, ReportDelay, AdvanceEmergency,
            SaveEmergency, SaveRefused, MarkHandling, Finish, Ended

LEMMA DoneStep == IInv /\ Next => EveryStatementIsDone
<1> SUFFICES ASSUME IInv, Next, outcome'.kind = "done" PROVE EveryStatementIsDone
  BY DEF EveryStatementIsDone
<1>1. CASE operation.step = "checkResources"
  BY <1>1 DEF EveryStatementIsDone, IInv, DelayProgress, SchedulesOf
<1>2. CASE operation.step = "saveEmergency"
  BY <1>2, DoneIsReportedBy
  DEF EveryStatementIsDone, SaveEmergency, Inserted, IInv, EmergencyProgress
<1>3. CASE operation.step = "markHandling"
  <2>1. /\ operation.id \in DOMAIN emergencies
        /\ emergencies[operation.id].flight = operation.flight
        /\ flights[operation.flight] = "GROUND_OPERATIONS"
        /\ emergencies[operation.id] \in EmergencyRows
    BY <1>3 DEF IInv, EmergencyProgress, TypeOK, EmergencyTypeOK
  <2> QED BY <1>3, <2>1, DoneIsReportedBy
          DEF EveryStatementIsDone, MarkHandling, EmergencyRows
<1> QED BY <1>1, <1>2, <1>3 DEF EveryStatementIsDone

\* When a handler of several statements reports success, all of them are
\* there and agree.
THEOREM DoneIsCompleteHolds == Spec => DoneIsComplete
<1>1. IInv /\ [Next]_vars => [EveryStatementIsDone]_vars
  BY DoneStep
<1> QED BY InductiveInvariant, <1>1, PTL DEF Spec, DoneIsComplete

-----------------------------------------------------------------------------
(* What the services do to the flights                                     *)

\* A transition that transitionFlightStatus accepts.
LEMMA AcceptedTransition ==
  ASSUME NEW f, NEW status \in FlightStatuses, MayTransition(f, status),
         flights' = StatusUpdated(flights, f, status)
  PROVE  FlightsStep
  BY DEF MayTransition, IsTransitionAllowed, FlightsStep, MovesFlight

\* Every step adds one flight, moves one along the edge table, or leaves the
\* flights alone; none writes a table of the allocation service.
LEMMA NextFlightsStep ==
  ASSUME Next
  PROVE  FlightsStep /\ UNCHANGED allocationTables
<1>1. UNCHANGED allocationTables
  BY DEF Next, Advance, AdministratorCommand, ManagerCommand, StatementFails, Restart,
         allocationTables, tablesAndGenerators
<1>2. UNCHANGED flights => FlightsStep
  BY DEF FlightsStep
<1>3. ASSUME NEW f \in Flights, NEW window, SaveFlight(f, window)
      PROVE  FlightsStep
  BY <1>3 DEF SaveFlight, NewFlight, AddsFlight, FlightsStep
<1>4. ASSUME NEW f, NEW status \in ManagerStatuses, ChangeStatus(f, status)
      PROVE  FlightsStep
  <2>1. status \in FlightStatuses /\ ToText(status) = status
    BY FlightStatusTexts DEF ManagerStatuses, FlightStatuses
  <2> QED BY <1>4, <2>1, AcceptedTransition DEF ChangeStatus
<1>5. ASSUME DelayFlight
      PROVE  FlightsStep
  BY <1>5, AcceptedTransition DEF DelayFlight, FlightStatuses
<1>6. ASSUME NEW f, DeclareEmergency(f)
      PROVE  FlightsStep
  BY <1>6, AcceptedTransition DEF DeclareEmergency, FlightStatuses
<1>7. ASSUME NEW f, NEW id, BeginHandling(f, id)
      PROVE  FlightsStep
  BY <1>7, AcceptedTransition DEF BeginHandling, MayHandle, FlightStatuses
<1>8. CreateCommand \/ StatusCommand \/ DelayCommand => FlightsStep
  BY <1>2, <1>3, <1>4
  DEF CreateCommand, RejectFlight, StatusCommand, RejectStatus, DelayCommand,
      RejectDelay, BeginDelay
<1>9. EmergencyCommand => FlightsStep
  BY <1>2, <1>6, <1>7
  DEF EmergencyCommand, RejectDeclaration, RejectEmergency, RecordLanding,
      ResolveEmergency, RejectHandling
<1>10. Advance => FlightsStep
  BY <1>2, <1>5
  DEF Advance, SaveSchedule, AdvanceDelay, RecordDelay, RecordRefused, DelayRefused,
      ShiftSchedule, NoSchedule, ReportDelay, AdvanceEmergency, SaveEmergency,
      SaveRefused, MarkHandling
<1>11. StatementFails \/ Restart => FlightsStep
  BY <1>2 DEF StatementFails, Restart, tablesAndGenerators
<1> QED BY <1>1, <1>8, <1>9, <1>10, <1>11
        DEF Next, AdministratorCommand, ManagerCommand
=============================================================================
