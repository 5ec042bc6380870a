------------------------------ MODULE Monitoring ------------------------------
(***************************************************************************)
(* Flight monitoring together with what it watches: the flight, delay and  *)
(* emergency handlers of FlightOperations, and the views of FlightMonitor, *)
(* one at a time on one database.  The views write nothing but their logs, *)
(* and nothing else reads or writes those.                                 *)
(***************************************************************************)
EXTENDS FlightMonitor

CONSTANTS EnteredMinutes, MaxDelayId, MaxEmergencyId, Faults

VARIABLES delays, nextDelayId, emergencies, nextEmergencyId

Operations == INSTANCE FlightOperations

ASSUME OperationAssumption ==
  /\ EnteredMinutes \subseteq Int
  /\ MaxDelayId \in Nat /\ MaxEmergencyId \in Nat

monitorVars == <<atcLog, weatherLog, snapshot>>

tablesAndGenerators ==
  <<flights, resources, allocations, allocationStaff, schedules, nextScheduleId,
    delays, nextDelayId, emergencies, nextEmergencyId>>

vars == <<tablesAndGenerators, operation, outcome, monitorVars>>

\* What FlightOperations states of its own operations, and that of the monitor.
TypeOK ==
  /\ DatabaseTypeOK
  /\ FlightTypeOK
  /\ Operations!DelayTypeOK
  /\ Operations!EmergencyTypeOK
  /\ MonitorTypeOK
  /\ operation \in Operations!Operations \cup MonitorOperations

Init == Operations!Init /\ MonitorInit

-----------------------------------------------------------------------------
\* A handler of the flight services begins, goes on, fails; what was shown is
\* no longer shown.
OperationStep ==
  /\ \/ Operations!Advance
     \/ Operations!ManagerCommand
     \/ Operations!StatementFails
  /\ snapshot' = NoSnapshot
  /\ UNCHANGED <<atcLog, weatherLog>>

ViewStep ==
  /\ ViewCommand \/ EndMonitor
  /\ UNCHANGED tablesAndGenerators

Restart ==
  /\ Operations!Restart
  /\ snapshot' = NoSnapshot
  /\ UNCHANGED <<atcLog, weatherLog>>

Next == OperationStep \/ ViewStep \/ Restart

Spec == Init /\ [][Next]_vars

-----------------------------------------------------------------------------
LastOf(log) == log[Len(log)]

\* A snapshot shows one moment, though monitor reads the flight four times and
\* commits two rows on the way: its parts are what the two logs end with, and
\* what the ATC would say of the flight now.
SnapshotIsLogged ==
  [][snapshot' # NoSnapshot =>
       /\ atcLog' # << >> /\ LastOf(atcLog') = snapshot'.atc
       /\ LastOf(weatherLog') = snapshot'.weather
       /\ snapshot'.atc = AtcStatus(snapshot'.flight)
       /\ snapshot'.status = flights[snapshot'.flight]]_vars

\* The issues a snapshot lists are complete and not invented: they are derived
\* from the ATC's clearance, yet a flight that is delayed, cancelled or in an
\* emergency is never shown without one, and no other flight has one in
\* weather that is no worse than an advisory.
ProblemsAreReported ==
  [][snapshot' # NoSnapshot =>
       (snapshot'.issues = {} <=>
          /\ flights[snapshot'.flight] \notin {"DELAYED", "CANCELLED", "EMERGENCY_LANDING"}
          /\ snapshot'.alert \in {"NONE", "ADVISORY"})]_vars

\* Weather, measure by measure: how bad each is by itself, 0 to 3.
MeasureLevels(data) ==
  { CASE data.wind >= 50 -> 3 [] data.wind \in 35 .. 49 -> 2
      [] data.wind \in 20 .. 34 -> 1 [] data.wind < 20 -> 0,
    CASE data.visibility < 10 -> 3 [] data.visibility \in 10 .. 29 -> 2
      [] data.visibility >= 30 -> 0,
    CASE data.precipitation >= 20 -> 2 [] data.precipitation \in 10 .. 19 -> 1
      [] data.precipitation < 10 -> 0,
    CASE data.condition = "STORM" -> 3 [] data.condition = "FOG" -> 2
      [] data.condition \notin {"STORM", "FOG"} -> 0 }

LevelOf(alert) ==
  CASE alert = "NONE" -> 0 [] alert = "ADVISORY" -> 1
    [] alert = "WARNING" -> 2 [] alert = "SEVERE" -> 3

\* The alert of a snapshot is that of the worst measure: no measure hides a
\* worse one, and worse weather never lowers the alert.
AlertIsTheWorstMeasure ==
  [][snapshot' # NoSnapshot =>
       LET levels == MeasureLevels(snapshot'.weather)
           level  == LevelOf(snapshot'.alert)
       IN  level \in levels /\ \A l \in levels : l <= level]_vars

ClearanceStage == [PENDING |-> 0, HOLD |-> 1, GRANTED |-> 1, DENIED |-> 2]

DepartureStage(info) ==
  CASE info = "airborne" -> 1 [] info = "completed" -> 2 [] info = "cancelled" -> 3
    [] OTHER -> 0

ArrivalStage(info) ==
  CASE info = "not airborne" -> 0 [] info = "on approach" -> 1
    [] info \in {"landed", "emergency"} -> 2 [] OTHER -> 3

NoLater(row, other) ==
  /\ ClearanceStage[row.clearance] <= ClearanceStage[other.clearance]
  /\ DepartureStage(row.departure) <= DepartureStage(other.departure)
  /\ ArrivalStage(row.arrival) <= ArrivalStage(other.arrival)

\* What the ATC log tells of a flight never goes back: read in order, it
\* arrives once, departs once, and once it is denied it stays so, whatever
\* delays, emergencies and restarts happened between two rows.
FeedNeverGoesBack ==
  \A i, j \in DOMAIN atcLog :
    i < j /\ atcLog[i].flight = atcLog[j].flight => NoLater(atcLog[i], atcLog[j])

\* No row is ahead of what the ATC would say of the flight now.
FeedIsBehind ==
  \A i \in DOMAIN atcLog :
    \E f \in DOMAIN flights :
      atcLog[i].flight = f /\ NoLater(atcLog[i], AtcStatus(f))

\* monitor goes on with what it read: it is still so, and the log ends with it.
MonitorProgress ==
  operation.step = "observeWeather" =>
    /\ operation.flight \in DOMAIN flights
    /\ operation.status = flights[operation.flight]
    /\ operation.atc = AtcStatus(operation.flight)
    /\ atcLog # << >> /\ LastOf(atcLog) = operation.atc

\* All of them together are preserved by every step of the program.
IInv == TypeOK /\ MonitorProgress /\ FeedIsBehind /\ FeedNeverGoesBack

PhaseOf(status) ==
  CASE status \in {"SCHEDULED", "APPROACHING"} -> "expected"
    [] status \in {"ARRIVED", "EMERGENCY_LANDING"} -> "landing"
    [] status \in {"GROUND_OPERATIONS", "BOARDING", "DELAYED"} -> "handled"
    [] status = "READY_FOR_DEPARTURE" -> "ready"
    [] status \in {"DEPARTED", "COMPLETED"} -> "gone"
    [] status = "CANCELLED" -> "cancelled"

Lifecycle ==
  INSTANCE FlightLifecycle
    WITH phase <- [f \in DOMAIN flights |-> PhaseOf(flights[f])]

\* The flights live as FlightLifecycle says, whoever changes their statuses:
\* a delayed flight may resume in a later state than the one it left, but it
\* never returns to the air, never departs out of a delay and never comes
\* back from DEPARTED or CANCELLED.
LifecycleSpec == Lifecycle!Spec
=============================================================================
