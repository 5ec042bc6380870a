---------------------------- MODULE ReportService ----------------------------
(***************************************************************************)
(* ReportService: a report is made of the rows a table has when the report *)
(* is generated, and saved under an id of its own.  The wording of its     *)
(* lines is left out.  Report ids "RPT0001", "RPT0002", ... are 1, 2, .... *)
(***************************************************************************)
EXTENDS DelayService, EmergencyService, GroundOperationsService

CONSTANTS
  EnteredReports,    \* bound: the kinds of report users ask for
  MaxReportId        \* bound: ids the generator hands out

VARIABLES
  reports,           \* rows of reports, by report_id
  nextReportId       \* reportIdGen_.counter_, in memory only

TaskRead(t) == [tasks[t] EXCEPT !.status = ParseTaskStatus(@)]

EmergencyRead(e) == [emergencies[e] EXCEPT !.status = ParseEmergencyStatus(@)]

\* What each kind of report lists: the rows as they are read.
Content ==
  [FLIGHT_STATUS        |-> [f \in DOMAIN flights |-> FlightStatusOf(f)],
   RESOURCE_UTILIZATION |-> [r \in DOMAIN resources |-> ResourceStatusOf(r)],
   ALLOCATION           |-> [a \in DOMAIN allocations |->
                               [row |-> AllocationRead(a), staff |-> StaffOf(a)]],
   DELAY                |-> delays,
   EMERGENCY            |-> [e \in DOMAIN emergencies |-> EmergencyRead(e)],
   GROUND_OPERATION     |-> [t \in DOMAIN tasks |-> TaskRead(t)]]

ASSUME ReportAssumption == MaxReportId \in Nat /\ EnteredReports \subseteq ReportTypes

ReportTypeOK ==
  /\ DOMAIN reports \subseteq Nat
  /\ \A r \in DOMAIN reports : reports[r].type \in ReportTypes
  /\ nextReportId \in Nat

ReportInit == reports = << >> /\ nextReportId = 1

NewReport(type) == [type |-> type, content |-> Content[type]]

\* generate...Report and finalize: the reading queries, then a plain INSERT.
SaveReport(type) ==
  /\ nextReportId <= MaxReportId
  /\ nextReportId \notin DOMAIN reports
  /\ nextReportId' = nextReportId + 1
  /\ reports' = Inserted(reports, nextReportId, NewReport(type))

\* The INSERT is refused: the report is not shown, the id is spent.
SaveReportRefused ==
  /\ nextReportId <= MaxReportId
  /\ nextReportId \in DOMAIN reports
  /\ nextReportId' = nextReportId + 1
  /\ UNCHANGED reports

ReportCommand ==
  SaveReportRefused \/ \E type \in EnteredReports : SaveReport(type)
=============================================================================
