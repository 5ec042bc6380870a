---------------------------- MODULE FlightMonitor ----------------------------
(***************************************************************************)
(* FlightMonitor::monitor and the three views of the console that use the  *)
(* simulated services.  monitor reads the flight, has the ATC's answer     *)
(* logged, then a reading of the weather, and combines the three into a    *)
(* snapshot; between the two log rows a statement can fail or the process  *)
(* can die.  Printing the snapshot, and the flight's schedule below it,    *)
(* only reads.                                                             *)
(***************************************************************************)
EXTENDS ATCService, WeatherService

VARIABLE snapshot    \* the MonitoringSnapshot just shown

NoSnapshot == [issues |-> {}]

Issues == {"weather", "hold", "denied", "emergency"}

Snapshots ==
  [flight : Flights, status : FlightStatuses, atc : AtcRows,
   weather : WeatherData, alert : WeatherAlertLevels, issues : SUBSET Issues]

MonitorOperations ==
  [step : {"observeWeather"}, flight : Flights, status : FlightStatuses, atc : AtcRows]

MonitorTypeOK ==
  /\ AtcTypeOK
  /\ WeatherTypeOK
  /\ snapshot \in Snapshots \cup {NoSnapshot}

MonitorInit == AtcInit /\ WeatherInit /\ snapshot = NoSnapshot

-----------------------------------------------------------------------------
\* getFlight, or getFlightStatus, throws; nothing is logged.
RejectView(f) ==
  /\ operation = AtMenu
  /\ f \notin DOMAIN flights
  /\ Finish("exception")
  /\ snapshot' = NoSnapshot
  /\ UNCHANGED <<atcLog, weatherLog>>

ViewATC(f) ==
  /\ operation = AtMenu
  /\ GetFlightStatus(f)
  /\ Finish("done")
  /\ snapshot' = NoSnapshot
  /\ UNCHANGED weatherLog

ViewWeather ==
  /\ operation = AtMenu
  /\ \E data \in Readings : GetCurrentWeather(data)
  /\ Finish("done")
  /\ snapshot' = NoSnapshot
  /\ UNCHANGED atcLog

\* Mutant of BeginMonitor: the three getters are asked, none of which logs.
BeginMonitorUnlogged(f) ==
  /\ operation = AtMenu
  /\ Len(weatherLog) < MaxWeatherRows
  /\ f \in DOMAIN flights
  /\ Continue([step |-> "observeWeather", flight |-> f,
               status |-> FlightStatusOf(f), atc |-> AtcStatus(f)])
  /\ snapshot' = NoSnapshot
  /\ UNCHANGED <<atcLog, weatherLog>>

\* monitor, up to the ATC's row.  (The weather's row must fit its bound, too.)
BeginMonitor(f) ==
  /\ operation = AtMenu
  /\ Len(weatherLog) < MaxWeatherRows
  /\ GetFlightStatus(f)
  /\ Continue([step |-> "observeWeather", flight |-> f,
               status |-> FlightStatusOf(f), atc |-> AtcStatus(f)])
  /\ snapshot' = NoSnapshot
  /\ UNCHANGED weatherLog

DetectedIssues(status, atc, alert) ==
  {i \in Issues :
     \/ i = "weather"   /\ RequiresAttention(alert)
     \/ i = "hold"      /\ atc.clearance = "HOLD"
     \/ i = "denied"    /\ atc.clearance = "DENIED"
     \/ i = "emergency" /\ status = "EMERGENCY_LANDING"}

Snapshot(data) ==
  LET alert == CheckWeatherAlert(data)
  IN  [flight |-> operation.flight, status |-> operation.status,
       atc |-> operation.atc, weather |-> data, alert |-> alert,
       issues |-> DetectedIssues(operation.status, operation.atc, alert)]

\* monitor, from the weather's row on.
EndMonitor ==
  /\ operation.step = "observeWeather"
  /\ \E data \in Readings :
       GetCurrentWeather(data) /\ snapshot' = Snapshot(data)
  /\ Finish("done")
  /\ UNCHANGED atcLog

-----------------------------------------------------------------------------
\* What any user who is logged in starts.
ViewCommand ==
  \/ \E f \in Flights : RejectView(f) \/ ViewATC(f) \/ BeginMonitor(f)
  \/ ViewWeather
=============================================================================
