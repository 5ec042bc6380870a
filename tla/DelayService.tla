---------------------------- MODULE DelayService ----------------------------
(***************************************************************************)
(* DelayService::applyDelay: a delay is recorded, then the flight becomes  *)
(* DELAYED, then its schedule shifts, each in a statement of its own, and  *)
(* at last the flight's allocations are checked against the new times.     *)
(* The status is first looked at after the delay row is committed.  Delay  *)
(* ids "DL0001", "DL0002", ... are 1, 2, ....                              *)
(***************************************************************************)
EXTENDS FlightService, ConflictDetector

CONSTANTS
  EnteredMinutes,    \* delay durations the manager enters
  MaxDelayId         \* bound: ids the generator hands out

ASSUME DelayAssumption == EnteredMinutes \subseteq Int /\ MaxDelayId \in Nat

VARIABLES
  delays,            \* rows of flight_delays, by delay_id
  nextDelayId        \* delayIdGen_.counter_, in memory only

DelayRows == [flight : Flights, minutes : Int]

DelayOperations ==
  [step : {"recordDelay", "delayFlight", "shiftSchedule"},
   flight : Flights, minutes : Int, id : Nat]
  \cup
  [step : {"checkResources"}, flight : Flights, minutes : Int, id : Nat,
   window : TimeWindows]

DelayTypeOK ==
  /\ DOMAIN delays \subseteq Nat
  /\ delays \in [DOMAIN delays -> DelayRows]
  /\ nextDelayId \in Nat

DelayInit == delays = << >> /\ nextDelayId = 1

-----------------------------------------------------------------------------
Delayable(f, minutes) == minutes > 0 /\ f \in DOMAIN flights

RejectDelay(f, minutes) ==
  /\ operation = AtMenu
  /\ ~ Delayable(f, minutes)
  /\ Finish("exception")
  /\ UNCHANGED <<flights, schedules, delays, nextDelayId>>

BeginDelay(f, minutes) ==
  /\ operation = AtMenu
  /\ Delayable(f, minutes)
  /\ nextDelayId <= MaxDelayId
  /\ nextDelayId' = nextDelayId + 1
  /\ Continue([step |-> "recordDelay", flight |-> f, minutes |-> minutes,
               id |-> nextDelayId])
  /\ UNCHANGED <<flights, schedules, delays>>

\* saveDelay: a plain INSERT, refused when the id is taken.
RecordDelay ==
  /\ operation.step = "recordDelay"
  /\ operation.id \notin DOMAIN delays
  /\ delays' = Inserted(delays, operation.id,
                        [flight |-> operation.flight, minutes |-> operation.minutes])
  /\ Continue([operation EXCEPT !.step = "delayFlight"])
  /\ UNCHANGED <<flights, schedules, nextDelayId>>

\* Mutant of RecordRefused: the INSERT ignores a taken id.
RecordIgnored ==
  /\ operation.step = "recordDelay"
  /\ operation.id \in DOMAIN delays
  /\ Continue([operation EXCEPT !.step = "delayFlight"])
  /\ UNCHANGED <<flights, schedules, delays, nextDelayId>>

\* Mutant of RecordRefused: the same INSERT is tried again and again.
RecordRetried ==
  /\ operation.step = "recordDelay"
  /\ operation.id \in DOMAIN delays
  /\ UNCHANGED <<flights, schedules, delays, nextDelayId, operation, outcome>>

RecordRefused ==
  /\ operation.step = "recordDelay"
  /\ operation.id \in DOMAIN delays
  /\ Finish("exception")
  /\ UNCHANGED <<flights, schedules, delays, nextDelayId>>

DelayFlight ==
  /\ operation.step = "delayFlight"
  /\ MayTransition(operation.flight, "DELAYED")
  /\ flights' = StatusUpdated(flights, operation.flight, "DELAYED")
  /\ Continue([operation EXCEPT !.step = "shiftSchedule"])
  /\ UNCHANGED <<schedules, delays, nextDelayId>>

\* The lifecycle refuses; the delay row stays.
DelayRefused ==
  /\ operation.step = "delayFlight"
  /\ ~ MayTransition(operation.flight, "DELAYED")
  /\ Finish("exception")
  /\ UNCHANGED <<flights, schedules, delays, nextDelayId>>

\* Mutant of Shifted: the estimated arrival is forgotten.
DepartureShifted(window, minutes) == [window EXCEPT !.end = @ + minutes]

\* FlightSchedule::applyDelay.
Shifted(window, minutes) ==
  [start |-> window.start + minutes, end |-> window.end + minutes]

ShiftSchedule ==
  /\ operation.step = "shiftSchedule"
  /\ \E row \in SchedulesOf(operation.flight) :
       LET window == Shifted(schedules[row].estimated, operation.minutes)
       IN  /\ schedules' =
                [s \in DOMAIN schedules |->
                   IF s \in SchedulesOf(operation.flight)
                   THEN [schedules[s] EXCEPT !.estimated = window]
                   ELSE schedules[s]]
           /\ Continue([step |-> "checkResources", flight |-> operation.flight,
                        minutes |-> operation.minutes, id |-> operation.id,
                        window |-> window])
  /\ UNCHANGED <<flights, delays, nextDelayId>>

\* No schedule: the flight is DELAYED, and the console shows an error.
NoSchedule ==
  /\ operation.step = "shiftSchedule"
  /\ SchedulesOf(operation.flight) = {}
  /\ Finish("exception")
  /\ UNCHANGED <<flights, schedules, delays, nextDelayId>>

\* Mutant of Probe: the allocation is checked for its own window.
ProbeOfOldWindow(a, staff, window) ==
  [flight |-> allocations[a].flight, gate |-> allocations[a].gate,
   vehicle |-> allocations[a].vehicle, staff |-> staff,
   window |-> allocations[a].window]

\* The request that allocation a would be for the new times.
Probe(a, staff, window) ==
  [flight |-> allocations[a].flight, gate |-> allocations[a].gate,
   vehicle |-> allocations[a].vehicle, staff |-> staff, window |-> window]

ResourceWarnings(f, window) ==
  {a \in DOMAIN allocations :
     /\ allocations[a].flight = f
     /\ AllocationRead(a).status = "SUCCESS"
     /\ \E staff \in Listings(StaffOf(a)) : HasConflict(Probe(a, staff, window))}

ReportDelay ==
  /\ operation.step = "checkResources"
  /\ operation' = AtMenu
  /\ outcome' = [kind |-> "done",
                 warned |-> ResourceWarnings(operation.flight, operation.window)]
  /\ UNCHANGED <<flights, schedules, delays, nextDelayId>>

-----------------------------------------------------------------------------
DelayCommand ==
  \E f \in Flights, minutes \in EnteredMinutes :
    RejectDelay(f, minutes) \/ BeginDelay(f, minutes)

AdvanceDelay ==
  \/ RecordDelay \/ RecordRefused
  \/ DelayFlight \/ DelayRefused
  \/ ShiftSchedule \/ NoSchedule
  \/ ReportDelay
=============================================================================
