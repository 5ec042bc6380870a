------------------------------ MODULE ATCService ------------------------------
(***************************************************************************)
(* ATCService, the simulated air traffic control: what it says of a flight *)
(* is derived from the flight's status alone, each of its three answers    *)
(* from a read of its own, and every answer is appended to atc_log.        *)
(***************************************************************************)
EXTENDS FlightService

CONSTANT MaxAtcRows   \* bound: rows of atc_log

ASSUME AtcAssumption == MaxAtcRows \in Nat

VARIABLE atcLog       \* rows of atc_log, in the order of their ids

DepartureInfos ==
  {"not ready", "cleared", "airborne", "completed", "delayed", "cancelled", "UNKNOWN"}

ArrivalInfos ==
  {"not airborne", "on approach", "landed", "emergency", "complete", "UNKNOWN"}

AtcRows ==
  [flight : Flights, clearance : ATCClearances, departure : DepartureInfos,
   arrival : ArrivalInfos]

AtcTypeOK == atcLog \in Seq(AtcRows)

AtcInit == atcLog = << >>

-----------------------------------------------------------------------------
\* Mutant of GetATCClearance: a cancelled flight falls to the default.
ClearanceWithoutDenial(f) ==
  IF f \notin DOMAIN flights THEN "PENDING"
  ELSE CASE FlightStatusOf(f) \in {"EMERGENCY_LANDING", "DELAYED"} -> "HOLD"
         [] FlightStatusOf(f) \in {"SCHEDULED", "APPROACHING", "CANCELLED"} -> "PENDING"
         [] OTHER -> "GRANTED"

GetATCClearance(f) ==
  IF f \notin DOMAIN flights THEN "PENDING"
  ELSE CASE FlightStatusOf(f) \in {"SCHEDULED", "APPROACHING"} -> "PENDING"
         [] FlightStatusOf(f) \in {"EMERGENCY_LANDING", "DELAYED"} -> "HOLD"
         [] FlightStatusOf(f) = "CANCELLED" -> "DENIED"
         [] OTHER -> "GRANTED"

\* Mutant of GetDepartureStatus: a completed flight falls to the default.
DepartureWithoutCompletion(f) ==
  IF f \notin DOMAIN flights THEN "UNKNOWN"
  ELSE CASE FlightStatusOf(f) = "READY_FOR_DEPARTURE" -> "cleared"
         [] FlightStatusOf(f) = "DEPARTED"            -> "airborne"
         [] FlightStatusOf(f) = "DELAYED"             -> "delayed"
         [] FlightStatusOf(f) = "CANCELLED"           -> "cancelled"
         [] OTHER                                     -> "not ready"

GetDepartureStatus(f) ==
  IF f \notin DOMAIN flights THEN "UNKNOWN"
  ELSE CASE FlightStatusOf(f) = "READY_FOR_DEPARTURE" -> "cleared"
         [] FlightStatusOf(f) = "DEPARTED"            -> "airborne"
         [] FlightStatusOf(f) = "COMPLETED"           -> "completed"
         [] FlightStatusOf(f) = "DELAYED"             -> "delayed"
         [] FlightStatusOf(f) = "CANCELLED"           -> "cancelled"
         [] OTHER                                     -> "not ready"

\* The default also answers for a flight that was cancelled in the air.
GetArrivalStatus(f) ==
  IF f \notin DOMAIN flights THEN "UNKNOWN"
  ELSE CASE FlightStatusOf(f) = "APPROACHING"       -> "on approach"
         [] FlightStatusOf(f) = "ARRIVED"           -> "landed"
         [] FlightStatusOf(f) = "EMERGENCY_LANDING" -> "emergency"
         [] FlightStatusOf(f) = "SCHEDULED"         -> "not airborne"
         [] OTHER                                   -> "complete"

AtcStatus(f) ==
  [flight |-> f, clearance |-> ToText(GetATCClearance(f)),
   departure |-> GetDepartureStatus(f), arrival |-> GetArrivalStatus(f)]

\* getFlightStatus of a flight there is: the answer is logged, then returned.
GetFlightStatus(f) ==
  /\ f \in DOMAIN flights
  /\ Len(atcLog) < MaxAtcRows
  /\ atcLog' = Append(atcLog, AtcStatus(f))
=============================================================================
