-------------------------------- MODULE Enums --------------------------------
(***************************************************************************)
(* The enumerations, as the database stores them.  A column holds the text *)
(* that toString gives an enumerator, its own name; a row that is read is  *)
(* parsed again, name by name, and a text no name matches silently becomes *)
(* the enumerator the parser ends with.  Enumerators and their texts are   *)
(* the same strings here.                                                  *)
(***************************************************************************)
EXTENDS Flight

ResourceStatuses == {"AVAILABLE", "OCCUPIED", "MAINTENANCE"}

AllocationStatuses == {"SUCCESS", "FAILED", "RELEASED"}

TaskStatuses == {"PENDING", "ASSIGNED", "IN_PROGRESS", "COMPLETED", "DELAYED"}

EmergencyStatuses == {"DECLARED", "LANDED", "GROUND_HANDLING", "RESOLVED"}

WeatherConditions == {"CLEAR", "CLOUDY", "RAIN", "STORM", "FOG", "SNOW"}

WeatherAlertLevels == {"NONE", "ADVISORY", "WARNING", "SEVERE"}

ATCClearances == {"PENDING", "GRANTED", "DENIED", "HOLD"}

Roles == {"ADMINISTRATOR", "OPERATIONS_MANAGER", "GROUND_STAFF"}

ReportTypes ==
  {"FLIGHT_STATUS", "RESOURCE_UTILIZATION", "ALLOCATION", "DELAY", "EMERGENCY",
   "GROUND_OPERATION"}

\* The enumerators of the model.  What only names things and no decision
\* depends on (types of resources, tasks and conflicts, reasons of delays) is
\* left out, with its texts and its parsers.
Enumerators ==
  UNION {Roles, FlightStatuses, ResourceStatuses, AllocationStatuses, TaskStatuses,
         EmergencyStatuses, WeatherConditions, WeatherAlertLevels, ATCClearances,
         ReportTypes}

\* Mutant of ToText: a case is missing.
ToTextWithoutStorm(enumerator) ==
  IF enumerator \in Enumerators \ {"STORM"} THEN enumerator ELSE "UNKNOWN"

\* The toString functions: a switch over the enumerators of each type.
ToText(enumerator) ==
  IF enumerator \in Enumerators THEN enumerator ELSE "UNKNOWN"

-----------------------------------------------------------------------------
\* The parse functions of AirportDatabase.cpp, each with the texts it compares.

ParsedAmong(texts, text, default) == IF text \in texts THEN text ELSE default

\* Mutant of ParseFlightStatus: a name is missing from the list.
ParseFlightStatusShort(text) ==
  ParsedAmong(FlightStatuses \ {"EMERGENCY_LANDING"}, text, "SCHEDULED")

ParseFlightStatus(text) == ParsedAmong(FlightStatuses, text, "SCHEDULED")

ParseResourceStatus(text) ==
  ParsedAmong({"AVAILABLE", "OCCUPIED", "MAINTENANCE"}, text, "AVAILABLE")

\* Mutant of ParseAllocationStatus: a name is missing from the list.
ParseAllocationStatusShort(text) == ParsedAmong({"SUCCESS"}, text, "FAILED")

ParseAllocationStatus(text) == ParsedAmong({"SUCCESS", "RELEASED"}, text, "FAILED")

ParseTaskStatus(text) == ParsedAmong(TaskStatuses, text, "PENDING")

ParseEmergencyStatus(text) ==
  ParsedAmong({"DECLARED", "LANDED", "GROUND_HANDLING"}, text, "RESOLVED")

ParseUserRole(text) ==
  ParsedAmong({"ADMINISTRATOR", "OPERATIONS_MANAGER"}, text, "GROUND_STAFF")
=============================================================================
