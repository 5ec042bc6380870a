---------------------------- MODULE WeatherService ----------------------------
(***************************************************************************)
(* WeatherService, the simulated weather: a reading is drawn at random,    *)
(* appended to weather_log and rated.  Wind is in km/h, visibility in      *)
(* tenths of a kilometre, precipitation in mm; the temperature matters to  *)
(* nobody.                                                                 *)
(***************************************************************************)
EXTENDS Integers, Sequences, Enums

CONSTANTS
  Readings,          \* bound: the readings that may be drawn
  MaxWeatherRows     \* bound: rows of weather_log

\* What the random distributions can produce.
WeatherData ==
  [wind : 0 .. 60, visibility : 5 .. 100, precipitation : 0 .. 30,
   condition : WeatherConditions]

ASSUME WeatherAssumption ==
  /\ Readings \subseteq WeatherData
  /\ MaxWeatherRows \in Nat

VARIABLE weatherLog  \* rows of weather_log, in the order of their ids

WeatherTypeOK == weatherLog \in Seq(WeatherData)

WeatherInit == weatherLog = << >>

Logged(data) == [data EXCEPT !.condition = ToText(@)]

\* getCurrentWeather, with the reading it drew: it is logged, then returned.
GetCurrentWeather(data) ==
  /\ Len(weatherLog) < MaxWeatherRows
  /\ weatherLog' = Append(weatherLog, Logged(data))

-----------------------------------------------------------------------------
IsSevere(data) ==
  data.condition = "STORM" \/ data.wind >= 50 \/ data.visibility < 10

IsDegraded(data) ==
  \/ data.condition = "FOG" \/ data.wind >= 35
  \/ data.visibility < 30 \/ data.precipitation >= 20

IsMinor(data) == data.wind >= 20 \/ data.precipitation >= 10

\* Mutant of CheckWeatherAlert: the lower level is asked for first.
CheckDegradedFirst(data) ==
  IF IsDegraded(data) THEN "WARNING"
  ELSE IF IsSevere(data) THEN "SEVERE"
  ELSE IF IsMinor(data) THEN "ADVISORY" ELSE "NONE"

CheckWeatherAlert(data) ==
  IF IsSevere(data) THEN "SEVERE"
  ELSE IF IsDegraded(data) THEN "WARNING"
  ELSE IF IsMinor(data) THEN "ADVISORY" ELSE "NONE"

RequiresAttention(level) == level \in {"WARNING", "SEVERE"}
=============================================================================
