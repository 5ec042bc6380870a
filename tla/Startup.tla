------------------------------- MODULE Startup -------------------------------
(***************************************************************************)
(* initializeSchema and seedSampleDataIfEmpty, which main runs before the  *)
(* console opens: a database without flights is filled by a sequence of    *)
(* upserts, each committed by itself.  The process can die between any two *)
(* of them, and the next one starts with what is there.                    *)
(***************************************************************************)
EXTENDS FlightService, UserService

CONSTANT SeedStatements   \* the saves, in order: [table, key, row]

VARIABLE startup          \* the statements left to run; the console opens after them

IsSeedRow(statement) ==
  CASE statement.table = "users"     -> statement.row \in Roles
    [] statement.table = "resources" -> statement.key \in Resources
    [] statement.table = "flights"   -> statement.key \in Flights
    [] statement.table = "flight_schedules" ->
         /\ statement.key \in Nat
         /\ statement.row.flight \in Flights /\ statement.row.window \in TimeWindows
    [] OTHER -> FALSE

\* Every row is written once; users and resources come before the flights, a
\* flight before its one schedule, and there is a flight among them.
ASSUME SeedingAssumption ==
  /\ SeedStatements \in Seq(Range(SeedStatements))
  /\ \A i \in DOMAIN SeedStatements : IsSeedRow(SeedStatements[i])
  /\ \E i \in DOMAIN SeedStatements : SeedStatements[i].table = "flights"
  /\ \A i, j \in DOMAIN SeedStatements :
       LET one   == SeedStatements[i]
           other == SeedStatements[j]
       IN  /\ one.table = other.table /\ one.key = other.key => i = j
           /\ one.table = "flights" /\ other.table \in {"users", "resources"} => j < i
           /\ one.table = "flight_schedules" /\ other.table = "flights" => j < i
           /\ one.table = "flight_schedules" /\ other.table = "flight_schedules"
                /\ one.row.flight = other.row.flight => i = j
  /\ \A i \in DOMAIN SeedStatements :
       SeedStatements[i].table = "flight_schedules" =>
         \E j \in DOMAIN SeedStatements :
           SeedStatements[j].table = "flights" /\ SeedStatements[j].key = SeedStatements[i].row.flight

\* Mutant of NeedsSeeding: the count of the flights is not looked at.
AlwaysSeeding == TRUE

\* Mutant of NeedsSeeding: the users are counted.
NoUsersYet == DOMAIN users = {}

NeedsSeeding == DOMAIN flights = {}

\* What a process that starts now will run.
Opening == IF NeedsSeeding THEN SeedStatements ELSE << >>

ConsoleIsOpen == startup = << >>

Statement == Head(startup)

\* saveUser, saveGate (saveVehicle, saveGroundStaffResource), saveFlight and
\* saveFlightSchedule, all of them upserts.
SeedStep ==
  /\ ~ ConsoleIsOpen
  /\ startup' = Tail(startup)
  /\ users' = IF Statement.table = "users"
              THEN Inserted(users, Statement.key, Statement.row) ELSE users
  /\ resources' = IF Statement.table = "resources"
                  THEN Inserted(resources, Statement.key, "AVAILABLE") ELSE resources
  /\ flights' = IF Statement.table = "flights"
                THEN Inserted(flights, Statement.key, "SCHEDULED") ELSE flights
  /\ schedules' = IF Statement.table = "flight_schedules"
                  THEN ScheduleSaved(Statement.key, Statement.row.flight, Statement.row.window)
                  ELSE schedules
=============================================================================
