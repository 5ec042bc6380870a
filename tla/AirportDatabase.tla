--------------------------- MODULE AirportDatabase ---------------------------
(***************************************************************************)
(* The tables of the SQLite database that resource allocation reads and    *)
(* writes, and the statements it runs on them.  The connection is opened   *)
(* in autocommit mode and no statement is ever grouped in a transaction:   *)
(* each statement below is committed when it returns.                      *)
(*                                                                         *)
(* A table is a function whose domain is the set of its primary keys.      *)
(* gates, vehicles and ground_staff_resources are the three parts of       *)
(* `resources`; allocation ids "AL0001", "AL0002", ... are 1, 2, ....      *)
(***************************************************************************)
EXTENDS DateTime, Enums, Sequences, FiniteSets, Functions

CONSTANTS Flights,        \* flight ids a user may type, known or not
          Gates,          \* gate ids
          Vehicles,       \* vehicle ids
          Staff,          \* ground staff resource ids
          SeedFlights,    \* flights in the database when the run begins
          SeedResources   \* resources in the database when the run begins

Resources == Gates \cup Vehicles \cup Staff

ASSUME SeedAssumption ==
  /\ SeedFlights \subseteq Flights
  /\ SeedResources \subseteq Resources

\* Gates, vehicles and staff live in tables of their own: one id is one resource.
ASSUME ResourceAssumption ==
  /\ Gates \cap Vehicles = {}
  /\ Gates \cap Staff = {}
  /\ Vehicles \cap Staff = {}
  /\ IsFiniteSet(Staff)

VARIABLES
  flights,          \* flights.status, by flight_id
  resources,        \* status of a gate, vehicle or ground staff row, by resource_id
  allocations,      \* rows of allocations, by allocation_id
  allocationStaff   \* rows <<allocation_id, staff_id>> of allocation_staff

tables == <<flights, resources, allocations, allocationStaff>>

AllocationRows ==
  [flight : Flights, gate : Gates, vehicle : Vehicles, window : TimeWindows,
   status : {"SUCCESS", "RELEASED"}]

DatabaseTypeOK ==
  /\ DOMAIN flights \subseteq Flights
  /\ flights \in [DOMAIN flights -> FlightStatuses]
  /\ DOMAIN resources \subseteq Resources
  /\ resources \in [DOMAIN resources -> ResourceStatuses]
  /\ DOMAIN allocations \subseteq Nat
  /\ allocations \in [DOMAIN allocations -> AllocationRows]
  /\ allocationStaff \subseteq (Nat \X Staff)

DatabaseInit ==
  /\ flights = [f \in SeedFlights |-> "SCHEDULED"]
  /\ resources = [r \in SeedResources |-> "AVAILABLE"]
  /\ allocations = << >>
  /\ allocationStaff = {}

-----------------------------------------------------------------------------
\* Statements, as functions from a table to the table they leave.

\* INSERT of a row under a key.
Inserted(table, key, row) ==
  [k \in DOMAIN table \cup {key} |-> IF k = key THEN row ELSE table[k]]

\* UPDATE ... SET status = ? WHERE <key> = ?; it may match no row.
StatusUpdated(table, key, status) ==
  [k \in DOMAIN table |-> IF k = key THEN status ELSE table[k]]

\* Mutant of AllocationReleased: the status of a freed resource is written.
AllocationMadeAvailable(id) ==
  [allocations EXCEPT ![id].status = "AVAILABLE"]

\* updateAllocationStatus(id, RELEASED).
AllocationReleased(id) ==
  [allocations EXCEPT ![id].status = "RELEASED"]

-----------------------------------------------------------------------------
\* Queries.

\* The statuses of a flight and of a resource, as a row that is read has them.
FlightStatusOf(f) == ParseFlightStatus(flights[f])

ResourceStatusOf(r) == ParseResourceStatus(resources[r])

\* rowToAllocation: a row is SUCCESS, unless its status is parsed as RELEASED.
AllocationRead(a) ==
  [allocations[a] EXCEPT
     !.status = IF ParseAllocationStatus(@) = "RELEASED" THEN "RELEASED" ELSE "SUCCESS"]

ActiveAllocations ==
  {a \in DOMAIN allocations : allocations[a].status = "SUCCESS"}

\* loadStaffForAllocation.
StaffOf(a) == {s \in Staff : <<a, s>> \in allocationStaff}

\* Every resource the rows of allocation a name.
ResourcesOf(a) == {allocations[a].gate, allocations[a].vehicle} \cup StaffOf(a)

\* listActiveAllocationsForGate, ...ForVehicle and ...ForStaff.
ListActiveAllocationsFor(r) == {a \in ActiveAllocations : r \in ResourcesOf(a)}

\* A vector of the ids in S, in the unspecified order of a SELECT.
Listings(S) ==
  {s \in [1 .. Cardinality(S) -> S] : Range(s) = S}
=============================================================================
