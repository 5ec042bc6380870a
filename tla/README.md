# AGOMS: TLA+ verification project

This directory holds a TLA+ model of the Airport Ground Operations Management
System (AGOMS), the C++ console program in this repository. The modules are
translated from the code; TLC checks them on small instances, and TLAPS checks
the proofs for every value of the constants. `PROJECT.json` lists the components,
the runs, the mutants, the source lines each definition stands for, the hazards
and the theorems.

    tlc -workers 2 -config AllocationFaults.cfg MCAllocationService.tla   # a run
    tlapm AllocationService_proofs.tla                                    # proofs of a module

## 1. The system

AGOMS is one process with one thread. `main` opens a SQLite file, creates the
schema, seeds an empty database and runs `ConsoleUI::run`, a loop that reads a menu
choice, runs one handler to its end and prints its result or its exception. The
handlers call the services, and the services call `AirportDatabase`.

Two facts shape the model.

* **Every statement commits by itself.** `AirportDatabase` never opens a
  transaction. A service operation of five statements has four points in between
  where the process can die or SQLite can refuse the next statement. What was
  committed stays, and nothing repairs it.
* **Id generators live in memory only.** `IdGenerator::observe`, which would move a
  generator past the ids in the database, is never called. After a restart each
  service hands out the same ids again. Some tables refuse them (plain `INSERT`),
  others overwrite (upsert).

Nothing runs concurrently inside a process, so a check and the first statement
after it see the same database. The hard behaviours are partial failure, crash and
restart between statements, ids that come again, state that two services write
under different assumptions, and legal calls in unexpected orders.

### Components

| Component | State | Operations that change state | What makes it correct |
|---|---|---|---|
| Flight lifecycle (`Flight`) | none; an edge table | `transitionTo` | status changes follow the table |
| `ConflictDetector` | none; reads | none | a request that passes shares no instant of a resource with another flight |
| `AllocationService` | `allocations`, `allocation_staff`, resource statuses, AL generator | `allocate`, `release` | no double booking; records are history; release frees only what it holds |
| `ResourceService` | gates, vehicles, staff resources | `add*`, `set*Status` | maintenance is honoured |
| `FlightService` | `flights`, `flight_schedules`, SC generator | `createFlight`, `transitionFlightStatus` | one schedule per flight |
| `DelayService` | `flight_delays`, DL generator | `applyDelay` | the history explains status and times; warnings are complete |
| `EmergencyService` | `emergency_landings`, EM generator | `declareEmergency`, `recordLanding`, `beginGroundHandling`, `resolveEmergency` | emergency and flight agree; one emergency per flight |
| `GroundOperationsService` | `ground_tasks`, GT generator | `createTask`, `updateTaskStatus` | tasks are kept when ids come again |
| `ReportService` | `reports`, RPT generator | six generators | a saved report is a snapshot that never changes |
| `UserService`, session | `users`, `currentUser_` | `login` | a change is made under the role it needs |
| `AirportDatabase` | all tables | statements, seeding; statuses are written as text and parsed when read | start-up destroys nothing and leaves a usable program; no status is misread |
| `ConsoleUI`, `main` | the handler in progress | menu loop, restart | every handler returns |
| `ATCService`, `WeatherService`, `FlightMonitor` | `atc_log`, `weather_log` | `getFlightStatus`, `getCurrentWeather`, `monitor` | a snapshot is what the logs end with; problems are shown; the feed never goes back |

Interactions: `DelayService` and `EmergencyService` change a flight only through
`FlightService::transitionFlightStatus`; `DelayService` asks `AllocationService` for
a conflict check at the new times; `AllocationService` reads flight statuses and
writes resource statuses that `ResourceService` writes too; `FlightMonitor` asks
`FlightService`, `ATCService` and `WeatherService`, the first two of which read the same
row; all of them share the database.

## 2. The modules

| Module | Models | Built on |
|---|---|---|
| `DateTime` | time windows and `timeWindowsOverlap` | |
| `Flight` | statuses, the edge table, the states in which a flight is served | |
| `Enums` | the enumerations, their texts, and the parsers with their silent defaults | `Flight` |
| `AirportDatabase` | the tables several services use; statements and queries as functions on tables | `Enums`, `DateTime` |
| `ConflictDetector` | `checkConflict` as a predicate on the tables | `AirportDatabase` |
| `AllocationService` | `allocate`, `release`, and what the rest of the program may do to the tables meanwhile | `ConflictDetector` |
| `AirportDatabase_proofs` | lemmas on tables, listings, windows and the edge table, for the other proof modules | `AirportDatabase` |
| `AllocationService_proofs` | type, inductive invariant, booking and maintenance theorems | `AllocationService` |
| `AllocationProperties_proofs` | the other action properties of `AllocationService` | `AllocationService_proofs` |
| `ReservationCalendar` | abstract specification: a calendar of reservations | `DateTime` |
| `AllocationRefinement` | the refinement mapping to the calendar | `AllocationService` |
| `AllocationRefinement_proofs` | the proof of that refinement | `AllocationService_proofs` |
| `AllocationClaims`, `FlightClaims` | what a text of the repository says and the code does not do | |
| `FlightService`, `DelayService`, `EmergencyService` | the handlers of the three services and their tables | `ConflictDetector` |
| `FlightOperations` | the three on one database, with failures and restarts | |
| `FlightOperations_proofs` | its type, inductive invariant and properties | `FlightOperations` |
| `Airport` | `AllocationService` and `FlightOperations` in one process, on one database | INSTANCEs of both |
| `Airport_proofs` | that the program implements the allocation specification, and keeps both invariants | INSTANCEs of the proof modules of both |
| `UserService`, `GroundOperationsService`, `ReportService`, `Startup` | session, tasks, reports, seeding | |
| `Console` | the whole program from an empty database, with role checks | INSTANCE of `Airport` |
| `Console_proofs` | seeding, roles, tasks and reports, over the invariant of the program | INSTANCE of `Airport_proofs` |
| `ATCService`, `WeatherService` | the simulated services: answers, ratings and log rows | `FlightService`, `Enums` |
| `FlightMonitor` | `monitor` and the three views that lead to the simulated services | `ATCService`, `WeatherService` |
| `FlightLifecycle` | abstract specification: the phases of a flight's life | |
| `Monitoring` | the monitor together with `FlightOperations`, and the refinement mapping to the life cycle | `FlightMonitor`, INSTANCE of `FlightOperations` |
| `Monitoring_proofs` | its invariants and views, and the proof of that refinement | INSTANCE of `FlightOperations_proofs` |
| `MC*` | instances for TLC | |

### How state and actions correspond to the code

* A table is a function from primary key to row (or to status, where nothing else of
  the row matters). Gates, vehicles and staff resources, whose services are the same
  code three times, share `resources`. The primary keys differ by prefix, so the
  three sets are disjoint; `ResourceAssumption` names that.
* `call` (allocation) and `operation` (the other services) are the handler in
  progress: the statement it runs next and its local variables. `Idle` and `AtMenu` mean
  that the menu is waiting. An action is one committed statement, with the checks that
  precede it in the same handler; checks before the first statement are in the
  guards of the first action, as no other handler can run in between. When a check
  fails, the handler is an action of its own that only returns (`Reject...`).
* A statement that SQLite refuses because of a key is an action with that guard
  (`InsertRefused`, `LinkRefused`, `RecordRefused`, `SaveRefused`). A statement that
  fails for other reasons is `StatementFails`: the handler ends with an exception,
  and what it committed stays. When a handler's first statement fails, no table
  has changed (an id may be spent), so that case is left out.
* `Restart` is the end of the process, by the menu or by a crash, at any point, and
  the next start: tables stay, generators and the handler's locals are gone.
* A status is stored as the text of its enumerator and parsed when its row is read
  (`FlightStatusOf`, `ResourceStatusOf`, `AllocationRead`, `Login`, the reports), name by
  name, with a default for what no name matches. SQL conditions compare the text
  (`ActiveAllocations`).
* Ids `AL0001`, `SC1000`, ... are numbers. Windows are intervals of integers, with
  empty and inverted ones among them, since the console accepts them.
* Definitions marked "Mutant of" in a comment are the plausible bugs that show each
  property can fail; no specification uses them.

`AllocationService` is specified on its own with an environment (`AddFlight`,
`TransitionFlight`) that does to flights what `FlightService` may do. `Airport`
composes it with the real services, and its property `AllocationSpec` says that the
environment was general enough: every step of the whole program is a step of the
allocation specification (a run checks it on an instance, a theorem shows it in
general). What is shown of the allocation alone therefore holds in the program.

## 3. What the runs show

Passing runs; `IInv` is the inductive invariant of section 4, checked before it was proved:

| Run | Instance | Shows |
|---|---|---|
| `allocation_conflicts` | two flights (one created on the way), two gates, two vehicles, two staff (one added on the way), six requests that clash on gate, vehicle or the second staff member, with touching and inverted windows, three allocations, no faults | `TypeOK`, `NoDoubleBooking`, `NoServiceAfterDeparture` |
| `allocation_faults` | one gate and vehicle, two staff, two allocation ids that come again after each restart, a staff id entered twice, any status set by the administrator, crash and failing statement anywhere | `IInv`, `RecordsAreKept`, `MaintenanceIsHonoured`, `SuccessIsComplete`, `OccupiedBeforeRecorded`, `FreedBeforeReleased`, `OnlyHoldersFree`, `CalendarSpec` (the statement-level service implements `ReservationCalendar`), and `CallsReturn` under fairness |
| `flight_operations` | a flight of an earlier process and one that is created over its schedule id, delays of 0 and 1 minutes, two delay ids, two emergency ids, crash and failing statement anywhere | `TypeOK`, `IInv`, `OneSchedulePerFlight`, `DelayedMeansRecorded`, `OneEmergencyPerFlight`, `EmergencyEntersTheLifecycle`, `HandlingFollowsFlight`, `EstimatesFollowDelays`, `DoneIsComplete`, and `HandlersReturn` under fairness |
| `airport` | two flights that use one gate and one vehicle (which the administrator adds) one after the other, and a delay of the first into the time of the second, with crashes | `IInv`, `AllocationSpec`, `WarningsAreComplete` |
| `console` | empty database, six seeding statements, three users, a vehicle and a flight that the administrator adds, statuses of resources that the administrator sets, flights that the manager moves, one allocation of the gate and the vehicle to the new flight, one task id and one report id that come again, crashes | `IInv` (which contains the types), `SeedingNeverOverwrites`, `OpenConsoleCanBeUsed`, `EveryChangeHasItsRole`, `TasksAreKept`, `ReportsAreSnapshots` |
| `monitoring` | a seeded flight and an unknown one, every status the manager can enter, one delay id and one emergency id, ten readings on both sides of every threshold, two rows of `atc_log` and one of `weather_log`, crash and failing statement anywhere | `TypeOK`, `IInv`, `FeedNeverGoesBack`, `SnapshotIsLogged`, `ProblemsAreReported`, `AlertIsTheWorstMeasure`, and `LifecycleSpec` (the flights live as `FlightLifecycle` says) |

`EstimatesFollowDelays` says that a flight's estimates are its scheduled times moved, both
alike, by no more minutes than its recorded delays add up to (fewer, when a failure comes
between the delay and the schedule). Schedule ids come again after a restart, and the upsert
then spoils the estimates of another flight. The property does not look away from
that, it bounds it: there is an injection from the schedules with other estimates
(`Misled`) to the flights without a schedule (`Unscheduled`), so that every flight that is
misled has cost another one its schedule, once and for all. In the instance `f2` is
created over the schedule id of `f1`, so the bound is reached; creations that get a new
id are in `console`, and the claim `CreatedFlightsHaveSchedules` below is the same event as a
violated statement.

`EveryChangeHasItsRole` names a role for every table of the program. The administrator adds
flights and resources, sets statuses of resources from the menu and saves schedules for new
flights; the manager moves flights, allocates and releases (which writes statuses of resources,
rows and staff links), delays, declares emergencies and creates tasks; ground staff change the
status of tasks; a report needs a login, and accounts never change. Two actors write statuses of
resources and two write schedules, so the property tells their writes apart by the handler that
is in progress. The check is made once and the statements come later; a status that is set, on
the other hand, has a check of its own inside a menu that asks for a login only
(ConsoleUI.cpp:301), and the mutant of this property drops exactly that one.

Runs that find a statement of the repository violated:

| Run | Statement | What the code does |
|---|---|---|
| `claim_no_partial_allocation` | README.md:326 "no partial allocation is ever persisted" | a staff id entered twice passes every check; the second link `INSERT` breaks the primary key after the row was committed |
| `claim_generated_ids` | DateTime.h:56 generated ids "won't collide" | `observe` is never called; after a restart `allocate` occupies its resources and then fails on the key |
| `claim_occupied_conflict` | ConflictDetector.h:14 "already OCCUPIED" is a conflict | `OCCUPIED` is never compared |
| `claim_maintenance_end` | design.md:122-126, maintenance is the administrator's | `release` writes `AVAILABLE` over it |
| `claim_created_flights` | test_flight.cpp:31 a created flight has a schedule | after a restart `SC1000` comes again, and the upsert changes the estimates of another flight |
| `claim_handling_after_landing` | EmergencyService.cpp:38 "After landing, ground operations can begin" | nothing asks whether a landing was recorded |

### Bounds

`MaxAllocationId`, `MaxScheduleId`, `MaxDelayId`, `MaxEmergencyId`, `MaxTaskId` and
`MaxReportId` bound the generators within one process (a restart sets them back);
`ReachedStatuses`, `EnteredStatuses`, `AdminStatuses`, `EnteredMinutes`,
`EnteredWindows`, `EnteredAssignees`, `EnteredProgress`, `EnteredReports` and
`Requests` bound what users enter; `Readings` bounds what the simulated weather draws;
`MaxAtcRows` and `MaxWeatherRows` bound the logs; `Faults` selects the failures.

Conflicts are between two allocations and ids collide between two processes: two
flights and two ids with restarts reach every pairing, and the third allocation of
`allocation_conflicts` lets a resource be taken again after a release. The requests
are chosen so that each pair meets on one resource only (gate, vehicle, or a staff
member that is not first in its list), so no part of the check hides another. In
`flight_operations` the entered statuses stop at `GROUND_OPERATIONS`: from there
`DELAYED` is reached and left again, and `BOARDING` and later states
are, for delays and emergencies, more of the same edges (`monitoring` enters them all). `FlightOperations` in
`airport` has no emergencies, whose effect on allocation is a status change like
another. In `console` the handlers are few, because only who runs them, and the
restarts around them, are in question: the one status that the administrator sets there is
`OCCUPIED`, and the one to which the manager moves a flight is `APPROACHING`. Allocations name no
staff, there are no delays and no emergencies, and the manager leaves the assignee of a task
blank; staff links in reports, the roles for all these tables and the other assignees are covered by
`ReportsAreSnapshotsHolds`, `EveryChangeHasItsRoleHolds` and `TasksAreKeptHolds` below. In `monitoring` the views write nothing but the
logs and nobody reads those, so two rows of `atc_log`, taken at any two moments of the
flight's life, are every pair of rows of a longer log; a snapshot needs one row of
`weather_log`.

### Fairness

`FairSpec` adds `WF_vars(Advance)`: the handler in progress runs its next statement.
The program has one thread, holds no lock and waits for nobody inside a handler
between statements, so a handler that can go on does. No fairness is assumed
of users, of failures or of restarts: `CallsReturn` and `HandlersReturn` need none of
them. The other properties are safety properties and are checked of `Spec`.

## 4. What is proved

The theorems hold for all sets of flights, resources, users and seeding statements, all
inputs, all bounds and all fault settings; no proof bounds the number of allocations,
restarts or failures, the length of a staff list or that of a log.

| Module | Theorem | Statement |
|---|---|---|
| `AllocationService_proofs` | `TypeCorrect` | `Spec => []TypeOK` |
| | `InductiveInvariant` | `Spec => []IInv` |
| | `NoDoubleBookingHolds` | `Spec => []NoDoubleBooking` |
| | `MaintenanceIsHonouredHolds` | `Spec => MaintenanceIsHonoured` |
| `AllocationProperties_proofs` | `RecordsAreKeptHolds`, `SuccessIsCompleteHolds`, `OccupiedBeforeRecordedHolds`, `FreedBeforeReleasedHolds`, `OnlyHoldersFreeHolds`, `NoServiceAfterDepartureHolds` | `Spec =>` the action property of that name |
| `AllocationRefinement_proofs` | `CalendarIsImplemented` | `Spec => CalendarSpec` |
| | `CalendarHasNoOverlap` | `CalendarSpec => []Calendar!NoOverlap` |
| `FlightOperations_proofs` | `TypeCorrect`, `InductiveInvariant` | `Spec => []TypeOK`, `Spec => []IInv` |
| | `OneSchedulePerFlightHolds`, `DelayedMeansRecordedHolds`, `OneEmergencyPerFlightHolds`, `EmergencyEntersTheLifecycleHolds`, `HandlingFollowsFlightHolds`, `EstimatesFollowDelaysHolds` | `Spec => []` the invariant of that name |
| | `DoneIsCompleteHolds` | `Spec => DoneIsComplete` |
| `Airport_proofs` | `AllocationIsImplemented` | `Spec => AllocationSpec` |
| | `InductiveInvariant` | `Spec => []IInv` |
| | `ProgramNeverDoubleBooks`, `ProgramKeepsFlightHistories` | the invariants of the services, of the program |
| | `WarningsAreCompleteHolds` | `Spec => WarningsAreComplete` |
| | `ProgramKeepsAllocationPromises` | `Spec =>` the seven action properties of the allocation, of the program |
| | `CalendarIsImplemented` | `Spec => CalendarSpec` |
| | `ProgramCompletesHandlers` | `Spec => Operations!DoneIsComplete` |
| `Monitoring_proofs` | `TypeCorrect`, `InductiveInvariant` | `Spec => []TypeOK`, `Spec => []IInv` |
| | `LifecycleIsImplemented` | `Spec => LifecycleSpec` |
| | `FeedNeverGoesBackHolds` | `Spec => []FeedNeverGoesBack` |
| | `SnapshotIsLoggedHolds`, `ProblemsAreReportedHolds`, `AlertIsTheWorstMeasureHolds` | `Spec =>` the action property of that name |
| `Console_proofs` | `TypeCorrect`, `InductiveInvariant` | `Spec => []TypeOK`, `Spec => []IInv` |
| | `OpenConsoleCanBeUsedHolds`, `ConsoleNeverDoubleBooks` | `Spec => []` that invariant, the second that of the program below |
| | `SeedingNeverOverwritesHolds`, `TasksAreKeptHolds`, `ReportsAreSnapshotsHolds`, `EveryChangeHasItsRoleHolds` | `Spec =>` the action property of that name |
| | `AllocationIsImplemented`, `CalendarIsImplemented` | `Spec => AllocationSpec`, `Spec => CalendarSpec` |
| | `ConsoleKeepsAllocationPromises`, `ConsoleKeepsFlightHistories`, `ConsoleReportsTruly` | the properties of the services, for the users of the console |

### Assumptions

The assumptions on the constants are named where the constants are declared, and TLC
evaluates them in the runs of these modules. Most say that bounds are naturals and
that what users enter has the type the console's prompts give it. The others:
`ResourceAssumption` (the kinds of resources have keys of their own, and there are
finitely many staff); `ScheduleAssumption` (a seeded schedule is the one of a
seeded flight, with estimates that are its scheduled times, as
`seedSampleDataIfEmpty` writes them); `SeedingAssumption` (`seedSampleDataIfEmpty` writes every row
once, users and resources before the first flight, and a flight before its one schedule);
`FirstStartAssumption` (the first process of `Console` finds an empty database). A module
that INSTANCEs another repeats what that one assumes (`AllocationAssumption`,
`OperationAssumption`, `ProgramAssumption`), so that nothing proved of the instance
is used where its assumptions do not hold.

### Allocation

`NoDoubleBooking` is not inductive. `allocate` checks for conflicts, and up to
several statements later a row and its links appear; between the two, the
invariant has to carry what was checked. `IInv` is the conjunction of

* `TypeOK`;
* `LinksHaveRows`, `RowsHaveResources`: the foreign keys. Without the first, a new row
  under an id with old links would inherit staff that nobody checked;
* `BookingsAreDisjoint`: the stored active allocations pass the conflict check against
  each other; it implies `NoDoubleBooking` by arithmetic on windows
  (`CommonInstantMeansOverlap`);
* `ChecksStillHold`: while `allocate` runs, its request still passes the check, its
  own partly recorded row aside;
* `AllocationProgress`, `ReleaseProgress`: how far the handler has come, that is, which
  resources are `OCCUPIED` or free by now, which staff are linked, and
  which are left in the loop.

The proof has one lemma per group of actions (`OccupyStep`, `BeginAllocationStep`,
`InsertStep`, `LinkStep`, `BeginReleaseStep`, `FreeStep`, `MarkReleasedStep`,
`OtherStep`); `NextIInv` combines them. The action properties follow from `IInv` at the
step in question, once a lemma has said which actions write the rows
(`RowsAreWrittenBy`), the statuses (`StatusesAreWrittenBy`) or the success
(`SuccessIsReportedBy`). `OnlyHoldersFree`, for example, needs `ReleaseProgress` for
what release frees and `BookingsAreDisjoint` for nobody else's holding it.

The refinement to `ReservationCalendar` maps each statement to one operation or a
stutter: the `INSERT` and each link reserve (`InsertReserves`, `LinkReserves`; what
makes them legal is `ChecksStillHold`, through `ChecksMeanFree`), marking the row
`RELEASED` cancels (`MarkReleasedCancels`), and all else leaves the calendar alone
(`SameCalendar`). The ids of calls must be ids of the calendar, which is an invariant of
its own (`IdsInRangeHolds`).

### Flights, delays, emergencies

The invariants of `FlightOperations` are not inductive either: between two
statements the tables say less than the handler knows. `IInv` adds the foreign keys
(`RowsHaveFlights`) and what each handler in progress has done by now (`CreateProgress`,
`DelayProgress`, `EmergencyProgress`): a flight whose schedule is about to be saved has
none; the delay of a flight about to become `DELAYED` is recorded; a flight whose
emergency is about to be saved is in `EMERGENCY_LANDING` and has no record. One lemma per
service (`FlightServiceStep`, `DelayServiceStep`, `EmergencyServiceStep`) shows that its
handlers keep them, and `TransitionKeepsHistory` what a transition along the edge table
does to all of them at once.

`EstimatesFollowDelays` compares estimates with a sum over the delay history. The sum is
the cardinality of a set, one pair of a delay and a number for each of its minutes
(`MinutesOf`), so that no induction over the history is needed: a new delay adds a
disjoint set of that many pairs. `EstimateProgress` is the strengthening. The
minutes of a delay that is recorded and has not moved the schedule yet are kept back
(`PendingMinutes`); a schedule whose estimates do not leave room for them is `Unaccounted`; and
the injection goes to the flights that have no schedule and will not get one
(`GivenUp`: not the flight whose schedule `createFlight` is about to save). When a
generated id is free, the saved schedule is new, accounts for itself, and its flight leaves
`Unscheduled` without having been used. When the id is taken, at most one schedule becomes
`Unaccounted`, and the created flight becomes the new value of the injection.

### Composition

`Airport_proofs` INSTANCEs the proof modules of the two groups of services and cites their
theorems. `OperationTurnRefines` shows that a handler of the flight services adds one
flight, moves one along the edge table or changes nothing that allocation knows of,
which is what the environment of `AllocationService` may do. `AllocationIsImplemented`
follows, and so does all that is proved of the allocation alone. The joint
invariant needs no further strengthening: a turn of one group leaves alone what the
invariant of the other is about, and a restart keeps both. `WarningsAreComplete` then
relates both groups: what `applyDelay` asks at the new times is the conflict check of
allocation (`SameQuestions`), and by `UnwarnedFits` an allocation without a warning has
no clash there. The other properties carry over: those of the allocation and the
calendar through `AllocationIsImplemented`, `DoneIsComplete` because the turns of the
allocation leave the handlers of the flight services alone (`DoneStep`).

`Monitoring_proofs` shows of any edge of the table, and so of every step of the
program, that it is a move of `FlightLifecycle` or none (`EdgesArePhases`), and that none
leads back in what the ATC answers (`EdgesGoForward`). The invariant behind
`FeedNeverGoesBack` is `FeedIsBehind`: every row of the log is no later than what the ATC
would answer of that flight now, so that the next row can be appended.

`Console_proofs` adds start-up and roles. `IInv` of `Console` carries `Program!IInv`
through the seeding, during which the program is not yet running: `OnlySeeded` (nothing
else is in the database, so the program's invariant holds of it), `SeedingProgress` (the
statements that have run have left their rows, and no flight is there unless one of them
wrote it), `UsersAreSeeded`, and `OpenedForGood` (a console that has opened never seeds
again, because a flight never disappears). An interrupted seeding that
has written a flight has all users and resources by the order of the statements
(`FlightsComeLast`). `HandlersHaveTheirRole` carries the role check, which is made once, to
the later statements of a handler; `EveryChangeHasItsRole` follows with one lemma per
group of handlers on what it may change (`AllocationHandlers`, `OperationAdvances`,
`OperationCommands`). The logs of the simulated services are not in `Console`, and so not in
this property.

What is proved of `Airport` holds for the users of the console too. `ProgramSteps` says that a step of
the console is one of the program, changes nothing of it, or is a statement of
the seeding at an idle menu; to the allocation service that last one is a flight or a
resource that a user adds, or nothing (`SeedRefinesAllocation`). So the console implements
`AllocationSpec` and with it the calendar, and keeps the action properties of the
allocation, of the flight histories and of the reports of handlers.

### Only model-checked, or only proved

* Not proved: liveness under fairness (`CallsReturn`, `HandlersReturn`): beyond the prover in use, as
  is `ENABLED`.
* `AllocationSpec` of `Console` is proved and not run: TLC found it satisfied on the instance
  of `console`, but needs more time than a run has. The same holds of `CalendarSpec` of `Airport`.
* `CalendarSpec` of `Console` is proved and not run: two flights that reserve one resource need two
  requests and two allocation ids, more than an instance of the whole console can hold. The
  run of the calendar is `allocation_faults`.
* The violations of section 3, which are counterexamples on instances.

## 5. What is left out, and why

* Wording, menus, logging and `describe` texts: nothing depends on them.
* `FAILED` as an allocation status is never written by the code.
* `handleCheckConflicts`, the lists and the view of saved reports only read; the conflict
  check is `HasConflict`. Which conflict is reported first is wording.
* Resource types, task types, delay reasons and conflict types are names that nothing
  decides by: neither they nor their texts and parsers are modelled, and rows have no such column. The remarks of the ATC repeat the status; the temperature
  decides nothing.
* The three monitoring views are in `Monitoring`, not in `Console`: they need a login
  and no role, and with both the state space is beyond a run.
* Malformed dates: `fromString` turns them into the epoch, but the console asks again until
  a date is well formed, so no service sees one.
* The repeated hour of a clock change, in which the stored text of a time is ambiguous:
  windows are minutes on one line, without time zones.
* Passwords: a login either matches or changes nothing. Deactivated accounts do not
  occur, since nothing deactivates one. `users` is keyed by username; the seeding gives
  every username one id.
* Failures to open or create the database: the process ends before it has any state.
* The `create*` operations of `UserService` are called by the tests only,
  `isGroundOperationComplete` by nobody.
* The order in which `seedSampleDataIfEmpty` saves is kept; the instance seeds three users, one
  gate, one flight and its schedule.

## 6. Known limits that are documented, not checked as promises

A seeding that is cut short after the first flight is never completed
(`OpenConsoleCanBeUsed` says what is there all the same). A cancelled or departed flight
keeps its active allocations. Releasing an allocation sets a resource `AVAILABLE` that
another window of the same or another flight also holds (`OnlyHoldersFree` says that the
windows of two flights do not overlap then). A `DELAYED` flight can resume in a later state
than the one it left: the comment at Flight.cpp:38 leaves the choice to `DelayService`,
which makes none; the manager picks the state (`LifecycleSpec` bounds how far). The
states are reachable in the runs above, and no property forbids them.

## 7. Plan

1. Done: allocation (first, because it is the program's purpose), its calendar, the
   flight, delay and emergency services, the whole program, start-up, session, tasks and
   reports; the texts of the enumerations, the simulated services, the monitor and the
   abstract life cycle. Of the components that change state, the parts that are still
   open are listed in section 5.
2. Done: theorems for every safety property that a passing run checks, for all
   refinements, and for the properties of the services in the program and in the console.
3. Open: the monitor under the roles of the console, which needs a composition smaller than the
   one that section 5 rules out.
