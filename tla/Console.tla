------------------------------- MODULE Console -------------------------------
(***************************************************************************)
(* ConsoleUI: the whole program as its users meet it.  A process fills an  *)
(* empty database, then shows the menu; a user logs in, and each handler   *)
(* looks at the role of the user before it does anything.                  *)
(***************************************************************************)
EXTENDS ReportService, Startup

CONSTANTS Requests, NoRequest, MaxAllocationId, AdminStatuses, Faults

VARIABLES nextAllocationId, call, result

Program == INSTANCE Airport

\* The first process finds an empty database.
ASSUME FirstStartAssumption ==
  SeedFlights = {} /\ SeedResources = {} /\ SeedSchedules = << >>

\* What the program asks of its constants.
ASSUME ProgramAssumption ==
  /\ Requests \subseteq Program!AllocationRequests
  /\ NoRequest \notin Requests
  /\ MaxAllocationId \in Nat
  /\ AdminStatuses \subseteq ResourceStatuses
  /\ EnteredMinutes \subseteq Int
  /\ MaxDelayId \in Nat /\ MaxEmergencyId \in Nat

consoleVars ==
  <<startup, users, currentRole, tasks, nextTaskId, reports, nextReportId>>

allocationVars ==
  <<allocations, allocationStaff, nextAllocationId, call, result>>

programVars ==
  <<flights, resources, schedules, nextScheduleId, delays, nextDelayId,
    emergencies, nextEmergencyId, operation, outcome>>

vars == <<allocationVars, programVars, consoleVars>>

TypeOK ==
  /\ Program!Allocation!TypeOK
  /\ Program!Operations!TypeOK
  /\ UserTypeOK
  /\ TaskTypeOK
  /\ ReportTypeOK

Init ==
  /\ Program!Init
  /\ UserInit
  /\ TaskInit
  /\ ReportInit
  /\ startup = Opening

-----------------------------------------------------------------------------
Seed ==
  /\ SeedStep
  /\ UNCHANGED <<allocationVars, nextScheduleId, delays, nextDelayId, emergencies,
                 nextEmergencyId, operation, outcome, currentRole, tasks,
                 nextTaskId, reports, nextReportId>>

\* Mutant of ProgramStep: a login is enough to set the status of a resource.
ProgramStepAnyStatus ==
  /\ ConsoleIsOpen
  /\ \/ Program!HandlerStep
     \/ RequireRole("OPERATIONS_MANAGER") /\ Program!ManagerCommand
     \/ RequireRole("ADMINISTRATOR") /\ Program!AdministratorCommand
     \/ /\ RequireLogin
        /\ Program!AllocationTurn
        /\ \E r \in Resources, status \in AdminStatuses :
             Program!Allocation!SetResourceStatus(r, status)
  /\ UNCHANGED consoleVars

\* A handler of the program, behind the role check of its menu entry.
ProgramStep ==
  /\ ConsoleIsOpen
  /\ \/ Program!HandlerStep
     \/ RequireRole("OPERATIONS_MANAGER") /\ Program!ManagerCommand
     \/ RequireRole("ADMINISTRATOR") /\ Program!AdministratorCommand
  /\ UNCHANGED consoleVars

\* The menu waits for a choice.
AtPrompt ==
  /\ ConsoleIsOpen
  /\ call = Program!Allocation!Idle
  /\ operation = AtMenu

HandleLogin ==
  /\ AtPrompt
  /\ \E name \in DOMAIN users : Login(name)
  /\ UNCHANGED <<allocationVars, programVars, startup, tasks, nextTaskId, reports, nextReportId>>

HandleGroundTasks ==
  /\ AtPrompt
  /\ \/ RequireRole("OPERATIONS_MANAGER") /\ TaskManagerCommand
     \/ RequireRole("GROUND_STAFF") /\ TaskStaffCommand
  /\ UNCHANGED <<allocationVars, programVars, startup, users, currentRole, reports, nextReportId>>

HandleReports ==
  /\ AtPrompt
  /\ RequireLogin
  /\ ReportCommand
  /\ UNCHANGED <<allocationVars, programVars, startup, users, currentRole, tasks, nextTaskId>>

\* The process ends, by the menu or otherwise, and is started again.
Restart ==
  /\ Program!Restart
  /\ startup' = Opening
  /\ currentRole' = "NONE"
  /\ nextTaskId' = 1
  /\ nextReportId' = 1
  /\ UNCHANGED <<users, tasks, reports>>

Next ==
  Seed \/ ProgramStep \/ HandleLogin \/ HandleGroundTasks \/ HandleReports \/ Restart

Spec == Init /\ [][Next]_vars

-----------------------------------------------------------------------------
\* Start-up fills in what is missing and changes nothing that is there, after
\* a seeding that was interrupted as well: no status that the users set is
\* lost because the process was started again.
SeedingNeverOverwrites ==
  [][~ ConsoleIsOpen =>
       /\ \A f \in DOMAIN flights : flights'[f] = flights[f]
       /\ \A r \in DOMAIN resources : resources'[r] = resources[r]
       /\ \A s \in DOMAIN schedules : schedules'[s] = schedules[s]
       /\ \A u \in DOMAIN users : users'[u] = users[u]]_vars

\* What the administrator's handlers change: flights and resources are added,
\* the status of a resource is set from the menu, and a schedule is saved
\* for the new flight, or over an old one.
Administered ==
  \/ DOMAIN flights' # DOMAIN flights
  \/ DOMAIN resources' # DOMAIN resources
  \/ resources' # resources /\ call = Program!Allocation!Idle
  \/ DOMAIN schedules' # DOMAIN schedules
  \/ schedules' # schedules /\ operation.step = "saveSchedule"

\* What the operations manager's handlers change: allocate and release write
\* statuses of resources, a delay moves a schedule.
Managed ==
  \/ \E f \in DOMAIN flights : flights'[f] # flights[f]
  \/ resources' # resources /\ call # Program!Allocation!Idle
  \/ allocations' # allocations \/ allocationStaff' # allocationStaff
  \/ schedules' # schedules /\ operation.step # "saveSchedule"
  \/ delays' # delays \/ emergencies' # emergencies
  \/ DOMAIN tasks' # DOMAIN tasks

\* What ground staff change.
Worked == \E t \in DOMAIN tasks : tasks'[t] # tasks[t]

\* Once the console is open, every statement that changes a table runs for a
\* user of the role the README gives that duty, up to the last statement of a
\* handler and after any sequence of logins and restarts.  Reports are saved
\* for whoever is logged in, and nobody's account changes.
EveryChangeHasItsRole ==
  [][ConsoleIsOpen =>
       /\ Administered => currentRole = "ADMINISTRATOR"
       /\ Managed => currentRole = "OPERATIONS_MANAGER"
       /\ Worked => currentRole = "GROUND_STAFF"
       /\ reports' # reports => currentRole # "NONE"
       /\ users' = users]_vars

\* A ground task is never lost and never becomes another one: ids that come
\* again after a restart do not touch its flight or assignee, nor its status.
TasksAreKept ==
  [][\A t \in DOMAIN tasks :
       /\ t \in DOMAIN tasks'
       /\ [tasks'[t] EXCEPT !.status = tasks[t].status] = tasks[t]
       /\ nextTaskId' # nextTaskId => tasks'[t] = tasks[t]]_vars

\* A saved report stays what it was when it was shown, whatever ids come
\* again, and an allocation report shows as SUCCESS, with its staff, exactly
\* what the conflict queries count as active at that moment: the one parses
\* the status of a row, the others compare its text.
ReportsAreSnapshots ==
  [][/\ \A r \in DOMAIN reports : r \in DOMAIN reports' /\ reports'[r] = reports[r]
     /\ \A r \in DOMAIN reports' \ DOMAIN reports :
          reports'[r].type = "ALLOCATION" =>
            LET listed == reports'[r].content
            IN  /\ {a \in DOMAIN listed : listed[a].row.status = "SUCCESS"} = ActiveAllocations
                /\ \A a \in ActiveAllocations, s \in Staff :
                     s \in listed[a].staff <=> a \in ListActiveAllocationsFor(s)]_vars

SeededIn(table) ==
  {SeedStatements[i].key : i \in {j \in DOMAIN SeedStatements : SeedStatements[j].table = table}}

\* Once the console is open somebody can log in for every duty and there is
\* something to allocate, however many starts were cut short before: seeding
\* looks at the flights only, but whoever finds one finds all users and
\* resources, too.
OpenConsoleCanBeUsed ==
  ConsoleIsOpen =>
    SeededIn("users") \subseteq DOMAIN users /\ SeededIn("resources") \subseteq DOMAIN resources

\* To the allocation service the console is what its specification assumes,
\* too: the seeding adds flights and resources one by one like a user, the
\* menu starts one handler at a time, and nothing that happens at the prompt
\* touches what a call relies on.  What is shown of AllocationService alone
\* holds from the first start of the program on an empty database.
AllocationSpec == Program!AllocationSpec

\* What the users of the program may rely on from its first start, on an
\* empty database, on: no two flights ever reserve one resource in overlapping
\* windows, and an allocation that was given up never comes back, whatever the
\* handlers do in between, whatever fails and whenever the process restarts.
CalendarSpec == Program!CalendarSpec

-----------------------------------------------------------------------------
(* The inductive invariant                                                 *)

\* The row that a statement of the seeding writes is there.
Stored(statement) ==
  statement.key \in
    CASE statement.table = "users"            -> DOMAIN users
      [] statement.table = "resources"        -> DOMAIN resources
      [] statement.table = "flights"          -> DOMAIN flights
      [] statement.table = "flight_schedules" -> DOMAIN schedules

\* A seeding in progress: what it has run is there, and no flight is unless
\* it was among that.
SeedingProgress ==
  ~ ConsoleIsOpen =>
    \E n \in DOMAIN SeedStatements :
      /\ startup = SubSeq(SeedStatements, n, Len(SeedStatements))
      /\ \A i \in 1 .. n - 1 : Stored(SeedStatements[i])
      /\ DOMAIN flights # {} => \E i \in 1 .. n - 1 : SeedStatements[i].table = "flights"

\* Until the console opens for the first time nothing else is there: the
\* rows are as they were seeded, and no handler has run.
OnlySeeded ==
  ~ ConsoleIsOpen =>
    /\ call = Program!Allocation!Idle /\ result = Program!Allocation!NoResult
    /\ operation = AtMenu
    /\ allocations = << >> /\ allocationStaff = {}
    /\ delays = << >> /\ emergencies = << >>
    /\ \A r \in DOMAIN resources : resources[r] = "AVAILABLE"
    /\ \A f \in DOMAIN flights : flights[f] = "SCHEDULED"
    /\ \A s \in DOMAIN schedules :
         /\ schedules[s].estimated = schedules[s].scheduled
         /\ \E i \in DOMAIN SeedStatements :
              /\ SeedStatements[i].table = "flight_schedules" /\ SeedStatements[i].key = s
              /\ SeedStatements[i].row.flight = schedules[s].flight
              /\ SeedStatements[i].row.window = schedules[s].scheduled

\* Nobody but the seeding writes accounts.
UsersAreSeeded ==
  \A u \in DOMAIN users : \E i \in DOMAIN SeedStatements :
    /\ SeedStatements[i].table = "users" /\ SeedStatements[i].key = u
    /\ SeedStatements[i].row = users[u]

\* A console that has opened never goes back to seeding.
OpenedForGood == ConsoleIsOpen => DOMAIN flights # {}

\* A handler in progress is that of a user who may start it: nobody logs in
\* between two statements.
HandlersHaveTheirRole ==
  /\ call # Program!Allocation!Idle => currentRole = "OPERATIONS_MANAGER"
  /\ operation # AtMenu =>
       currentRole = IF operation.step = "saveSchedule"
                     THEN "ADMINISTRATOR" ELSE "OPERATIONS_MANAGER"

\* All of them together are preserved by every step of the console; the types
\* of the program's state are part of its own invariant.
IInv ==
  /\ Program!IInv
  /\ UserTypeOK /\ TaskTypeOK /\ ReportTypeOK
  /\ SeedingProgress
  /\ OnlySeeded
  /\ UsersAreSeeded
  /\ OpenedForGood
  /\ OpenConsoleCanBeUsed
  /\ HandlersHaveTheirRole
=============================================================================
