----------------------- MODULE GroundOperationsService -----------------------
(***************************************************************************)
(* GroundOperationsService: ground tasks.  Each handler commits one        *)
(* statement.  Neither the assigned staff id nor the order of the statuses *)
(* is checked.  Task ids "GT0001", "GT0002", ... are 1, 2, ....            *)
(***************************************************************************)
EXTENDS AirportDatabase

CONSTANTS
  Unassigned,        \* the blank staff id
  EnteredAssignees,  \* what the manager types as staff id, known or not
  EnteredProgress,   \* bound: the statuses ground staff pick
  MaxTaskId          \* bound: ids the generator hands out

ASSUME TaskAssumption ==
  /\ MaxTaskId \in Nat
  /\ EnteredProgress \subseteq TaskStatuses

VARIABLES
  tasks,             \* rows of ground_tasks, by task_id
  nextTaskId         \* taskIdGen_.counter_, in memory only

TaskRows ==
  [flight : Flights, staff : EnteredAssignees \cup {Unassigned}, status : TaskStatuses]

TaskTypeOK ==
  /\ DOMAIN tasks \subseteq Nat
  /\ tasks \in [DOMAIN tasks -> TaskRows]
  /\ nextTaskId \in Nat

TaskInit == tasks = << >> /\ nextTaskId = 1

\* The constructor of GroundTask.
NewTask(f, staff) ==
  [flight |-> f, staff |-> staff,
   status |-> IF staff = Unassigned THEN "PENDING" ELSE "ASSIGNED"]

\* Mutant of CreateTask: an upsert, as saveFlight is.
UpsertTask(f, staff) ==
  /\ f \in DOMAIN flights
  /\ nextTaskId <= MaxTaskId
  /\ nextTaskId' = nextTaskId + 1
  /\ tasks' = Inserted(tasks, nextTaskId, NewTask(f, staff))

\* saveGroundTask: a plain INSERT.
CreateTask(f, staff) ==
  /\ f \in DOMAIN flights
  /\ nextTaskId <= MaxTaskId
  /\ nextTaskId \notin DOMAIN tasks
  /\ nextTaskId' = nextTaskId + 1
  /\ tasks' = Inserted(tasks, nextTaskId, NewTask(f, staff))

\* The INSERT is refused: the id is spent all the same.
CreateTaskRefused(f) ==
  /\ f \in DOMAIN flights
  /\ nextTaskId <= MaxTaskId
  /\ nextTaskId \in DOMAIN tasks
  /\ nextTaskId' = nextTaskId + 1
  /\ UNCHANGED tasks

\* An UPDATE that matches no row is reported as a success, too.
UpdateTaskStatus(id, status) ==
  /\ tasks' = [t \in DOMAIN tasks |->
                 IF t = id THEN [tasks[t] EXCEPT !.status = ToText(status)] ELSE tasks[t]]
  /\ UNCHANGED nextTaskId

\* What the operations manager starts, and what ground staff start.
TaskManagerCommand ==
  \E f \in Flights :
    \/ CreateTaskRefused(f)
    \/ \E staff \in EnteredAssignees \cup {Unassigned} : CreateTask(f, staff)

TaskStaffCommand ==
  \E id \in 1 .. MaxTaskId, status \in EnteredProgress : UpdateTaskStatus(id, status)
=============================================================================
