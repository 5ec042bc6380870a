-------------------------- MODULE AllocationService --------------------------
(***************************************************************************)
(* AllocationService::allocate and ::release, statement by statement, in   *)
(* the single-threaded console program.                                    *)
(*                                                                         *)
(* A handler runs to its end before the next one starts, so its checks and *)
(* its first statement see the same database.  But every statement is      *)
(* committed by itself: the process can die, or SQLite can refuse, between *)
(* any two of them.  `call` is the handler in progress: the statement it   *)
(* runs next and its local variables.  Everything else that touches the    *)
(* tables (the administrator's ResourceService calls, the status changes   *)
(* of flights) is one statement long and happens while no call is open.    *)
(***************************************************************************)
EXTENDS ConflictDetector

CONSTANTS
  Requests,          \* the allocation requests the operations manager may enter
  NoRequest,         \* the request of no call
  MaxAllocationId,   \* bound: ids the generator hands out
  ReachedStatuses,   \* bound: the flight states entered in a run
  AdminStatuses,     \* bound: the statuses the administrator sets
  Faults             \* which of "crash" and "statement" failures happen

ASSUME RequestAssumption ==
  /\ Requests \subseteq AllocationRequests
  /\ NoRequest \notin Requests

ASSUME BoundAssumption ==
  /\ MaxAllocationId \in Nat
  /\ ReachedStatuses \subseteq FlightStatuses
  /\ AdminStatuses \subseteq ResourceStatuses

VARIABLES
  nextAllocationId,  \* allocationIdGen_.counter_, in memory only
  call,              \* the handler in progress
  result             \* what the handler that just ended returned or threw

vars == <<flights, resources, allocations, allocationStaff,
          nextAllocationId, call, result>>

AllocateSteps == {"occupyGate", "occupyVehicle", "occupyStaff", "linkStaff"}
ReleaseSteps == {"freeGate", "freeVehicle", "freeStaff"}

Idle == [step |-> "idle", id |-> 0, request |-> NoRequest, staff |-> << >>]

\* A call: its next statement, the allocation id it works on, the request it
\* serves (allocate), and the staff ids its loop still has to visit.
Calls ==
  {Idle}
    \cup [step : AllocateSteps, id : Nat, request : Requests, staff : Seq(Staff)]
    \cup [step : ReleaseSteps, id : Nat, request : {NoRequest}, staff : Seq(Staff)]

Results == [outcome : {"none", "success", "failed", "released", "exception"},
            id : Nat]

NoResult == [outcome |-> "none", id |-> 0]

TypeOK ==
  /\ DatabaseTypeOK
  /\ nextAllocationId \in Nat
  /\ call \in Calls
  /\ result \in Results

Init ==
  /\ DatabaseInit
  /\ nextAllocationId = 1
  /\ call = Idle
  /\ result = NoResult

\* The handler ends and the UI shows what it returned, or what it threw.
Return(outcome, id) ==
  /\ call' = Idle
  /\ result' = [outcome |-> outcome, id |-> id]

Proceed(step) ==
  /\ call' = [call EXCEPT !.step = step]
  /\ result' = NoResult

\* Mutant of NextStaff: the loop does not advance.
SameStaff ==
  /\ call' = call
  /\ result' = NoResult

\* One round of a loop over staff ids.
NextStaff ==
  /\ call' = [call EXCEPT !.staff = Tail(@)]
  /\ result' = NoResult

-----------------------------------------------------------------------------
(* allocate(request)                                                       *)

\* Mutant of Serviceable: the flight's status is not looked at.
Known(request) == request.flight \in DOMAIN flights

Serviceable(request) ==
  /\ request.flight \in DOMAIN flights
  /\ FlightStatusOf(request.flight) \in AllocatableStates

MayAllocate(request) == Serviceable(request) /\ ~ HasConflict(request)

\* AllocationResult::failure, before anything is written.
RejectAllocation(request) ==
  /\ call = Idle
  /\ ~ MayAllocate(request)
  /\ Return("failed", 0)
  /\ UNCHANGED <<tables, nextAllocationId>>

\* The checks pass and the id is generated.
BeginAllocation(request) ==
  /\ call = Idle
  /\ MayAllocate(request)
  /\ nextAllocationId <= MaxAllocationId
  /\ nextAllocationId' = nextAllocationId + 1
  /\ call' = [step |-> "occupyGate", id |-> nextAllocationId,
              request |-> request, staff |-> request.staff]
  /\ result' = NoResult
  /\ UNCHANGED tables

OccupyGate ==
  /\ call.step = "occupyGate"
  /\ resources' = StatusUpdated(resources, call.request.gate, "OCCUPIED")
  /\ Proceed("occupyVehicle")
  /\ UNCHANGED <<flights, allocations, allocationStaff, nextAllocationId>>

\* Mutant of OccupyVehicle: the gate is updated twice, the vehicle never.
OccupyGateAgain ==
  /\ call.step = "occupyVehicle"
  /\ resources' = StatusUpdated(resources, call.request.gate, "OCCUPIED")
  /\ Proceed("occupyStaff")
  /\ UNCHANGED <<flights, allocations, allocationStaff, nextAllocationId>>

OccupyVehicle ==
  /\ call.step = "occupyVehicle"
  /\ resources' = StatusUpdated(resources, call.request.vehicle, "OCCUPIED")
  /\ Proceed("occupyStaff")
  /\ UNCHANGED <<flights, allocations, allocationStaff, nextAllocationId>>

OccupyStaff ==
  /\ call.step = "occupyStaff"
  /\ call.staff # << >>
  /\ resources' = StatusUpdated(resources, Head(call.staff), "OCCUPIED")
  /\ NextStaff
  /\ UNCHANGED <<flights, allocations, allocationStaff, nextAllocationId>>

NewRow(request) ==
  [flight |-> request.flight, gate |-> request.gate,
   vehicle |-> request.vehicle, window |-> request.window,
   status |-> "SUCCESS"]

\* Mutant of InsertAllocation: an upsert, as saveGate and saveFlight are.
UpsertAllocation ==
  /\ call.step = "occupyStaff"
  /\ call.staff = << >>
  /\ allocations' = Inserted(allocations, call.id, NewRow(call.request))
  /\ call' = [call EXCEPT !.step = "linkStaff", !.staff = call.request.staff]
  /\ result' = NoResult
  /\ UNCHANGED <<flights, resources, allocationStaff, nextAllocationId>>

\* Mutant of InsertAllocation: the staff are not linked.
InsertRowOnly ==
  /\ call.step = "occupyStaff"
  /\ call.staff = << >>
  /\ call.id \notin DOMAIN allocations
  /\ allocations' = Inserted(allocations, call.id, NewRow(call.request))
  /\ Proceed("linkStaff")
  /\ UNCHANGED <<flights, resources, allocationStaff, nextAllocationId>>

\* saveAllocation: a plain INSERT, refused when the id is taken.
InsertAllocation ==
  /\ call.step = "occupyStaff"
  /\ call.staff = << >>
  /\ call.id \notin DOMAIN allocations
  /\ allocations' = Inserted(allocations, call.id, NewRow(call.request))
  /\ call' = [call EXCEPT !.step = "linkStaff", !.staff = call.request.staff]
  /\ result' = NoResult
  /\ UNCHANGED <<flights, resources, allocationStaff, nextAllocationId>>

InsertRefused ==
  /\ call.step = "occupyStaff"
  /\ call.staff = << >>
  /\ call.id \in DOMAIN allocations
  /\ Return("exception", call.id)
  /\ UNCHANGED <<tables, nextAllocationId>>

\* saveAllocation: one INSERT per staff id, refused when the pair is there.
LinkStaff ==
  /\ call.step = "linkStaff"
  /\ call.staff # << >>
  /\ <<call.id, Head(call.staff)>> \notin allocationStaff
  /\ allocationStaff' = allocationStaff \cup {<<call.id, Head(call.staff)>>}
  /\ NextStaff
  /\ UNCHANGED <<flights, resources, allocations, nextAllocationId>>

LinkRefused ==
  /\ call.step = "linkStaff"
  /\ call.staff # << >>
  /\ <<call.id, Head(call.staff)>> \in allocationStaff
  /\ Return("exception", call.id)
  /\ UNCHANGED <<tables, nextAllocationId>>

AllocationSucceeds ==
  /\ call.step = "linkStaff"
  /\ call.staff = << >>
  /\ Return("success", call.id)
  /\ UNCHANGED <<tables, nextAllocationId>>

-----------------------------------------------------------------------------
(* release(allocationId)                                                   *)

\* NotFoundException, or ValidationException for an allocation released before.
RejectRelease(id) ==
  /\ call = Idle
  /\ id \notin ActiveAllocations
  /\ Return("exception", id)
  /\ UNCHANGED <<tables, nextAllocationId>>

\* Mutant of BeginRelease: a released allocation is released again.
BeginReleaseOfAny(id) ==
  /\ call = Idle
  /\ id \in DOMAIN allocations
  /\ \E listing \in Listings(StaffOf(id)) :
       call' = [step |-> "freeGate", id |-> id, request |-> NoRequest,
                staff |-> listing]
  /\ result' = NoResult
  /\ UNCHANGED <<tables, nextAllocationId>>

\* The row and its staff are read.
BeginRelease(id) ==
  /\ call = Idle
  /\ id \in ActiveAllocations
  /\ \E listing \in Listings(StaffOf(id)) :
       call' = [step |-> "freeGate", id |-> id, request |-> NoRequest,
                staff |-> listing]
  /\ result' = NoResult
  /\ UNCHANGED <<tables, nextAllocationId>>

FreeGate ==
  /\ call.step = "freeGate"
  /\ resources' = StatusUpdated(resources, allocations[call.id].gate, "AVAILABLE")
  /\ Proceed("freeVehicle")
  /\ UNCHANGED <<flights, allocations, allocationStaff, nextAllocationId>>

FreeVehicle ==
  /\ call.step = "freeVehicle"
  /\ resources' = StatusUpdated(resources, allocations[call.id].vehicle, "AVAILABLE")
  /\ Proceed("freeStaff")
  /\ UNCHANGED <<flights, allocations, allocationStaff, nextAllocationId>>

FreeStaff ==
  /\ call.step = "freeStaff"
  /\ call.staff # << >>
  /\ resources' = StatusUpdated(resources, Head(call.staff), "AVAILABLE")
  /\ NextStaff
  /\ UNCHANGED <<flights, allocations, allocationStaff, nextAllocationId>>

\* Mutant of MarkReleased: the row is updated before the staff.
MarkReleasedFirst ==
  /\ call.step = "freeStaff"
  /\ allocations' = AllocationReleased(call.id)
  /\ Return("released", call.id)
  /\ UNCHANGED <<flights, resources, allocationStaff, nextAllocationId>>

MarkReleased ==
  /\ call.step = "freeStaff"
  /\ call.staff = << >>
  /\ allocations' = AllocationReleased(call.id)
  /\ Return("released", call.id)
  /\ UNCHANGED <<flights, resources, allocationStaff, nextAllocationId>>

-----------------------------------------------------------------------------
(* What else changes the tables.                                           *)

\* ResourceService::addGate, addVehicle, addGroundStaffResource.
AddResource(r) ==
  /\ call = Idle
  /\ r \notin DOMAIN resources
  /\ resources' = Inserted(resources, r, "AVAILABLE")
  /\ result' = NoResult
  /\ UNCHANGED <<flights, allocations, allocationStaff, nextAllocationId, call>>

\* ResourceService::setGateStatus, setVehicleStatus, setGroundStaffStatus.
SetResourceStatus(r, status) ==
  /\ call = Idle
  /\ r \in DOMAIN resources
  /\ resources' = StatusUpdated(resources, r, status)
  /\ result' = NoResult
  /\ UNCHANGED <<flights, allocations, allocationStaff, nextAllocationId, call>>

\* The flights row that FlightService::createFlight saves.
AddFlight(f) ==
  /\ call = Idle
  /\ f \notin DOMAIN flights
  /\ flights' = Inserted(flights, f, "SCHEDULED")
  /\ result' = NoResult
  /\ UNCHANGED <<resources, allocations, allocationStaff, nextAllocationId, call>>

\* The flights row that FlightService::transitionFlightStatus updates, for
\* the manager or for DelayService and EmergencyService.
TransitionFlight(f, status) ==
  /\ call = Idle
  /\ f \in DOMAIN flights
  /\ IsTransitionAllowed(FlightStatusOf(f), status)
  /\ flights' = StatusUpdated(flights, f, status)
  /\ result' = NoResult
  /\ UNCHANGED <<resources, allocations, allocationStaff, nextAllocationId, call>>

\* SQLite refuses a statement (disk full, file locked): Stmt::run throws and
\* the console shows the error.  What the call committed stays.
StatementFails ==
  /\ "statement" \in Faults
  /\ call # Idle
  /\ ~ (call.step = "linkStaff" /\ call.staff = << >>)   \* nothing left to run
  /\ Return("exception", call.id)
  /\ UNCHANGED <<tables, nextAllocationId>>

\* The process ends, at the menu or inside a call, and is started again: the
\* database is as the last statement left it, the generator starts over.
Restart ==
  /\ "crash" \in Faults
  /\ call' = Idle
  /\ result' = NoResult
  /\ nextAllocationId' = 1
  /\ UNCHANGED tables

-----------------------------------------------------------------------------
\* The statements of the call in progress.
Advance ==
  \/ OccupyGate \/ OccupyVehicle \/ OccupyStaff
  \/ InsertAllocation \/ InsertRefused
  \/ LinkStaff \/ LinkRefused \/ AllocationSucceeds
  \/ FreeGate \/ FreeVehicle \/ FreeStaff \/ MarkReleased

\* What the operations manager starts at the menu.
AllocationCommand ==
  \/ \E request \in Requests : RejectAllocation(request) \/ BeginAllocation(request)
  \/ \E id \in 1 .. MaxAllocationId : RejectRelease(id) \/ BeginRelease(id)

\* What the administrator does to the resources.
ResourceCommand ==
  \E r \in Resources :
    AddResource(r) \/ (\E status \in AdminStatuses : SetResourceStatus(r, status))

\* What the other services do to the flights while no call is open.
FlightChange ==
  \E f \in Flights :
    AddFlight(f) \/ (\E status \in ReachedStatuses : TransitionFlight(f, status))

UserCommand == AllocationCommand \/ ResourceCommand \/ FlightChange

Next == Advance \/ UserCommand \/ StatementFails \/ Restart

Spec == Init /\ [][Next]_vars

\* A call, once started, runs on by itself: it waits for nobody.
FairSpec == Spec /\ WF_vars(Advance)

-----------------------------------------------------------------------------
(* Safety                                                                  *)

\* Two flights never hold one gate, vehicle or staff member at one instant:
\* what allocate's conflict check is for, across releases, crashes and
\* allocations that were only partly recorded.
NoDoubleBooking ==
  \A a, b \in ActiveAllocations :
    /\ allocations[a].flight # allocations[b].flight
    /\ ResourcesOf(a) \cap ResourcesOf(b) # {}
    => InstantsOf(allocations[a].window) \cap InstantsOf(allocations[b].window) = {}

\* An allocation record is history: no later call, and no id handed out a
\* second time after a restart, changes its flight, resources or window or
\* brings it back once released; staff are linked only by its own call.
RecordsAreKept ==
  [][\A a \in DOMAIN allocations :
       /\ a \in DOMAIN allocations'
       /\ allocations'[a] \in {allocations[a], [allocations[a] EXCEPT !.status = "RELEASED"]}
       /\ StaffOf(a) \subseteq StaffOf(a)'
       /\ (StaffOf(a)' # StaffOf(a)) => call.id = a /\ call.step = "linkStaff"]_vars

\* allocate never takes a resource out of maintenance: the statuses it read
\* in its checks still hold at each of its later UPDATEs.
MaintenanceIsHonoured ==
  [][call # Idle =>
       \A r \in DOMAIN resources :
         resources[r] = "MAINTENANCE" => resources'[r] # "OCCUPIED"]_vars

\* When allocate reports success, what the UI then prints is true: the row is
\* there as requested, it is active, exactly the requested staff are linked,
\* and every requested resource is OCCUPIED.
SuccessIsComplete ==
  [][(call # Idle /\ result'.outcome = "success") =>
       /\ call.id \in DOMAIN allocations'
       /\ allocations'[call.id] = NewRow(call.request)
       /\ {s \in Staff : <<call.id, s>> \in allocationStaff'} = Range(call.request.staff)
       /\ \A r \in Requested(call.request) : resources'[r] = "OCCUPIED"]_vars

\* An allocation is recorded only once all its resources are OCCUPIED, so a
\* call that stops half way never leaves an active row over a resource that
\* the console lists as AVAILABLE.
OccupiedBeforeRecorded ==
  [][\A a \in DOMAIN allocations' \ DOMAIN allocations :
       \A r \in Requested(call.request) : resources[r] = "OCCUPIED"]_vars

\* An allocation becomes RELEASED only once all its resources are AVAILABLE:
\* a release that stops half way can be repeated, and no resource stays
\* OCCUPIED on behalf of an allocation that is released.
FreedBeforeReleased ==
  [][\A a \in ActiveAllocations :
       allocations'[a].status = "RELEASED" =>
         \A r \in ResourcesOf(a) : resources[r] = "AVAILABLE"]_vars

\* Inside a call, an OCCUPIED resource becomes AVAILABLE only if the call
\* releases an active allocation that names it and no other flight has it at
\* one of its instants: neither releasing twice nor releasing one of several
\* allocations of a resource frees what another flight holds by then.
OnlyHoldersFree ==
  [][call # Idle =>
       \A r \in DOMAIN resources :
         resources[r] = "OCCUPIED" /\ resources'[r] = "AVAILABLE" =>
           /\ call.id \in ActiveAllocations
           /\ r \in ResourcesOf(call.id)
           /\ \A b \in ListActiveAllocationsFor(r) :
                allocations[b].flight # allocations[call.id].flight =>
                  InstantsOf(allocations[b].window)
                    \cap InstantsOf(allocations[call.id].window) = {}]_vars

\* No allocation is recorded for a flight that is gone: the status checked
\* when the call began still holds when its row is inserted.
NoServiceAfterDeparture ==
  [][\A a \in DOMAIN allocations' \ DOMAIN allocations :
       flights[allocations'[a].flight] \notin {"DEPARTED", "COMPLETED", "CANCELLED"}]_vars

(* Liveness                                                                *)

\* Every call returns to the menu, by success, failure or an exception.
CallsReturn == call # Idle ~> call = Idle

-----------------------------------------------------------------------------
(* The inductive invariant behind the safety properties: what the tables   *)
(* look like between any two statements, and what the call in progress may *)
(* rely on because it runs alone.                                          *)

\* The foreign keys of allocation_staff and allocations.
LinksHaveRows == \A link \in allocationStaff : link[1] \in DOMAIN allocations

RowsHaveResources ==
  \A a \in DOMAIN allocations : ResourcesOf(a) \subseteq DOMAIN resources

Occupied(r) == resources[r] = "OCCUPIED"

Clash(flight, window, used, a) ==
  /\ allocations[a].flight # flight
  /\ ResourcesOf(a) \cap used # {}
  /\ TimeWindowsOverlap(window, allocations[a].window)

\* The conflict check of the stored allocations against each other.
BookingsAreDisjoint ==
  \A a, b \in ActiveAllocations :
    ~ Clash(allocations[b].flight, allocations[b].window, ResourcesOf(b), a)

\* What allocate checked before its first statement still holds.
ChecksStillHold ==
  call.step \in AllocateSteps =>
    /\ Serviceable(call.request)
    /\ \A a \in ActiveAllocations :
         ~ Clash(call.request.flight, call.request.window, Requested(call.request), a)
    /\ \A r \in Requested(call.request) :
         r \in DOMAIN resources /\ ~ UnderMaintenance(r)

\* How far allocate has come.
AllocationProgress ==
  /\ call.step = "occupyGate" => call.staff = call.request.staff
  /\ call.step = "occupyVehicle" =>
       call.staff = call.request.staff /\ Occupied(call.request.gate)
  /\ call.step = "occupyStaff" =>
       /\ Range(call.staff) \subseteq Range(call.request.staff)
       /\ \A r \in Requested(call.request) \ Range(call.staff) : Occupied(r)
  /\ call.step = "linkStaff" =>
       /\ call.id \in DOMAIN allocations
       /\ allocations[call.id] = NewRow(call.request)
       /\ StaffOf(call.id) \cup Range(call.staff) = Range(call.request.staff)
       /\ \A r \in Requested(call.request) : Occupied(r)

\* How far release has come.
ReleaseProgress ==
  call.step \in ReleaseSteps =>
    /\ call.id \in ActiveAllocations
    /\ Range(call.staff) \subseteq StaffOf(call.id)
    /\ call.step # "freeStaff" => Range(call.staff) = StaffOf(call.id)
    /\ call.step # "freeGate" => resources[allocations[call.id].gate] = "AVAILABLE"
    /\ call.step = "freeStaff" =>
         /\ resources[allocations[call.id].vehicle] = "AVAILABLE"
         /\ \A s \in StaffOf(call.id) \ Range(call.staff) : resources[s] = "AVAILABLE"

\* All of them together are preserved by every step of the service.
IInv ==
  /\ TypeOK
  /\ LinksHaveRows
  /\ RowsHaveResources
  /\ BookingsAreDisjoint
  /\ ChecksStillHold
  /\ AllocationProgress
  /\ ReleaseProgress
=============================================================================
