---------------------- MODULE AllocationProperties_proofs ----------------------
(***************************************************************************)
(* What no step of AllocationService ever does: its action properties,     *)
(* proved from the inductive invariant IInv of AllocationService_proofs.   *)
(* Three lemmas say which steps can change which table; each property then *)
(* has to be looked at for those steps only.                               *)
(***************************************************************************)
EXTENDS AllocationService_proofs

-----------------------------------------------------------------------------
(* Which steps change what                                                 *)

\* The rows of the allocation tables are written by three statements only.
LEMMA RowsAreWrittenBy ==
  ASSUME Next
  PROVE  \/ UNCHANGED <<allocations, allocationStaff>>
         \/ InsertAllocation \/ LinkStaff \/ MarkReleased
  BY DEF Next, Advance, UserCommand, AllocationCommand, ResourceCommand, FlightChange,
         OccupyGate, OccupyVehicle, OccupyStaff, InsertRefused, LinkRefused,
         AllocationSucceeds, FreeGate, FreeVehicle, FreeStaff, RejectAllocation,
         BeginAllocation, RejectRelease, BeginRelease, AddResource,
         SetResourceStatus, AddFlight, TransitionFlight, StatementFails, Restart,
         tables

\* Inside a call, resource statuses are written by allocate and by release.
LEMMA StatusesAreWrittenBy ==
  ASSUME Next, call # Idle
  PROVE  \/ UNCHANGED resources
         \/ OccupyGate \/ OccupyVehicle \/ OccupyStaff
         \/ FreeGate \/ FreeVehicle \/ FreeStaff
  BY DEF Next, Advance, UserCommand, AllocationCommand, ResourceCommand, FlightChange,
         InsertAllocation, InsertRefused, LinkStaff, LinkRefused,
         AllocationSucceeds, MarkReleased, RejectAllocation,
         BeginAllocation, RejectRelease, BeginRelease, AddResource,
         SetResourceStatus, AddFlight, TransitionFlight, StatementFails, Restart,
         tables

\* Success is reported at one place.
LEMMA SuccessIsReportedBy ==
  ASSUME Next, result'.outcome = "success"
  PROVE  AllocationSucceeds
  BY DEF Next, Advance, UserCommand, AllocationCommand, ResourceCommand, FlightChange,
         OccupyGate, OccupyVehicle, OccupyStaff, InsertAllocation, InsertRefused,
         LinkStaff, LinkRefused, FreeGate, FreeVehicle, FreeStaff, MarkReleased,
         RejectAllocation, BeginAllocation, RejectRelease, BeginRelease, AddResource,
         SetResourceStatus, AddFlight, TransitionFlight, StatementFails, Restart,
         Return, Proceed, NextStaff, NoResult

\* The row of a new allocation, and what allocate knows when it inserts it.
LEMMA InsertedRow ==
  ASSUME IInv, InsertAllocation
  PROVE  /\ call.id \notin DOMAIN allocations
         /\ DOMAIN allocations' = DOMAIN allocations \cup {call.id}
         /\ allocations'[call.id] = NewRow(call.request)
         /\ \A a \in DOMAIN allocations : allocations'[a] = allocations[a]
         /\ UNCHANGED <<flights, allocationStaff>>
         /\ Serviceable(call.request)
         /\ \A r \in Requested(call.request) : Occupied(r)
<1>1. /\ call.step = "occupyStaff" /\ call.staff = << >>
      /\ UNCHANGED <<flights, allocationStaff>>
  BY DEF InsertAllocation
<1>2. Serviceable(call.request)
  BY <1>1 DEF IInv, ChecksStillHold, AllocateSteps
<1>3. \A r \in Requested(call.request) : Occupied(r)
  BY <1>1, RangeOfEmpty DEF IInv, AllocationProgress
<1> QED BY <1>1, <1>2, <1>3 DEF InsertAllocation, Inserted

-----------------------------------------------------------------------------
(* The properties                                                          *)

\* An allocation record is history: apart from becoming RELEASED it never
\* changes, and staff are linked to it only by the call that inserted it.
THEOREM RecordsAreKeptHolds == Spec => RecordsAreKept
<1> DEFINE Kept ==
      \A a \in DOMAIN allocations :
        /\ a \in DOMAIN allocations'
        /\ allocations'[a] \in {allocations[a], [allocations[a] EXCEPT !.status = "RELEASED"]}
        /\ StaffOf(a) \subseteq StaffOf(a)'
        /\ (StaffOf(a)' # StaffOf(a)) => call.id = a /\ call.step = "linkStaff"
<1>1. IInv /\ [Next]_vars => [Kept]_vars
  <2> SUFFICES ASSUME IInv, Next PROVE Kept
    OBVIOUS
  <2>1. CASE UNCHANGED <<allocations, allocationStaff>>
    BY <2>1, SameBookings
  <2>2. CASE InsertAllocation
    BY <2>2, InsertedRow DEF StaffOf
  <2>3. CASE LinkStaff
    BY <2>3 DEF LinkStaff, StaffOf
  <2>4. CASE MarkReleased
    BY <2>4 DEF MarkReleased, AllocationReleased, StaffOf
  <2> QED BY <2>1, <2>2, <2>3, <2>4, RowsAreWrittenBy
<1> QED BY InductiveInvariant, <1>1, PTL DEF Spec, RecordsAreKept

\* A reported success is complete: the row is as requested and active, the
\* requested staff are linked, every requested resource is OCCUPIED.
THEOREM SuccessIsCompleteHolds == Spec => SuccessIsComplete
<1> DEFINE Complete ==
      (call # Idle /\ result'.outcome = "success") =>
        /\ call.id \in DOMAIN allocations'
        /\ allocations'[call.id] = NewRow(call.request)
        /\ {s \in Staff : <<call.id, s>> \in allocationStaff'} = Range(call.request.staff)
        /\ \A r \in Requested(call.request) : resources'[r] = "OCCUPIED"
<1>1. IInv /\ [Next]_vars => [Complete]_vars
  <2> SUFFICES ASSUME IInv, Next, result'.outcome = "success" PROVE Complete
    OBVIOUS
  <2>1. /\ call.step = "linkStaff" /\ call.staff = << >>
        /\ UNCHANGED <<resources, allocations, allocationStaff>>
    BY SuccessIsReportedBy DEF AllocationSucceeds, tables
  <2>2. /\ call.id \in DOMAIN allocations
        /\ allocations[call.id] = NewRow(call.request)
        /\ StaffOf(call.id) = Range(call.request.staff)
        /\ \A r \in Requested(call.request) : Occupied(r)
    BY <2>1, RangeOfEmpty DEF IInv, AllocationProgress
  <2> QED BY <2>1, <2>2 DEF StaffOf, Occupied
<1> QED BY InductiveInvariant, <1>1, PTL DEF Spec, SuccessIsComplete

\* An allocation is recorded only over resources that are all OCCUPIED.
THEOREM OccupiedBeforeRecordedHolds == Spec => OccupiedBeforeRecorded
<1> DEFINE Recorded ==
      \A a \in DOMAIN allocations' \ DOMAIN allocations :
        \A r \in Requested(call.request) : resources[r] = "OCCUPIED"
<1>1. IInv /\ [Next]_vars => [Recorded]_vars
  <2> SUFFICES ASSUME IInv, Next PROVE Recorded
    OBVIOUS
  <2>1. CASE InsertAllocation
    BY <2>1, InsertedRow DEF Occupied
  <2>2. CASE DOMAIN allocations' = DOMAIN allocations
    BY <2>2
  <2> QED BY <2>1, <2>2, RowsAreWrittenBy
          DEF LinkStaff, MarkReleased, AllocationReleased
<1> QED BY InductiveInvariant, <1>1, PTL DEF Spec, OccupiedBeforeRecorded

\* An allocation becomes RELEASED only once all its resources are AVAILABLE.
THEOREM FreedBeforeReleasedHolds == Spec => FreedBeforeReleased
<1> DEFINE Freed ==
      \A a \in ActiveAllocations :
        allocations'[a].status = "RELEASED" =>
          \A r \in ResourcesOf(a) : resources[r] = "AVAILABLE"
<1>1. IInv /\ [Next]_vars => [Freed]_vars
  <2> SUFFICES ASSUME IInv, Next, NEW a \in ActiveAllocations,
                      allocations'[a].status = "RELEASED"
               PROVE  \A r \in ResourcesOf(a) : resources[r] = "AVAILABLE"
    OBVIOUS
  <2>1. a \in DOMAIN allocations /\ allocations[a].status = "SUCCESS"
    BY DEF ActiveAllocations
  <2>2. MarkReleased
    BY <2>1, RowsAreWrittenBy, InsertedRow DEF LinkStaff
  <2>3. a = call.id
    BY <2>1, <2>2 DEF MarkReleased, AllocationReleased
  <2>4. call.step = "freeStaff" /\ call.staff = << >>
    BY <2>2 DEF MarkReleased
  <2>5. /\ resources[allocations[a].gate] = "AVAILABLE"
        /\ resources[allocations[a].vehicle] = "AVAILABLE"
        /\ \A s \in StaffOf(a) : resources[s] = "AVAILABLE"
    BY <2>3, <2>4, RangeOfEmpty DEF IInv, ReleaseProgress, ReleaseSteps
  <2> QED BY <2>5 DEF ResourcesOf
<1> QED BY InductiveInvariant, <1>1, PTL DEF Spec, FreedBeforeReleased

\* The UPDATEs of release write resources that the released allocation names.
LEMMA FreedResource ==
  ASSUME IInv, FreeGate \/ FreeVehicle \/ FreeStaff
  PROVE  /\ call.id \in ActiveAllocations
         /\ \E r \in ResourcesOf(call.id) :
              resources' = StatusUpdated(resources, r, "AVAILABLE")
<1>1. call.step \in ReleaseSteps
  BY DEF FreeGate, FreeVehicle, FreeStaff, ReleaseSteps
<1>2. call.id \in ActiveAllocations /\ Range(call.staff) \subseteq StaffOf(call.id)
  BY <1>1 DEF IInv, ReleaseProgress
<1>3. CASE FreeGate \/ FreeVehicle
  BY <1>2, <1>3 DEF FreeGate, FreeVehicle, ResourcesOf
<1>4. CASE FreeStaff
  <2>1. Head(call.staff) \in Range(call.staff)
    BY <1>1, <1>4, CallCases, RangeOfTail DEF FreeStaff, ReleaseCalls, IInv, TypeOK
  <2> QED BY <1>2, <1>4, <2>1 DEF FreeStaff, ResourcesOf
<1> QED BY <1>3, <1>4

\* Only a holder frees: a call makes an OCCUPIED resource AVAILABLE only on
\* behalf of an active allocation that names it, and never at an instant at
\* which another flight holds it.
THEOREM OnlyHoldersFreeHolds == Spec => OnlyHoldersFree
<1> DEFINE Free ==
      call # Idle =>
        \A r \in DOMAIN resources :
          resources[r] = "OCCUPIED" /\ resources'[r] = "AVAILABLE" =>
            /\ call.id \in ActiveAllocations
            /\ r \in ResourcesOf(call.id)
            /\ \A b \in ListActiveAllocationsFor(r) :
                 allocations[b].flight # allocations[call.id].flight =>
                   InstantsOf(allocations[b].window)
                     \cap InstantsOf(allocations[call.id].window) = {}
<1>1. IInv /\ [Next]_vars => [Free]_vars
  <2> SUFFICES ASSUME IInv, Next, call # Idle, NEW r \in DOMAIN resources,
                      resources[r] = "OCCUPIED", resources'[r] = "AVAILABLE"
               PROVE  /\ call.id \in ActiveAllocations
                      /\ r \in ResourcesOf(call.id)
                      /\ \A b \in ListActiveAllocationsFor(r) :
                           allocations[b].flight # allocations[call.id].flight =>
                             InstantsOf(allocations[b].window)
                               \cap InstantsOf(allocations[call.id].window) = {}
    OBVIOUS
  <2>1. FreeGate \/ FreeVehicle \/ FreeStaff
    BY StatusesAreWrittenBy, StatusStep DEF OccupyGate, OccupyVehicle, OccupyStaff
  <2>2. call.id \in ActiveAllocations /\ r \in ResourcesOf(call.id)
    BY <2>1, FreedResource, StatusStep
  <2>3. \A b \in ListActiveAllocationsFor(r) :
          b \in ActiveAllocations /\ ResourcesOf(b) \cap ResourcesOf(call.id) # {}
    BY <2>2 DEF ListActiveAllocationsFor
  <2> QED BY <2>2, <2>3, IInvMeansNoDoubleBooking DEF NoDoubleBooking
<1> QED BY InductiveInvariant, <1>1, PTL DEF Spec, OnlyHoldersFree

\* No allocation is recorded for a flight that has departed or is cancelled.
THEOREM NoServiceAfterDepartureHolds == Spec => NoServiceAfterDeparture
<1> DEFINE Served ==
      \A a \in DOMAIN allocations' \ DOMAIN allocations :
        flights[allocations'[a].flight] \notin {"DEPARTED", "COMPLETED", "CANCELLED"}
<1>1. IInv /\ [Next]_vars => [Served]_vars
  <2> SUFFICES ASSUME IInv, Next, NEW a \in DOMAIN allocations' \ DOMAIN allocations
               PROVE  flights[allocations'[a].flight]
                        \notin {"DEPARTED", "COMPLETED", "CANCELLED"}
    OBVIOUS
  <2>1. InsertAllocation
    BY RowsAreWrittenBy DEF LinkStaff, MarkReleased, AllocationReleased
  <2>2. allocations'[a].flight = call.request.flight /\ Serviceable(call.request)
    BY <2>1, InsertedRow DEF NewRow
  <2>3. flights[call.request.flight] \in FlightStatuses
    BY <2>2 DEF Serviceable, IInv, TypeOK, DatabaseTypeOK
  <2> QED BY <2>2, <2>3 DEF Serviceable, FlightStatusOf, ParseFlightStatus, ParsedAmong,
                            AllocatableStates
<1> QED BY InductiveInvariant, <1>1, PTL DEF Spec, NoServiceAfterDeparture
=============================================================================
