----------------------- MODULE AllocationService_proofs -----------------------
(***************************************************************************)
(* Proofs about AllocationService, for every value of its constants.  They *)
(* rest on the inductive invariant IInv: TypeOK first, then the remaining  *)
(* conjuncts of IInv step by step, and the properties that follow from it. *)
(***************************************************************************)
EXTENDS AllocationService, AirportDatabase_proofs

-----------------------------------------------------------------------------
(* Type correctness                                                        *)

AllocateCalls ==
  [step : AllocateSteps, id : Nat, request : Requests, staff : Seq(Staff)]

ReleaseCalls ==
  [step : ReleaseSteps, id : Nat, request : {NoRequest}, staff : Seq(Staff)]

\* The step of a call tells which handler it is in.
LEMMA CallCases ==
  ASSUME call \in Calls
  PROVE  /\ call = Idle <=> call.step = "idle"
         /\ call.step \in AllocateSteps => call \in AllocateCalls
         /\ call.step \in ReleaseSteps => call \in ReleaseCalls
         /\ call.step \notin AllocateSteps \cup ReleaseSteps => call = Idle
  BY DEF Calls, Idle, AllocateCalls, ReleaseCalls, AllocateSteps, ReleaseSteps

LEMMA TypedCalls == AllocateCalls \subseteq Calls /\ ReleaseCalls \subseteq Calls
  BY DEF Calls, AllocateCalls, ReleaseCalls

LEMMA InitTypeOK == Init => TypeOK
  BY SeedAssumption, EmptySeq
  DEF Init, DatabaseInit, TypeOK, DatabaseTypeOK, Idle, NoResult, Calls, Results,
      FlightStatuses, ResourceStatuses

\* allocate, up to its last UPDATE of a status.
LEMMA OccupyTypeOK ==
  ASSUME TypeOK,
         \/ \E request \in Requests : RejectAllocation(request) \/ BeginAllocation(request)
         \/ OccupyGate \/ OccupyVehicle \/ OccupyStaff
  PROVE  TypeOK'
<1> USE DEF TypeOK, DatabaseTypeOK
<1>1. ASSUME NEW request \in Requests, RejectAllocation(request)
      PROVE  TypeOK'
  BY <1>1 DEF RejectAllocation, Return, Calls, Results, tables
<1>2. ASSUME NEW request \in Requests, BeginAllocation(request)
      PROVE  TypeOK'
  <2>1. request.staff \in Seq(Staff)
    BY RequestAssumption DEF AllocationRequests
  <2> QED BY <1>2, <2>1 DEF BeginAllocation, NoResult, Calls, Results, AllocateSteps, tables
<1>3. CASE OccupyGate
  <2>1. resources' \in [DOMAIN resources -> ResourceStatuses]
    BY <1>3 DEF StatusUpdated, OccupyGate, ResourceStatuses
  <2>2. call \in AllocateCalls
    BY <1>3, CallCases DEF OccupyGate, AllocateSteps
  <2>3. call' \in AllocateCalls
    BY <1>3, <2>2 DEF OccupyGate, Proceed, AllocateCalls, AllocateSteps
  <2> QED BY <1>3, <2>1, <2>3, TypedCalls DEF OccupyGate, Proceed, NoResult, Results
<1>4. CASE OccupyVehicle
  <2>1. resources' \in [DOMAIN resources -> ResourceStatuses]
    BY <1>4 DEF StatusUpdated, OccupyVehicle, ResourceStatuses
  <2>2. call \in AllocateCalls
    BY <1>4, CallCases DEF OccupyVehicle, AllocateSteps
  <2>3. call' \in AllocateCalls
    BY <1>4, <2>2 DEF OccupyVehicle, Proceed, AllocateCalls, AllocateSteps
  <2> QED BY <1>4, <2>1, <2>3, TypedCalls DEF OccupyVehicle, Proceed, NoResult, Results
<1>5. CASE OccupyStaff
  <2>1. resources' \in [DOMAIN resources -> ResourceStatuses]
    BY <1>5 DEF StatusUpdated, OccupyStaff, ResourceStatuses
  <2>2. call \in AllocateCalls
    BY <1>5, CallCases DEF OccupyStaff, AllocateSteps
  <2>3. Tail(call.staff) \in Seq(Staff)
    BY <1>5, <2>2, RangeOfTail DEF OccupyStaff, AllocateCalls
  <2>4. call' \in AllocateCalls
    BY <1>5, <2>2, <2>3 DEF OccupyStaff, NextStaff, AllocateCalls
  <2> QED BY <1>5, <2>1, <2>4, TypedCalls DEF OccupyStaff, NextStaff, NoResult, Results
<1> QED BY <1>1, <1>2, <1>3, <1>4, <1>5

\* allocate, from the INSERT of its row on.
LEMMA RecordTypeOK ==
  ASSUME TypeOK,
         \/ InsertAllocation \/ InsertRefused
         \/ LinkStaff \/ LinkRefused \/ AllocationSucceeds
  PROVE  TypeOK'
<1> USE DEF TypeOK, DatabaseTypeOK
<1>1. CASE InsertAllocation
  <2>1. /\ call \in [step : AllocateSteps, id : Nat, request : Requests, staff : Seq(Staff)]
        /\ call.request \in AllocationRequests
    BY <1>1, RequestAssumption DEF InsertAllocation, Calls, Idle, AllocateSteps, ReleaseSteps
  <2>2. NewRow(call.request) \in AllocationRows
    BY <2>1 DEF NewRow, AllocationRows, AllocationRequests
  <2>3. /\ allocations' \in [DOMAIN allocations \cup {call.id} -> AllocationRows]
        /\ DOMAIN allocations' = DOMAIN allocations \cup {call.id}
    BY <1>1, <2>2 DEF Inserted, InsertAllocation
  <2>4. call' \in Calls
    BY <1>1, <2>1 DEF InsertAllocation, Calls, AllocateSteps, AllocationRequests
  <2> QED BY <1>1, <2>1, <2>3, <2>4 DEF InsertAllocation, NoResult, Results
<1>2. CASE InsertRefused
  BY <1>2 DEF InsertRefused, Return, Calls, Results, tables, Idle
<1>3. CASE LinkStaff
  <2>1. call \in AllocateCalls
    BY <1>3, CallCases DEF LinkStaff, AllocateSteps
  <2>2. Tail(call.staff) \in Seq(Staff) /\ Head(call.staff) \in Staff
    BY <1>3, <2>1, RangeOfTail DEF LinkStaff, AllocateCalls
  <2>3. call' \in AllocateCalls
    BY <1>3, <2>1, <2>2 DEF LinkStaff, NextStaff, AllocateCalls
  <2>4. allocationStaff' \subseteq (Nat \X Staff)
    BY <1>3, <2>1, <2>2 DEF LinkStaff, AllocateCalls
  <2> QED BY <1>3, <2>3, <2>4, TypedCalls DEF LinkStaff, NextStaff, NoResult, Results
<1>4. CASE LinkRefused
  BY <1>4 DEF LinkRefused, Return, Calls, Results, tables, Idle
<1>5. CASE AllocationSucceeds
  BY <1>5 DEF AllocationSucceeds, Return, Calls, Results, tables, Idle
<1> QED BY <1>1, <1>2, <1>3, <1>4, <1>5

\* release.
LEMMA ReleaseTypeOK ==
  ASSUME TypeOK,
         \/ \E id \in 1 .. MaxAllocationId : RejectRelease(id) \/ BeginRelease(id)
         \/ FreeGate \/ FreeVehicle \/ FreeStaff \/ MarkReleased
  PROVE  TypeOK'
<1> USE DEF TypeOK, DatabaseTypeOK
<1>1. ASSUME NEW id \in 1 .. MaxAllocationId, RejectRelease(id)
      PROVE  TypeOK'
  BY <1>1, BoundAssumption DEF RejectRelease, Return, Calls, Results, tables
<1>2. ASSUME NEW id \in 1 .. MaxAllocationId, BeginRelease(id)
      PROVE  TypeOK'
  <2>1. PICK listing \in Listings(StaffOf(id)) :
          call' = [step |-> "freeGate", id |-> id, request |-> NoRequest, staff |-> listing]
    BY <1>2 DEF BeginRelease
  <2>2. listing \in Seq(Staff)
    BY ListingProperties DEF StaffOf
  <2> QED BY <1>2, <2>1, <2>2, BoundAssumption
          DEF BeginRelease, NoResult, Calls, Results, ReleaseSteps, tables
<1>3. CASE FreeGate
  <2>1. resources' \in [DOMAIN resources -> ResourceStatuses]
    BY <1>3 DEF StatusUpdated, FreeGate, ResourceStatuses
  <2>2. call \in ReleaseCalls
    BY <1>3, CallCases DEF FreeGate, ReleaseSteps
  <2>3. call' \in ReleaseCalls
    BY <1>3, <2>2 DEF FreeGate, Proceed, ReleaseCalls, ReleaseSteps
  <2> QED BY <1>3, <2>1, <2>3, TypedCalls DEF FreeGate, Proceed, NoResult, Results
<1>4. CASE FreeVehicle
  <2>1. resources' \in [DOMAIN resources -> ResourceStatuses]
    BY <1>4 DEF StatusUpdated, FreeVehicle, ResourceStatuses
  <2>2. call \in ReleaseCalls
    BY <1>4, CallCases DEF FreeVehicle, ReleaseSteps
  <2>3. call' \in ReleaseCalls
    BY <1>4, <2>2 DEF FreeVehicle, Proceed, ReleaseCalls, ReleaseSteps
  <2> QED BY <1>4, <2>1, <2>3, TypedCalls DEF FreeVehicle, Proceed, NoResult, Results
<1>5. CASE FreeStaff
  <2>1. resources' \in [DOMAIN resources -> ResourceStatuses]
    BY <1>5 DEF StatusUpdated, FreeStaff, ResourceStatuses
  <2>2. call \in ReleaseCalls
    BY <1>5, CallCases DEF FreeStaff, ReleaseSteps
  <2>3. Tail(call.staff) \in Seq(Staff)
    BY <1>5, <2>2, RangeOfTail DEF FreeStaff, ReleaseCalls
  <2>4. call' \in ReleaseCalls
    BY <1>5, <2>2, <2>3 DEF FreeStaff, NextStaff, ReleaseCalls
  <2> QED BY <1>5, <2>1, <2>4, TypedCalls DEF FreeStaff, NextStaff, NoResult, Results
<1>6. CASE MarkReleased
  <2>1. allocations' \in [DOMAIN allocations -> AllocationRows]
    BY <1>6 DEF MarkReleased, AllocationReleased, AllocationRows
  <2> QED BY <1>6, <2>1 DEF MarkReleased, Return, Calls, Results, Idle
<1> QED BY <1>1, <1>2, <1>3, <1>4, <1>5, <1>6

\* The administrator, the flights, and the failures.
LEMMA EnvironmentTypeOK ==
  ASSUME TypeOK,
         \/ \E r \in Resources :
              AddResource(r) \/ (\E status \in AdminStatuses : SetResourceStatus(r, status))
         \/ \E f \in Flights :
              AddFlight(f) \/ (\E status \in ReachedStatuses : TransitionFlight(f, status))
         \/ StatementFails \/ Restart
  PROVE  TypeOK'
<1> USE DEF TypeOK, DatabaseTypeOK
<1>1. ASSUME NEW r \in Resources, AddResource(r)
      PROVE  TypeOK'
  <2>1. /\ resources' \in [DOMAIN resources \cup {r} -> ResourceStatuses]
        /\ DOMAIN resources' = DOMAIN resources \cup {r}
    BY <1>1 DEF Inserted, AddResource, ResourceStatuses
  <2> QED BY <1>1, <2>1 DEF AddResource, NoResult, Results
<1>2. ASSUME NEW r \in Resources, NEW status \in AdminStatuses, SetResourceStatus(r, status)
      PROVE  TypeOK'
  <2>1. resources' \in [DOMAIN resources -> ResourceStatuses]
    BY <1>2, BoundAssumption DEF StatusUpdated, SetResourceStatus
  <2> QED BY <1>2, <2>1 DEF SetResourceStatus, NoResult, Results
<1>3. ASSUME NEW f \in Flights, AddFlight(f)
      PROVE  TypeOK'
  <2>1. /\ flights' \in [DOMAIN flights \cup {f} -> FlightStatuses]
        /\ DOMAIN flights' = DOMAIN flights \cup {f}
    BY <1>3 DEF Inserted, AddFlight, FlightStatuses
  <2> QED BY <1>3, <2>1 DEF AddFlight, NoResult, Results
<1>4. ASSUME NEW f \in Flights, NEW status \in ReachedStatuses, TransitionFlight(f, status)
      PROVE  TypeOK'
  <2>1. flights' \in [DOMAIN flights -> FlightStatuses]
    BY <1>4, BoundAssumption DEF StatusUpdated, TransitionFlight
  <2> QED BY <1>4, <2>1 DEF TransitionFlight, NoResult, Results
<1>5. CASE StatementFails
  BY <1>5 DEF StatementFails, Return, Calls, Results, tables, Idle
<1>6. CASE Restart
  BY <1>6 DEF Restart, NoResult, Calls, Results, tables
<1> QED BY <1>1, <1>2, <1>3, <1>4, <1>5, <1>6

LEMMA NextTypeOK == TypeOK /\ [Next]_vars => TypeOK'
<1>1. TypeOK /\ Next => TypeOK'
  BY OccupyTypeOK, RecordTypeOK, ReleaseTypeOK, EnvironmentTypeOK
  DEF Next, Advance, UserCommand, AllocationCommand, ResourceCommand,
      FlightChange
<1>2. TypeOK /\ UNCHANGED vars => TypeOK'
  BY DEF TypeOK, DatabaseTypeOK, vars
<1> QED BY <1>1, <1>2

\* Every state of the service has its type.
THEOREM TypeCorrect == Spec => []TypeOK
  BY InitTypeOK, NextTypeOK, PTL DEF Spec

-----------------------------------------------------------------------------
(* The inductive invariant                                                 *)

\* IInv without TypeOK, which NextTypeOK takes care of.
Bookkeeping == LinksHaveRows /\ RowsHaveResources /\ BookingsAreDisjoint

Progress == ChecksStillHold /\ AllocationProgress /\ ReleaseProgress

\* A step that leaves the allocation tables alone leaves every booking alone.
LEMMA SameBookings ==
  ASSUME UNCHANGED <<allocations, allocationStaff>>
  PROVE  /\ ActiveAllocations' = ActiveAllocations
         /\ \A a : StaffOf(a)' = StaffOf(a)
         /\ \A a : ResourcesOf(a)' = ResourcesOf(a)
         /\ \A f, w, used, a : Clash(f, w, used, a)' <=> Clash(f, w, used, a)
  BY DEF ActiveAllocations, StaffOf, ResourcesOf, Clash

\* ... and keeps what is known of the rows, as long as no resource vanishes.
LEMMA BookkeepingIsKept ==
  ASSUME Bookkeeping, UNCHANGED <<allocations, allocationStaff>>,
         DOMAIN resources \subseteq DOMAIN resources'
  PROVE  Bookkeeping'
<1>1. LinksHaveRows'
  BY DEF Bookkeeping, LinksHaveRows
<1>2. RowsHaveResources'
  BY SameBookings DEF Bookkeeping, RowsHaveResources
<1>3. BookingsAreDisjoint'
  BY SameBookings DEF Bookkeeping, BookingsAreDisjoint
<1> QED BY <1>1, <1>2, <1>3 DEF Bookkeeping

\* A call that ends leaves no progress to account for.
LEMMA IdleProgress ==
  ASSUME call' = Idle
  PROVE  Progress'
  BY DEF Progress, ChecksStillHold, AllocationProgress, ReleaseProgress, Idle,
         AllocateSteps, ReleaseSteps

LEMMA InitIInv == Init => IInv
<1> SUFFICES ASSUME Init PROVE IInv
  OBVIOUS
<1>1. TypeOK
  BY InitTypeOK
<1>2. LinksHaveRows /\ RowsHaveResources /\ BookingsAreDisjoint
  BY DEF Init, DatabaseInit, LinksHaveRows, RowsHaveResources, BookingsAreDisjoint,
         ActiveAllocations
<1>3. ChecksStillHold /\ AllocationProgress /\ ReleaseProgress
  BY DEF Init, ChecksStillHold, AllocationProgress, ReleaseProgress, Idle,
         AllocateSteps, ReleaseSteps
<1> QED BY <1>1, <1>2, <1>3 DEF IInv

\* An UPDATE of one status: its row has the new status, the others the old.
LEMMA StatusStep ==
  ASSUME NEW r, NEW status, resources' = StatusUpdated(resources, r, status)
  PROVE  /\ DOMAIN resources' = DOMAIN resources
         /\ \A k \in DOMAIN resources :
              resources'[k] = IF k = r THEN status ELSE resources[k]
  BY DEF StatusUpdated

\* What allocate checked survives its own UPDATEs, which only write OCCUPIED.
LEMMA ChecksSurviveOccupy ==
  ASSUME ChecksStillHold, call.step \in AllocateSteps,
         NEW r, resources' = StatusUpdated(resources, r, "OCCUPIED"),
         UNCHANGED <<flights, allocations, allocationStaff>>,
         call'.request = call.request
  PROVE  ChecksStillHold'
<1>1. Requested(call.request)' = Requested(call.request)
  BY DEF Requested
<1>2. Serviceable(call.request)'
  BY DEF ChecksStillHold, Serviceable, FlightStatusOf
<1>3. \A a \in ActiveAllocations' :
        ~ Clash(call.request.flight, call.request.window, Requested(call.request), a)'
  BY SameBookings, <1>1 DEF ChecksStillHold, Clash, ResourcesOf, StaffOf
<1>4. \A k \in Requested(call.request)' :
        k \in DOMAIN resources' /\ ~ UnderMaintenance(k)'
  BY <1>1, StatusStep DEF ChecksStillHold, UnderMaintenance, ResourceStatusOf,
                                      ParseResourceStatus, ParsedAmong
<1> QED BY <1>2, <1>3, <1>4 DEF ChecksStillHold

LEMMA IInvParts == IInv <=> TypeOK /\ Bookkeeping /\ Progress
  BY DEF IInv, Bookkeeping, Progress

\* The UPDATEs of allocate.
LEMMA OccupyStep ==
  ASSUME IInv, OccupyGate \/ OccupyVehicle \/ OccupyStaff
  PROVE  Bookkeeping' /\ Progress'
<1>1. PICK r : resources' = StatusUpdated(resources, r, "OCCUPIED")
  BY DEF OccupyGate, OccupyVehicle, OccupyStaff
<1>2. /\ call.step \in AllocateSteps /\ call \in AllocateCalls
      /\ call'.request = call.request
      /\ call'.step \in {"occupyVehicle", "occupyStaff"}
      /\ UNCHANGED <<flights, allocations, allocationStaff>>
  BY CallCases
  DEF IInv, TypeOK, OccupyGate, OccupyVehicle, OccupyStaff, Proceed, NextStaff,
      AllocateSteps, AllocateCalls
<1>3. Bookkeeping'
  BY <1>1, <1>2, StatusStep, BookkeepingIsKept, IInvParts
<1>4. ChecksStillHold'
  BY <1>1, <1>2, ChecksSurviveOccupy DEF IInv
<1>5. ReleaseProgress'
  BY <1>2 DEF ReleaseProgress, ReleaseSteps
<1>6. AllocationProgress'
  <2>1. \A k \in Requested(call.request) : k \in DOMAIN resources
    BY <1>2 DEF IInv, ChecksStillHold
  <2>2. call.request.gate \in Requested(call.request)
        /\ call.request.vehicle \in Requested(call.request)
    BY DEF Requested
  <2>3. \A k \in DOMAIN resources : Occupied(k) => Occupied(k)'
    BY <1>1, StatusStep DEF Occupied
  <2>4. CASE OccupyGate
    <3>1. Occupied(call.request.gate)'
      BY <2>1, <2>2, <2>4, <1>2, StatusStep DEF OccupyGate, Occupied
    <3> QED BY <2>4, <3>1, <1>2
            DEF OccupyGate, Proceed, AllocationProgress, AllocateCalls, IInv, Occupied
  <2>5. CASE OccupyVehicle
    <3>1. call.staff = call.request.staff /\ Occupied(call.request.gate)
      BY <2>5 DEF OccupyVehicle, IInv, AllocationProgress
    <3>2. Occupied(call.request.vehicle)' /\ Occupied(call.request.gate)'
      BY <2>1, <2>2, <2>3, <2>5, <3>1, <1>2, StatusStep DEF OccupyVehicle, Occupied
    <3>3. /\ call'.step = "occupyStaff" /\ call'.staff = call.request.staff
      BY <2>5, <3>1, <1>2 DEF OccupyVehicle, Proceed, AllocateCalls
    <3>4. \A k \in Requested(call.request)' \ Range(call'.staff) : Occupied(k)'
      BY <3>2, <3>3, <1>2 DEF Requested, Occupied
    <3> QED BY <3>3, <3>4, <1>2 DEF AllocationProgress
  <2>6. CASE OccupyStaff
    <3>1. /\ Range(call.staff) \subseteq Range(call.request.staff)
          /\ \A k \in Requested(call.request) \ Range(call.staff) : Occupied(k)
      BY <2>6 DEF OccupyStaff, IInv, AllocationProgress
    <3>2. Range(call.staff) = {Head(call.staff)} \cup Range(Tail(call.staff))
      BY <1>2, <2>6, RangeOfTail DEF OccupyStaff, AllocateCalls
    <3>3. call'.step = "occupyStaff" /\ call'.staff = Tail(call.staff)
      BY <2>6, <1>2 DEF OccupyStaff, NextStaff, AllocateCalls
    <3>4. \A k \in DOMAIN resources : k = Head(call.staff) => Occupied(k)'
      BY <2>6, StatusStep DEF OccupyStaff, Occupied
    <3>5. \A k \in Requested(call.request)' \ Range(call'.staff) : Occupied(k)'
      BY <2>1, <2>3, <3>1, <3>2, <3>3, <3>4, <1>2 DEF Requested
    <3> QED BY <3>1, <3>2, <3>3, <3>5, <1>2 DEF AllocationProgress
  <2> QED BY <2>4, <2>5, <2>6
<1> QED BY <1>3, <1>4, <1>5, <1>6 DEF Progress

\* The checks establish what the statements rely on.
LEMMA BeginAllocationStep ==
  ASSUME IInv, NEW request \in Requests, BeginAllocation(request)
  PROVE  Bookkeeping' /\ Progress'
<1>1. /\ call' = [step |-> "occupyGate", id |-> nextAllocationId,
                  request |-> request, staff |-> request.staff]
      /\ UNCHANGED <<flights, resources, allocations, allocationStaff>>
      /\ Serviceable(request) /\ ~ HasConflict(request)
  BY DEF BeginAllocation, MayAllocate, tables
<1>2. Bookkeeping'
  BY <1>1, BookkeepingIsKept, IInvParts
<1>3. \A r \in Requested(request) : r \in DOMAIN resources /\ ~ Unavailable(r, request)
  BY <1>1 DEF HasConflict, UnknownId, Requested
<1>4. \A a \in ActiveAllocations :
        ~ Clash(request.flight, request.window, Requested(request), a)
  BY <1>3 DEF Unavailable, BookedByOther, ListActiveAllocationsFor, Clash
<1>5. ChecksStillHold'
  <2>1. Serviceable(call.request)'
    BY <1>1 DEF Serviceable, FlightStatusOf
  <2>2. \A a \in ActiveAllocations' :
          ~ Clash(call.request.flight, call.request.window, Requested(call.request), a)'
    BY <1>1, <1>4, SameBookings DEF Clash, Requested, ResourcesOf, StaffOf
  <2>3. \A r \in Requested(call.request)' :
          r \in DOMAIN resources' /\ ~ UnderMaintenance(r)'
    BY <1>1, <1>3 DEF Requested, UnderMaintenance, ResourceStatusOf, Unavailable
  <2> QED BY <2>1, <2>2, <2>3 DEF ChecksStillHold
<1>6. AllocationProgress' /\ ReleaseProgress'
  BY <1>1 DEF AllocationProgress, ReleaseProgress, ReleaseSteps
<1> QED BY <1>2, <1>5, <1>6 DEF Progress

\* The new row clashes with no active one, in either order.
LEMMA InsertStep ==
  ASSUME IInv, InsertAllocation
  PROVE  Bookkeeping' /\ Progress'
<1> DEFINE id == call.id
           rq == call.request
<1>1. /\ call \in AllocateCalls /\ call.step = "occupyStaff" /\ call.staff = << >>
      /\ id \notin DOMAIN allocations
      /\ allocations' = Inserted(allocations, id, NewRow(rq))
      /\ call' = [call EXCEPT !.step = "linkStaff", !.staff = rq.staff]
      /\ UNCHANGED <<flights, resources, allocationStaff>>
  BY CallCases DEF IInv, TypeOK, InsertAllocation, AllocateSteps
<1>2. /\ DOMAIN allocations' = DOMAIN allocations \cup {id}
      /\ allocations'[id] = NewRow(rq)
      /\ \A a \in DOMAIN allocations : allocations'[a] = allocations[a]
  BY <1>1 DEF Inserted
<1>3. call'.id = id /\ call'.request = rq /\ call'.staff = rq.staff /\ call'.step = "linkStaff"
  BY <1>1 DEF AllocateCalls
<1>4. StaffOf(id) = {} /\ \A a : StaffOf(a)' = StaffOf(a)
  BY <1>1 DEF IInv, LinksHaveRows, StaffOf
<1>5. /\ ActiveAllocations' = ActiveAllocations \cup {id}
      /\ \A a \in DOMAIN allocations : ResourcesOf(a)' = ResourcesOf(a)
      /\ ResourcesOf(id)' = {rq.gate, rq.vehicle}
  <2>1. ActiveAllocations' = ActiveAllocations \cup {id}
    BY <1>1, <1>2 DEF ActiveAllocations, NewRow
  <2>2. \A a \in DOMAIN allocations : ResourcesOf(a)' = ResourcesOf(a)
    BY <1>2, <1>4 DEF ResourcesOf
  <2>3. ResourcesOf(id)' = {rq.gate, rq.vehicle}
    BY <1>2, <1>3, <1>4 DEF ResourcesOf, NewRow
  <2> QED BY <2>1, <2>2, <2>3
<1>6. /\ \A a \in ActiveAllocations : ~ Clash(rq.flight, rq.window, Requested(rq), a)
      /\ \A r \in Requested(rq) : r \in DOMAIN resources /\ ~ UnderMaintenance(r)
      /\ Serviceable(rq)
  BY <1>1 DEF IInv, ChecksStillHold, AllocateSteps
<1>7. {rq.gate, rq.vehicle} \subseteq Requested(rq)
  BY DEF Requested
<1>8. ActiveAllocations \subseteq DOMAIN allocations
  BY DEF ActiveAllocations
<1>9. LinksHaveRows' /\ RowsHaveResources'
  BY <1>1, <1>2, <1>5, <1>6, <1>7 DEF IInv, LinksHaveRows, RowsHaveResources
<1>10. BookingsAreDisjoint'
  <2> SUFFICES ASSUME NEW a \in ActiveAllocations', NEW b \in ActiveAllocations'
               PROVE  ~ Clash(allocations[b].flight, allocations[b].window, ResourcesOf(b), a)'
    BY DEF BookingsAreDisjoint
  <2>1. CASE a # id /\ b # id
    BY <2>1, <1>2, <1>5, <1>8 DEF IInv, BookingsAreDisjoint, Clash
  <2>2. CASE a # id /\ b = id
    <3>1. a \in ActiveAllocations /\ a \in DOMAIN allocations
      BY <2>2, <1>5, <1>8
    <3>2. /\ allocations'[a] = allocations[a] /\ ResourcesOf(a)' = ResourcesOf(a)
          /\ allocations'[b].flight = rq.flight /\ allocations'[b].window = rq.window
          /\ ResourcesOf(b)' \subseteq Requested(rq)
      BY <2>2, <3>1, <1>2, <1>3, <1>5, <1>7 DEF NewRow
    <3> QED BY <3>1, <3>2, <1>6 DEF Clash
  <2>3. CASE a = id /\ b # id
    <3>1. b \in ActiveAllocations /\ b \in DOMAIN allocations
      BY <2>3, <1>5, <1>8
    <3>2. /\ allocations'[b] = allocations[b] /\ ResourcesOf(b)' = ResourcesOf(b)
          /\ allocations'[a].flight = rq.flight /\ allocations'[a].window = rq.window
          /\ ResourcesOf(a)' \subseteq Requested(rq)
      BY <2>3, <3>1, <1>2, <1>3, <1>5, <1>7 DEF NewRow
    <3> QED BY <3>1, <3>2, <1>6, OverlapIsSymmetric DEF Clash
  <2>4. CASE a = id /\ b = id
    BY <2>4 DEF Clash
  <2> QED BY <2>1, <2>2, <2>3, <2>4
<1>11. ChecksStillHold'
  <2>1. Serviceable(call.request)'
    BY <1>1, <1>3, <1>6 DEF Serviceable, FlightStatusOf
  <2>2. ASSUME NEW a \in ActiveAllocations'
        PROVE  ~ Clash(call.request.flight, call.request.window, Requested(call.request), a)'
    <3>1. CASE a # id
      BY <3>1, <1>2, <1>3, <1>5, <1>6, <1>8 DEF Clash, Requested
    <3>2. CASE a = id
      BY <3>2, <1>2, <1>3 DEF Clash, NewRow
    <3> QED BY <3>1, <3>2
  <2>3. \A r \in Requested(call.request)' :
          r \in DOMAIN resources' /\ ~ UnderMaintenance(r)'
    BY <1>1, <1>3, <1>6 DEF Requested, UnderMaintenance, ResourceStatusOf
  <2> QED BY <2>1, <2>2, <2>3 DEF ChecksStillHold
<1>12. AllocationProgress'
  <2>1. \A r \in Requested(rq) : Occupied(r)
    BY <1>1, RangeOfEmpty DEF IInv, AllocationProgress
  <2>2. (StaffOf(call.id) \cup Range(call.staff))' = Range(call.request.staff)'
    BY <1>3, <1>4
  <2> QED BY <2>1, <2>2, <1>1, <1>2, <1>3
          DEF AllocationProgress, Occupied, Requested, NewRow
<1>13. ReleaseProgress'
  BY <1>3 DEF ReleaseProgress, ReleaseSteps
<1> QED BY <1>9, <1>10, <1>11, <1>12, <1>13 DEF Bookkeeping, Progress

\* A link adds a requested staff member to the row of the call.
LEMMA LinkStep ==
  ASSUME IInv, LinkStaff
  PROVE  Bookkeeping' /\ Progress'
<1> DEFINE id == call.id
           rq == call.request
           s == Head(call.staff)
<1>1. /\ call \in AllocateCalls /\ call.step = "linkStaff"
      /\ allocationStaff' = allocationStaff \cup {<<id, s>>}
      /\ call' = [call EXCEPT !.staff = Tail(call.staff)]
      /\ UNCHANGED <<flights, resources, allocations>>
  BY CallCases DEF IInv, TypeOK, LinkStaff, NextStaff, AllocateSteps
<1>2. call'.id = id /\ call'.request = rq /\ call'.staff = Tail(call.staff)
      /\ call'.step = "linkStaff"
  BY <1>1 DEF AllocateCalls
<1>3. /\ s \in Staff
      /\ Range(call.staff) = {s} \cup Range(Tail(call.staff))
  BY <1>1, RangeOfTail DEF LinkStaff, AllocateCalls
<1>4. /\ id \in DOMAIN allocations /\ allocations[id] = NewRow(rq)
      /\ StaffOf(id) \cup Range(call.staff) = Range(rq.staff)
      /\ \A r \in Requested(rq) : Occupied(r)
  BY <1>1 DEF IInv, AllocationProgress
<1>5. /\ StaffOf(id)' = StaffOf(id) \cup {s}
      /\ \A a : a # id => StaffOf(a)' = StaffOf(a)
  BY <1>1, <1>3 DEF StaffOf
<1>6. /\ ActiveAllocations' = ActiveAllocations
      /\ \A a : a # id => ResourcesOf(a)' = ResourcesOf(a)
      /\ ResourcesOf(id)' \subseteq Requested(rq)
  BY <1>1, <1>3, <1>4, <1>5 DEF ActiveAllocations, ResourcesOf, NewRow, Requested
<1>7. /\ \A a \in ActiveAllocations : ~ Clash(rq.flight, rq.window, Requested(rq), a)
      /\ \A r \in Requested(rq) : r \in DOMAIN resources /\ ~ UnderMaintenance(r)
      /\ Serviceable(rq)
  BY <1>1 DEF IInv, ChecksStillHold, AllocateSteps
<1>8. LinksHaveRows'
  BY <1>1, <1>4 DEF IInv, LinksHaveRows
<1>9. RowsHaveResources'
  BY <1>1, <1>6, <1>7 DEF IInv, RowsHaveResources
<1>10. BookingsAreDisjoint'
  <2> SUFFICES ASSUME NEW a \in ActiveAllocations', NEW b \in ActiveAllocations'
               PROVE  ~ Clash(allocations[b].flight, allocations[b].window, ResourcesOf(b), a)'
    BY DEF BookingsAreDisjoint
  <2>1. CASE a # id /\ b # id
    BY <2>1, <1>1, <1>6 DEF IInv, BookingsAreDisjoint, Clash
  <2>2. CASE a # id /\ b = id
    BY <2>2, <1>1, <1>4, <1>6, <1>7 DEF Clash, NewRow
  <2>3. CASE a = id /\ b # id
    BY <2>3, <1>1, <1>4, <1>6, <1>7, OverlapIsSymmetric DEF Clash, NewRow
  <2>4. CASE a = id /\ b = id
    BY <2>4 DEF Clash
  <2> QED BY <2>1, <2>2, <2>3, <2>4
<1>11. ChecksStillHold'
  <2>1. Serviceable(call.request)'
    BY <1>1, <1>2, <1>7 DEF Serviceable, FlightStatusOf
  <2>2. ASSUME NEW a \in ActiveAllocations'
        PROVE  ~ Clash(call.request.flight, call.request.window, Requested(call.request), a)'
    <3>1. CASE a # id
      BY <3>1, <1>1, <1>2, <1>6, <1>7 DEF Clash, Requested
    <3>2. CASE a = id
      BY <3>2, <1>1, <1>2, <1>4 DEF Clash, NewRow
    <3> QED BY <3>1, <3>2
  <2>3. \A r \in Requested(call.request)' :
          r \in DOMAIN resources' /\ ~ UnderMaintenance(r)'
    BY <1>1, <1>2, <1>7 DEF Requested, UnderMaintenance, ResourceStatusOf
  <2> QED BY <2>1, <2>2, <2>3 DEF ChecksStillHold
<1>12. AllocationProgress'
  <2>1. (StaffOf(call.id) \cup Range(call.staff))' = Range(call.request.staff)'
    BY <1>2, <1>3, <1>4, <1>5
  <2> QED BY <2>1, <1>1, <1>2, <1>4 DEF AllocationProgress, Occupied, Requested, NewRow
<1>13. ReleaseProgress'
  BY <1>2 DEF ReleaseProgress, ReleaseSteps
<1> QED BY <1>8, <1>9, <1>10, <1>11, <1>12, <1>13 DEF Bookkeeping, Progress

\* release reads an active row and its links.
LEMMA BeginReleaseStep ==
  ASSUME IInv, NEW id \in 1 .. MaxAllocationId, BeginRelease(id)
  PROVE  Bookkeeping' /\ Progress'
<1>1. PICK listing \in Listings(StaffOf(id)) :
        call' = [step |-> "freeGate", id |-> id, request |-> NoRequest, staff |-> listing]
  BY DEF BeginRelease
<1>2. id \in ActiveAllocations /\ UNCHANGED <<flights, resources, allocations, allocationStaff>>
  BY DEF BeginRelease, tables
<1>3. Range(listing) = StaffOf(id)
  BY ListingProperties DEF StaffOf
<1>4. Bookkeeping'
  BY <1>2, BookkeepingIsKept, IInvParts
<1>5. ChecksStillHold' /\ AllocationProgress'
  BY <1>1 DEF ChecksStillHold, AllocationProgress, AllocateSteps
<1>6. ReleaseProgress'
  BY <1>1, <1>2, <1>3 DEF ReleaseProgress, ActiveAllocations, StaffOf
<1> QED BY <1>4, <1>5, <1>6 DEF Progress

\* The UPDATEs of release: what is AVAILABLE stays so.
LEMMA FreeStep ==
  ASSUME IInv, FreeGate \/ FreeVehicle \/ FreeStaff
  PROVE  Bookkeeping' /\ Progress'
<1>1. PICK r : resources' = StatusUpdated(resources, r, "AVAILABLE")
  BY DEF FreeGate, FreeVehicle, FreeStaff
<1>2. /\ call.step \in ReleaseSteps /\ call \in ReleaseCalls
      /\ call'.id = call.id
      /\ call'.step \in {"freeVehicle", "freeStaff"}
      /\ UNCHANGED <<flights, allocations, allocationStaff>>
  BY CallCases
  DEF IInv, TypeOK, FreeGate, FreeVehicle, FreeStaff, Proceed, NextStaff,
      ReleaseSteps, ReleaseCalls
<1>3. Bookkeeping'
  BY <1>1, <1>2, StatusStep, BookkeepingIsKept, IInvParts
<1>4. ChecksStillHold' /\ AllocationProgress'
  BY <1>2 DEF ChecksStillHold, AllocationProgress, AllocateSteps
<1>5. /\ call.id \in ActiveAllocations /\ call.id \in DOMAIN allocations
      /\ Range(call.staff) \subseteq StaffOf(call.id)
      /\ ResourcesOf(call.id) \subseteq DOMAIN resources
  BY <1>2 DEF IInv, ReleaseProgress, RowsHaveResources, ActiveAllocations
<1>6. /\ allocations[call.id].gate \in DOMAIN resources
      /\ allocations[call.id].vehicle \in DOMAIN resources
      /\ StaffOf(call.id) \subseteq DOMAIN resources
  BY <1>5 DEF ResourcesOf
<1>7. \A k \in DOMAIN resources : resources[k] = "AVAILABLE" => resources'[k] = "AVAILABLE"
  BY <1>1, StatusStep
<1>8. /\ (call.id \in ActiveAllocations)'
      /\ StaffOf(call.id)' = StaffOf(call.id)
      /\ allocations'[call'.id] = allocations[call.id]
  BY <1>2, <1>5 DEF ActiveAllocations, StaffOf
<1>9. ReleaseProgress'
  <2>1. CASE FreeGate
    <3>1. call'.step = "freeVehicle" /\ call'.staff = call.staff
      BY <2>1, <1>2 DEF FreeGate, Proceed, ReleaseCalls
    <3>2. resources'[allocations[call.id].gate] = "AVAILABLE"
      BY <2>1, <1>6, StatusStep DEF FreeGate
    <3>3. Range(call.staff) = StaffOf(call.id)
      BY <2>1, <1>2 DEF FreeGate, IInv, ReleaseProgress
    <3> QED BY <3>1, <3>2, <3>3, <1>5, <1>8 DEF ReleaseProgress
  <2>2. CASE FreeVehicle
    <3>1. call'.step = "freeStaff" /\ call'.staff = call.staff
      BY <2>2, <1>2 DEF FreeVehicle, Proceed, ReleaseCalls
    <3>2. resources'[allocations[call.id].vehicle] = "AVAILABLE"
      BY <2>2, <1>6, StatusStep DEF FreeVehicle
    <3>3. resources[allocations[call.id].gate] = "AVAILABLE"
      BY <2>2, <1>2 DEF FreeVehicle, IInv, ReleaseProgress
    <3>4. resources'[allocations[call.id].gate] = "AVAILABLE"
      BY <3>3, <1>6, <1>7
    <3>5. StaffOf(call.id) \ Range(call.staff) = {}
      BY <2>2, <1>2 DEF FreeVehicle, IInv, ReleaseProgress
    <3> QED BY <3>1, <3>2, <3>4, <3>5, <1>5, <1>8 DEF ReleaseProgress
  <2>3. CASE FreeStaff
    <3>1. /\ call.step = "freeStaff" /\ call'.step = "freeStaff"
          /\ call'.staff = Tail(call.staff)
      BY <2>3, <1>2 DEF FreeStaff, NextStaff, ReleaseCalls
    <3>2. Range(call.staff) = {Head(call.staff)} \cup Range(Tail(call.staff))
      BY <1>2, <2>3, RangeOfTail DEF FreeStaff, ReleaseCalls
    <3>3. \A k \in DOMAIN resources : k = Head(call.staff) => resources'[k] = "AVAILABLE"
      BY <2>3, StatusStep DEF FreeStaff
    <3>4. /\ resources[allocations[call.id].gate] = "AVAILABLE"
          /\ resources[allocations[call.id].vehicle] = "AVAILABLE"
          /\ \A k \in StaffOf(call.id) \ Range(call.staff) : resources[k] = "AVAILABLE"
      BY <3>1, <1>2 DEF IInv, ReleaseProgress
    <3>5. /\ resources'[allocations[call.id].gate] = "AVAILABLE"
          /\ resources'[allocations[call.id].vehicle] = "AVAILABLE"
          /\ \A k \in StaffOf(call.id) \ Range(Tail(call.staff)) : resources'[k] = "AVAILABLE"
      BY <3>2, <3>3, <3>4, <1>6, <1>7
    <3> QED BY <3>1, <3>2, <3>5, <1>5, <1>8 DEF ReleaseProgress
  <2> QED BY <2>1, <2>2, <2>3
<1> QED BY <1>3, <1>4, <1>9 DEF Progress

\* A released row no longer counts; the others stay as they are.
LEMMA MarkReleasedStep ==
  ASSUME IInv, MarkReleased
  PROVE  Bookkeeping' /\ Progress'
<1>1. /\ allocations' = [allocations EXCEPT ![call.id].status = "RELEASED"]
      /\ call' = Idle
      /\ UNCHANGED <<flights, resources, allocationStaff>>
  BY DEF MarkReleased, AllocationReleased, Return
<1>2. /\ DOMAIN allocations' = DOMAIN allocations
      /\ \A a \in DOMAIN allocations :
           /\ allocations'[a].flight = allocations[a].flight
           /\ allocations'[a].window = allocations[a].window
           /\ allocations'[a].gate = allocations[a].gate
           /\ allocations'[a].vehicle = allocations[a].vehicle
           /\ a # call.id => allocations'[a] = allocations[a]
           /\ a = call.id => allocations'[a].status = "RELEASED"
  BY <1>1 DEF IInv, TypeOK, DatabaseTypeOK, AllocationRows
<1>3. \A a \in DOMAIN allocations : ResourcesOf(a)' = ResourcesOf(a)
  BY <1>1, <1>2 DEF ResourcesOf, StaffOf
<1>4. ActiveAllocations' \subseteq ActiveAllocations
      /\ ActiveAllocations \subseteq DOMAIN allocations
  BY <1>2 DEF ActiveAllocations
<1>5. LinksHaveRows' /\ RowsHaveResources'
  BY <1>1, <1>2, <1>3 DEF IInv, LinksHaveRows, RowsHaveResources
<1>6. BookingsAreDisjoint'
  BY <1>2, <1>3, <1>4 DEF IInv, BookingsAreDisjoint, Clash
<1> QED BY <1>1, <1>5, <1>6, IdleProgress DEF Bookkeeping

\* Commands of one statement, refusals, failures and restarts.
LEMMA OtherStep ==
  ASSUME IInv,
         \/ \E request \in Requests : RejectAllocation(request)
         \/ \E id \in 1 .. MaxAllocationId : RejectRelease(id)
         \/ \E r \in Resources :
              AddResource(r) \/ (\E status \in AdminStatuses : SetResourceStatus(r, status))
         \/ \E f \in Flights :
              AddFlight(f) \/ (\E status \in ReachedStatuses : TransitionFlight(f, status))
         \/ InsertRefused \/ LinkRefused \/ AllocationSucceeds
         \/ StatementFails \/ Restart
  PROVE  Bookkeeping' /\ Progress'
<1>1. call' = Idle
  BY DEF RejectAllocation, RejectRelease, AddResource, SetResourceStatus, AddFlight,
         TransitionFlight, InsertRefused, LinkRefused, AllocationSucceeds,
         StatementFails, Restart, Return
<1>2. UNCHANGED <<allocations, allocationStaff>>
  BY DEF RejectAllocation, RejectRelease, AddResource, SetResourceStatus, AddFlight,
         TransitionFlight, InsertRefused, LinkRefused, AllocationSucceeds,
         StatementFails, Restart, tables
<1>3. DOMAIN resources \subseteq DOMAIN resources'
  BY DEF RejectAllocation, RejectRelease, AddResource, SetResourceStatus, AddFlight,
         TransitionFlight, InsertRefused, LinkRefused, AllocationSucceeds,
         StatementFails, Restart, tables, Inserted, StatusUpdated
<1> QED BY <1>1, <1>2, <1>3, IdleProgress, BookkeepingIsKept, IInvParts

LEMMA NextIInv == IInv /\ [Next]_vars => IInv'
<1> SUFFICES ASSUME IInv, [Next]_vars PROVE IInv'
  OBVIOUS
<1>1. TypeOK'
  BY NextTypeOK DEF IInv
<1>2. CASE Next
  BY <1>2, <1>1, IInvParts, OccupyStep, BeginAllocationStep, InsertStep, LinkStep,
     BeginReleaseStep, FreeStep, MarkReleasedStep, OtherStep
  DEF Next, Advance, UserCommand, AllocationCommand, ResourceCommand,
      FlightChange, IInv, Bookkeeping, Progress
<1>3. CASE UNCHANGED vars
  <2>1. Bookkeeping'
    BY <1>3, BookkeepingIsKept, IInvParts DEF vars
  <2>2. Progress'
    BY <1>3, SameBookings
    DEF vars, IInv, Progress, ChecksStillHold, AllocationProgress, ReleaseProgress,
        Clash, Requested, Serviceable, FlightStatusOf, UnderMaintenance,
        ResourceStatusOf, Occupied, StaffOf, ResourcesOf,
        ActiveAllocations
  <2> QED BY <1>1, <2>1, <2>2 DEF IInv, Bookkeeping, Progress
<1> QED BY <1>2, <1>3

\* The inductive invariant holds in every state, whatever fails and whenever
\* the process is restarted.
THEOREM InductiveInvariant == Spec => []IInv
  BY InitIInv, NextIInv, PTL DEF Spec

-----------------------------------------------------------------------------
(* The properties                                                          *)

\* Bookings that do not clash have no instant in common.
LEMMA IInvMeansNoDoubleBooking == IInv => NoDoubleBooking
<1> SUFFICES ASSUME IInv, NEW a \in ActiveAllocations, NEW b \in ActiveAllocations,
                    allocations[a].flight # allocations[b].flight,
                    ResourcesOf(a) \cap ResourcesOf(b) # {}
             PROVE  InstantsOf(allocations[a].window)
                      \cap InstantsOf(allocations[b].window) = {}
  BY DEF NoDoubleBooking
<1>1. ~ TimeWindowsOverlap(allocations[b].window, allocations[a].window)
  BY DEF IInv, BookingsAreDisjoint, Clash
<1>2. allocations[a].window \in TimeWindows /\ allocations[b].window \in TimeWindows
  BY DEF IInv, TypeOK, DatabaseTypeOK, AllocationRows, ActiveAllocations
<1> QED BY <1>1, <1>2, CommonInstantMeansOverlap

\* Two flights never hold one gate, vehicle or staff member at one instant.
THEOREM NoDoubleBookingHolds == Spec => []NoDoubleBooking
  BY InductiveInvariant, IInvMeansNoDoubleBooking, PTL

\* allocate never takes a resource out of maintenance.
THEOREM MaintenanceIsHonouredHolds == Spec => MaintenanceIsHonoured
<1> DEFINE Honoured == call # Idle =>
             \A r \in DOMAIN resources :
               resources[r] = "MAINTENANCE" => resources'[r] # "OCCUPIED"
<1>1. IInv /\ [Next]_vars => [Honoured]_vars
  <2> SUFFICES ASSUME IInv, Next, call # Idle,
                      NEW r \in DOMAIN resources, resources[r] = "MAINTENANCE"
               PROVE  resources'[r] # "OCCUPIED"
    BY DEF Honoured
  <2>1. CASE OccupyGate \/ OccupyVehicle \/ OccupyStaff
    <3>1. PICK k \in Requested(call.request) :
            resources' = StatusUpdated(resources, k, "OCCUPIED")
      <4>1. CASE OccupyGate \/ OccupyVehicle
        BY <4>1 DEF OccupyGate, OccupyVehicle, Requested
      <4>2. CASE OccupyStaff
        <5>1. call \in AllocateCalls /\ call.staff # << >>
          BY <4>2, CallCases DEF IInv, TypeOK, OccupyStaff, AllocateSteps
        <5>2. Head(call.staff) \in Range(call.request.staff)
          BY <4>2, <5>1, RangeOfTail DEF OccupyStaff, AllocateCalls, IInv, AllocationProgress
        <5> QED BY <4>2, <5>2 DEF OccupyStaff, Requested
      <4> QED BY <2>1, <4>1, <4>2
    <3>2. ~ UnderMaintenance(k)
      BY <2>1 DEF IInv, ChecksStillHold, OccupyGate, OccupyVehicle, OccupyStaff, AllocateSteps
    <3> QED BY <3>1, <3>2, StatusStep DEF UnderMaintenance, ResourceStatusOf,
                                           ParseResourceStatus, ParsedAmong
  <2>2. CASE FreeGate \/ FreeVehicle \/ FreeStaff
    BY <2>2, StatusStep DEF FreeGate, FreeVehicle, FreeStaff
  <2>3. CASE resources' = resources
    BY <2>3
  <2> QED BY <2>1, <2>2, <2>3
          DEF Next, Advance, UserCommand, AllocationCommand, ResourceCommand,
      FlightChange, InsertAllocation, InsertRefused, LinkStaff,
              LinkRefused, AllocationSucceeds, MarkReleased, RejectAllocation,
              BeginAllocation, RejectRelease, BeginRelease, AddResource,
              SetResourceStatus, AddFlight, TransitionFlight, StatementFails, Restart,
              tables
<1> QED BY InductiveInvariant, <1>1, PTL DEF Spec, MaintenanceIsHonoured
=============================================================================
