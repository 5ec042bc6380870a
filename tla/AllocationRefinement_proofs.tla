---------------------- MODULE AllocationRefinement_proofs ----------------------
(***************************************************************************)
(* AllocationService implements ReservationCalendar, for every value of    *)
(* the constants: the statements that insert a row or link a staff member  *)
(* reserve, the one that marks a row RELEASED cancels, and every other     *)
(* step leaves the calendar as it is.  And the calendar keeps its promise. *)
(***************************************************************************)
EXTENDS AllocationRefinement, AllocationProperties_proofs

-----------------------------------------------------------------------------
(* The ids of calls                                                        *)

\* The generator starts at 1, and a call works on an id the generator handed
\* out or the manager entered.
IdsInRange ==
  /\ nextAllocationId >= 1
  /\ call # Idle => call.id \in 1 .. MaxAllocationId

\* A statement of a call leaves its id alone, or ends the call.
LEMMA IdOfCallIsKept ==
  ASSUME call \in Calls, Advance
  PROVE  /\ call # Idle
         /\ call' = Idle \/ call'.id = call.id
         /\ UNCHANGED nextAllocationId
<1>1. call # Idle /\ UNCHANGED nextAllocationId
  BY DEF Advance, OccupyGate, OccupyVehicle, OccupyStaff, InsertAllocation, InsertRefused,
         LinkStaff, LinkRefused, AllocationSucceeds, FreeGate, FreeVehicle, FreeStaff,
         MarkReleased, Idle
<1>2. call \in AllocateCalls \/ call \in ReleaseCalls
  BY <1>1, CallCases DEF Calls, AllocateCalls, ReleaseCalls
<1> QED
  BY <1>1, <1>2
  DEF Advance, OccupyGate, OccupyVehicle, OccupyStaff, InsertAllocation, InsertRefused,
      LinkStaff, LinkRefused, AllocationSucceeds, FreeGate, FreeVehicle, FreeStaff,
      MarkReleased, Return, Proceed, NextStaff, AllocateCalls, ReleaseCalls

LEMMA IdsInRangeStep == TypeOK /\ IdsInRange /\ [Next]_vars => IdsInRange'
<1> SUFFICES ASSUME TypeOK, IdsInRange, [Next]_vars PROVE IdsInRange'
  OBVIOUS
<1>1. CASE Advance
  BY <1>1, IdOfCallIsKept DEF IdsInRange, TypeOK
<1>2. CASE AllocationCommand
  <2>1. ASSUME NEW request \in Requests, RejectAllocation(request) \/ BeginAllocation(request)
        PROVE  IdsInRange'
    BY <2>1, BoundAssumption
    DEF RejectAllocation, BeginAllocation, Return, IdsInRange, TypeOK
  <2>2. ASSUME NEW id \in 1 .. MaxAllocationId, RejectRelease(id) \/ BeginRelease(id)
        PROVE  IdsInRange'
    BY <2>2 DEF RejectRelease, BeginRelease, Return, IdsInRange
  <2> QED BY <1>2, <2>1, <2>2 DEF AllocationCommand
<1>3. CASE ResourceCommand \/ FlightChange
  BY <1>3 DEF ResourceCommand, FlightChange, AddResource, SetResourceStatus, AddFlight,
              TransitionFlight, IdsInRange
<1>4. CASE StatementFails \/ Restart
  BY <1>4 DEF StatementFails, Restart, Return, IdsInRange
<1>5. CASE UNCHANGED vars
  BY <1>5 DEF vars, IdsInRange
<1> QED BY <1>1, <1>2, <1>3, <1>4, <1>5 DEF Next, UserCommand

\* Every call works on an id within the bound, in every state.
LEMMA IdsInRangeHolds == Spec => []IdsInRange
<1>1. Init => IdsInRange
  BY DEF Init, IdsInRange
<1> QED BY <1>1, IdsInRangeStep, TypeCorrect, PTL DEF Spec

-----------------------------------------------------------------------------
(* The mapped state                                                        *)

Reservation(a, f, w, r) ==
  [allocation |-> a, flight |-> f, window |-> w, resource |-> r]

\* What is reserved: one entry for each resource of each active allocation.
ReservationsListed ==
  \A e : e \in reservations <=>
    \E a \in ActiveAllocations : \E r \in ResourcesOf(a) :
      e = Reservation(a, allocations[a].flight, allocations[a].window, r)

LEMMA ReservationsAre == ReservationsListed
<1> DEFINE Of(a) ==
      {Reservation(a, allocations[a].flight, allocations[a].window, r)
         : r \in ResourcesOf(a)}
<1>1. reservations = UNION {Of(a) : a \in ActiveAllocations}
  BY DEF reservations, Reservation
<1>2. \A e : e \in UNION {Of(a) : a \in ActiveAllocations}
             <=> \E a \in ActiveAllocations : e \in Of(a)
  OBVIOUS
<1>3. \A a, e : e \in Of(a) <=>
        \E r \in ResourcesOf(a) :
          e = Reservation(a, allocations[a].flight, allocations[a].window, r)
  OBVIOUS
<1> HIDE DEF Of
<1> QED BY <1>1, <1>2, <1>3 DEF ReservationsListed

LEMMA ReservationsWillBe == ReservationsListed'
  BY ReservationsAre, PTL

\* Nothing that the allocation tables say changes, so neither does the calendar.
LEMMA SameCalendar ==
  ASSUME UNCHANGED <<allocations, allocationStaff>>
  PROVE  UNCHANGED <<reservations, cancelled>>
  BY DEF reservations, cancelled, ActiveAllocations, ResourcesOf, StaffOf

LEMMA InitCalendar == Init => Calendar!Init
  BY DEF Init, DatabaseInit, Calendar!Init, reservations, cancelled, ActiveAllocations

\* What allocate checked is what the calendar asks for.
LEMMA ChecksMeanFree ==
  ASSUME IInv, call.step \in AllocateSteps, NEW r \in Requested(call.request)
  PROVE  Calendar!FreeFor(call.request.flight, call.request.window, r)
<1> SUFFICES ASSUME NEW e \in reservations, e.resource = r,
                    e.flight # call.request.flight
             PROVE  ~ TimeWindowsOverlap(call.request.window, e.window)
  BY DEF Calendar!FreeFor, Calendar!TimeWindowsOverlap, TimeWindowsOverlap
<1>1. PICK a \in ActiveAllocations : \E k \in ResourcesOf(a) :
        e = Reservation(a, allocations[a].flight, allocations[a].window, k)
  BY ReservationsAre DEF ReservationsListed
<1>2. /\ e.flight = allocations[a].flight /\ e.window = allocations[a].window
      /\ r \in ResourcesOf(a)
  BY <1>1 DEF Reservation
<1> QED BY <1>2 DEF IInv, ChecksStillHold, Clash

-----------------------------------------------------------------------------
(* The steps                                                               *)

\* A statement of allocate that adds requested resources to its allocation
\* reserves them.
LEMMA AddingReserves ==
  ASSUME IInv, IdsInRange, call.step \in AllocateSteps,
         NEW Added \in SUBSET Requested(call.request),
         reservations' = reservations \cup
           {Reservation(call.id, call.request.flight, call.request.window, r) : r \in Added},
         UNCHANGED cancelled,
         call.id \notin cancelled,
         Calendar!Belongs(call.id, call.request.flight, call.request.window)
  PROVE  Calendar!Next
<1> DEFINE rq == call.request
<1>1. call \in AllocateCalls /\ call # Idle
  BY CallCases DEF IInv, TypeOK, AllocateSteps
<1>2. /\ call.id \in 1 .. MaxAllocationId
      /\ rq \in Requests /\ rq.flight \in Flights
  BY <1>1, RequestAssumption DEF IdsInRange, AllocateCalls, AllocationRequests
<1>3. \A r \in Requested(rq) : r \in Resources
  BY DEF IInv, ChecksStillHold, TypeOK, DatabaseTypeOK
<1>4. ASSUME NEW e \in reservations' \ reservations
      PROVE  /\ e = Reservation(call.id, rq.flight, rq.window, e.resource)
             /\ e.resource \in Resources
             /\ Calendar!FreeFor(rq.flight, rq.window, e.resource)
  <2>1. PICK r \in Added : e = Reservation(call.id, rq.flight, rq.window, r)
    BY <1>4
  <2>2. e.resource = r
    BY <2>1 DEF Reservation
  <2> QED BY <2>1, <2>2, <1>3, ChecksMeanFree
<1>5. Calendar!Reserve(call.id, rq.flight, rq.window)
  BY <1>4 DEF Calendar!Reserve, Reservation
<1> QED BY <1>2, <1>5 DEF Calendar!Next

\* The INSERT reserves the gate and the vehicle.
LEMMA InsertReserves ==
  ASSUME IInv, IdsInRange, InsertAllocation
  PROVE  Calendar!Next
<1> DEFINE id == call.id
           rq == call.request
<1>1. /\ call.step \in AllocateSteps
      /\ id \notin DOMAIN allocations
      /\ DOMAIN allocations' = DOMAIN allocations \cup {id}
      /\ allocations'[id] = NewRow(rq)
      /\ \A a \in DOMAIN allocations : allocations'[a] = allocations[a]
      /\ UNCHANGED allocationStaff
  BY InsertedRow DEF InsertAllocation, AllocateSteps
<1>2. /\ ActiveAllocations' = ActiveAllocations \cup {id}
      /\ cancelled' = cancelled /\ id \notin cancelled
      /\ id \notin ActiveAllocations
  BY <1>1 DEF ActiveAllocations, cancelled, NewRow
<1>3. /\ \A a \in ActiveAllocations :
           ResourcesOf(a)' = ResourcesOf(a) /\ allocations'[a] = allocations[a]
      /\ \A a : a = id => ResourcesOf(a)' = {rq.gate, rq.vehicle}
  <2>1. StaffOf(id) = {} /\ \A a : StaffOf(a)' = StaffOf(a)
    BY <1>1 DEF StaffOf, IInv, LinksHaveRows
  <2> QED BY <1>1, <2>1 DEF ResourcesOf, NewRow, ActiveAllocations
<1>4. reservations' = reservations \cup
        {Reservation(id, rq.flight, rq.window, r) : r \in {rq.gate, rq.vehicle}}
  <2>1. ASSUME NEW e
        PROVE  e \in reservations' <=>
                 \/ e \in reservations
                 \/ \E r \in {rq.gate, rq.vehicle} : e = Reservation(id, rq.flight, rq.window, r)
    <3>1. e \in reservations' <=>
            \E a \in ActiveAllocations' : \E r \in ResourcesOf(a)' :
              e = Reservation(a, allocations'[a].flight, allocations'[a].window, r)
      BY ReservationsWillBe DEF ReservationsListed, Reservation
    <3>2. e \in reservations <=>
            \E a \in ActiveAllocations : \E r \in ResourcesOf(a)' :
              e = Reservation(a, allocations'[a].flight, allocations'[a].window, r)
      BY <1>3, ReservationsAre DEF ReservationsListed
    <3>3. allocations'[id].flight = rq.flight /\ allocations'[id].window = rq.window
      BY <1>1 DEF NewRow
    <3> QED BY <3>1, <3>2, <3>3, <1>2, <1>3
  <2> QED BY <2>1
<1>5. Calendar!Belongs(id, rq.flight, rq.window)
  BY <1>2, ReservationsAre DEF ReservationsListed, Calendar!Belongs, Reservation
<1>6. {rq.gate, rq.vehicle} \in SUBSET Requested(rq)
  BY DEF Requested
<1> QED BY <1>1, <1>2, <1>4, <1>5, <1>6, AddingReserves

\* A link reserves its staff member.
LEMMA LinkReserves ==
  ASSUME IInv, IdsInRange, LinkStaff
  PROVE  Calendar!Next
<1> DEFINE id == call.id
           rq == call.request
           s == Head(call.staff)
<1>1. /\ call \in AllocateCalls /\ call.step = "linkStaff" /\ call.staff # << >>
      /\ allocationStaff' = allocationStaff \cup {<<id, s>>}
      /\ UNCHANGED allocations
  BY CallCases DEF IInv, TypeOK, LinkStaff, AllocateSteps
<1>2. s \in Staff /\ s \in Range(call.staff)
  BY <1>1, RangeOfTail DEF AllocateCalls
<1>3. /\ id \in DOMAIN allocations /\ allocations[id] = NewRow(rq)
      /\ s \in Range(rq.staff)
  BY <1>1, <1>2 DEF IInv, AllocationProgress
<1>4. /\ ActiveAllocations' = ActiveAllocations /\ id \in ActiveAllocations
      /\ cancelled' = cancelled /\ id \notin cancelled
      /\ allocations[id].flight = rq.flight /\ allocations[id].window = rq.window
  BY <1>1, <1>3 DEF ActiveAllocations, cancelled, NewRow
<1>5. \A a : ResourcesOf(a)' = IF a = id THEN ResourcesOf(a) \cup {s} ELSE ResourcesOf(a)
  BY <1>1, <1>2 DEF ResourcesOf, StaffOf
<1>6. reservations' = reservations \cup {Reservation(id, rq.flight, rq.window, r) : r \in {s}}
  <2>1. ASSUME NEW e
        PROVE  e \in reservations' <=>
                 \/ e \in reservations
                 \/ e = Reservation(id, rq.flight, rq.window, s)
    <3>1. e \in reservations' <=>
            \E a \in ActiveAllocations : \E r \in ResourcesOf(a)' :
              e = Reservation(a, allocations[a].flight, allocations[a].window, r)
      BY <1>1, <1>4, ReservationsWillBe DEF ReservationsListed, Reservation
    <3> QED BY <3>1, <1>4, <1>5, ReservationsAre DEF ReservationsListed
  <2> QED BY <2>1
<1>7. Calendar!Belongs(id, rq.flight, rq.window)
  BY <1>4, ReservationsAre DEF ReservationsListed, Calendar!Belongs, Reservation
<1>8. {s} \in SUBSET Requested(rq)
  BY <1>3 DEF Requested
<1>9. call.step \in AllocateSteps
  BY <1>1 DEF AllocateSteps
<1> QED BY <1>4, <1>6, <1>7, <1>8, <1>9, AddingReserves

\* The last UPDATE of release gives all resources of the allocation up.
LEMMA MarkReleasedCancels ==
  ASSUME IInv, IdsInRange, MarkReleased
  PROVE  Calendar!Next
<1> DEFINE id == call.id
<1>1. /\ call.step \in ReleaseSteps /\ call # Idle
      /\ allocations' = [allocations EXCEPT ![id].status = "RELEASED"]
      /\ UNCHANGED allocationStaff
  BY DEF MarkReleased, AllocationReleased, ReleaseSteps, Idle
<1>2. id \in ActiveAllocations /\ id \in 1 .. MaxAllocationId
  BY <1>1 DEF IInv, ReleaseProgress, IdsInRange
<1>3. /\ DOMAIN allocations' = DOMAIN allocations
      /\ \A a \in DOMAIN allocations : a # id => allocations'[a] = allocations[a]
      /\ allocations'[id].status = "RELEASED"
  BY <1>1, <1>2 DEF IInv, TypeOK, DatabaseTypeOK, AllocationRows, ActiveAllocations
<1>4. /\ ActiveAllocations' = ActiveAllocations \ {id}
      /\ cancelled' = cancelled \cup {id} /\ id \notin cancelled
  BY <1>2, <1>3 DEF ActiveAllocations, cancelled
<1>5. \A a \in ActiveAllocations' :
        ResourcesOf(a)' = ResourcesOf(a) /\ allocations'[a] = allocations[a]
  BY <1>1, <1>3, <1>4 DEF ResourcesOf, StaffOf, ActiveAllocations
<1>6. reservations' = {e \in reservations : e.allocation # id}
  <2>1. ASSUME NEW e
        PROVE  e \in reservations' <=> e \in reservations /\ e.allocation # id
    <3>1. e \in reservations' <=>
            \E a \in ActiveAllocations' : \E r \in ResourcesOf(a) :
              e = Reservation(a, allocations[a].flight, allocations[a].window, r)
      BY <1>5, ReservationsWillBe DEF ReservationsListed, Reservation
    <3>2. \A a, f, w, r : Reservation(a, f, w, r).allocation = a
      BY DEF Reservation
    <3> QED BY <3>1, <3>2, <1>4, ReservationsAre DEF ReservationsListed
  <2> QED BY <2>1
<1>7. \E e \in reservations : e.allocation = id
  <2>1. allocations[id].gate \in ResourcesOf(id)
    BY DEF ResourcesOf
  <2> DEFINE e == Reservation(id, allocations[id].flight, allocations[id].window,
                              allocations[id].gate)
  <2>2. e \in reservations
    BY <1>2, <2>1, ReservationsAre DEF ReservationsListed
  <2>3. e.allocation = id
    BY DEF Reservation
  <2> QED BY <2>2, <2>3
<1> QED BY <1>2, <1>4, <1>6, <1>7 DEF Calendar!Next, Calendar!Cancel

LEMMA NextRefinesCalendar ==
  ASSUME IInv, IdsInRange, [Next]_vars
  PROVE  [Calendar!Next]_<<reservations, cancelled>>
<1>1. CASE UNCHANGED <<allocations, allocationStaff>>
  BY <1>1, SameCalendar
<1>2. CASE InsertAllocation \/ LinkStaff \/ MarkReleased
  BY <1>2, InsertReserves, LinkReserves, MarkReleasedCancels
<1> QED BY <1>1, <1>2, RowsAreWrittenBy DEF vars

\* The statement-level service implements the calendar: whatever fails and
\* whenever the process restarts, every step reserves what is free, cancels
\* an allocation as a whole, or leaves the calendar alone.
THEOREM CalendarIsImplemented == Spec => CalendarSpec
  BY InitCalendar, NextRefinesCalendar, InductiveInvariant, IdsInRangeHolds, PTL
  DEF Spec, CalendarSpec, Calendar!Spec

-----------------------------------------------------------------------------
(* The calendar's promise                                                  *)

LEMMA CalendarStep ==
  Calendar!NoOverlap /\ [Calendar!Next]_<<reservations, cancelled>> => Calendar!NoOverlap'
<1> SUFFICES ASSUME Calendar!NoOverlap, [Calendar!Next]_<<reservations, cancelled>>,
                    NEW d \in reservations', NEW e \in reservations',
                    d.resource = e.resource, d.flight # e.flight
             PROVE  ~ Calendar!TimeWindowsOverlap(d.window, e.window)
  BY DEF Calendar!NoOverlap
<1>1. CASE d \in reservations /\ e \in reservations
  BY <1>1 DEF Calendar!NoOverlap
<1>2. ASSUME ~ (d \in reservations /\ e \in reservations)
      PROVE  \E a \in 1 .. MaxAllocationId, f \in Flights,
               w \in {request.window : request \in Requests} : Calendar!Reserve(a, f, w)
  BY <1>2 DEF Calendar!Next, Calendar!Cancel
<1>3. ASSUME NEW a, NEW f, NEW w, Calendar!Reserve(a, f, w),
             ~ (d \in reservations /\ e \in reservations)
      PROVE  ~ Calendar!TimeWindowsOverlap(d.window, e.window)
  <2>1. \A n \in reservations' \ reservations :
          n.flight = f /\ n.window = w /\ Calendar!FreeFor(f, w, n.resource)
    BY <1>3 DEF Calendar!Reserve
  <2>2. CASE d \notin reservations /\ e \in reservations
    BY <2>1, <2>2 DEF Calendar!FreeFor
  <2>3. CASE d \in reservations /\ e \notin reservations
    BY <2>1, <2>3 DEF Calendar!FreeFor, Calendar!TimeWindowsOverlap
  <2>4. CASE d \notin reservations /\ e \notin reservations
    BY <2>1, <2>4
  <2> QED BY <1>3, <2>2, <2>3, <2>4
<1> QED BY <1>1, <1>2, <1>3

\* The promise itself: in a calendar no two flights ever have one resource in
\* overlapping windows.
THEOREM CalendarHasNoOverlap == CalendarSpec => []Calendar!NoOverlap
<1>1. Calendar!Init => Calendar!NoOverlap
  BY DEF Calendar!Init, Calendar!NoOverlap
<1> QED BY <1>1, CalendarStep, PTL DEF CalendarSpec, Calendar!Spec
=============================================================================
