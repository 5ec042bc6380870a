------------------------- MODULE AllocationRefinement -------------------------
(***************************************************************************)
(* AllocationService implements ReservationCalendar.  An allocation has    *)
(* reserved its gate and vehicle once its row is inserted, and each staff  *)
(* member once the link is; it is cancelled once its row says RELEASED.    *)
(* All else (resource statuses, the calls, restarts) the calendar does     *)
(* not see.                                                                *)
(***************************************************************************)
EXTENDS AllocationService

reservations ==
  UNION { { [allocation |-> a, flight |-> allocations[a].flight,
             window |-> allocations[a].window, resource |-> r]
            : r \in ResourcesOf(a) } : a \in ActiveAllocations }

cancelled == {a \in DOMAIN allocations : allocations[a].status = "RELEASED"}

Calendar ==
  INSTANCE ReservationCalendar
    WITH AllocationIds <- 1 .. MaxAllocationId,
         Windows <- {request.window : request \in Requests}

\* The calendar's promise, kept by the statement-level service whatever
\* fails: reservations of one resource by two flights never overlap, a call
\* that stops half way reserves nothing that was not free, an allocation is
\* given up as a whole, and its id never serves again.
CalendarSpec == Calendar!Spec
=============================================================================
