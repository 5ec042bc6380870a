------------------------- MODULE ReservationCalendar -------------------------
(***************************************************************************)
(* What resource allocation promises, with nothing of how it keeps the     *)
(* promise: a calendar of reservations.  An allocation reserves resources  *)
(* for one flight during one window, some at first and perhaps more later, *)
(* always such that no other flight has them in an overlapping window; it  *)
(* gives all of them up at once, and is over then.                         *)
(***************************************************************************)
EXTENDS DateTime

CONSTANTS AllocationIds, Flights, Resources, Windows

VARIABLES reservations,   \* set of [allocation, flight, window, resource]
          cancelled       \* allocations that are over

Reservations ==
  [allocation : AllocationIds, flight : Flights, window : Windows,
   resource : Resources]

Init == reservations = {} /\ cancelled = {}

\* Nobody but flight f has r in a window that overlaps w.
FreeFor(f, w, r) ==
  \A e \in reservations :
    e.resource = r /\ e.flight # f => ~ TimeWindowsOverlap(w, e.window)

\* Allocation a belongs to flight f and window w, if it has reservations.
Belongs(a, f, w) ==
  \A e \in reservations : e.allocation = a => e.flight = f /\ e.window = w

\* Some resources that are free for flight f are reserved for it.
Reserve(a, f, w) ==
  /\ a \notin cancelled
  /\ Belongs(a, f, w)
  /\ reservations \subseteq reservations'
  /\ \A e \in reservations' \ reservations :
       /\ e = [allocation |-> a, flight |-> f, window |-> w, resource |-> e.resource]
       /\ e.resource \in Resources
       /\ FreeFor(f, w, e.resource)
  /\ UNCHANGED cancelled

Cancel(a) ==
  /\ a \notin cancelled
  /\ \E e \in reservations : e.allocation = a
  /\ reservations' = {e \in reservations : e.allocation # a}
  /\ cancelled' = cancelled \cup {a}

Next ==
  \E a \in AllocationIds :
    \/ Cancel(a)
    \/ \E f \in Flights, w \in Windows : Reserve(a, f, w)

Spec == Init /\ [][Next]_<<reservations, cancelled>>

\* No two flights have a resource in overlapping windows.
NoOverlap ==
  \A d, e \in reservations :
    d.resource = e.resource /\ d.flight # e.flight =>
      ~ TimeWindowsOverlap(d.window, e.window)
=============================================================================
