------------------------- MODULE MCAllocationService -------------------------
(***************************************************************************)
(* Small instances of AllocationService for TLC: two flights, two gates,   *)
(* two vehicles, two staff members, and requests chosen so that every kind *)
(* of clash happens.                                                       *)
(***************************************************************************)
EXTENDS AllocationRefinement, AllocationClaims

CONSTANTS f1, f2, g1, g2, v1, v2, s1, s2

Request(f, g, v, staff, from, to) ==
  [flight |-> f, gate |-> g, vehicle |-> v, staff |-> staff,
   window |-> [start |-> from, end |-> to]]

\* Each later request meets the first one on one resource: the gate, the
\* vehicle (but only when the first window is over), a staff member that is
\* not the first of its list; then the same flight again, and a window that
\* ends before it starts.
ClashingRequests ==
  { Request(f1, g1, v1, <<s1>>, 1, 3),
    Request(f2, g1, v2, <<s2>>, 2, 4),
    Request(f2, g2, v1, <<>>, 3, 5),
    Request(f2, g2, v2, <<s2, s1>>, 1, 2),
    Request(f1, g1, v2, <<>>, 2, 4),
    Request(f2, g1, v1, <<s1>>, 4, 1) }

\* One gate and one vehicle: a list without staff, with two, with one of
\* them twice.
RepeatedStaffRequests ==
  { Request(f1, g1, v1, <<s1, s2>>, 1, 3),
    Request(f2, g1, v1, <<s2>>, 2, 4),
    Request(f2, g1, v1, <<>>, 3, 4),
    Request(f1, g1, v1, <<s1, s1>>, 1, 2) }
=============================================================================
