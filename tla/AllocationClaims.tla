--------------------------- MODULE AllocationClaims ---------------------------
(***************************************************************************)
(* What the repository says of allocation and the code does not do.  Each  *)
(* property is checked by a run of its own, which finds it violated.       *)
(***************************************************************************)
EXTENDS AllocationService

\* README.md:326, "Any one conflict aborts the whole allocation atomically (no
\* partial allocation is ever persisted)": a call that ends in an exception
\* leaves no active allocation under its id.  A staff id listed twice passes
\* every check and makes the second link INSERT fail, after the row and the
\* first link are committed.
NoPartialAllocation ==
  result.outcome = "exception" => result.id \notin ActiveAllocations

\* DateTime.h:56, "Ensures future generated IDs won't collide with an
\* already-used numeric suffix (used when re-hydrating counters from the
\* database on startup)": no call works under an id the table already has.
\* Nothing calls IdGenerator::observe, so after a restart AL0001 comes again.
GeneratedIdsAreFresh ==
  call.step = "occupyGate" => call.id \notin DOMAIN allocations

\* ConflictDetector.h:14, "resource unavailable (MAINTENANCE / already
\* OCCUPIED)": a call that passes the checks finds none of its resources
\* OCCUPIED.  The detector never looks at OCCUPIED.
OccupiedIsAConflict ==
  [][(call = Idle /\ call'.step = "occupyGate") =>
       \A r \in {call'.request.gate, call'.request.vehicle} \cup Range(call'.request.staff) :
         resources[r] # "OCCUPIED"]_vars

\* design.md:124, "An administrator can independently set a resource to
\* MAINTENANCE (or back)", honoured "as an unconditional unavailability":
\* only the administrator ends a maintenance.  release() sets AVAILABLE
\* whatever the status was.
MaintenanceEndsByAdministrator ==
  [][call # Idle =>
       \A r \in DOMAIN resources :
         resources[r] = "MAINTENANCE" => resources'[r] = "MAINTENANCE"]_vars
=============================================================================
