-------------------------- MODULE ConflictDetector --------------------------
(***************************************************************************)
(* ConflictDetector::checkConflict: the question whether an allocation     *)
(* request clashes with the resource statuses and the active allocations   *)
(* stored in the database.  It only reads.  Which conflict is reported     *)
(* first matters to the wording of the answer alone, so the answer here is *)
(* whether there is one.                                                   *)
(***************************************************************************)
EXTENDS AirportDatabase

AllocationRequests ==
  [flight : Flights, gate : Gates, vehicle : Vehicles, staff : Seq(Staff),
   window : TimeWindows]

\* The resources a request names; a staff id may occur twice in its list.
Requested(request) ==
  {request.gate, request.vehicle} \cup Range(request.staff)

UnknownId(request) ==
  \/ request.flight \notin DOMAIN flights
  \/ ~ (Requested(request) \subseteq DOMAIN resources)

UnderMaintenance(r) == ResourceStatusOf(r) = "MAINTENANCE"

\* Mutant of BookedByOther: only the start of the request is looked up.
BookedAtStart(r, request) ==
  \E a \in ListActiveAllocationsFor(r) :
    /\ allocations[a].flight # request.flight
    /\ request.window.start \in InstantsOf(allocations[a].window)

\* Another flight's active allocation holds r during the requested window.
\* Allocations of the requesting flight itself are skipped.
BookedByOther(r, request) ==
  \E a \in ListActiveAllocationsFor(r) :
    /\ allocations[a].flight # request.flight
    /\ TimeWindowsOverlap(request.window, allocations[a].window)

\* Mutant of Unavailable: the resource's status is not looked at.
UnavailableIfBooked(r, request) == BookedByOther(r, request)

\* checkGate, checkVehicle, and one round of the loop of checkGroundStaff.
Unavailable(r, request) == UnderMaintenance(r) \/ BookedByOther(r, request)

\* Mutant of HasConflict: the loop over the staff ends after its first round.
HasConflictFirstStaff(request) ==
  \/ UnknownId(request)
  \/ Unavailable(request.gate, request)
  \/ Unavailable(request.vehicle, request)
  \/ request.staff # << >> /\ Unavailable(Head(request.staff), request)

HasConflict(request) ==
  \/ UnknownId(request)
  \/ Unavailable(request.gate, request)
  \/ Unavailable(request.vehicle, request)
  \/ \E s \in Range(request.staff) : Unavailable(s, request)
=============================================================================
