--------------------------- MODULE FlightLifecycle ---------------------------
(***************************************************************************)
(* What the edge table, the services that use it and the restarts between  *)
(* them promise of a flight's life, with the detours left out: a flight is *)
(* expected, lands, is handled until it is ready, leaves, and never goes   *)
(* back; a delay returns it to handling at most; a flight that has landed  *)
(* is cancelled only from there.  One flight moves at a time.              *)
(***************************************************************************)
CONSTANT Flights

VARIABLE phase   \* the phase of every flight there is

Phases == {"expected", "landing", "handled", "ready", "gone", "cancelled"}

Init == phase \in [DOMAIN phase -> {"expected"}] /\ DOMAIN phase \subseteq Flights

Announce(f) ==
  /\ f \notin DOMAIN phase
  /\ phase' = [g \in DOMAIN phase \cup {f} |->
                 IF g = f THEN "expected" ELSE phase[g]]

Move(f, from, to) ==
  /\ f \in DOMAIN phase
  /\ phase[f] = from
  /\ phase' = [phase EXCEPT ![f] = to]

Land(f)   == Move(f, "expected", "landing")
Handle(f) == Move(f, "landing", "handled")
Finish(f) == Move(f, "handled", "ready")
Delay(f)  == Move(f, "ready", "handled")
Leave(f)  == Move(f, "ready", "gone")
Cancel(f) == Move(f, "expected", "cancelled") \/ Move(f, "handled", "cancelled")

Next ==
  \E f \in Flights :
    \/ Announce(f) \/ Land(f) \/ Handle(f) \/ Finish(f)
    \/ Delay(f) \/ Leave(f) \/ Cancel(f)

Spec == Init /\ [][Next]_phase
=============================================================================
