-------------------------- MODULE EmergencyService --------------------------
(***************************************************************************)
(* EmergencyService: an emergency landing is declared, the landing is      *)
(* recorded, ground handling begins, the case is closed.  declareEmergency *)
(* and beginGroundHandling commit the flight's new status first and their  *)
(* own row in a second statement.  Only beginGroundHandling depends on the *)
(* state of the flight; no step depends on the state of the row.           *)
(* Emergency ids "EM0001", "EM0002", ... are 1, 2, ....                    *)
(***************************************************************************)
EXTENDS FlightService

CONSTANT MaxEmergencyId   \* bound: ids the generator hands out

ASSUME EmergencyAssumption == MaxEmergencyId \in Nat

VARIABLES
  emergencies,       \* rows of emergency_landings, by emergency_id
  nextEmergencyId    \* emergencyIdGen_.counter_, in memory only

\* `landed` says whether a landing time is stored; its value matters to nobody.
EmergencyRows ==
  [flight : Flights, status : EmergencyStatuses, landed : BOOLEAN]

EmergencyOperations ==
  [step : {"saveEmergency", "markHandling"}, flight : Flights, id : Nat]

EmergencyTypeOK ==
  /\ DOMAIN emergencies \subseteq Nat
  /\ emergencies \in [DOMAIN emergencies -> EmergencyRows]
  /\ nextEmergencyId \in Nat

EmergencyInit == emergencies = << >> /\ nextEmergencyId = 1

-----------------------------------------------------------------------------
(* declareEmergency                                                        *)

RejectDeclaration(f) ==
  /\ operation = AtMenu
  /\ ~ MayTransition(f, "EMERGENCY_LANDING")
  /\ Finish("exception")
  /\ UNCHANGED <<flights, emergencies, nextEmergencyId>>

\* Mutant of DeclareEmergency: the new status is not written to the database.
DeclareInMemory(f) ==
  /\ operation = AtMenu
  /\ MayTransition(f, "EMERGENCY_LANDING")
  /\ nextEmergencyId <= MaxEmergencyId
  /\ nextEmergencyId' = nextEmergencyId + 1
  /\ Continue([step |-> "saveEmergency", flight |-> f, id |-> nextEmergencyId])
  /\ UNCHANGED <<flights, emergencies>>

DeclareEmergency(f) ==
  /\ operation = AtMenu
  /\ MayTransition(f, "EMERGENCY_LANDING")
  /\ nextEmergencyId <= MaxEmergencyId
  /\ flights' = StatusUpdated(flights, f, "EMERGENCY_LANDING")
  /\ nextEmergencyId' = nextEmergencyId + 1
  /\ Continue([step |-> "saveEmergency", flight |-> f, id |-> nextEmergencyId])
  /\ UNCHANGED emergencies

\* saveEmergency: a plain INSERT, refused when the id is taken.
SaveEmergency ==
  /\ operation.step = "saveEmergency"
  /\ operation.id \notin DOMAIN emergencies
  /\ emergencies' = Inserted(emergencies, operation.id,
                             [flight |-> operation.flight, status |-> "DECLARED",
                              landed |-> FALSE])
  /\ Finish("done")
  /\ UNCHANGED <<flights, nextEmergencyId>>

\* The flight stays in EMERGENCY_LANDING without a record.
SaveRefused ==
  /\ operation.step = "saveEmergency"
  /\ operation.id \in DOMAIN emergencies
  /\ Finish("exception")
  /\ UNCHANGED <<flights, emergencies, nextEmergencyId>>

-----------------------------------------------------------------------------
(* recordLanding, beginGroundHandling, resolveEmergency                    *)

\* getEmergency finds no such row.
RejectEmergency(id) ==
  /\ operation = AtMenu
  /\ id \notin DOMAIN emergencies
  /\ Finish("exception")
  /\ UNCHANGED <<flights, emergencies, nextEmergencyId>>

\* Mutant of RecordLanding: the flight's status is written into the row.
RecordArrival(id) ==
  /\ operation = AtMenu
  /\ id \in DOMAIN emergencies
  /\ emergencies' = [emergencies EXCEPT ![id].status = "ARRIVED", ![id].landed = TRUE]
  /\ Finish("done")
  /\ UNCHANGED <<flights, nextEmergencyId>>

RecordLanding(id) ==
  /\ operation = AtMenu
  /\ id \in DOMAIN emergencies
  /\ emergencies' = [emergencies EXCEPT ![id].status = "LANDED", ![id].landed = TRUE]
  /\ Finish("done")
  /\ UNCHANGED <<flights, nextEmergencyId>>

MayHandle(f, id) ==
  /\ id \in DOMAIN emergencies
  /\ emergencies[id].flight = f
  /\ MayTransition(f, "GROUND_OPERATIONS")

RejectHandling(f, id) ==
  /\ operation = AtMenu
  /\ ~ MayHandle(f, id)
  /\ Finish("exception")
  /\ UNCHANGED <<flights, emergencies, nextEmergencyId>>

\* Mutant of BeginHandling: the new status is not written to the database.
BeginHandlingInMemory(f, id) ==
  /\ operation = AtMenu
  /\ MayHandle(f, id)
  /\ Continue([step |-> "markHandling", flight |-> f, id |-> id])
  /\ UNCHANGED <<flights, emergencies, nextEmergencyId>>

BeginHandling(f, id) ==
  /\ operation = AtMenu
  /\ MayHandle(f, id)
  /\ flights' = StatusUpdated(flights, f, "GROUND_OPERATIONS")
  /\ Continue([step |-> "markHandling", flight |-> f, id |-> id])
  /\ UNCHANGED <<emergencies, nextEmergencyId>>

MarkHandling ==
  /\ operation.step = "markHandling"
  /\ emergencies' = [emergencies EXCEPT ![operation.id].status = "GROUND_HANDLING"]
  /\ Finish("done")
  /\ UNCHANGED <<flights, nextEmergencyId>>

ResolveEmergency(id) ==
  /\ operation = AtMenu
  /\ id \in DOMAIN emergencies
  /\ emergencies' = [emergencies EXCEPT ![id].status = "RESOLVED"]
  /\ Finish("done")
  /\ UNCHANGED <<flights, nextEmergencyId>>

-----------------------------------------------------------------------------
EmergencyCommand ==
  \/ \E f \in Flights : RejectDeclaration(f) \/ DeclareEmergency(f)
  \/ \E id \in 1 .. MaxEmergencyId :
       \/ RejectEmergency(id) \/ RecordLanding(id) \/ ResolveEmergency(id)
       \/ \E f \in Flights : RejectHandling(f, id) \/ BeginHandling(f, id)

AdvanceEmergency == SaveEmergency \/ SaveRefused \/ MarkHandling
=============================================================================
