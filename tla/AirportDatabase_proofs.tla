------------------------ MODULE AirportDatabase_proofs ------------------------
(***************************************************************************)
(* Lemmas about the operators all services are built from: the statements  *)
(* of the database, the lists that handlers loop over, time windows, the   *)
(* texts of statuses and the edge table of the flight life cycle.          *)
(***************************************************************************)
EXTENDS AirportDatabase, FiniteSetTheorems, SequenceTheorems, TLAPS

-----------------------------------------------------------------------------
(* Statements, lists and windows                                           *)

\* An UPDATE keeps the keys of a table and changes at most the named row.
LEMMA StatusUpdatedProperties ==
  ASSUME NEW S, NEW V, NEW table \in [S -> V], NEW key, NEW status \in V
  PROVE  /\ StatusUpdated(table, key, status) \in [S -> V]
         /\ DOMAIN StatusUpdated(table, key, status) = S
         /\ \A k \in S : StatusUpdated(table, key, status)[k]
                           = IF k = key THEN status ELSE table[k]
  BY DEF StatusUpdated

\* An INSERT adds its key and keeps every other row.
LEMMA InsertedProperties ==
  ASSUME NEW S, NEW V, NEW table \in [S -> V], NEW key, NEW row \in V
  PROVE  /\ DOMAIN Inserted(table, key, row) = S \cup {key}
         /\ Inserted(table, key, row) \in [S \cup {key} -> V]
         /\ Inserted(table, key, row)[key] = row
         /\ \A k \in S : k # key => Inserted(table, key, row)[k] = table[k]
  BY DEF Inserted

\* A loop visits the head of its list first and has the tail left.
LEMMA RangeOfTail ==
  ASSUME NEW S, NEW s \in Seq(S), s # << >>
  PROVE  /\ Head(s) \in S
         /\ Tail(s) \in Seq(S)
         /\ Range(s) = {Head(s)} \cup Range(Tail(s))
<1>1. Head(s) \in S /\ Tail(s) \in Seq(S) /\ Len(s) \in Nat \ {0}
  BY HeadTailProperties, EmptySeq, LenProperties
<1>2. DOMAIN s = 1 .. Len(s) /\ Head(s) = s[1]
  BY LenProperties, HeadTailProperties
<1>3. DOMAIN Tail(s) = 1 .. (Len(s) - 1)
      /\ \A i \in 1 .. (Len(s) - 1) : Tail(s)[i] = s[i + 1]
  BY <1>1, HeadTailProperties, LenProperties
<1>4. Range(s) \subseteq {Head(s)} \cup Range(Tail(s))
  <2> SUFFICES ASSUME NEW i \in 1 .. Len(s), i # 1
               PROVE  s[i] \in Range(Tail(s))
    BY <1>1, <1>2 DEF Range
  <2>1. i - 1 \in DOMAIN Tail(s) /\ Tail(s)[i - 1] = s[i]
    BY <1>1, <1>3
  <2> QED BY <2>1 DEF Range
<1>5. {Head(s)} \cup Range(Tail(s)) \subseteq Range(s)
  <2>1. Head(s) \in Range(s)
    BY <1>1, <1>2 DEF Range
  <2>2. ASSUME NEW i \in DOMAIN Tail(s)
        PROVE  Tail(s)[i] \in Range(s)
    <3>1. i + 1 \in DOMAIN s /\ Tail(s)[i] = s[i + 1]
      BY <1>1, <1>2, <1>3
    <3> QED BY <3>1 DEF Range
  <2> QED BY <2>1, <2>2 DEF Range
<1> QED BY <1>1, <1>4, <1>5

\* An empty list names nobody.
LEMMA RangeOfEmpty == Range(<< >>) = {}
  BY DEF Range

\* A SELECT lists exactly the ids of the set, whatever its order.
LEMMA ListingProperties ==
  ASSUME NEW S \in SUBSET Staff, NEW listing \in Listings(S)
  PROVE  listing \in Seq(Staff) /\ Range(listing) = S
<1>1. IsFiniteSet(S) /\ Cardinality(S) \in Nat
  BY ResourceAssumption, FS_Subset, FS_CardinalityType
<1>2. listing \in [1 .. Cardinality(S) -> Staff] /\ Range(listing) = S
  BY DEF Listings
<1> QED BY <1>1, <1>2, SeqDef

\* There is an order to list them in.
LEMMA ListingExists ==
  ASSUME NEW S \in SUBSET Staff
  PROVE  Listings(S) # {}
<1>1. IsFiniteSet(S)
  BY ResourceAssumption, FS_Subset
<1>2. PICK listing \in Bijection(1 .. Cardinality(S), S) : TRUE
  BY <1>1, FS_CardinalityType DEF ExistsBijection
<1>3. /\ listing \in [1 .. Cardinality(S) -> S]
      /\ \A s \in S : \E i \in 1 .. Cardinality(S) : listing[i] = s
  BY DEF Bijection, Surjection
<1>4. Range(listing) = S
  BY <1>3 DEF Range
<1> QED BY <1>3, <1>4 DEF Listings

\* Overlap is symmetric: it does not matter which allocation came first.
LEMMA OverlapIsSymmetric ==
  ASSUME NEW v, NEW w, TimeWindowsOverlap(v, w)
  PROVE  TimeWindowsOverlap(w, v)
  BY DEF TimeWindowsOverlap

\* Windows that have an instant in common overlap.
LEMMA CommonInstantMeansOverlap ==
  ASSUME NEW v \in TimeWindows, NEW w \in TimeWindows,
         InstantsOf(v) \cap InstantsOf(w) # {}
  PROVE  TimeWindowsOverlap(v, w)
<1>1. PICK t \in Int : t \in InstantsOf(v) /\ t \in InstantsOf(w)
  BY DEF InstantsOf
<1> QED BY <1>1 DEF InstantsOf, TimeWindowsOverlap, TimeWindows

-----------------------------------------------------------------------------
(* Statuses                                                                *)

\* The names of flight statuses are written and parsed as they are.
LEMMA FlightStatusTexts ==
  ASSUME NEW status \in FlightStatuses
  PROVE  ToText(status) = status /\ ParseFlightStatus(status) = status
<1>1. FlightStatuses \subseteq Enumerators
  BY DEF Enumerators
<1> QED BY <1>1 DEF ToText, ParseFlightStatus, ParsedAmong

\* The edge table: every edge leads to a status, none back to SCHEDULED, and
\* APPROACHING, ARRIVED and EMERGENCY_LANDING are each entered by one edge.
LEMMA EdgeTable ==
  ASSUME NEW from \in FlightStatuses, NEW to \in Successors(from)
  PROVE  /\ to \in FlightStatuses \ {"SCHEDULED"}
         /\ to = "APPROACHING" => from = "SCHEDULED"
         /\ to \in {"ARRIVED", "EMERGENCY_LANDING"} => from = "APPROACHING"
  BY DEF Successors, FlightStatuses

-----------------------------------------------------------------------------
(* What a step can do to the flights                                       *)

\* createFlight.
AddsFlight(f) ==
  /\ f \in Flights
  /\ f \notin DOMAIN flights
  /\ flights' = Inserted(flights, f, "SCHEDULED")

\* transitionFlightStatus.
MovesFlight(f, status) ==
  /\ f \in DOMAIN flights
  /\ status \in Successors(FlightStatusOf(f))
  /\ flights' = StatusUpdated(flights, f, status)

FlightsStep ==
  \/ UNCHANGED flights
  \/ \E f \in Flights : AddsFlight(f)
  \/ \E f \in DOMAIN flights, status \in FlightStatuses : MovesFlight(f, status)

\* Only flights that somebody may type are ever stored.
FlightsKnown == DOMAIN flights \subseteq Flights

LEMMA FlightsStepKnown == FlightsKnown /\ FlightsStep => FlightsKnown'
  BY DEF FlightsKnown, FlightsStep, AddsFlight, MovesFlight, Inserted, StatusUpdated
=============================================================================
