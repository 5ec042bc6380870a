------------------------------ MODULE DateTime ------------------------------
(***************************************************************************)
(* Instants and time windows.  DateTime::fromString reads, and             *)
(* DateTime::toString writes, whole minutes, so an instant is an integer   *)
(* number of minutes; 0 is the value of a text that could not be parsed    *)
(* (and is written "N/A", which reads back as 0).  Nothing in the program  *)
(* requires a window to start before it ends.                              *)
(***************************************************************************)
EXTENDS Integers

TimeWindows == [start : Int, end : Int]

\* util::timeWindowsOverlap, the test every conflict check rests on.
TimeWindowsOverlap(a, b) == a.start < b.end /\ b.start < a.end

\* The instants of the half-open window [start, end).  Used by properties only:
\* the code never enumerates them.
InstantsOf(w) == w.start .. (w.end - 1)
=============================================================================
