----------------------------- MODULE MCTracker -----------------------------
(* Tracker in a small kitchen: the microwave is a station with a door, and   *)
(* the name of one object has a word of a phase in it.                       *)
EXTENDS Tracker, TLC

CONSTANTS counter, microwave, breadsliced
MicrowaveHeats == microwave :> "hot"
\* "slice" is in "breadsliced 1", "slice " is not
SlicedSpells == [n \in Recs \cup Objects |-> IF n = breadsliced THEN {"slice"} ELSE {}]
NothingEnds  == [n \in Recs \cup Objects |-> {}]
=============================================================================
