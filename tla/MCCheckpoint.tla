---------------------------- MODULE MCCheckpoint ----------------------------
(* Checkpoint on small instances.                                          *)
EXTENDS Checkpoint

KeepTwoThree == [p \in Parts |-> IF p = "actor" THEN 2 ELSE 3]
LinearCurve == [k \in 0 .. 2 |-> 10 - 4 * k]
FallingFactor == [r \in {3, 9} |-> 10 - r]
AnyMode == {"auto", "disable", "resume_path"}
=============================================================================
