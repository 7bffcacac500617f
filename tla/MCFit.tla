------------------------------- MODULE MCFit -------------------------------
(* The batches of MCTrainBatch, of two trajectories.  Calls on one rank, on *)
(* two of one or two groups, and on four.  Rows have two to four tokens; of *)
(* more than four rows the shorter come first, since the balancing starts   *)
(* by sorting them.                                                         *)
EXTENDS Fit, MCTrainBatch

SomeShapes == {<<1, 1>>, <<2, 1>>, <<2, 2>>, <<4, 2>>}

SomeRows == {<<1, 1>>, <<1, 3>>, <<2, 1>>}
Long(n) == {[k \in 1 .. n |-> IF k <= i THEN <<1, 1>> ELSE IF k <= j THEN <<2, 1>> ELSE <<1, 3>>] :
              i \in 0 .. n, j \in 0 .. n}
SomeBatches == [1 .. 4 -> SomeRows] \union Long(6) \union Long(8) \union Long(12)
=============================================================================
