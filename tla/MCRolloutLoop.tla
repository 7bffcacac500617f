--------------------------- MODULE MCRolloutLoop ---------------------------
(* RolloutLoop: two environments for a rollout that is played once, two     *)
(* groups of two episodes for one that is filtered.                         *)
EXTENDS RolloutLoop

OneIntrinsic == {1}
TwoSums == {0, 1}
TwoTasks == {"heat", "cool"}
=============================================================================
