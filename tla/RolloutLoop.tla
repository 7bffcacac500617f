---------------------------- MODULE RolloutLoop ----------------------------
(***************************************************************************)
(* TrajectoryCollector.multi_turn_loop: the configuration says whether the *)
(* rollouts of a training run are played once (Rollout) or again and again *)
(* until enough groups of episodes differ (DynamicRollout).                *)
(***************************************************************************)
EXTENDS Rollout, DynamicRollout

VARIABLE filterGroups  \* config.algorithm.filter_groups.enable, and is_train

loopsVars == <<filterGroups, vars, dynamicVars>>

LoopInit ==
  /\ filterGroups \in BOOLEAN
  /\ Init /\ DynamicInit

\* A batch that was sampled dynamically, or an exception, is handed on.
HandOn == stage \in {"done", "failed"} /\ UNCHANGED dynamicVars

LoopNext ==
  \/ ~filterGroups /\ Next /\ UNCHANGED <<filterGroups, dynamicVars>>
  \/ filterGroups /\ (DynamicNext \/ HandOn) /\ UNCHANGED <<filterGroups, vars>>

\* The driver and the workers are as reliable as in Rollout.
LoopSpec == LoopInit /\ [][LoopNext]_loopsVars /\ Fairness
=============================================================================
