-------------------------------- MODULE Fit --------------------------------
(***************************************************************************)
(* RayPPOTrainer.fit, between the rollout and the end of an iteration, at  *)
(* two levels: the steps in which the driver fills the columns of a batch  *)
(* (TrainBatch), and one of the calls that send its rows to the workers    *)
(* and put the answers together (Dispatch).  A call leaves the columns     *)
(* alone, so a behaviour goes through one of the levels.                   *)
(***************************************************************************)
EXTENDS TrainBatch, Dispatch

VARIABLE level

NoCall == DispatchInit /\ shape = CHOOSE s \in Shapes : TRUE

NoBatch ==
  /\ pc = "idle" /\ est = "grpo" /\ batch = <<>>
  /\ uid = CHOOSE u \in Uids : TRUE
  /\ play = [i \in Trajs |-> CHOOSE e \in Plays : TRUE]

FitInit ==
  \/ level = "columns" /\ Init /\ NoCall
  \/ level = "call" /\ NoBatch /\ DispatchInit

FitNext ==
  \/ level = "columns" /\ Next /\ UNCHANGED <<level, dispatchVars>>
  \/ level = "call" /\ DispatchNext /\ UNCHANGED <<level, vars>>

FitSpec == FitInit /\ [][FitNext]_<<level, vars, dispatchVars>> /\ DispatchFairness
=============================================================================
