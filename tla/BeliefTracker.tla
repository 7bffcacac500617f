--------------------------- MODULE BeliefTracker ---------------------------
(***************************************************************************)
(* env_package/alfworld/belief_tracker.py: GroundTruthTracker collects     *)
(* facts while a game is played, and RebelRewardCalculator holds the       *)
(* belief of a turn against such facts.  The calculator changes nothing    *)
(* that the tracker reads, so a behaviour goes through one of them: plays  *)
(* of the game, or revisions of a belief against any facts.                *)
(***************************************************************************)
EXTENDS Tracker, TurnReward

VARIABLE class    \* the class whose objects are followed

Unplayed ==
    /\ at = Nowhere /\ open = {}
    /\ where = [o \in Objects |-> CHOOSE r \in Recs : TRUE]
    /\ cond = [o \in Objects |-> "none"]
    /\ visible = {Plain(r) : r \in Recs} /\ visited = {}
    /\ objLoc = <<>> /\ objState = <<>> /\ cleared = {} /\ inventory = None
    /\ shown = {} /\ moved = {}

Unscored ==
    /\ topic = "objects" /\ step = 1
    /\ gt = [objects |-> <<>>, inventory |-> Nothing, states |-> <<>>, visited |-> {}]
    /\ belief = [objects |-> <<>>, states |-> <<>>, visited |-> {}, candidates |-> {}]
    /\ turn = [told |-> <<>>, gamePhase |-> "find", won |-> FALSE, weight |-> Full]
    /\ output = [acceptedBy |-> Readers, tidy |-> TRUE, available |-> TRUE,
                 phase |-> "", prediction |-> <<>>]

ClassesInit ==
    \/ class = "GroundTruthTracker" /\ Init /\ Unscored
    \/ class = "RebelRewardCalculator" /\ TurnInit /\ Unplayed

ClassesNext ==
    \/ class = "GroundTruthTracker" /\ Next /\ UNCHANGED <<class, turnVars>>
    \/ class = "RebelRewardCalculator" /\ TurnNext /\ UNCHANGED <<class, vars>>

ClassesSpec == ClassesInit /\ [][ClassesNext]_<<class, vars, turnVars>>
=============================================================================
