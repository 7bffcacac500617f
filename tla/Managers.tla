------------------------------ MODULE Managers ------------------------------
(***************************************************************************)
(* make_envs (environments/env_manager.py): the configuration names the    *)
(* environment, and the manager that goes with it does the rest.           *)
(***************************************************************************)
EXTENDS Belief, WebshopManager

VARIABLE envName  \* config.env.env_name

EnvsInit ==
    /\ envName \in {"alfworld", "webshop"}
    /\ Init /\ ShopInit

EnvsNext ==
    \/ envName = "alfworld" /\ Next /\ UNCHANGED <<envName, shopVars>>
    \/ envName = "webshop" /\ ShopNext /\ UNCHANGED <<envName, vars>>

EnvsSpec == EnvsInit /\ [][EnvsNext]_<<envName, vars, shopVars>>
=============================================================================
