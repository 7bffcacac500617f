------------------------------ MODULE Episodes ------------------------------
(***************************************************************************)
(* What a batched rollout promises: a set of unrelated episodes.  Each one *)
(* takes steps until it ends or its budget is used up, is paid for those   *)
(* steps only, and then rests until all are started anew.  Several may     *)
(* move in the same step; none can be seen to depend on another.           *)
(***************************************************************************)
EXTENDS Integers

CONSTANTS Env, Budget, Payments

VARIABLES done, length, paid

vars == <<done, length, paid>>

Init ==
  /\ done = [i \in Env |-> FALSE]
  /\ length = [i \in Env |-> 0]
  /\ paid = [i \in Env |-> 0]

\* Episode i takes a step; only the step that ends it pays.
Play(i) ==
  /\ ~done[i]
  /\ length[i] < Budget
  /\ length'[i] = length[i] + 1
  /\ \E r \in Payments :
       /\ paid'[i] = paid[i] + r
       /\ r # 0 => done'[i]

Rest(i) ==
  /\ length[i] > 0
  /\ done[i] \/ length[i] = Budget
  /\ UNCHANGED <<done[i], length[i], paid[i]>>

Move == \A i \in Env : Play(i) \/ Rest(i)

Restart ==
  /\ done' = [i \in Env |-> FALSE]
  /\ length' = [i \in Env |-> 0]
  /\ paid' = [i \in Env |-> 0]

Next == Move \/ Restart

Spec == Init /\ [][Next]_vars
=============================================================================
