------------------------------ MODULE Rollout ------------------------------
(***************************************************************************)
(* One training rollout: TrajectoryCollector.vanilla_multi_turn_loop       *)
(* drives a batch of environments, each behind its own Ray worker, through *)
(* AlfWorldEnvironmentManager, and gather_rollout_data turns what it       *)
(* collected into the rows of the training batch.                          *)
(*                                                                         *)
(* The loop is synchronous over an asynchronous fleet: every iteration     *)
(* sends one action to every worker, also to those whose episode is over,  *)
(* and waits for all of them.  A finished episode is only kept out of the  *)
(* accounting by a mask computed before the step.                          *)
(*                                                                         *)
(* Rewards are integers: the win reward and the intrinsic (belief) reward  *)
(* only have to be told apart and added up.                                *)
(***************************************************************************)
EXTENDS Integers, Sequences, FiniteSets, SequencesExt

CONSTANTS
  BatchSize,        \* environments in the batch (train_batch_size * rollout.n)
  GroupN,           \* config.env.rollout.n: environments per prompt group
  MaxSteps,         \* config.env.max_steps
  Actions,          \* decoded responses, after strip().lower()
  Intrinsics,       \* values the intrinsic reward of a step can take
  WinReward,        \* 10.0 in compute_reward
  UseResultReward,  \* config.algorithm.rebel.use_result_reward
  NoAction          \* prev_action_text has no entry

ASSUME RolloutAssumption ==
  /\ BatchSize \in Nat \ {0}
  /\ GroupN \in Nat
  /\ MaxSteps \in Nat \ {0}
  /\ Actions # {}
  /\ NoAction \notin Actions
  /\ Intrinsics # {}
  /\ Intrinsics \subseteq Int
  /\ WinReward \in Int \ {0}
  /\ UseResultReward \in BOOLEAN

Envs == 0 .. BatchSize - 1

\* What a worker answers to a step: the episode goes on, or is over.
Outcomes == {"playing", "lost", "won"}
Pending == "pending"

VARIABLES
  pc,                   \* where the loop is
  step,                 \* _step: iterations completed
  isDone,               \* is_done
  response,             \* text_actions of this iteration
  answer,               \* the worker's result of this iteration, or Pending
  rows,                 \* total_batch_list zipped with total_infos
  episodeRewards,       \* episode_rewards: environment + intrinsic
  envEpisodeRewards,    \* env_episode_rewards: what the advantage is built on
  episodeLengths,       \* episode_lengths
  prevAction,           \* prev_action_text
  success,              \* success['success_rate'] of the evaluator
  output,               \* rows of the training batch
  over,                 \* environment: its episode has ended
  score                 \* environment: what it paid while its episode ran

loopVars == <<isDone, rows, episodeRewards, envEpisodeRewards,
              episodeLengths, prevAction>>
gameVars == <<over, score>>
vars == <<pc, step, response, answer, loopVars, success, output, gameVars>>

-----------------------------------------------------------------------------
\* Environments i and j share a uid iff they belong to the same prompt.
Uid(i) == IF GroupN > 0 THEN i \div GroupN ELSE 0

\* compute_reward: paid whenever the answer says the game is won.
EnvReward(ans) == IF ans = "won" THEN WinReward ELSE 0

\* The reward the manager hands back for one environment.
StepReward(ans, intr) ==
  IF UseResultReward THEN EnvReward(ans) + intr ELSE intr

\* Seeded defects (Bug...) stand before the definition they replace; no
\* specification uses them.  Here: the mask is dropped.
BugActive(i) == TRUE

\* active_masks: taken before the step, so that the closing step counts.
Active(i) == ~isDone[i]

\* x[active_masks] += amount
Masked(i, amount) == IF Active(i) THEN amount ELSE 0

BugSent == {i \in Envs : Active(i)}

\* The workers that are sent an action: all of them, also those whose
\* episode is over.
Sent == Envs

BugEnvOnly(reward, intr) == reward

\* step_rewards - _intr
EnvOnly(reward, intr) == reward - intr

\* A response counts as a repeat only against the same episode's last one.
IsRepeat(i) == Active(i) /\ prevAction[i] = response[i]

BugStepIndex(i) == episodeLengths[i] + 1

\* rebel_step_index: captured before episode_lengths is incremented.
StepIndex(i) == episodeLengths[i]

Row(i) ==
  [ active |-> Active(i),
    action |-> response[i],
    repeat |-> IsRepeat(i),
    index  |-> StepIndex(i),
    won    |-> answer[i] = "won" ]

BugDecisive(i) == Len(rows[i])

\* The row whose info decides success: the last active one.
Decisive(i) ==
  LET active == {k \in DOMAIN rows[i] : rows[i][k].active}
  IN  CHOOSE k \in active : \A m \in active : m <= k

KeepRow(row) == row.active

Stamp(i, row) ==
  [ traj    |-> i,
    uid     |-> Uid(i),
    index   |-> row.index,
    rewards |-> envEpisodeRewards[i],
    total   |-> episodeRewards[i],
    length  |-> episodeLengths[i] ]

TrajRows(i) ==
  FlattenSeq([k \in DOMAIN rows[i] |->
                IF KeepRow(rows[i][k]) THEN <<Stamp(i, rows[i][k])>> ELSE <<>>])

\* The loop stops at the step budget or when every episode is over.
LoopEnds(steps, done) == steps = MaxSteps \/ \A i \in Envs : done[i]

-----------------------------------------------------------------------------
Init ==
  /\ pc = "idle"
  /\ step = 0
  /\ isDone = [i \in Envs |-> FALSE]
  /\ response = [i \in Envs |-> NoAction]
  /\ answer = [i \in Envs |-> Pending]
  /\ rows = [i \in Envs |-> <<>>]
  /\ episodeRewards = [i \in Envs |-> 0]
  /\ envEpisodeRewards = [i \in Envs |-> 0]
  /\ episodeLengths = [i \in Envs |-> 0]
  /\ prevAction = [i \in Envs |-> NoAction]
  /\ success = [i \in Envs |-> FALSE]
  /\ output = <<>>
  /\ over = [i \in Envs |-> FALSE]
  /\ score = [i \in Envs |-> 0]

\* envs.reset restarts every game; the loop's own arrays start afresh.
Reset ==
  /\ pc = "idle"
  /\ pc' = "generate"
  /\ step' = 0
  /\ isDone' = [i \in Envs |-> FALSE]
  /\ response' = [i \in Envs |-> NoAction]
  /\ rows' = [i \in Envs |-> <<>>]
  /\ episodeRewards' = [i \in Envs |-> 0]
  /\ envEpisodeRewards' = [i \in Envs |-> 0]
  /\ episodeLengths' = [i \in Envs |-> 0]
  /\ prevAction' = [i \in Envs |-> NoAction]
  /\ success' = [i \in Envs |-> FALSE]
  /\ output' = <<>>
  /\ over' = [i \in Envs |-> FALSE]
  /\ score' = [i \in Envs |-> 0]
  /\ UNCHANGED answer

\* generate_sequences answers for the whole batch, finished episodes included.
Generate ==
  /\ pc = "generate"
  /\ \E r \in [Envs -> Actions] : response' = r
  /\ answer' = [i \in Envs |-> Pending]
  /\ pc' = "step"
  /\ UNCHANGED <<step, loopVars, success, output, gameVars>>

\* A worker executes the action it was sent.  A won game is over; what a
\* worker answers once its episode has ended is up to the game engine.
WorkerStep(i) ==
  /\ pc = "step"
  /\ i \in Sent
  /\ answer[i] = Pending
  /\ \E ans \in Outcomes :
       /\ answer' = [answer EXCEPT ![i] = ans]
       /\ over' = [over EXCEPT ![i] = @ \/ ans # "playing"]
       /\ score' = [score EXCEPT
                      ![i] = IF over[i] THEN @ ELSE @ + EnvReward(ans)]
  /\ UNCHANGED <<pc, step, response, loopVars, success, output>>

\* ray.get returned: the rest of the iteration, for the whole batch.
Account ==
  /\ pc = "step"
  /\ \A i \in Envs : answer[i] # Pending
  /\ \E intr \in [Envs -> Intrinsics] :
       LET reward(i) == StepReward(answer[i], intr[i])
       IN  /\ rows' = [i \in Envs |-> Append(rows[i], Row(i))]
           /\ episodeRewards' =
                [i \in Envs |-> episodeRewards[i] + Masked(i, reward(i))]
           /\ envEpisodeRewards' =
                [i \in Envs |-> envEpisodeRewards[i]
                                + Masked(i, EnvOnly(reward(i), intr[i]))]
  /\ episodeLengths' = [i \in Envs |-> episodeLengths[i] + Masked(i, 1)]
  /\ prevAction' =
       [i \in Envs |-> IF Active(i) THEN response[i] ELSE prevAction[i]]
  /\ isDone' = [i \in Envs |-> isDone[i] \/ answer[i] # "playing"]
  /\ step' = step + 1
  /\ pc' = IF LoopEnds(step', isDone') THEN "evaluate" ELSE "generate"
  /\ UNCHANGED <<response, answer, success, output, gameVars>>

\* success_evaluator, then gather_rollout_data: active rows only, each
\* stamped with the totals of its episode.
Gather ==
  /\ pc = "evaluate"
  /\ success' = [i \in Envs |-> rows[i][Decisive(i)].won]
  /\ output' = FlattenSeq([n \in 1 .. BatchSize |-> TrajRows(n - 1)])
  /\ pc' = "idle"
  /\ UNCHANGED <<step, response, answer, loopVars, gameVars>>

Next ==
  \/ Reset
  \/ Generate
  \/ \E i \in Envs : WorkerStep(i)
  \/ Account
  \/ Gather

Spec == Init /\ [][Next]_vars

\* The driver thread runs whenever it can, and every worker answers.  The
\* next rollout (Reset) is the trainer's choice: no fairness.
Fairness ==
  /\ WF_vars(Generate)
  /\ WF_vars(Account)
  /\ WF_vars(Gather)
  /\ \A i \in Envs : WF_vars(WorkerStep(i))

FairSpec == Spec /\ Fairness

-----------------------------------------------------------------------------
(* What the rollout promises.                                              *)

RowType ==
  [active : BOOLEAN, action : Actions, repeat : BOOLEAN, index : Nat,
   won : BOOLEAN]

\* Type invariant of the loop, its arrays and the environments.
TypeOK ==
  /\ pc \in {"idle", "generate", "step", "evaluate"}
  /\ step \in 0 .. MaxSteps
  /\ isDone \in [Envs -> BOOLEAN]
  /\ response \in [Envs -> Actions \cup {NoAction}]
  /\ answer \in [Envs -> Outcomes \cup {Pending}]
  /\ rows \in [Envs -> Seq(RowType)]
  /\ episodeRewards \in [Envs -> Int]
  /\ envEpisodeRewards \in [Envs -> Int]
  /\ episodeLengths \in [Envs -> 0 .. MaxSteps]
  /\ prevAction \in [Envs -> Actions \cup {NoAction}]
  /\ success \in [Envs -> BOOLEAN]
  /\ over \in [Envs -> BOOLEAN]
  /\ score \in [Envs -> Int]

AtBoundary == pc # "step"

\* Although finished games keep being stepped, and keep answering, with
\* every iteration, the loop knows of each game whether it is over and holds
\* for the advantage exactly what the game paid while it ran: intrinsic
\* rewards taken out again, nothing from later steps added (and nothing at
\* all when use_result_reward is off).
RewardsMatchGames ==
  AtBoundary =>
    \A i \in Envs :
      /\ isDone[i] = over[i]
      /\ envEpisodeRewards[i] = IF UseResultReward THEN score[i] ELSE 0

\* Every environment has one row per iteration; the active ones come first,
\* carry the step indices 0, 1, 2, ... and are as many as episode_lengths
\* says; an episode still open has only active rows.
RowsFollowEpisodes ==
  \A i \in Envs :
    /\ Len(rows[i]) = step
    /\ episodeLengths[i] <= step
    /\ ~isDone[i] => episodeLengths[i] = step
    /\ \A k \in DOMAIN rows[i] :
         /\ rows[i][k].active <=> k <= episodeLengths[i]
         /\ rows[i][k].active => rows[i][k].index = k - 1

\* A row is flagged a repeat exactly when the step before it in the same
\* episode produced the same response; the first step and the steps after
\* the end never are.
RepeatsAreConsecutive ==
  \A i \in Envs : \A k \in DOMAIN rows[i] :
    rows[i][k].repeat <=>
      /\ rows[i][k].active
      /\ k > 1
      /\ rows[i][k - 1].action = rows[i][k].action

\* success_evaluator reports an episode won iff the game was won while it
\* ran, whatever the engine answered afterwards.
SuccessIsTheGamesOwn ==
  (pc = "idle" /\ output # <<>>) =>
    \A i \in Envs : success[i] <=> score[i] = WinReward

\* The batch holds each episode's steps once, in time order, trajectory by
\* trajectory, every row stamped with its episode's totals, and a uid is
\* shared by the rows of one prompt group only.
StepsInOrder ==
  (pc = "idle" /\ output # <<>>) =>
    /\ \A i \in Envs :
         /\ \A s \in 0 .. episodeLengths[i] - 1 :
              \E p \in DOMAIN output :
                output[p].traj = i /\ output[p].index = s
         /\ Cardinality({p \in DOMAIN output : output[p].traj = i})
              = episodeLengths[i]
    /\ \A p, q \in DOMAIN output :
         /\ p < q => \/ output[p].traj < output[q].traj
                     \/ /\ output[p].traj = output[q].traj
                        /\ output[p].index < output[q].index
         /\ output[p].traj = output[q].traj =>
              /\ output[p].rewards = output[q].rewards
              /\ output[p].total = output[q].total
              /\ output[p].length = output[q].length
         /\ (output[p].uid = output[q].uid) <=>
              (GroupN > 0 =>
                 output[p].traj \div GroupN = output[q].traj \div GroupN)

\* What the trainer is handed is what each episode did: its steps in order,
\* its repeats flagged and its success judged by the game alone.
BatchIsEpisodes == StepsInOrder /\ RepeatsAreConsecutive /\ SuccessIsTheGamesOwn

\* Until the next reset, a finished episode stays finished and its totals
\* and length no longer move.
FinishedEpisodesAreFrozen ==
  [][\A i \in Envs :
       isDone[i] /\ pc # "idle" =>
         /\ isDone'[i]
         /\ UNCHANGED <<episodeRewards[i], envEpisodeRewards[i],
                        episodeLengths[i], prevAction[i]>>]_vars

\* Every rollout that starts ends with a batch.
RolloutEnds == (pc = "generate") ~> (pc = "idle" /\ output # <<>>)

(***************************************************************************)
(* The environments of the batch, as a set of unrelated episodes: neither  *)
(* the lock-step loop nor the mask may be observable.                      *)
(***************************************************************************)
Abstract ==
  INSTANCE Episodes WITH
    Env <- Envs,
    Budget <- MaxSteps,
    Payments <- IF UseResultReward THEN {0, WinReward} ELSE {0},
    done <- isDone,
    length <- episodeLengths,
    paid <- envEpisodeRewards

\* The batched loop implements independent episodes.
ImplementsEpisodes == Abstract!Spec
=============================================================================
