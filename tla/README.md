# A verification project for Rebel

Rebel trains language-model agents with reinforcement learning in text
environments. The agent writes, with every action, a *belief* about the world;
the environment manager scores the belief against facts it has gathered itself
and adds the score to the reward. The repository is verl-agent (which builds
on verl) with this belief machinery added.

This directory holds TLA+ models of the parts in which Rebel's own logic lives
and of those parts of verl whose concurrency and bookkeeping a training run
depends on, TLC configurations that check them on small instances, and TLAPS
proofs of the most important facts for every instance. Source paths below leave out the
leading `src/`. `env_manager.py`, `rollout_loop.py`, `utils.py` and
`belief_tracker.py` are those under `agent_system/` (the last one in
`environments/env_package/alfworld/`); `ray_trainer.py` is
`verl/trainer/ppo/ray_trainer.py`; `sglang_rollout.py` is
`verl/workers/rollout/sglang_rollout/sglang_rollout.py`.

    tlc -config RolloutLoop.cfg MCRolloutLoop.tla   # one run
    tlapm RolloutProofs.tla                         # one set of proofs

`PROJECT.json` is the index: components, runs, mutants (a plausible bug for each
property, which the run must catch), the map from definitions to source lines,
findings, hazards, theorems.

## 1. Inventory

One training step runs through the parts in this order: the trainer's loop
asks the **rollout loop** for a batch, directly or through **dynamic sampling**;
in each of its iterations the model answers all environments at once. The
driver **dispatches** a batch to the worker ranks; the **hybrid engine** moves the actor's
weights into the inference engine, which shares the GPUs with training,
generates (with **tools**, where the recipe uses them), and moves out again. The
**environment manager** steps a **worker fleet** that plays the games, extracts
beliefs, updates the **ground-truth tracker**, and computes the **belief reward**,
weighted by a **schedule** over the epochs; the finished episodes become
rows of a **training batch**, which is padded, reordered and given
**advantages**; actor and critic are updated in micro-batches; now and then a **checkpoint** is written.

| Component | State it keeps | Operations | Interacts with | What is hard | What makes it correct | Module |
|---|---|---|---|---|---|---|
| Rollout loop, `rollout_loop.py:309-475` | `is_done`, totals, lengths, rows, infos by environment | reset, generate, step the fleet, account, gather | calls workers and manager, hands rows to the trainer | finished environments go on being stepped; only a mask separates their steps from the episode | each environment's rows and totals are those of one episode played alone | `Rollout`, `Episodes` |
| Worker fleet, `environments/env_package/alfworld/envs.py:65-174` | one game per Ray actor | step, reset | rollout loop, by messages | answers in any order, all awaited | answer *i* belongs to environment *i* | `Rollout` |
| Dynamic sampling, `rollout_loop.py:477-547`, `utils.py:134-187` | lists collected so far, tries | repeat the rollout, filter groups, concatenate | rollout loop | seven lists filtered and joined apart; last try keeps everything | a full batch of whole groups; the lists agree | `DynamicRollout` |
| AlfWorld manager, `env_manager.py:143-700` | cumulative beliefs, histories, buffers, last observation | reset, step, merge of a belief, prompt building | fleet, tracker, reward | order of the calls inside `step`; fields of unexpected type; state that outlives an episode | the histories stay aligned; the cumulative belief is what the beliefs of this episode say | `Belief` |
| Ground-truth tracker, `belief_tracker.py:189-302` | visible, visited, object locations and states, inventory | update from an observation | reads the game's text | regular expressions against a dozen sentence forms | facts are those the game has shown | `Tracker` |
| Belief reward, `belief_tracker.py:305-800` | weights | `r_state`, `r_task`, `r_pred`, `r_format` | manager | counts that can be zero or outnumber each other; ids matched by substring | range; a truer belief is not paid less; leaving the belief out does not pay | `StateReward` (`r_state`), `TurnReward` (the rest) |
| Reward schedule, `belief_tracker.py:680-751` | epoch, success rate | warm up, decay, adapt | driven by `fit` | epochs are counted by the process, which restarts | the weight follows the batches | `RewardSchedule`, `Checkpoint` |
| Training batch, `ray_trainer.py:1222-1373`, `utils.py:86-131` | the batch | step returns, padding, balancing, scores, penalty, advantages | rollout rows in, actor update out | duplication and reordering between steps that read row order as time | advantages are those of the episodes, not of the padded batch | `TrainBatch` |
| Checkpointing, `ray_trainer.py:1024-1113`, `verl/utils/checkpoint` | files; previously saved paths by rank | save with rotation, find, load | trainer, worker ranks | crash between and inside writes, ranks at their own pace, paths forgotten at a restart | the tracker file names a whole checkpoint; resuming continues where it stopped | `Checkpoint` |
| Actor, critic, sharding managers, `verl/workers/fsdp_workers.py`, `verl/workers/sharding_manager` | place of weights and optimizer states, engine weights, random states | generate, log-probs, values, updates, save, load | the driver's calls; ranks meet in collectives | one GPU for two users; state saved and restored around a generation; deaths and resumes | current weights, one random stream a group, memory where it is needed | `HybridEngine` |
| Dispatch and micro-batches, `verl/protocol.py`, `verl/single_controller`, `dp_actor.py`, `dp_critic.py` | batches | pad, chunk, gather, split, loop, collect, unpad | everything | uneven sizes; ranks that must run as many passes as the others | nothing lost, order kept, no row counts twice or for more than its share, nobody waits for ever | `Dispatch` |
| Sequence balancing, `verl/utils/seqlen_balancing.py` | none | Karmarkar-Karp, micro-batches by tokens | trainer, workers | equal sizes; a number agreed by all ranks | a balanced partition | `Partitions`, `Dispatch` |
| Tool-calling rollout, `sglang_rollout.py`, `schemas.py` | requests, shared sampling parameters, tool instances | coroutine per request | engine, tools, limiter | coroutines interleave at every await | budgets hold; calls are answered; instances live as long as their request | `ToolRollout` |
| Search tool and limiter, `verl/tools/search_tool.py` | a semaphore, a counter, instances | create, execute, release; acquire, release | tool calls | two kinds of threads of one actor, a counter without a lock; searches that raise | tokens are neither lost nor made | `TokenBucket` |
| Async chat scheduler, `verl/workers/rollout/async_server.py` | load heap, request cache | submit, callback | inference servers | concurrent submissions, eviction, failures | every submission is called back | none: never reached |
| Interaction memory, `agent_system/memory` | a list per environment | reset, store, fetch | managers | window edges | last *n* records | none |
| WebShop manager, `env_manager.py:870-1490`, `environments/env_package/webshop/belief_tracker.py` | cumulative belief, tracker, infos of the turn before | reset, step, merge, track, judge | WebShop engine | three pages meet in a step: the one acted on, the one that answers, the one of the next episode | each part of a turn is judged by the page it is about | `WebshopManager`, `Managers` |
| WebShop engine, `environments/env_package/webshop/webshop/web_agent_site` | a session: goal, product, options, page | search, click, reset | WebShop manager | session state that outlives a page; a reset inside the last step | what is bought is what the agent chose | `Shop` |
| Search, Sokoban, gym cards, AppWorld | little | step, reset | their engines | | | none |
| Other estimators, losses, Megatron, graders, scripts | tensors | numerical | | | not a matter for TLC | none |

Section 8 says what is left out and why.

### Documentation

The repository's documentation is its README (installation and recipes),
`agent_system/environments/README.md` and `agent_system/memory/README.md`.
There are no tests. The claims that the models are compared with therefore come
from docstrings, comments, the YAML of the configuration, and the prompt that
tells the model how its beliefs are used.

## 2. Modules

| Module | Lines up with | Role |
|---|---|---|
| `Rollout` | `vanilla_multi_turn_loop`, `gather_rollout_data`, `AlfworldEnvs.step`, the success evaluator | the rollout loop and its workers |
| `Episodes` | nothing: it is the abstract specification | a set of unrelated episodes |
| `DynamicRollout` | `dynamic_multi_turn_loop`, `filter_group_data` | tries, filter, concatenation |
| `RolloutLoop` | `multi_turn_loop` | `Rollout` or `DynamicRollout`, by the configuration |
| `Tracker` | `GroundTruthTracker.update_from_observation`, `extract_phase_gt_alfworld`; texts of `oracle.py` | the tracker against a small household |
| `StateReward` | `calculate_state_reward` | `r_state` of one belief, revised entry by entry |
| `TurnReward` | `compute_r_pred`, `calculate_task_reward`, `calculate_format_reward`, `calculate_total_intrinsic_reward`, the validity tests of `alfworld_projection_rebel` | the whole intrinsic reward of a turn; extends `StateReward` |
| `BeliefTracker` | `belief_tracker.py` | its two classes: `Tracker` or `TurnReward` |
| `Belief` | `reset`, `step`, `_update_cumulative_belief`, `build_text_obs` of the AlfWorld manager | what is carried from turn to turn |
| `Shop` | `SimServer`, `SimBrowser`, `WebAgentTextEnv.step`, `WebshopWorker.step` | the pages of one session |
| `WebshopManager` | `reset`, `step`, `_update_cumulative_belief` of the WebShop manager, `WebShopGroundTruthTracker`, parts of its rewards and projection | one environment on top of `Shop` |
| `Managers` | `make_envs` | `Belief` or `WebshopManager`, by the configured name |
| `TrainBatch` | `fit` from the rollout to `compute_advantage` | rows, padding, balancing, advantages |
| `RewardSchedule` | `get_belief_reward_weight` | the weight of an epoch |
| `Checkpoint` | `_save_checkpoint`, `_load_checkpoint`, the FSDP manager, the loop over epochs | files, ranks, crashes, launches; extends `RewardSchedule` |
| `Partitions` | `get_seqlen_balanced_partitions`, `karmarkar_karp` | rows of given lengths cut into parts of about the same number of tokens |
| `Dispatch` | `dispatch_dp_compute_data_proto`, padding, `rearrange_micro_batches`, the loops of actor and critic | one call of a worker group; extends `Partitions` |
| `Fit` | `fit`, from the rollout to the update | its two levels: `TrainBatch` or one call of `Dispatch` |
| `HybridEngine` | `ActorRolloutRefWorker`, `CriticWorker`, the vLLM and SGLang sharding managers, the calls of `fit` | weights, memory, random states |
| `TokenBucket` | `TokenBucketWorker`, `SearchExecutionWorker` | the limiter, and what a caller may do with it |
| `ToolRollout` | `AsyncRolloutRequest`, `_async_rollout_a_request`, `SearchTool` | requests of a batch; extends `TokenBucket`, implements its `BucketSpec` |
| `Ordering` | | `Ordered(S)`: the numbers of a set, lowest first; rows, indices and tokens that a loop keeps "in order". `Arranged(S, R)`: the members in another order, as `sorted` leaves them |
| `RolloutProofs`, `TrainBatchProofs`, `CheckpointProofs` | | proofs about the module of that name (`CheckpointProofs`: with the schedule) |
| `WorkerProofs` | | proofs about `HybridEngine` and about `Partitions`/`Dispatch` |
| `ManagersProofs` | | proofs about `Belief`, `Shop` and `WebshopManager` |
| `BeliefProofs` | | proofs about `Tracker` and about `StateReward`/`TurnReward` |
| `GenerationProofs` | | proofs about `TokenBucket`/`ToolRollout` and about `DynamicRollout` |
| `ProofLemmas` | | what the proofs share: induction over time, over counters and over sets, sums, sequences laid end to end, sets of numbers in order |
| `MC*` | | constants for TLC |

`RolloutLoop`, `BeliefTracker`, `Fit` and `Managers` put parts side by side that one process has but
that do not touch each other's state: a behaviour chooses one part and leaves the variables of the other
alone. The parts keep specifications of their own, about which the theorems are.

Definitions named `Bug...` are mutated forms of the definition that follows
them; no specification uses them.

### Rollout

`isDone`, `rows`, `episodeRewards`, `envEpisodeRewards`, `episodeLengths` and
`prevAction` are the arrays of the loop, `over` and `score` what the games
themselves know. An iteration is three actions: `Generate` (the model's
responses, sent to every worker), `WorkerStep(i)` for each worker in any order,
and `Account`, the whole of the loop's body after `envs.step` returns. `Reset`
starts a rollout; `Gather` evaluates success and flattens the rows. A worker
whose game is over goes on answering anything, also "won" again: that is what the
engine does, and the mask has to deal with it.

`Episodes` says what the loop promises: each environment plays on its own until
it is done or its budget is used, and its payment is booked once. `Rollout`
implements it (`Abstract == INSTANCE Episodes WITH done <- isDone, length <-
episodeLengths, paid <- envEpisodeRewards`): neither lock step nor the steps after the end
may be observable.

### DynamicRollout

One try is one step, `Sample`: the inside of a try is `Rollout`'s. `Filter` drops the
groups in which all episodes earned the same and appends what is left to the
lists; `Finish` concatenates. The lists are filtered by index, each on its
own, which is what the properties are about. The dict of rates is concatenated by the keys of the
first try, and a key that a later try lacks raises (`stage = "failed"`). Of the seven lists of a try
`lists` has the rows and both rewards, `rates` is the dict; lengths, trajectory uids and tool counts are handled line by line like
the rewards and are left out.

### Tracker

The tracker only sees text, so the model has a game that writes the
sentences of `oracle.py`, reduced to what the regular expressions can tell
apart. Several expressions capture more than a name ("the fridge 1", "the apple 1
using the microwave 1"); such a capture is a different key and the model keeps
it. `shown` and `moved` are history variables for the properties.

The phase is read off the text of the admissible commands. `AdmissibleCommands` is the set of them, each
a verb with the names it is about; `InText(w, ...)` is the search for a word, which a verb can be and a
name can contain (`Spells`, and `Ends` where a blank follows, as the search of `r_task` asks for): "breadsliced 1"
contains "slice". Of the ids in `constants.py` only those of sliced objects contain such a word; a game with a "computer"
would be in the phase place all the time.

### StateReward

The function is pure. The specification fixes a ground truth and revises the
belief one entry at a time, so that action properties can say what a revision
may do to the reward. Scores are exact fractions over a common denominator.
Each behaviour revises one `topic` (objects, states, or places), since the four
scores are added. The ids of objects and of states are matched as the code does, by substring in
either direction (`Includes` names the pairs) and up to the first match, so the facts are sequences
in the order of their dict.

### TurnReward

The circumstances of a turn (`turn`: the answer's words, the phase the game is in, whether the game was won, the weight
of the epoch) are fixed, and what the model writes (`output`) is revised: a word is appended to the prediction, or
another phase named. Two tests read the same output and accept different texts, the projection's for the format
and `parse_belief` for the belief; `acceptedBy` is the set of those that accept it, all four sets can occur. `Features` keeps the
list of the code as pairs of a position and what counts there. `Kept` stands for `compute_component_weights`, and
`GamePhases` for what the phase function, which is in `Tracker`, can return.

### Belief

One environment, for `step` handles the entries of each environment alone. The
observation of turn *t* is the number *t*; a dict is a function, a list a set,
and a field of another JSON type is `NotAList`. `Step` is one action because
the code's `step` is: it calls `save_to_history_buffer`, then `build_text_obs`, then
`_update_cumulative_belief`. `Reset` may come at any time.

### Shop, WebshopManager and Managers

`site` is the entry of `user_sessions` together with the page the browser shows: a page is
rendered from its session, so the two say all that can be read on it. `Clicked` is
`SimServer.receive`, `Available` is `get_available_actions`, `Served` the tests of
`WebAgentTextEnv.step` around them. `NextSites` is the reset to another goal that the
same step makes when the session is done.

The text of an action is read by two expressions that differ: the projection's is anchored at both ends and strips
the argument of a click, the engine's is not anchored at the end and does not strip. `Forms` are the ways a text can
fare: read alike, read as something else by the shop alone ("click[ buy now ]": counts as available and does nothing),
read as no action by the projection alone ("click[buy now] please": works and does not count).

`ShopStep(a, b)` is the manager's `step` for the answer with action `a` and belief `b`: availability
from `_last_infos`, the worker's step, the tracker's update, the judgement of the belief, its merge, and
the infos replaced. `turn` holds what the step has put into the infos. `over`, `chosen` and `result` are
history: what the agent itself would say it has chosen, and what the first `done` reported.
A belief is what `parse_belief` may return: a dict of confirmed attributes, a list of unconfirmed ones, a phase, or
fields of another type.

The two managers never run in one process (`make_envs` picks one), which `Managers` says with `envName`.

### TrainBatch

A row names its trajectory and step; the columns of the rollout are functions of
both, those computed later are fields. The actions are the calls of `fit`:
`Gather`, `StepReturns` (GiGPO only), `AdjustBatch`, `Balance`, `Score`,
`Advantage`, for the estimators GiGPO, ReBel, GRPO, RLOO and Pass@k.
`AdjustBatch` chooses any distinct rows in any order
(`np.random.choice(..., replace=False)`), and fails when there are too few.
`Balance` deals the rows out to the ranks in any equal shares, each share in
order; the partition by lengths is in `Dispatch`.
Means are fractions. GiGPO and ReBel are in mode `mean_norm`, the default; the division by a
standard deviation that GRPO and Pass@k also offer changes no sign and no zero, so the
properties do not depend on it.

### RewardSchedule and Checkpoint

`RewardSchedule` is the function `Weight(epoch, rate)`: warm-up, then the smaller of a
curve over the epochs and, in adaptive mode, a factor of the success rate, never
below the minimum. `Curve` and `Factor` stand for any falling function (linear, cosine and
exponential decay are such).

In `Checkpoint` the disk survives a crash: `shard`, `data`, `folder`, `tracker`. Everything
else is the process. A file is torn between its opening and its writing. Each
rank rotates, waits at a barrier, opens, writes and returns at its own pace. A
file's content is told by the launch that wrote it, because two launches that
reach the same step have different weights. `epoch` is the loop counter that
`fit` hands to the environments for the weight. `astray` records that an operator
started a launch elsewhere than the tracker says (`disable`, or `resume_path`
to another folder): after that, folders of different launches can overwrite
each other and the guarantees are off.

### Dispatch

One call of one kind: `generate` (padded to a multiple of the world, chunked,
unpadded), `log_prob` and `update` (balanced by length first). A row is its number,
and its length the number of tokens; it also has a number of tokens that the loss counts (`response_mask`). Each rank gathers its group's shards where
groups exist, splits its rows by count or by tokens, and runs one pass for each
micro-batch. With FSDP a pass is a collective: `Forward` takes place only when
every rank of the world has a micro-batch left, so a rank with more passes than another
would wait for ever. Karmarkar-Karp (`Partitions`) is translated as it is, heap order and
ties included; the heap is a set, because no two of its states share a row. What a row counts for in the update
(`Weights`) is its micro-batch's share of the mini-batch times its part of the micro-batch's loss. That part depends on
`loss_agg_mode`: with a mean over rows it is one of so many rows, with the default, token-mean, its tokens of those of
the micro-batch (`call.mean`).

### HybridEngine

`fit` issues calls (`Issue`, `Return`, the order of `Follows`), every rank works
through a call by itself (`at[r]`), the ranks of a group meet in `Sample`, all ranks in
`LoadWeights`, `Evaluate`, `Update`, `Restore`. `place[r]` tells where a
model or an optimizer state is, `engine[r]` which part of the engine is awake and
with which weights. A configuration says whether the engine's `wake_up` takes `tags` (weights and cache apart) and
whether its weights are made up until the first transfer (`dummy`). Weights are counts of updates; a random state is a seed and
the number of draws made from it. `drawn` and `sampled` are history. A death of the job (`Restart`)
loses everything but `disk`.

### TokenBucket and ToolRollout

`TokenBucket` is the limiter with its callers at their most general: calls are
submitted and taken by `BucketNext`'s last disjunct, `acquire` waits in the
order of the calls on the actor's one thread, `release` is sent without waiting and
runs on threads of its own; semaphore and counter move apart, and the counter,
which no lock protects, is read in one step and written in another, so that an update can be lost. It serves as
the abstract caller for `ToolRollout`.

`ToolRollout` has one coroutine per request: `CreateTools`, `FirstTurn`,
`EngineAnswer`, `CallTools`, `ToolAnswers`, `Finalize`, each from one
`await` to the next. `params` is `self.sampling_params`, which all coroutines share
and each saves and restores around its own await. A request's text is a sequence of token kinds, which
is what the budgets and the chat template distinguish. The prompt for the engine is rendered and encoded from all
messages again, and a message of the model is encoded again when it is added: both lengths may differ from those of the
tokens kept (`Renderings`, `Recodings`). A request is cut at the end to its own `max_model_len`, the smaller of the
engine's and a prompt and a response; the model's messages can be cut.

## 3. Runs

| Run | Instance | What it shows |
|---|---|---|
| `rollout_loop` | 2 environments, 3 iterations, 2 responses; filtered: 2 groups of 2, 3 tries, 2 tasks, 2 intrinsic rewards | totals and rows are those of the games; repeats are flagged for consecutive responses; the batch is the episodes in order; `Episodes` is implemented; the rollout ends. Filtered: the batch is full (and less than twice full), and no further try is made once it is; every position of every list is of the episode it belongs to; groups are whole; a uniform group comes from the last try |
| `belief_tracker` | 2 objects (one spelled with a phase word), a counter, a microwave with a door that is also a station; 3 ids (two overlap), 3 receptacles, all ground truths with at most 2 located or treated objects; 2 observations, predictions of 3 words, 3 weights | `visited` is what the game has shown; facts only go stale by the agent's own later act; a listing brings every object up to date; the phase knows stations and names only. Every term of the reward stays in range and a readable belief never costs, at any weight and format; guesses about unseen places are free, corrections of ids that overlap no other and honesty about places pay; a word the observation shows next to the last never lowers `r_pred`, a noise word elsewhere never raises it |
| `managers` | AlfWorld: 1 object, 2 receptacles, 2 phases, 2 turns, malformed fields. WebShop: 2 products on 2 pages of results, 2 goals, 2 beliefs | the cumulative belief is a declarative reading of the beliefs, histories stay aligned, the prompt shows the observation of this turn and the belief of one turn earlier; each part of a WebShop turn is judged by its page, and availability and effect of an action differ only for named reasons; the purchase is what was chosen, listed attributes stay open until confirmed |
| `fit` | columns: 2 trajectories of one or two prompts, 1-3 steps, padded to 6, 2 ranks, 5 estimators. Calls: 1, 2 or 4 ranks with and without groups, up to 12 rows of 3 lengths, micro-batches of 2 rows, mini-batches of 4 | every step trains once or twice; returns follow time (GiGPO always); task advantages cancel, by trajectory (ReBel) or by row; lone steps are neutral. Answers in the caller's order; every row once; with a mean over rows rows weigh the same, with token-mean micro-batches weigh as they have rows; micro-batches and ranks balance; the call returns |
| `checkpoint` | 2 ranks, 7 steps, 3 epochs of 3, saves at 2, 4, 6 and 7, keep 2 and 3, 3 launches in any mode | the tracker names a whole checkpoint at every moment, loading fails only on a torn tracker, batches continue in order, a finished run is saved, the belief-reward weight comes late and never early, rotation keeps its limit, a launch ends |
| `hybrid_engine` | 4 ranks in 2 groups, 2 steps, 2 turns, 1 death, 5 configurations | generation uses the current weights, but for the adapter in the first generation of a LoRA job with the default load format; one random stream a group; training's stream has no gap; memory is where each call needs it; the job ends |
| `tool_rollout` | 2 requests with 2 searches each, 1 token, 2 threads, context of 9 | tokens are conserved; instances follow their requests; the model goes on when all calls have answered; engine calls fit the context and failures have a cause; the batch ends; `BucketSpec` is implemented |
| `train_scores` | padded to 2 | **violation**: `R_g` is not the environment's reward |
| `train_returns` | padded to 2 | **violation**: ReBel's belief return does not follow time |
| `train_passk` | padded to 2 | **violation**: the best response of a group gets no advantage |
| `phases` | the kitchen of `belief_tracker` | **violation**: with something in reach or in the hand the phase is find |
| `lora_resume` | as `hybrid_engine`, LoRA with the default load format | **violation**: after a resume the first generation has no adapter |

A property with several parts (`BatchIsEpisodes`, `TruthPays`, `TriesFillTheBatch`, `EpisodeIsReplayed`,
`TurnsAreJudgedByTheirPages`, `PurchaseIsWhatWasChosen`, `ScheduleSurvives`, `TaskAdvantagesCancel`, ...) is the conjunction of named definitions
just above it. Type invariants: `TypeOK` is proved for `Rollout`, `Checkpoint` and
`HybridEngine`, `BucketTypeOK` is part of the limiter's proof.

### Why the bounds are enough

*Rollout.* Interference in the loop is between an environment that is done and
one that is not: two environments give every order of ending, and three
iterations give a step before, at and after the end. The uids are of one
prompt group. `use_result_reward` is on; the proofs cover both values, any batch
size and any number of steps.

*RolloutLoop, BeliefTracker, Fit.* What the parts of such a run do is independent, so the run covers the
behaviours of each; the bounds are theirs.

*DynamicRollout.* A try can keep none, one or both groups; three tries give a filtered
try, another, and the last. Two tasks let a try lack a rate.

*Tracker.* A sentence names at most one station and one receptacle. With a
receptacle of each kind, one of them a station, and two objects, every sentence
meets every state of a door and of a hand; the search has no depth bound. One of the objects is spelled with a phase
word (`Spells`), so the phase is met in both ways; no name of AlfWorld ends in one (`Ends` is empty).

*StateReward.* The substring match needs a pair of overlapping ids and one that is
apart, in the locations and in the states; contradictions can outnumber the confirmed facts from two located objects on.
`MaxKnown = 2` bounds the ground truth only, in every order of its entries. Three places are below the threshold at
which `HonestyPays` stops holding (see section 6).

*TurnReward.* Three words give every mixture of noise words and others, and up to five features; `Scale` is a multiple of each
number of them, so the scores are exact. The observations show two tokens side by side, two with a number between, and a noise word beside
a token and apart from it. Of the weights one is 0, one so small that the components differ.

*Belief.* The merge depends on the last belief and on the accumulated one: two turns
give every pair, and `Reset` starts over. With two turns the window of two
is full and the belief one turn earlier is told apart from that of
the reset. The window sliding past a third turn is not exercised by the run; the proof
covers any number of turns.

*WebShop.* With one product on a page (`PageSize = 1`) two products need "next >" and "< prev", and `MaxPage`
is the last page that has one. One product has options of a watched name and of another, one shares an option
with it: an option that outlived its product would be bought. One description prints "color: blue", against
the goal's red, one says "thank you". The goals are one with both options and one without. The beliefs
confirm what is open, list an attribute twice, list a confirmed one, and have a malformed
field of each kind. `Sloppy` names the arguments that are also written in the forms that projection and shop read
differently, one of each kind of action. Nothing bounds the length of an episode: the run covers every sequence of actions.

*TrainBatch.* The six ways an episode can go are chosen to have a penalty on the last
step, on another, on none; r_cons of both signs; states that
recur in the episode, across episodes, or not. A padded batch of six has up to three copies,
and one of two rows cannot be padded. `Gamma` is 2, an integer; no definition depends
on its being below 1.

*Checkpoint.* Rotation first removes at the third save; three launches give a
crash, a crash in the resumed run, and a further resume. The steps straddle
two ends of an epoch with saves that are at neither; with a warm-up of one epoch and a decay
over two, a resumed launch can be in the warm-up, at its full weight, and decayed. The branch of
`fit` in which no epoch is left while steps are is not reached (`EnoughEpochs`).

*Dispatch.* Up to twelve rows on up to four ranks: sizes that need padding and that do not, a
last mini-batch that is smaller than the others, micro-batches of two rows by count and of one to several by tokens,
ranks alone, in one group and in two. Three lengths, one of them as long as a micro-batch may be, give ties and
every comparison of the heap.

*HybridEngine.* A second step shows what the first leaves behind, a second turn what
a generation leaves to the next, one death a resume at either step. The configurations
are vLLM with and without parameter offload, with and without tags, with LoRA by the default load format and by
another, and SGLang.

*ToolRollout.* One token and two requests make one search wait for another;
two searches in a message share a request. A context of 9 is filled exactly, overshot, and left with one
position by the lengths of answers allowed; a request of its own may keep only 6, so messages are cut. A conversation is
rendered as long as its tokens or one longer, a text encoded again likewise; the theorems allow any difference.

### Fairness

`Rollout`: weak fairness of the driver's own actions and of every worker's
answer. The driver is a single thread that does nothing else, and it waits for
the workers with `ray.get`, which returns when all have answered; a worker's step
is a finite computation. There is none for `Reset`, which is the trainer's
choice, so `RolloutEnds` is about a rollout that has begun.

`Checkpoint`: weak fairness of the driver and of every rank, none for `Crash`
and `Launch`. A process that is not killed runs on; nobody promises to launch.
`LaunchEnds` therefore also allows "down".

`Dispatch`: weak fairness of every rank, of the driver's `Collect`, and of the
collectives, which take place once all ranks have come. No fairness makes up for
a rank that never comes, which is what `CallReturns` would find.

`HybridEngine`: weak fairness of `Work` as a whole. Every step of it but the ones a
death repeats brings the job nearer its end, so no finer fairness is needed; deaths are bounded by `MaxCrashes`, none is
promised.

`ToolRollout`: weak fairness of every coroutine (the event loop runs what is
ready; the engine answers), of every search (`call_search_api` returns at the
latest after its last retry's timeout, with a text for the error), and of the actor's threads. None for
`BeginBatch`. `acquire` needs only weak fairness, because it is served in the order of the calls on one thread.

The other modules state no liveness: they are functions or handlers that run to
their end.

`BeliefTracker`, `RolloutLoop` and `Managers` check for deadlock as they stand (`HandOn` is the end of dynamic
sampling); `Checkpoint` has `Rest` for the end of the last launch. `Fit`, `HybridEngine` and `ToolRollout` end, as one
batch, one call or one job does, and their configurations say so.

## 4. Proofs

TLAPS checks eight modules for every value of the constants that the modules'
ASSUMEs allow.

**Rollout** (`RolloutProofs`). `TypeCorrect`, `RowsCorrect`, `RewardsCorrect`: the invariants hold in
every reachable state; `FinishedStayFrozen`: no step moves the totals of a finished
episode; `RolloutImplementsEpisodes`: the refinement of `Episodes`.
`RewardsMatchGames` is not inductive. It speaks of the boundary between iterations, and
during an iteration workers have answered that the loop has not yet accounted for.
The invariant adds `Books` (at every moment the loop's books plus the answers not yet
booked are what the games hold; the workers of finished environments have
nothing to book) and `Progress` (which phase the loop is in and how the
step counter relates to `isDone`); with `RowsFollowEpisodes`, which makes the active rows a
prefix, it is preserved by each of the five actions. The refinement follows with
the same invariant: `Account` is a step of every environment that was active, all
other actions stutter.

`BatchCorrect` (`BatchIsEpisodes`, for every number of environments, steps and rows) rests on
`BInv`, which adds `Previous` (the action text an episode remembers is that of its last active
row) and `Paid` (its score is what its last row says plus the answer not yet booked).
That the batch is a flattening of the rows of one episode after the other needs induction over
sequences. The library's induction theorems take an operator, but the well-foundedness of `<` on Nat
does not: `Induct` states induction over a *set* of numbers, and `FlattenParts` is
proved with it (`ProofLemmas`). The theorem uses `WinReward # 0`: if winning earned nothing, the success the
batch records could not be told from the score.

**Tracker** (`BeliefProofs`). For every set of objects, receptacles and stations:
`VisitedIsShown`, `FactsAreRight` (an action property), `PhaseIsCoarse` (for any spelling of the names). The
invariant is `Room` (the game's own state is of a room), `Seen` (the tracker's tables hold
names of the room, and visited is what was shown), `HereIsSeen` (where the agent
stands has been seen if it could be), and `FactsHoldUntilDisturbed`. The lemmas about one observation
(`VisitsAdd`, `LocationsUpdate`, `StatesUpdate`) reduce the seven actions to what
each sentence says.

**Checkpoint** (`CheckpointProofs`). `TypeCorrect` needs no proviso. `TrackerIsSafe` and
`ResumeIsSafe` are proved under

    KeepsOlder == \A p \in Parts : Keep[p] # 1

With `max_ckpt_to_keep = 1` they are false: rotation deletes the only
checkpoint, the one that the tracker names, before the next is written, and TLC finds the
crash in between. The inductive invariant adds to the two
properties: `Ahead` (the step being trained or saved is beyond the tracked one, so
nothing written now touches it), `Remembered` (the tracked step is the last in each rank's
`previous_saved_paths` or in none, so rotation, which takes from the
front and leaves at least one, spares it), `Progress` (which files of the current step are
complete in which phase of the save, rank by rank) and `Bounded`. TLC
confirmed the invariant on the instance of the run before it was proved.
`LimitIsKept` needs no proviso and an invariant of its own, `LimitInv`: what any rank of a group has
written in this launch every rank of it remembers (`OwnRemembered`), which holds across the
ranks only because nobody writes before all have rotated (`Barriers`); and a rank remembers
few enough, one fewer once it has rotated (`FewRemembered`). The count follows from the
cardinality of the image of one rank's list.

**The schedule** (second half of `CheckpointProofs`).
`ScheduleIsKept`: under `KeepsOlder` and

    EnoughEpochs == TotalSteps <= TotalEpochs * EpochLen

step *k* trains on batch *k*, a run that ends has saved its last step, and the
epoch that sets the weight is never ahead of the batches. Without `EnoughEpochs` the
loop over epochs can run out after a step that is not saved. The invariant adds
`SavedInPlace` and `RunsInPlace` (for some *k*, the step is *k* whole epochs and the
dataloader's position), `PastTheEnd`, `DataInPlace` and `FirstLaunch`. That a smaller epoch
means no smaller weight is `WeightNeverRises`, proved of every falling curve together with
`WeightKeepsRange`.

**Managers** (`ManagersProofs`). `BeliefIsReplay` (about `EnvsSpec`, as all three) holds for any number of turns
and resets, and whatever the model writes. The properties are nearly inductive: the invariant adds
`Carried` (`pre_text_obs` is what will be saved next, the cumulative belief what was
saved last) and `Records`, the types. `CumulativeIsReplay` reads the history by
turn numbers and says "the last turn that" as a set, `Latest(S)`, with at most one member:
a turn adds one number beyond all others, so no step of the proof needs
induction over the history.

`TurnsAreJudged` and `PurchaseIsChosen` hold for every catalogue, search engine, page size and set of
goals. Neither is inductive, and they need each other's facts: `ShopInv` adds `Sound` (a page of results has keywords and
a number, a product page a product that its page of results lists), `Agrees` (session and history hold the same choice),
that `lastInfos` is what the page offers now, and `Settled` (once over, the result is that of the task; before that the
shop's goal is the task). `ServedFollows` carries `Sound` and `Agrees` over an action, one case for each kind of click
(`ClickCases`); `ActionIsJudged` and `BeliefIsJudged` are the two halves of the first theorem. The assumption needed is
that a product, an option value and a button are told apart by their text (`ShopAssumption`), on which `receive` relies. The texts may be
written in any of the `Forms`.

**Limiter and tools** (`GenerationProofs`). `BucketBalances`: free tokens,
tokens held and tokens on their way back always make `RateLimit` (`TokensAreConserved`), whatever
lost updates make of `current_count`; `BucketLimits` follows.
`RolloutUsesBucket`: every step of the coroutines is a step the abstract
caller allows, so `RolloutBalances` is the first theorem carried over.
The invariant is `Expected` (a search that is not idle is one of those its request waits
for) and `HaveInstance` (instances by request state), from which `RolloutKeepsInstances` follows.
`RolloutWaitsForAnswers` and `RolloutKeepsBudgets` (`CallsAreAnswered`, `BudgetsHold`) rest on `TokenInv`, request by
request: what is still a prompt (`IsPrompt`), that the engine was asked for what fits (`HasRoom`, for any difference that
rendering and encoding again make),
that the ends of answers in the context and the calls still open make the calls asked for (`AnswersToCome`). How many
answers `WithAnswers` appends is `AnswersFacts`, an induction over the answers (`Iterated`). Needed is
`PromptLen + ResponseLength <= MaxModelLen`, which `_verify_config` asserts (`sglang_rollout.py:224`).

**HybridEngine** (`WorkerProofs`). `TypeCorrect`, `OneStreamPerGroup`, `TrainingStreamIsWhole`, `MemoryCorrect`,
`GenerationIsCurrent`. The invariants are one for each matter and share `Positions` (where a rank
can be depends on the call under way): `Streams` says which random state is on the device and
which is put away, and their counts; `Memory` where everything is at each point of a
call; `WeightsInv` that a LoRA run never moves the base and a full run never the adapter. The last theorem has no
premise on the configuration: what is missing in the first generation of a job that sends base and adapter in two
transfers (`SentInTwo`) is part of the property, and of the finding `lora_resume`.

**Training batch** (`TrainBatchProofs`). `StepsTrain`, `ReturnsAreInTime`, `AdvantagesAreRelative`, `LoneStepsGetNothing`, for any
number of tasks, episodes, steps and ranks. None of the four is inductive alone: they speak of what the last step computes from a batch
that four earlier steps have laid out, copied, padded and dealt. The invariant is `Shape` (the ranges of
each phase), `Laid` (the gathered rows are those of the steps, each once, an episode's in the order of time), `Kept` (after
`Adjust` every step is still in the batch)
and `Scored` (the returns GiGPO has computed are those of each row's own step, less the row's penalty once that is taken off). Rows are laid end to end by
`FlattenParts`; that `Balance` loses nothing is that the deal is a permutation of the positions; that the advantages of a task cancel is an induction over
the set of its episodes (`SetInduct`).

**Dynamic sampling** (second half of `GenerationProofs`). `TriesFill` and `EpisodesStay`, for any number of tries,
prompts and group sizes. `DynamicInv` is `Sampled` (what one try returns), `Listed` (what stands at a place of one list
belongs to the episode at that place of the others), `Grouped` (the kept episodes are whole groups, and no uid is of a later try)
and `Filled` (there is no next try once the batch is full, and no end before). A try adds whole groups because the
chosen set is closed under `Mates`, and what is consecutive in a try stays so in the order of the chosen set.

**Belief reward** (second half of `BeliefProofs`). `BeliefsPay` (`BeliefsAreWorthWriting`): whatever the tracker knows and the model
writes, and at any weights, each term is between 0 and 1, so a belief that can be read never earns less than one that cannot. `BeliefTyped` keeps the tables finite, which is what makes
the counts of the score numbers; `FractionIs` and `ScoreIs` bound each part, and the weighted sum is arithmetic. Needed: objects and
places are finite in number (`NamesAssumption`).

**Dispatch** (second half of `WorkerProofs`). `AnswersStayInOrder`, `LoadsStayBalanced`, `RowsAlwaysCountAlike`, for every
number of ranks, size of the groups, batch, lengths, and size of mini- and micro-batches. They rest on two things.

The first is what Karmarkar and Karp's method promises (`BalancedIs`), for any lengths and number of parts: every row is in one
place, the sums of two parts differ by no more than the longest row (with parts of equal size: by no more than the longest
and the shortest row differ), and the parts are of equal size or none has two rows while another is empty. An invariant of the heap
(`Heap`) carries it: in each state the parts fall in weight (`Falling`), their sums are those of their rows (`Summed`), differ by no more
than the bound (`Even`), and no row is in two places, within a state or across two. `MetLoads` is the
step: heaviest part onto lightest, a difference of two bounded differences of opposite sign is no larger than the larger of them. The loop
is a recursive function on the numbers up to the size of the first heap; `HeapsExist` and `HeapsShrink` follow it by `Induct`.

The second is `DispatchInd`, an invariant of a call. `Job` is what the driver has dealt out, `Dealt` what holds of it, and `Takes` says
of a rank, in terms of the job alone, what it has gathered and computed: by rows, that positions are taken in order (`TakesRows`);
by tokens, that the positions of earlier mini-batches and of the micro-batches done, and no others, have been taken, each once
(`TakesTokens`, `Covers`). Across ranks it needs `Level`: they have planned equally many mini-batches, so that
the number of micro-batches they agree on is no more than any has rows (`AgreedIs`) and no part is empty. Mini-batches of the model
are of equal size but for the last, `Edge`. What rows and micro-batches weigh (`RowsWeighTheSame`, `PassesWeighTheirRows`) is
arithmetic on the sizes by count, and the sum of the parts of a micro-batch by tokens. TLC confirmed the invariant on the instance of the run and on one with two rows to a
micro-batch. What the driver collects is then the order it sent, by slices laid end to end (`SlicesJoin`, `JoinedIs`). The assumption
on the constants is that of `Dispatch`: groups divide the world, micro-batches the mini-batch, and no row is longer than
`max_token_len` (`rearrange_micro_batches` asserts it).

**Only model-checked.** Liveness (`RolloutEnds`, `LaunchEnds`, `CallReturns`, `BatchEnds`,
`RunEnds`) is beyond TLAPS. `BeliefsAreSettled` folds over a list of any length. `CorrectionsPay` and the other
properties of `TurnReward` compare two scores of F1: for six or more visited places the first of them is false (section 6), and the
instance is below that.

## 5. Findings

1. `train_scores`: `compute_rebel_advantage` subtracts the belief rewards from a
   score said to contain them. The rollout passes the environment's reward alone.
   Of two lost games the one with the better beliefs gets the lower
   task advantage.
2. `train_returns`: `compute_discounted_returns` runs on the padded and balanced
   batch and takes its order for time. GiGPO computes its returns before.
3. `train_passk`: the docstring of Pass@k says that the best response of a group gets `r_max - r_second_max`
   (`core_algos.py:188`). Its rows are the steps of all episodes, so the second best of a best episode with two rows, or with
   a copy, is that episode again, and the whole prompt is left without advantage.
4. `phases`: `extract_phase_gt_alfworld` (`env_manager.py:59-75`) promises four phases and looks for "put" and "pick
   up"; the game offers "move ... to ..." and "take ... from ..." (`misc.py:156-157`). Away from stations its
   result is "find", whatever is in reach or in the hand. Nor does the second function of
   this name, `belief_tracker.py:20-39`, by which r_task judges the belief's phase, return "place" or "pickup".
5. `lora_resume`: with LoRA and `load_format: dummy_dtensor`, the default (`ppo_trainer.yaml:119`), the flag
   `base_sync_done` starts false in every job. The first transfer then sends the base weights alone
   (`fsdp_vllm.py:139-140` leaves out the adapter's), the adapter follows with the second. After a resume the first generation
   is that of the base model, while updates are computed for the adapted one.

Two disagreements that passing runs state as the code has them:

- `step` builds the text of the next prompt before it merges the belief just
  written (`env_manager.py:283`, `349`); the prompt says that earlier observations "have been
  compressed into the previous belief state" (`PromptIsOneTurnBehind`).
- The tracker file is truncated and then written (`ray_trainer.py:1059-1062`). After a crash in between
  `int("")` (`checkpoint_manager.py:155`) raises in every later launch of mode auto, which is documented to
  start from scratch if it finds nothing (`FailsOnlyOnTornTracker`).

Two more have no property:

- `update_sampling_params` promises that parameters "fall back to their original values upon exiting the
  block" (`sglang_rollout.py:392`). The block holds an await (`:783`) and the dict is shared by all coroutines, so a
  coroutine may save what another has put there and restore it last. A training call sets no temperature of its own. `ToolRollout`
  with `MaxBatches = 2` reaches a training batch whose engine calls have `params.temperature = "val"`,
  two overlapping requests of a validation before it. The number of new tokens is set anew by every
  call, which `BudgetsHold` relies on.
- The prompt asks for "heated", "cooled", "cleaned" (`alfworld_rebel_prompt.py:55`), the tracker records
  "hot", "cold", "clean" (`belief_tracker.py:515`), and the words are compared as they are: a true report is a
  contradiction. `Treatments` in `StateReward` names the words of both; `CorrectionsPay` says that a true entry in the tracker's words
  never costs, and no more.

## 6. Seen while modelling, without a run

*Beliefs and rewards*

- `current_inventory` is set by "You take" and cleared by one form of "You put",
  not by the form with "in/on" that the game prints (`belief_tracker.py:230-235`).
- What is in a container is listed after "In it, you see" when it is opened
  (`oracle.py:221`); the expression reads "On the X, you see" (`belief_tracker.py:245`),
  so these contents are recorded only on a later visit.
- "You are facing the X" is recorded with its article: the tracker gets a second
  receptacle "the X". "You close the X" is not read: a door recorded open may be closed.
- Ids match by substring and the scan stops at the first match
  (`belief_tracker.py:477`, `514`): with "knife 1" and "butterknife 1" both located, or both treated, the two true
  entries can score less than one. `CorrectionsPay` excludes ids that overlap. The key of a treatment is a part of a sentence,
  "the apple 1 using the fridge 1", which contains the id of the station too.
- The fallback of `compute_r_pred` is for a prediction that "consists entirely of high-noise words" (`belief_tracker.py:98-99`). It
  is reached with one token only: two noise words have a pair, so the list is not empty.
- The pairs of `r_pred` are of tokens, from which numbers and short words have been dropped, and are looked up in the text, which has
  them: "drawer 1 apple" quoted word by word does not find "drawer apple" and earns 2/3. A word is also found inside a longer one.
- `alfworld_projection_rebel` replaces every single quote before it reads the JSON (`projection.py:127`), so an apostrophe in a text makes
  a format invalid whose belief `parse_belief` reads and scores; a block that has only `exploration_map_update` is valid and has no belief.
- `match_action_to_admissible` takes the one admissible action with the same first word, or the first that contains what was
  written (`projection.py:43-50`): "go to drawer 1" can be executed as "go to drawer 10", and counts as available.
- With six or more visited receptacles, the first true visit of an empty list
  scores F1 = 2/7, below the 0.3 of reporting nothing.
- The leniency of `r_state` is for the first turn only.
- If `visited` is a list and `unvisited_candidates` is not, the new visits are
  not subtracted from the candidates until a later list (`env_manager.py:537-549`).
- A belief whose `state` is a non-empty string or list makes the parser raise.
- `set_task_plans` has no caller and reads a key that nothing writes.
- `decay_end_epoch = decay_start_epoch` divides by zero once decay starts. The first epoch of a
  warm-up has weight 0, below `min_weight`.

- The repository's README (`README.md:34`, `70`) describes a pending buffer of predictions; the code has none.
- AlfWorld's `step` updates the tracker with the answer to a turn (`env_manager.py:305`) and then scores the
  belief that was written before that answer.

*WebShop* (`belief_tracker.py` and `projection.py` are those of `environments/env_package/webshop`)

- The instruction is printed on every page, "with color: red" included, so the tracker's product attributes hold the
  task's own requirements from the start: a belief that confirms them counts as supported before any product is
  opened, though `belief_tracker.py:413-421` speaks of the current page.
- Attributes and clicks of earlier products stay evidence, and so do clicks that were never offered. Only where the
  page of the turn prints the attribute again is it put right (`EvidenceKeepsUp`).
- "buying" is in the docstring's phases (`belief_tracker.py:24`) and never returned. A description with "thank you"
  makes the phase "done"; the pages under a product count as "browsing".
- `click[search]` is offered and counted as available, and does nothing. A search is served on every page, though
  `web_agent_text_env.py:105` says "If action not valid, perform nothing" (`AvailableIsWhatActs` states both, and
  the forms of a text that count as available and do nothing, or the other way round).
- The projection's test for a belief looks for keys of an older format, which parser and manager no longer use.
  A number for `unconfirmed` raises in the rewards when the phase is buying.
- `step` passes the next observation as the current one to `r_task`.
- Every worker shuffles the goals by a seed of its own, so the index ranges of training and validation
  (`envs.py:147-151`) do not keep goals apart.
- After its `done` a worker plays some other goal, step by step, until the loop ends; `PurchaseIsWhatWasChosen` is
  about the first purchase. `task_plans` are never cleared.

*Batches*

- The score ReBel uses for a trajectory is that of its last row in the batch, less that row's
  own penalty, though the comment at `core_rebel.py:624` says all rows agree. Copies
  count in the sum of r_cons, and a copied lone step gets a step advantage,
  because its two copies stand at different distances from the end.
- GRPO, RLOO and GiGPO's task part count rows: long episodes and copies weigh more. ReBel counts a trajectory once, but its
  r_cons with every copy. Pass@k raises on a prompt with one row.
- ReMax puts its baseline into a batch that is then replaced (`ray_trainer.py:1213-1234`), and
  `compute_advantage` does not find it.
- Dynamic sampling compares `episode_rewards` (with intrinsic rewards) while the advantage uses the
  environment's alone: a group of equal results can pass the filter. A
  later try that lacks a task of the first raises at the end (`rates`).
- The docstring of `rearrange_micro_batches` gives `max_token_len` as the "max sum of attention_mask" of a micro-batch; only
  the mean is bounded. Multi-modal inputs with dynamic batch sizes leave `indices` undefined.
- `adjust_batch` pads to micro-batch times world, not to the mini-batch.
  Rows weigh the same (`RowsWeighTheSame`) with the loss's sequence means; with token-mean, the default
  (`ppo_trainer.yaml:56`), a row's weight depends on its tokens and on those of the micro-batch it is in
  (`PassesWeighTheirRows`). `seq-mean-token-sum-norm` divides by the length of the padded response and is left out. With
  multi-modal inputs `len(data)` in `dp_actor.py:430` counts the columns of a dict, not rows.
- Auto padding changes the caller's batch in place, and gives keyword arguments a padding size
  without padding them.

*Engines*

- `gen_random_states` is not in a checkpoint: after a resume the engine draws again what it drew after the start.
- SGLang, and a vLLM whose `wake_up` has no `tags` (`fsdp_vllm.py:194-195`), take the memory of the cache while the actor's
  parameters are still on the GPU; for them `CacheStandsAlone` speaks of the generation itself. vLLM up to 0.6.3 does not offload parameters after entering.
- With FSDP2 and LoRA the adapter is not saved although "Saved" is printed.
- `vLLMAsyncRollout.is_sleep` starts false, so the first `wake_up` does nothing; `AsyncSglangServer.wake_up` and
  `sleep` do not await the workers.

*Tools*

- A response is cut to a prompt and a response's length, which may end it inside a message of the model or before the answer of a tool.
  A conversation can be longer when it is rendered again than in the tokens kept, and then leaves no room for a message.
- A prompt cut to `prompt_length` has lost the opening of the message; adding a
  message raises and ends the batch. So does a tool's answer that leaves exactly one position (a negative `max_new_tokens`).
  A failed batch leaves its tool instances behind.
- `current_count` drifts: its `+=` and `-=` run on several threads without a lock (`search_tool.py:60`, `66`), so updates can be
  lost for good, and `get_current_count` need not give the "current number of acquired tokens". No search goes by it. The limiter is a named actor: the first creator's rate wins.
- `execute` registers the release before it has acquired; this is harmless because `acquire` does not raise.

*Checkpoints*

- Rotation counts the checkpoints of one launch: those of earlier launches stay.
- A finished run that is launched again trains and saves one more step, beyond
  `total_training_steps`.
- After a resume the epoch that `set_current_epoch` gets starts at 0 again
  (`ray_trainer.py:1168`; the docstring at `env_manager.py:180` calls it the current epoch number): the
  weight goes back to the warm-up, and the success rate is unknown until the next
  validation (`WeightsLag`).
- `disable` and `resume_path` can overwrite the folder that the tracker names,
  and nothing checks that the shards of a folder come from one launch.

## 7. Plan

Done so far, in this order: `Rollout` with `Episodes`; `Checkpoint`; `Tracker`, `StateReward` and `TurnReward`,
`Belief`; `TrainBatch`; `DynamicRollout`; `TokenBucket` and `ToolRollout`; `Dispatch`; `HybridEngine`; `RewardSchedule`;
`Shop`, `WebshopManager` and `Managers`; `RolloutLoop`, `BeliefTracker` and `Fit`, which put modules side by side.

Next:

1. *Manager step composed*: `Belief` with `Tracker` and `TurnReward` in one step; abstract specification: the reward of
   a turn depends on that turn's output and the facts shown so far.
2. *Other estimators*: ReMax and REINFORCE++ by rows, the orderings of GAE.
3. Proofs: `BeliefsAreSettled`; the properties of `TurnReward` that compare scores, under a bound on the visited places.

## 8. Not modelled, and why

- *Within the belief reward*: which admissible action an output is matched to; words found inside longer ones by `r_pred`; fields of
  another type, which the rewards count as empty; `BeliefDeviationCalculator`, which only writes logs.
- *Within WebShop*: the merge of target, product and subgoal; the mode without ReBel; the prompt's fallback
  beyond 13000 characters; one value offered under two options; titles and prices that print attributes; the fuzzy
  score below 1.0; matching of values by substring; the four pages under a product are one. The search engine is any
  function from queries to lists.
- *Async chat scheduler*: `fit` never calls it (the calls are commented out,
  `ray_trainer.py:1199-1204`), and in async mode the workers' `generate_sequences` raises. Read, it shows: a
  conversation's next request is looked up by an id that SGLang's engine made itself, the lookup is outside
  the `try`, so that the callback is never called; the load counter is never lowered; the caller's `extra_headers` are changed.
- *Prompt wording, tokenisation, images, logging, metrics*: no property is about them.
- *Tensors*: losses, GAE, REINFORCE++ (whitening over tokens), forward passes and inference
  engines are numerical or vendored; the orderings that matter (what is saved when, which rows are
  trained on, which weights generate) are in `Checkpoint`, `TrainBatch`, `Dispatch` and `HybridEngine`.
- *Within `TrainBatch`*: `mean_std_norm`, per-task normalisation, similarity
  groups, KL in the reward, tokens. Masks broadcast a row's advantage over its tokens.
- *Within `Checkpoint`*: HDFS, Megatron, the exported model; when `set_success_rate` is called (the
  weight is compared at every rate). Removing a folder is one step
  for each part; a crash inside it leaves less than the model's shards, which
  a launch would meet only if the tracker named the folder.
- *Within `Dispatch`*: auto padding, futures, Megatron's dispatch modes, columns. Sharding is full over the world, so that a pass is a collective of all ranks.
- *Within `HybridEngine`*: what is computed, the reward model, the learning rate; the critic is assumed in use.
- *Within `ToolRollout`*: chat formats other than chatml, a tool without the limiter, the batch-level path. That the
  engine reads its parameters when it is called, and rejects a negative `max_new_tokens`, is assumed of the engine.
- *Vendored environments, Megatron, graders, scripts*: outside the repository's own logic.
