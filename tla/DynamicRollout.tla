--------------------------- MODULE DynamicRollout ---------------------------
(***************************************************************************)
(* Dynamic sampling: dynamic_multi_turn_loop plays the same prompts again  *)
(* and again, filter_group_data drops the groups whose episodes all earned *)
(* the same, and the results of the tries are put end to end, list by      *)
(* list, until there are enough.  The last try is kept whole.              *)
(*                                                                         *)
(* A try of vanilla_multi_turn_loop is one step here (Rollout models it):  *)
(* every episode is won or lost and earns an intrinsic reward.             *)
(***************************************************************************)
EXTENDS Integers, SequencesExt, Ordering

CONSTANTS
  Prompts,        \* config.data.train_batch_size
  GroupSize,      \* config.env.rollout.n
  MaxTries,       \* filter_groups.max_num_gen_batches
  IntrinsicSums,  \* sums of intrinsic rewards of an episode
  WinPay,         \* what a won episode earns
  Tasks           \* task types, for the rates by task

ASSUME DynamicAssumption ==
  /\ Prompts \in Nat \ {0} /\ GroupSize \in Nat \ {0} /\ MaxTries \in Nat \ {0}
  /\ IntrinsicSums \subseteq Int /\ IntrinsicSums # {} /\ WinPay \in Int
  /\ Tasks # {} /\ "all" \notin Tasks

Target == Prompts * GroupSize
Slots == 1 .. Target

\* The group of a slot, and all its slots.
Group(k) == (k - 1) \div GroupSize
Mates(k) == {m \in Slots : Group(m) = Group(k)}

VARIABLES
  stage,    \* "sample", "filter", "done", or "failed": an exception
  tries,    \* try_count
  episodes, \* what vanilla_multi_turn_loop returned: one record per slot, until
            \* filter_group_data has taken it
  task,     \* task[g]: the task group g plays in this try
  lists,    \* the total_... lists
  rates     \* total_success: a dict for each try

dynamicVars == <<stage, tries, episodes, task, lists, rates>>

-----------------------------------------------------------------------------

Total(e) == (IF e.won THEN WinPay ELSE 0) + e.intr
EnvTotal(e) == IF e.won THEN WinPay ELSE 0

DynamicInit ==
  /\ stage = "sample" /\ tries = 0
  /\ episodes = <<>>
  /\ task = [g \in 0 .. Prompts - 1 |-> CHOOSE t \in Tasks : TRUE]
  /\ lists = [batch |-> <<>>, rewards |-> <<>>, envRewards |-> <<>>]
  /\ rates = <<>>

\* Each try draws new uids.
TryUid(k) == <<tries + 1, Group(k)>>

\* Mutant: one try too few.
BugEnough == Len(lists.batch) >= Target \/ tries >= MaxTries - 1

Enough == Len(lists.batch) >= Target \/ tries >= MaxTries

\* One try: the games of all groups, from reset to the last step.
Sample ==
  /\ stage = "sample" /\ ~Enough
  /\ stage' = "filter" /\ tries' = tries + 1
  /\ \E won \in [Slots -> BOOLEAN], intr \in [Slots -> IntrinsicSums] :
       episodes' = [k \in Slots |-> [uid |-> TryUid(k), slot |-> k, won |-> won[k], intr |-> intr[k]]]
  /\ \E t \in [0 .. Prompts - 1 -> Tasks] : task' = t
  /\ UNCHANGED <<lists, rates>>

-----------------------------------------------------------------------------
(* filter_group_data.                                                      *)

\* Not all episodes of the group earned the same.
Varied(k) == \E m, n \in Mates(k) : Total(episodes[m]) # Total(episodes[n])

\* Mutant: one try too early.
BugLastTry == tries >= MaxTries - 1

LastTry == tries = MaxTries

\* keep_indices
Kept == Ordered({k \in Slots : LastTry \/ Varied(k)})

\* The rates of a try: one over all episodes, one for each task played.
Played(key) == Ordered({k \in Slots : key \in {"all", task[Group(k)]}})
Rate(key) == [j \in DOMAIN Played(key) |-> episodes[Played(key)[j]].won]
Keys == {"all"} \union {task[g] : g \in DOMAIN task}

\* Of these the filter drops those that do not cover all episodes.
KeptRates ==
  IF LastTry THEN [key \in Keys |-> Rate(key)]
  ELSE [key \in {x \in Keys : Len(Rate(x)) = Target} |->
          [j \in DOMAIN Kept |-> Rate(key)[Kept[j]]]]

\* Mutant: the rewards for the advantage are not filtered.
BugFiltered ==
  [batch |-> [j \in DOMAIN Kept |-> episodes[Kept[j]]],
   rewards |-> [j \in DOMAIN Kept |-> Total(episodes[Kept[j]])],
   envRewards |-> [j \in DOMAIN Kept |-> EnvTotal(episodes[j])]]

Filtered ==
  [batch |-> [j \in DOMAIN Kept |-> episodes[Kept[j]]],
   rewards |-> [j \in DOMAIN Kept |-> Total(episodes[Kept[j]])],
   envRewards |-> [j \in DOMAIN Kept |-> EnvTotal(episodes[Kept[j]])]]

Filter ==
  /\ stage = "filter"
  /\ stage' = "sample"
  /\ lists' = [x \in DOMAIN lists |-> lists[x] \o Filtered[x]]
  /\ rates' = Append(rates, KeptRates)
  /\ episodes' = <<>>
  /\ UNCHANGED <<tries, task>>

-----------------------------------------------------------------------------

\* The lists are concatenated; so are the rates, for the keys of the first
\* try, which every other must have.
Finish ==
  /\ stage = "sample" /\ Enough
  /\ stage' = IF \A n \in DOMAIN rates : DOMAIN rates[1] \subseteq DOMAIN rates[n]
           THEN "done" ELSE "failed"
  /\ UNCHANGED <<tries, episodes, task, lists, rates>>

DynamicNext == Sample \/ Filter \/ Finish

DynamicSpec == DynamicInit /\ [][DynamicNext]_dynamicVars

-----------------------------------------------------------------------------
(* What dynamic sampling must keep to.                                     *)

\* The batch is full, whatever the policy earns: short of the last try it is
\* filled by groups that differ, and the last try alone would fill it.
BatchIsFull ==
  stage \in {"done", "failed"} =>
    Len(lists.batch) >= Target /\ Len(lists.batch) < 2 * Target

\* The lists that were filtered and concatenated apart still speak of the
\* same episode at the same place; so does the rate over all episodes.
ListsAgree ==
  /\ Len(lists.rewards) = Len(lists.batch) /\ Len(lists.envRewards) = Len(lists.batch)
  /\ \A k \in DOMAIN lists.batch :
       /\ lists.rewards[k] = Total(lists.batch[k])
       /\ lists.envRewards[k] = EnvTotal(lists.batch[k])
  /\ FlattenSeq([n \in DOMAIN rates |-> rates[n]["all"]])
       = [k \in DOMAIN lists.batch |-> lists.batch[k].won]

\* The episodes that share a uid are one whole group of one try, side by
\* side, so that an advantage compares what was played from the same start.
GroupsStayWhole ==
  \A k \in DOMAIN lists.batch :
    LET e == lists.batch[k]
        same == {m \in DOMAIN lists.batch : lists.batch[m].uid = e.uid}
        first == k - ((e.slot - 1) % GroupSize) IN
    /\ same = first .. first + GroupSize - 1
    /\ \A m \in same : lists.batch[m].slot - e.slot = m - k

\* What the trainer is told of an episode, and of those it is compared with,
\* survives the filter and the concatenation.
EpisodesStayTogether == ListsAgree /\ GroupsStayWhole

\* A group in which all earned the same is in the batch only if it is of the
\* last try, which is reached only because the others did not fill it.
UniformGroupsAreTheLast ==
  \A k \in DOMAIN lists.batch :
    (\A m \in DOMAIN lists.batch :
       lists.batch[m].uid = lists.batch[k].uid => lists.rewards[m] = lists.rewards[k])
      => lists.batch[k].uid[1] = MaxTries

\* The tries fill the batch, with groups that differ as long as a try is left.
TriesFillTheBatch == BatchIsFull /\ UniformGroupsAreTheLast
=============================================================================
