------------------------------ MODULE Dispatch ------------------------------
(***************************************************************************)
(* A call of a worker group: the driver pads or balances a batch, cuts it  *)
(* into equal shards, and every rank works on its own.  Ranks of a group   *)
(* (tensor or Ulysses sequence parallel) first exchange their shards.  A   *)
(* rank splits its rows into micro-batches, by count or by tokens, and     *)
(* runs one forward pass for each; with FSDP a pass is a collective of all *)
(* ranks.  The driver puts the answers together again.                     *)
(*                                                                         *)
(* A row is its number in the caller's batch; its length is what           *)
(* attention_mask sums up to, and some of its tokens are response tokens.  *)
(***************************************************************************)
EXTENDS Integers, Partitions

CONSTANTS
  Shapes,       \* pairs <<world size, size of a group>>
  Sizes,        \* numbers of rows to generate for
  Batches,      \* batches to score or train on: their rows' tokens, as pairs
                \* <<tokens of the prompt, tokens of the response>>
  MicroBatch,   \* micro_batch_size_per_gpu
  MiniBatch,    \* ppo_mini_batch_size, normalized
  MaxTokens     \* max_token_len of a micro-batch

ASSUME DispatchAssumption ==
  /\ \A s \in Shapes : /\ s \in (Nat \ {0}) \X (Nat \ {0})
                       /\ s[1] % s[2] = 0
  /\ MicroBatch \in Nat \ {0} /\ MiniBatch \in Nat \ {0}
  /\ MiniBatch % MicroBatch = 0
  /\ MaxTokens \in Nat
  /\ Sizes \subseteq Nat \ {0}
  /\ Batches \subseteq Seq((Nat \ {0}) \X (Nat \ {0})) \ {<<>>}
  /\ \A b \in Batches : \A k \in DOMAIN b : b[k][1] + b[k][2] <= MaxTokens

VARIABLES
  shape,     \* world size and size of a group
  call,      \* the call: what is computed, whether by tokens, what the loss
             \* is a mean of, and the response tokens of the caller's rows
  length,    \* lengths of the caller's rows
  sent,      \* the rows in the order they are dealt out
  rank,      \* the ranks
  result     \* the rows answered, in the order the caller gets them

dispatchVars == <<shape, call, length, sent, rank, result>>

World == shape[1]
AllRanks == 0 .. World - 1
Group(r) == {s \in AllRanks : s \div shape[2] = r \div shape[2]}
Upto(n) == [k \in 1 .. n |-> k]

-----------------------------------------------------------------------------
(* The driver's side.                                                      *)

\* pad_dataproto_to_divisor: the rows from the first on, again and again.
PaddedTo(n, d) ==
  [k \in 1 .. d * ((n + d - 1) \div d) |-> 1 + ((k - 1) % n)]

\* adjust_batch has made the batch a multiple of this.
SizeDivisor == MicroBatch * World

\* _balance_batch.
Balanced(len) == FlattenSeq(BalancedPartitions(len, World, TRUE))

\* DataProto.chunk.
Shard(r, rows) ==
  LET n == Len(rows) \div World IN SubSeq(rows, r * n + 1, (r + 1) * n)

Idle == [pc |-> "idle", rows |-> <<>>, mini |-> 0, lens |-> <<>>,
         plan |-> <<>>, done |-> 0, seen |-> <<>>, weights |-> <<>>]

DispatchInit ==
  /\ shape \in Shapes
  /\ call = [op |-> "none", dynamic |-> FALSE, mean |-> "none", tokens |-> <<>>]
  /\ length = <<>>
  /\ sent = <<>>
  /\ rank = [r \in AllRanks |-> Idle]
  /\ result = <<>>

Deal(rows) ==
  /\ sent' = rows
  /\ rank' = [r \in AllRanks |-> [Idle EXCEPT !.pc = "gather", !.rows = Shard(r, rows)]]

\* generate_sequences: any number of rows, padded for the ranks.
Generate ==
  /\ call.op = "none"
  /\ call' = [op |-> "generate", dynamic |-> FALSE, mean |-> "none", tokens |-> <<>>]
  /\ \E n \in Sizes : length' = [k \in 1 .. n |-> 1] /\ Deal(PaddedTo(n, World))
  /\ UNCHANGED <<shape, result>>

\* compute_log_prob or update_actor: an adjusted batch, balanced.  The loss of
\* an update is a mean over tokens (loss_agg_mode "token-mean", the default)
\* or over rows ("seq-mean-token-sum", "seq-mean-token-mean").
Train ==
  /\ call.op = "none"
  /\ \E b \in {b \in Batches : Len(b) % SizeDivisor = 0} :
       /\ length' = [k \in DOMAIN b |-> b[k][1] + b[k][2]]
       /\ Deal(Balanced(length'))
       /\ \E dynamic \in BOOLEAN, c \in {<<"log_prob", "none">>, <<"update", "tokens">>,
                                        <<"update", "rows">>} :
            call' = [op |-> c[1], dynamic |-> dynamic, mean |-> c[2],
                     tokens |-> [k \in DOMAIN b |-> b[k][2]]]
  /\ UNCHANGED <<shape, result>>

-----------------------------------------------------------------------------
(* A rank's side.                                                          *)

\* preprocess_data: the ranks of a group gather their rows.
GatherRows(r) ==
  /\ \A s \in Group(r) : rank[s].pc = "gather"
  /\ LET rows == FlattenSeq([k \in 1 .. shape[2] |->
                               rank[shape[2] * (r \div shape[2]) + k - 1].rows])
     IN  rank' = [s \in AllRanks |-> IF s \in Group(r)
                    THEN [rank[s] EXCEPT !.pc = "split", !.rows = rows]
                    ELSE rank[s]]
  /\ UNCHANGED <<shape, call, length, sent, result>>

\* batch.split(n), as the positions of each piece.
Split(positions, n) ==
  [k \in 1 .. (Len(positions) + n - 1) \div n |->
     SubSeq(positions, (k - 1) * n + 1, Min({k * n, Len(positions)}))]

\* The positions of the mini-batch that rank r is at; compute_log_prob
\* treats all rows as one.
Minis(r) == IF call.op = "update" THEN Split(Upto(Len(rank[r].rows)), MiniBatch)
            ELSE <<Upto(Len(rank[r].rows))>>
Current(r) == Minis(r)[rank[r].mini + 1]
LengthsAt(r, positions) ==
  [k \in DOMAIN positions |-> length[rank[r].rows[positions[k]]]]

\* rearrange_micro_batches: the lengths of a mini-batch, from which the rank
\* derives how many micro-batches it needs.
Wanted(len) ==
  Min({Len(len), (Tokens(DOMAIN len, len) + MaxTokens - 1) \div MaxTokens})

Measure(r) ==
  /\ rank[r].pc = "split" /\ call.dynamic
  /\ rank' = [rank EXCEPT ![r].pc = "reduce",
                          ![r].lens = LengthsAt(r, Current(r))]
  /\ UNCHANGED <<shape, call, length, sent, result>>

\* Mutant: every rank keeps its own number.
BugMicroBatches(r) == Wanted(rank[r].lens)

\* all_reduce(MAX): the number for all ranks.
MicroBatches(r) == Max({Wanted(rank[s].lens) : s \in AllRanks})

\* The micro-batches by tokens, as positions.
ByTokens(r) ==
  LET first == Current(r)[1] - 1
      parts == BalancedPartitions(rank[r].lens, MicroBatches(r), FALSE)
  IN  [i \in DOMAIN parts |-> [k \in DOMAIN parts[i] |-> first + parts[i][k]]]

\* A mini-batch by number of rows needs nothing of the other ranks.
PlanByRows(r) ==
  /\ rank[r].pc = "split"
  /\ call.op # "generate" /\ ~ call.dynamic
  /\ rank' = [rank EXCEPT ![r].pc = "compute", ![r].done = 0,
                          ![r].plan = Split(Current(r), MicroBatch)]
  /\ UNCHANGED <<shape, call, length, sent, result>>

\* By tokens, every rank has to take part in the all_reduce.
AllMeasured == \A r \in AllRanks : rank[r].pc = "reduce"
PlanByTokens ==
  /\ AllMeasured
  /\ rank' = [r \in AllRanks |-> [rank[r] EXCEPT !.pc = "compute", !.done = 0,
                                                 !.plan = ByTokens(r)]]
  /\ UNCHANGED <<shape, call, length, sent, result>>

\* The forward (and backward) pass of the next micro-batch: the rank waits
\* for the others to gather the parameters.
Compute(r) ==
  /\ rank[r].pc = "compute" /\ rank[r].done < Len(rank[r].plan)
  /\ rank' = [rank EXCEPT ![r].pc = "forward"]
  /\ UNCHANGED <<shape, call, length, sent, result>>

\* Mutant: micro-batches by tokens are scaled like those by rows.
BugScale(r, micro) == <<1, MiniBatch \div MicroBatch>>

\* What the loss of a micro-batch is multiplied with, as a fraction.
Scale(r, micro) ==
  IF call.dynamic THEN <<Len(micro), MiniBatch>>
  ELSE <<1, MiniBatch \div MicroBatch>>

\* How much of its mean each row is, as a fraction.
Parts(r, micro) ==
  LET tokens == [k \in DOMAIN micro |-> call.tokens[rank[r].rows[micro[k]]]] IN
  [k \in DOMAIN micro |->
     IF call.mean = "tokens" THEN <<tokens[k], Tokens(DOMAIN micro, tokens)>>
                             ELSE <<1, Len(micro)>>]

\* The weights of its rows.
Weights(r, micro) ==
  [k \in DOMAIN micro |-> <<Scale(r, micro)[1] * Parts(r, micro)[k][1],
                            Scale(r, micro)[2] * Parts(r, micro)[k][2]>>]

Forward ==
  /\ \A r \in AllRanks : rank[r].pc = "forward"
  /\ rank' = [r \in AllRanks |->
       [rank[r] EXCEPT !.pc = "compute", !.done = @ + 1,
                       !.seen = @ \o rank[r].plan[rank[r].done + 1],
                       !.weights = @ \o Weights(r, rank[r].plan[rank[r].done + 1])]]
  /\ UNCHANGED <<shape, call, length, sent, result>>

\* The last micro-batch of a mini-batch: the optimizer's step, and the next.
EndMini(r) ==
  /\ rank[r].pc = "compute" /\ rank[r].done = Len(rank[r].plan)
  /\ rank' = [rank EXCEPT ![r].mini = @ + 1, ![r].plan = <<>>, ![r].done = 0,
                ![r].pc = IF rank[r].mini + 1 < Len(Minis(r)) THEN "split" ELSE "answer"]
  /\ UNCHANGED <<shape, call, length, sent, result>>

\* A generation engine answers its rows in order.
Engine(r) ==
  /\ call.op = "generate"
  /\ \A s \in Group(r) : rank[s].pc = "split"
  /\ rank' = [s \in AllRanks |-> IF s \in Group(r)
                THEN [rank[s] EXCEPT !.pc = "answer",
                                     !.seen = Upto(Len(rank[s].rows))]
                ELSE rank[s]]
  /\ UNCHANGED <<shape, call, length, sent, result>>

\* Mutant: the order is applied once more instead of being undone.
BugReverseIdx(order) == order

\* get_reverse_idx: where each position stands in the order of the answers.
ReverseIdx(order) ==
  [j \in DOMAIN order |-> CHOOSE i \in DOMAIN order : order[i] = j]

\* The rows of rank r in the order it answers them: log_probs[revert_indices].
Answers(r) ==
  LET order == rank[r].seen
      back == ReverseIdx(order)
  IN  [k \in DOMAIN order |->
         rank[r].rows[order[IF call.dynamic THEN back[k] ELSE k]]]

\* postprocess_data: rank r keeps its own part of the group's answers.
Kept(r) ==
  LET n == Len(rank[r].rows) \div shape[2]
      s == r % shape[2]
  IN  SubSeq(Answers(r), s * n + 1, (s + 1) * n)

\* collect_dp_compute_data_proto, unpad_dataproto.
Collect ==
  /\ call.op # "none" /\ result = <<>>
  /\ \A r \in AllRanks : rank[r].pc = "answer"
  /\ result' = IF call.op = "update" THEN sent
               ELSE SubSeq(FlattenSeq([k \in 1 .. World |-> Kept(k - 1)]),
                           1, Len(length))
  /\ rank' = [r \in AllRanks |-> [rank[r] EXCEPT !.pc = "idle"]]
  /\ UNCHANGED <<shape, call, length, sent>>

RankStep(r) ==
  \/ GatherRows(r) \/ PlanByRows(r) \/ Measure(r) \/ Compute(r)
  \/ EndMini(r) \/ Engine(r)

DispatchNext ==
  \/ Generate \/ Train \/ PlanByTokens \/ Forward \/ Collect
  \/ \E r \in AllRanks : RankStep(r)

DispatchSpec == DispatchInit /\ [][DispatchNext]_dispatchVars

\* Every rank runs what it can, and a collective whose ranks have all come
\* takes place; weak fairness of PlanByTokens is written with its guard.
DispatchFairness ==
  /\ []<>~AllMeasured \/ []<><<PlanByTokens>>_dispatchVars
  /\ WF_dispatchVars(Forward) /\ WF_dispatchVars(Collect)
  /\ \A r \in 0 .. Max({s[1] : s \in Shapes}) - 1 : WF_dispatchVars(r \in AllRanks /\ RankStep(r))

FairDispatch == DispatchSpec /\ DispatchFairness

-----------------------------------------------------------------------------
(* What a call promises.                                                   *)

\* The caller gets the answer to its k-th row in k-th place, through padding,
\* balancing, groups, micro-batches of any order, and back.
AnswersInOrder ==
  result # <<>> =>
    result = IF call.op = "generate" THEN Upto(Len(length)) ELSE sent

\* Every row goes through the model once (a padded one with its copies), on
\* every rank of one group.
Seen(r) == [k \in DOMAIN rank[r].seen |-> rank[r].rows[rank[r].seen[k]]]
EveryRowOnce ==
  result # <<>> /\ call.op # "generate" =>
    \A i \in DOMAIN length : \E r \in AllRanks :
      \A s \in AllRanks : Cardinality({k \in DOMAIN Seen(s) : Seen(s)[k] = i})
                         = IF s \in Group(r) THEN 1 ELSE 0

\* No micro-batch is empty, and the tokens of two differ by no more than the
\* longest row of the mini-batch has.
RowLengths(r) == [p \in DOMAIN rank[r].rows |-> length[rank[r].rows[p]]]
MicroBatchesBalance ==
  \A r \in AllRanks : call.dynamic =>
    LET load == [k \in DOMAIN rank[r].plan |->
                   Tokens(ToSet(rank[r].plan[k]), RowLengths(r))]
    IN  \A j, k \in DOMAIN rank[r].plan :
          /\ rank[r].plan[j] # <<>>
          /\ load[j] - load[k] <= Max(ToSet(rank[r].lens))

\* The tokens of two ranks differ by no more than two rows do.
RanksBalance ==
  call.op \in {"log_prob", "update"} =>
    LET load == [r \in AllRanks |-> Tokens(ToSet(Shard(r, sent)), length)]
    IN  \A r, s \in AllRanks : load[r] - load[s] <= Max(ToSet(length)) - Min(ToSet(length))

\* With a mean over rows, every row that rank r has trained on weighs
\* 1 / MiniBatch in a gradient, whatever micro-batch it was in, also if the
\* last mini-batch is short.  With a mean over tokens, the default, it does
\* not: a row's weight depends on the rows that share its micro-batch.
RowsWeighTheSame ==
  call.op = "update" /\ call.mean = "rows" =>
    \A r \in AllRanks : \A k \in DOMAIN rank[r].weights :
      rank[r].weights[k][1] * MiniBatch = rank[r].weights[k][2]

\* With either mean, a micro-batch weighs as much as it has rows: each is
\* 1 / MiniBatch of a gradient on average.
PassesWeighTheirRows ==
  call.op = "update" =>
    \A r \in AllRanks : \A i \in DOMAIN rank[r].plan :
      LET scale == Scale(r, rank[r].plan[i])
      IN  scale[1] * MiniBatch = scale[2] * Len(rank[r].plan[i])

\* Nobody carries much more than another: no micro-batch, no rank.
LoadsBalance == MicroBatchesBalance /\ RanksBalance

\* A row counts once, and as much as the mean of the loss lets it.
RowsCountAlike == EveryRowOnce /\ RowsWeighTheSame /\ PassesWeighTheirRows

\* A call returns: no rank waits in a collective that another never enters.
CallReturns == call.op # "none" ~> result # <<>>
=============================================================================
