----------------------------- MODULE ToolRollout -----------------------------
(***************************************************************************)
(* Multi-turn generation with tools in SGLangRollout: for every request of *)
(* a batch a coroutine alternates between the inference engine and the     *)
(* tools the model calls.  All coroutines run on one event loop and        *)
(* interleave at their awaits; they share the sampling parameters, the     *)
(* tool's table of instances and the rate limiter (TokenBucket).           *)
(*                                                                         *)
(* A token is its kind: "p" prompt, "g" the opening of an assistant        *)
(* message, "a" text of the model, "e" the end of its message, "t" what a  *)
(* tool answered with the opening of its message, "x" the end of that.     *)
(***************************************************************************)
EXTENDS TokenBucket, SequencesExt

CONSTANTS
  Reqs,             \* the requests of a batch
  MaxTurns,         \* multi_turn.max_turns
  MaxCalls,         \* tool calls in one message (bound of the model)
  GenLens,          \* lengths of what the model writes before it stops
  ToolLens,         \* lengths of what a tool answers
  Renderings,       \* by how much a conversation that is rendered and encoded
                    \* anew is longer than the tokens kept of it
  Recodings,        \* by how much a text that is encoded again is longer than
                    \* the tokens the model generated
  PromptLen,        \* config.prompt_length, and the tokens of a prompt
  ResponseLength,   \* config.response_length
  MaxModelLen,      \* config.max_model_len
  Cuttable,         \* requests whose prompt may be cut to prompt_length
  MaxBatches        \* number of batches (bound of the model)

ASSUME ToolRolloutAssumption ==
  /\ {MaxTurns, MaxCalls, PromptLen, ResponseLength, MaxModelLen, MaxBatches}
       \subseteq Nat \ {0}
  /\ GenLens \subseteq Nat /\ ToolLens \subseteq Nat \ {0}
  /\ Renderings \subseteq Int /\ Recodings \subseteq Int
  /\ IsFiniteSet(Reqs) /\ Cuttable \subseteq Reqs
  /\ PromptLen + ResponseLength <= MaxModelLen
  /\ Calls = Reqs \X (1 .. MaxCalls)

VARIABLES
  mode,        \* the batch: "train", "val", none ("idle"), or it "failed"
  batches,     \* batches begun
  params,      \* self.sampling_params, reduced to two of its entries
  req,         \* the requests, by coroutine
  ids,         \* input_ids of every request
  instances    \* _instance_dict of the tool

own == <<mode, batches, params, req, ids, instances>>
vars == <<own, bucket>>

-----------------------------------------------------------------------------
(* The pieces of a request.                                                *)

\* The parameters that _init_sampling_params sets.
Configured == [temperature |-> "train", maxNewTokens |-> ResponseLength]

\* A request as the batch begins: the prompt ends with the opening of an
\* assistant message, unless it was cut.  asked counts the calls so far, for
\* the properties.
Prompt(cut) == [k \in 1 .. PromptLen |->
                  IF k = PromptLen /\ ~ cut THEN "g" ELSE "p"]
Fresh == [state |-> "pending", at |-> "loop", turns |-> 0, calls |-> 0,
          asked |-> 0, saved |-> Configured, own |-> 0, rendered |-> 0]

\* get_generation_prompt: the messages are rendered and encoded anew, an
\* opening behind them in any case.  What was cut from the prompt is there
\* again, and text may be split otherwise than in the tokens kept.
GenerationPromptLen(tokens, d) ==
  Len(tokens) + (IF Last(tokens) = "g" THEN 0 ELSE 1) + d

\* max_new_tokens of an engine call; negative if no room is left.
Budget(rendered) == Min({ResponseLength, MaxModelLen - rendered - 1})

\* Mutant: the parameters are set once for all calls that overlap.
BugSetParams(b) ==
  [temperature |-> IF mode = "val" THEN "val" ELSE params.temperature,
   maxNewTokens |-> IF \E r \in Reqs : req[r].at = "engine"
                    THEN params.maxNewTokens ELSE b]

\* update_sampling_params, on entry: a validation batch sets everything, a
\* training batch only the budget.
SetParams(b) ==
  [temperature |-> IF mode = "val" THEN "val" ELSE params.temperature,
   maxNewTokens |-> b]

\* update_sampling_params, on exit: the entries it had set.
Restored(saved) ==
  [temperature |-> IF mode = "val" THEN saved.temperature
                   ELSE params.temperature,
   maxNewTokens |-> saved.maxNewTokens]

\* add_assistant_message with a text of n tokens, as it is encoded again with
\* its tool calls rendered anew; it needs the end of a message or the opening
\* of the next before it.
CanAddMessage(tokens) == Last(tokens) \in {"g", "e", "x"}
AssistantMessage(tokens, n, overLong) ==
  tokens \o (IF Last(tokens) = "g" THEN <<>> ELSE <<"g">>)
         \o [k \in 1 .. n |-> "a"]
         \o (IF overLong THEN <<>> ELSE <<"e">>)

\* add_tool_response_message, format chatml.
ToolMessage(tokens, n) == tokens \o [k \in 1 .. n |-> "t"] \o <<"x">>

\* Mutant: an answer is left out as soon as no other fits behind it.
BugWithAnswers(tokens, lens) ==
  LET upTo[k \in 0 .. Len(lens)] ==
        IF k = 0 THEN tokens
        ELSE IF Len(upTo[k - 1]) >= MaxModelLen - 2 THEN upTo[k - 1]
        ELSE ToolMessage(upTo[k - 1], lens[k])
  IN  upTo[Len(lens)]

\* The answers of a turn are appended until the context is full.
WithAnswers(tokens, lens) ==
  LET upTo[k \in 0 .. Len(lens)] ==
        IF k = 0 THEN tokens
        ELSE IF Len(upTo[k - 1]) >= MaxModelLen THEN upTo[k - 1]
        ELSE ToolMessage(upTo[k - 1], lens[k])
  IN  upTo[Len(lens)]

\* truncate_output_ids: the request's own max_model_len is no more than a
\* prompt and a response.
Truncated(tokens) ==
  SubSeq(tokens, 1,
         Min({Len(tokens), MaxModelLen, PromptLen + ResponseLength}))

\* An engine rejects a negative max_new_tokens; the exception ends the
\* batch, and with it the job.
EngineRejects(r, tokens, rendered) ==
  /\ Budget(rendered) < 0
  /\ mode' = "failed"
  /\ ids' = [ids EXCEPT ![r] = tokens]
  /\ req' = [req EXCEPT ![r].rendered = rendered]
  /\ UNCHANGED <<batches, params, instances>>

\* _handle_engine_call up to its await, for request r with these tokens.  The
\* engine takes its limit from the shared parameters.
CallEngine(r, tokens, rendered) ==
  LET b == Budget(rendered)
  IN  /\ b >= 0
      /\ params' = SetParams(b)
      /\ req' = [req EXCEPT ![r].state = "running", ![r].at = "engine",
                            ![r].saved = params,
                            ![r].own = SetParams(b).maxNewTokens,
                            ![r].rendered = rendered, ![r].calls = 0]
      /\ ids' = [ids EXCEPT ![r] = tokens]
      /\ UNCHANGED <<mode, batches, instances>>

HandleEngineCall(r, tokens) ==
  \E d \in Renderings :
    LET rendered == GenerationPromptLen(tokens, d)
    IN  CallEngine(r, tokens, rendered) \/ EngineRejects(r, tokens, rendered)

-----------------------------------------------------------------------------
Init ==
  /\ mode = "idle"
  /\ batches = 0
  /\ params = Configured
  /\ req = [r \in Reqs |-> Fresh]
  /\ ids = [r \in Reqs |-> Prompt(FALSE)]
  /\ instances = {}
  /\ BucketInit

\* _req_level_generate_sequences: requests from prompts, gather.
BeginBatch ==
  /\ mode = "idle"
  /\ batches < MaxBatches
  /\ mode' \in {"train", "val"}
  /\ batches' = batches + 1
  /\ req' = [r \in Reqs |-> Fresh]
  /\ \E cut \in SUBSET Cuttable : ids' = [r \in Reqs |-> Prompt(r \in cut)]
  /\ UNCHANGED <<params, instances, bucket>>

Running(r) == mode \in {"train", "val"} /\ req[r].state # "completed"

\* _handle_pending_state: the tool gets an instance for the request.
CreateTools(r) ==
  /\ Running(r) /\ req[r].state = "pending" /\ req[r].at = "loop"
  /\ instances' = instances \union {r}
  /\ req' = [req EXCEPT ![r].state = "running"]
  /\ UNCHANGED <<mode, batches, params, ids, bucket>>

FirstTurn(r) ==
  /\ Running(r) /\ req[r].state = "running" /\ req[r].at = "loop"
  /\ HandleEngineCall(r, ids[r])
  /\ UNCHANGED bucket

LastTurn(turns) == turns >= MaxTurns

\* The model's message is added.  With k > 0 it has called tools and goes on
\* to them, unless this was the last turn.
AddMessage(r, n, overLong, k) ==
  LET turns == req[r].turns + 1
  IN  /\ n >= 0
      /\ ids' = [ids EXCEPT ![r] = AssistantMessage(@, n, overLong)]
      /\ req' = [req EXCEPT
           ![r].turns = turns,
           ![r].calls = k,
           ![r].asked = @ + k,
           ![r].saved = Configured,
           ![r].own = 0,
           ![r].rendered = 0,
           ![r].state = IF k > 0 THEN "tool_calling" ELSE "running",
           ![r].at = IF k > 0 /\ ~ LastTurn(turns) THEN "loop" ELSE "end"]
      /\ UNCHANGED mode

\* The engine answers: it has used up its tokens, or the model has come to an
\* end.  The sampling parameters are restored and the message is added.
EngineAnswer(r) ==
  /\ Running(r) /\ req[r].at = "engine"
  /\ params' = Restored(req[r].saved)
  /\ \/ /\ CanAddMessage(ids[r])
        /\ \E d \in Recodings :
             \/ AddMessage(r, req[r].own + d, TRUE, 0)
             \/ \E n \in GenLens, k \in 0 .. MaxCalls :
                  n <= req[r].own /\ AddMessage(r, n + d, FALSE, k)
     \/ /\ ~ CanAddMessage(ids[r])
        /\ mode' = "failed"
        /\ UNCHANGED <<ids, req>>
  /\ UNCHANGED <<batches, instances, bucket>>

\* tool.execute for every call of the message.  Without a query list it
\* answers at once, else the search is left to the execution pool.
CallTools(r) ==
  /\ Running(r) /\ req[r].state = "tool_calling" /\ req[r].at = "loop"
  /\ req' = [req EXCEPT ![r].at = "tools"]
  /\ \E valid \in SUBSET (1 .. req[r].calls) : Queue({r} \X valid)
  /\ UNCHANGED <<mode, batches, params, ids, instances>>
  /\ UNCHANGED <<waiting, free, count, sent, release, seen>>

\* Mutant: the coroutine goes on with the first answer.
BugAllAnswered(r) == \E k \in 1 .. req[r].calls : Answered(<<r, k>>)

\* asyncio.gather: every execution has returned.
AllAnswered(r) == \A k \in 1 .. req[r].calls : Answered(<<r, k>>)

\* The answers, in the order of the calls, then the next turn; or the end if
\* the context is full.
ToolAnswers(r) ==
  /\ Running(r) /\ req[r].at = "tools"
  /\ AllAnswered(r)
  /\ Collect({r} \X (1 .. MaxCalls))
  /\ \E lens \in [1 .. req[r].calls -> ToolLens] :
       LET tokens == WithAnswers(ids[r], lens)
       IN  IF Len(tokens) >= MaxModelLen
           THEN /\ ids' = [ids EXCEPT ![r] = tokens]
                /\ req' = [req EXCEPT ![r].at = "end"]
                /\ UNCHANGED <<mode, batches, params, instances>>
           ELSE HandleEngineCall(r, tokens)
  /\ UNCHANGED <<waiting, free, count, sent, release, seen>>

\* Mutant: the instance is kept.
BugAfterRelease(r) == instances

AfterRelease(r) == instances \ {r}

\* calc_reward_and_release_fn and finalize.
Finalize(r) ==
  /\ Running(r) /\ req[r].at = "end"
  /\ instances' = AfterRelease(r)
  /\ req' = [req EXCEPT ![r].state = "completed"]
  /\ ids' = [ids EXCEPT ![r] = Truncated(@)]
  /\ UNCHANGED <<mode, batches, params, bucket>>

\* gather returns; the batch is put together from the sorted requests.
EndBatch ==
  /\ mode \in {"train", "val"}
  /\ \A r \in Reqs : req[r].state = "completed"
  /\ mode' = "idle"
  /\ UNCHANGED <<batches, params, req, ids, instances, bucket>>

Limit == Work /\ UNCHANGED own

Coroutine(r) ==
  \/ CreateTools(r) \/ FirstTurn(r) \/ EngineAnswer(r)
  \/ CallTools(r) \/ ToolAnswers(r) \/ Finalize(r)

Next == BeginBatch \/ EndBatch \/ Limit \/ \E r \in Reqs : Coroutine(r)

Spec == Init /\ [][Next]_vars

\* The event loop runs what is ready, the engine and the search service
\* answer (the service at the latest with the last retry's timeout), and
\* the actor's threads run.
Fairness ==
  /\ WF_vars(EndBatch)
  /\ \A r \in Reqs : WF_vars(Coroutine(r))
  /\ \A c \in Calls : /\ WF_vars(BeginExecute(c) /\ UNCHANGED own)
                      /\ WF_vars(EndExecute(c) /\ UNCHANGED own)
  /\ WF_vars(TakeToken /\ UNCHANGED own)
  /\ WF_vars((ReadToCount \/ CountToken) /\ UNCHANGED own)
  /\ \A t \in ReleaseThreads :
       WF_vars((PutToken(t) \/ ReadToUncount(t) \/ UncountToken(t))
                 /\ UNCHANGED own)

FairSpec == Spec /\ Fairness

-----------------------------------------------------------------------------
(* What the rollout promises.                                              *)

\* A search belongs to a request that waits for it and whose instance the
\* tool still has: execute writes to _instance_dict after its await.
SearchesHaveInstances ==
  \A r \in Reqs, k \in 1 .. MaxCalls :
    call[<<r, k>>] # "idle" => r \in instances /\ req[r].at = "tools"

\* Between batches the tool has no instances, unless a batch has failed.
InstancesAreReleased == mode = "idle" => instances = {}

\* A tool instance lives as long as the request that uses it.
InstancesFollowRequests == SearchesHaveInstances /\ InstancesAreReleased

\* The model goes on only when all it has called has answered.
Count(tokens, kind) == Cardinality({k \in DOMAIN tokens : tokens[k] = kind})
CallsAreAnswered ==
  \A r \in Reqs :
    req[r].state = "running" => Count(ids[r], "x") = req[r].asked

\* A call of the engine stays within the context: the prompt it was given and
\* the limit it finds in the parameters that all coroutines set and restore.
CallsFitTheContext ==
  \A r \in Reqs :
    req[r].at = "engine" =>
      req[r].own >= 0 /\ req[r].rendered + req[r].own < MaxModelLen

\* A batch fails for two reasons only: a prompt was cut, so that it neither
\* opens nor ends a message, or a conversation that did not fill the context
\* does so when it is rendered, so that no message fits behind it.
FailuresAreExplained ==
  mode = "failed" =>
    \E r \in Reqs : \/ Last(ids[r]) = "p"
                    \/ /\ Len(ids[r]) < MaxModelLen
                       /\ req[r].rendered >= MaxModelLen

\* Every call gets the budget of its own conversation, whatever the others
\* have put into the shared parameters; a batch that fails had a prompt cut
\* or a conversation without room.
BudgetsHold == CallsFitTheContext /\ FailuresAreExplained

\* Every batch ends: the limiter does not starve it.
BatchEnds == mode \in {"train", "val"} ~> mode \in {"idle", "failed"}
=============================================================================
