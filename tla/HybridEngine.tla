----------------------------- MODULE HybridEngine -----------------------------
(***************************************************************************)
(* ActorRolloutRefWorker and CriticWorker, which share their GPUs with the *)
(* inference engine: RayPPOTrainer.fit makes one call after another, every *)
(* rank works through a call on its own, and the ranks meet in collectives.*)
(* generate_sequences enters the sharding manager, which moves the actor's *)
(* weights into the engine and swaps the random state of the device, and   *)
(* leaves it again.  The other calls load what they need onto the GPU and  *)
(* put it back.  The job may die at any time; a new one starts from the    *)
(* checkpoint.                                                             *)
(*                                                                         *)
(* Weights are counted: base by updates of the full model, adapter by      *)
(* updates of a LoRA adapter.  A random state is a seed and the number of  *)
(* draws made from it.                                                     *)
(***************************************************************************)
EXTENDS Naturals, FiniteSets

CONSTANTS
  Ranks,       \* the processes, one to a GPU
  GroupOf,     \* GroupOf[r]: the tensor parallel group of r in the engine
  Leads,       \* the ranks with infer_tp local rank 0
  Configs,     \* the configurations: see ConfigType
  MaxSteps,    \* total_training_steps
  MaxTurns,    \* bound on generate_sequences calls of one rollout
  MaxCrashes,  \* bound on deaths of the job
  Dummy,       \* weights that the engine made up (load_format dummy)
  None         \* no checkpoint

Groups == {GroupOf[r] : r \in Ranks}
\* tags: wake_up of the engine can take the weights alone.
ConfigType ==
  [backend : {"vllm", "sglang"}, tags : BOOLEAN, lora : BOOLEAN, dummy : BOOLEAN,
   offParam : BOOLEAN, offOptim : BOOLEAN]

ASSUME EngineAssumption ==
  /\ Ranks # {} /\ GroupOf \in [Ranks -> Groups] /\ Leads \subseteq Ranks
  /\ \A g \in Groups : \E r \in Leads : GroupOf[r] = g
  /\ Configs \subseteq ConfigType
  /\ \A c \in Configs : c.lora => c.backend = "vllm"
  /\ MaxSteps \in Nat \ {0} /\ MaxTurns \in Nat \ {0} /\ MaxCrashes \in Nat
  /\ Dummy \notin Nat

VARIABLES
  conf,      \* the configuration
  driver,    \* where fit is: stage, step, turn of the rollout
  called,    \* whether the call of the stage is under way
  at,        \* at[r]: how far rank r is with it
  place,     \* place[r][x]: where rank r holds x
  policy,    \* the actor's weights
  engine,    \* engine[r]: what is awake, and the weights
  synced,    \* base_sync_done of the sharding manager
  rng,       \* rng[r]: random state of the device
  torchRng,  \* torch_random_states of the sharding manager
  genRng,    \* gen_random_states of the sharding manager
  disk,      \* the checkpoint to resume from
  crashes,   \* deaths so far
  drawn,     \* history: drawn[r], the training's draws on r
  sampled    \* history: sampled[g], the generations of group g in this job

rankVars == <<at, place, engine, synced, rng, torchRng, genRng>>
vars == <<conf, driver, called, policy, disk, crashes, drawn, sampled, rankVars>>

-----------------------------------------------------------------------------
(* The stages of fit, the call each makes, and what may follow.            *)

CallOf ==
  [load |-> "load", cload |-> "load", val |-> "generate", gen |-> "generate",
   logp |-> "score", ref |-> "score", values |-> "score",
   ucritic |-> "update", update |-> "update", test |-> "generate",
   save |-> "save", csave |-> "save", done |-> "none"]

\* The module a call is about.
ModelOf(stage) ==
  IF stage \in {"cload", "values", "ucritic", "csave"} THEN "critic" ELSE "actor"

\* "next" is the next step.  The warm-up of the critic skips "update", and
\* the frequencies of tests and of saving are left open.
Follows ==
  [load |-> {"cload"}, cload |-> {"val", "gen"}, val |-> {"gen"}, gen |-> {"logp"},
   logp |-> IF conf.lora THEN {"ref"} ELSE {"values"}, ref |-> {"values"},
   values |-> {"ucritic"}, ucritic |-> {"update", "test", "save", "next"},
   update |-> {"test", "save", "next"}, test |-> {"save", "next"},
   save |-> {"csave"}, csave |-> {"next"}, done |-> {}]

At(stage, step) == [stage |-> stage, step |-> step, turn |-> 1]

After(d) ==
  {At(s, d.step) : s \in Follows[d.stage] \ {"next"}}
  \union {At(IF d.step >= MaxSteps THEN "done" ELSE "gen", d.step + 1) :
            s \in Follows[d.stage] \intersect {"next"}}
  \union {[d EXCEPT !.turn = @ + 1] :
            s \in {t \in {d.stage} : CallOf[t] = "generate" /\ d.turn < MaxTurns}}

-----------------------------------------------------------------------------
(* A new job: init_model on every rank.                                    *)

Torch(r, n) == [of |-> "torch", seed |-> r, n |-> n]
Gen(r, n) == [of |-> "gen", seed |-> GroupOf[r], n |-> n]

AtRest(c) == [x \in {"actor", "critic"} |-> IF c.offParam THEN "cpu" ELSE "gpu"]
FreshPlace(c) ==
  [x \in {"actor", "critic", "actorOptim", "criticOptim"} |->
     IF x \in {"actor", "critic"} THEN AtRest(c)[x] ELSE "none"]
FreshEngine(c) ==
  [up |-> {}, base |-> IF c.dummy THEN Dummy ELSE 0, adapter |-> 0]

\* The ranks that run an engine: with SGLang the first of each group.
EngineRanks == IF conf.backend = "vllm" THEN Ranks ELSE Leads

Init ==
  /\ conf \in Configs
  /\ disk = None /\ crashes = 0
  /\ driver \in {At("val", 1), At("gen", 1)} /\ called = FALSE
  /\ at = [r \in Ranks |-> "idle"]
  /\ place = [r \in Ranks |-> FreshPlace(conf)]
  /\ policy = [base |-> 0, adapter |-> 0]
  /\ engine = [r \in Ranks |-> FreshEngine(conf)]
  /\ synced = [r \in Ranks |-> ~conf.dummy]
  /\ rng = [r \in Ranks |-> Torch(r, 0)]
  /\ torchRng = [r \in Ranks |-> Torch(r, 0)]
  /\ genRng = [r \in Ranks |-> Gen(r, 0)]
  /\ drawn = [r \in Ranks |-> 0]
  /\ sampled = [g \in Groups |-> 0]

\* The job dies, and all its processes; _load_checkpoint of the next one
\* finds the checkpoint, if there is one.
Restart ==
  /\ driver.stage # "done" /\ crashes < MaxCrashes
  /\ crashes' = crashes + 1
  /\ driver' \in IF disk = None THEN {At("val", 1), At("gen", 1)}
                                ELSE {At("load", disk.step + 1)}
  /\ called' = FALSE
  /\ at' = [r \in Ranks |-> "idle"]
  /\ place' = [r \in Ranks |-> FreshPlace(conf)]
  /\ policy' = [base |-> 0, adapter |-> 0]
  /\ engine' = [r \in Ranks |-> FreshEngine(conf)]
  /\ synced' = [r \in Ranks |-> ~conf.dummy]
  /\ rng' = [r \in Ranks |-> Torch(r, 0)]
  /\ torchRng' = [r \in Ranks |-> Torch(r, 0)]
  /\ genRng' = [r \in Ranks |-> Gen(r, 0)]
  /\ drawn' = [r \in Ranks |-> 0]
  /\ sampled' = [g \in Groups |-> 0]
  /\ UNCHANGED <<conf, disk>>

-----------------------------------------------------------------------------
(* The driver.                                                             *)

Doing(call) == called /\ CallOf[driver.stage] = call
AllAt(R, p) == \A r \in R : at[r] = p
Move(R, p) == at' = [r \in Ranks |-> IF r \in R THEN p ELSE at[r]]

Issue ==
  /\ ~called /\ driver.stage # "done"
  /\ called' = TRUE
  /\ Move(Ranks, "asked")
  /\ UNCHANGED <<conf, driver, policy, disk, crashes, drawn, sampled,
                 place, engine, synced, rng, torchRng, genRng>>

\* Every rank has answered.  The tracker file, written when the critic is
\* saved too, makes the checkpoint the one to resume from.
Return ==
  /\ called /\ AllAt(Ranks, "idle")
  /\ called' = FALSE
  /\ driver' \in After(driver)
  /\ disk' = IF driver.stage # "csave" THEN disk
             ELSE [step |-> driver.step, policy |-> policy, rng |-> rng, drawn |-> drawn,
                   optim |-> [x \in {"actorOptim", "criticOptim"} |->
                                \E r \in Ranks : place[r][x] # "none"]]
  /\ UNCHANGED <<conf, policy, crashes, drawn, sampled, rankVars>>

-----------------------------------------------------------------------------
(* generate_sequences: the sharding manager around the engine.             *)

Put(r, x, where) == [place EXCEPT ![r][x] = where]

\* What vLLM takes first: its weights, unless it can only take everything.
Woken == IF conf.tags THEN {"weights"} ELSE {"weights", "kv"}

\* Mutant: only the first rank of a group takes part in the transfer.
BugGather(r) ==
  /\ Doing("generate") /\ at[r] = "asked" /\ r \in Leads
  /\ Move({r}, "gathered")
  /\ place' = Put(r, "actor", "gpu")
  /\ engine' = [engine EXCEPT ![r].up = Woken]
  /\ UNCHANGED <<conf, driver, called, policy, disk, crashes, drawn, sampled,
                 synced, rng, torchRng, genRng>>

\* __enter__ up to the state dict: the actor onto the GPU, and the engine's
\* memory taken again.  SGLang takes all of it.
Gather(r) ==
  /\ Doing("generate") /\ at[r] = "asked"
  /\ Move({r}, "gathered")
  /\ place' = Put(r, "actor", "gpu")
  /\ engine' = [engine EXCEPT ![r].up =
                  IF conf.backend = "vllm" THEN Woken
                  ELSE {x \in {"weights", "kv"} : r \in Leads}]
  /\ UNCHANGED <<conf, driver, called, policy, disk, crashes, drawn, sampled,
                 synced, rng, torchRng, genRng>>

\* Mutant: a base that was sent once is never sent again.
BugUpdated(r) ==
  IF synced[r] THEN [engine[r] EXCEPT !.adapter = policy.adapter]
               ELSE [engine[r] EXCEPT !.base = policy.base]

\* update_params: the full weights, or, once the base has been sent, the
\* adapter only.
Updated(r) ==
  IF conf.lora /\ synced[r] THEN [engine[r] EXCEPT !.adapter = policy.adapter]
                            ELSE [engine[r] EXCEPT !.base = policy.base]

\* full_tensor gathers every shard from all ranks.
LoadWeights ==
  /\ Doing("generate") /\ AllAt(Ranks, "gathered")
  /\ Move(Ranks, "loaded")
  /\ engine' = [r \in Ranks |-> IF r \in EngineRanks THEN Updated(r) ELSE engine[r]]
  /\ synced' = [r \in Ranks |-> TRUE]
  /\ UNCHANGED <<conf, driver, called, policy, disk, crashes, drawn, sampled,
                 place, rng, torchRng, genRng>>

\* A vLLM that can be woken up in parts builds its cache after the actor has
\* left the GPU.
TakesCacheLast == conf.backend = "vllm" /\ conf.tags

\* Mutant: the random state is saved after it was replaced.
BugEnter(r) ==
  /\ Doing("generate") /\ at[r] = "loaded"
  /\ Move({r}, "awake")
  /\ place' = IF conf.offParam THEN Put(r, "actor", "cpu") ELSE place
  /\ engine' = IF TakesCacheLast THEN [engine EXCEPT ![r].up = @ \union {"kv"}]
                                  ELSE engine
  /\ torchRng' = [torchRng EXCEPT ![r] = genRng[r]]
  /\ rng' = [rng EXCEPT ![r] = genRng[r]]
  /\ UNCHANGED <<conf, driver, called, policy, disk, crashes, drawn, sampled,
                 synced, genRng>>

\* The end of __enter__: the actor leaves the GPU, the cache is built, and
\* the device gets the random state of the generation.
Enter(r) ==
  /\ Doing("generate") /\ at[r] = "loaded"
  /\ Move({r}, "awake")
  /\ place' = IF conf.offParam THEN Put(r, "actor", "cpu") ELSE place
  /\ engine' = IF TakesCacheLast THEN [engine EXCEPT ![r].up = @ \union {"kv"}]
                                  ELSE engine
  /\ torchRng' = [torchRng EXCEPT ![r] = rng[r]]
  /\ rng' = [rng EXCEPT ![r] = genRng[r]]
  /\ UNCHANGED <<conf, driver, called, policy, disk, crashes, drawn, sampled,
                 synced, genRng>>

\* The engine of a group generates.  vLLM runs in the ranks' processes and
\* draws from their devices; SGLang runs in a process of its own.
Sample(g) ==
  LET R == {r \in Ranks : GroupOf[r] = g} IN
  /\ Doing("generate") /\ AllAt(R, "awake")
  /\ Move(R, "sampled")
  /\ rng' = [r \in Ranks |-> IF r \in R /\ conf.backend = "vllm"
                             THEN [rng[r] EXCEPT !.n = @ + 1] ELSE rng[r]]
  /\ sampled' = [sampled EXCEPT ![g] = IF conf.backend = "vllm" THEN @ + 1 ELSE @]
  /\ UNCHANGED <<conf, driver, called, policy, disk, crashes, drawn,
                 place, engine, synced, torchRng, genRng>>

\* Mutant: every generation starts from the same random state.
BugLeave(r) ==
  /\ Doing("generate") /\ at[r] = "sampled"
  /\ Move({r}, "idle")
  /\ engine' = [engine EXCEPT ![r].up = {}]
  /\ rng' = [rng EXCEPT ![r] = torchRng[r]]
  /\ UNCHANGED <<conf, driver, called, policy, disk, crashes, drawn, sampled,
                 place, synced, torchRng, genRng>>

\* __exit__: the engine sleeps, and the random states are swapped back.
Leave(r) ==
  /\ Doing("generate") /\ at[r] = "sampled"
  /\ Move({r}, "idle")
  /\ engine' = [engine EXCEPT ![r].up = {}]
  /\ genRng' = [genRng EXCEPT ![r] = rng[r]]
  /\ rng' = [rng EXCEPT ![r] = torchRng[r]]
  /\ UNCHANGED <<conf, driver, called, policy, disk, crashes, drawn, sampled,
                 place, synced, torchRng>>

-----------------------------------------------------------------------------
(* The calls that compute with the model.                                  *)

Model == ModelOf(driver.stage)
Optim == IF Model = "actor" THEN "actorOptim" ELSE "criticOptim"

\* load_fsdp_model_to_gpu and, for an update, load_fsdp_optimizer, which
\* finds nothing to move before the first step of the optimizer.
Loaded(p) ==
  [x \in DOMAIN p |->
     IF \/ x = Model
        \/ x = Optim /\ CallOf[driver.stage] = "update" /\ p[x] # "none"
     THEN "gpu" ELSE p[x]]

Load(r) ==
  /\ called /\ CallOf[driver.stage] # "generate" /\ at[r] = "asked"
  /\ Move({r}, "ready")
  /\ place' = [place EXCEPT ![r] = Loaded(@)]
  /\ UNCHANGED <<conf, driver, called, policy, disk, crashes, drawn, sampled,
                 engine, synced, rng, torchRng, genRng>>

\* compute_log_prob, compute_ref_log_prob, compute_values: without gradients
\* and dropout.  save_checkpoint: every rank writes its shards.
Evaluate ==
  /\ Doing("score") \/ Doing("save")
  /\ AllAt(Ranks, "ready")
  /\ Move(Ranks, "computed")
  /\ UNCHANGED <<conf, driver, called, policy, disk, crashes, drawn, sampled,
                 place, engine, synced, rng, torchRng, genRng>>

Trained ==
  IF conf.lora THEN [policy EXCEPT !.adapter = @ + 1] ELSE [policy EXCEPT !.base = @ + 1]

\* The optimizer steps, unless the norm of the gradient is not finite; the
\* dropout of the training mode draws.
Update ==
  /\ Doing("update") /\ AllAt(Ranks, "ready")
  /\ Move(Ranks, "computed")
  /\ \E finite \in BOOLEAN :
       /\ policy' = IF finite /\ Model = "actor" THEN Trained ELSE policy
       /\ place' = IF finite THEN [r \in Ranks |-> [place[r] EXCEPT ![Optim] = "gpu"]]
                             ELSE place
  /\ rng' = [r \in Ranks |-> [rng[r] EXCEPT !.n = @ + 1]]
  /\ drawn' = [r \in Ranks |-> drawn[r] + 1]
  /\ UNCHANGED <<conf, driver, called, disk, crashes, sampled,
                 engine, synced, torchRng, genRng>>

\* load_checkpoint: shards and random state of the rank.
Restore ==
  /\ Doing("load") /\ AllAt(Ranks, "ready")
  /\ Move(Ranks, "computed")
  /\ policy' = IF Model = "actor" THEN disk.policy ELSE policy
  /\ place' = IF disk.optim[Optim]
              THEN [r \in Ranks |-> [place[r] EXCEPT ![Optim] = "gpu"]] ELSE place
  /\ rng' = disk.rng /\ drawn' = disk.drawn
  /\ UNCHANGED <<conf, driver, called, disk, crashes, sampled,
                 engine, synced, torchRng, genRng>>

\* Mutant: a load leaves the optimizer on the GPU.
BugOffloaded(p) ==
  [x \in DOMAIN p |->
     IF \/ x = Model /\ conf.offParam
        \/ x = Optim /\ conf.offOptim /\ p[x] # "none" /\ CallOf[driver.stage] = "update"
     THEN "cpu" ELSE p[x]]

\* offload_fsdp_model_to_cpu and, after an update or a load,
\* offload_fsdp_optimizer.
Offloaded(p) ==
  [x \in DOMAIN p |->
     IF \/ x = Model /\ conf.offParam
        \/ /\ x = Optim /\ conf.offOptim /\ p[x] # "none"
           /\ CallOf[driver.stage] \in {"update", "load"}
     THEN "cpu" ELSE p[x]]

Offload(r) ==
  /\ called /\ at[r] = "computed"
  /\ Move({r}, "idle")
  /\ place' = [place EXCEPT ![r] = Offloaded(@)]
  /\ UNCHANGED <<conf, driver, called, policy, disk, crashes, drawn, sampled,
                 engine, synced, rng, torchRng, genRng>>

-----------------------------------------------------------------------------

Work ==
  \/ Issue \/ Return \/ LoadWeights \/ Evaluate \/ Update \/ Restore
  \/ \E r \in Ranks : Gather(r) \/ Enter(r) \/ Leave(r) \/ Load(r) \/ Offload(r)
  \/ \E g \in Groups : Sample(g)

Next == Restart \/ Work

Spec == Init /\ [][Next]_vars

\* The driver waits for its calls, and every rank runs what it is asked.
FairSpec == Spec /\ WF_vars(Work)

-----------------------------------------------------------------------------
(* What the shared GPUs must keep to.                                      *)

StreamType == [of : {"torch", "gen"}, seed : Ranks \union Groups, n : Nat]
DriverType ==
  /\ conf \in Configs /\ called \in BOOLEAN
  /\ driver \in [stage : DOMAIN CallOf, step : Nat, turn : 1 .. MaxTurns]
WorkerType ==
  /\ at \in [Ranks -> {"idle", "asked", "gathered", "loaded", "awake", "sampled",
                       "ready", "computed"}]
  /\ place \in [Ranks -> [{"actor", "critic", "actorOptim", "criticOptim"}
                            -> {"gpu", "cpu", "none"}]]
  /\ policy \in [base : Nat, adapter : Nat]
  /\ engine \in [Ranks -> [up : SUBSET {"weights", "kv"}, base : Nat \union {Dummy},
                           adapter : Nat]]
  /\ synced \in [Ranks -> BOOLEAN]
  /\ rng \in [Ranks -> StreamType] /\ torchRng \in [Ranks -> StreamType]
  /\ genRng \in [Ranks -> StreamType]
  /\ drawn \in [Ranks -> Nat] /\ sampled \in [Groups -> Nat]

\* Type invariant.
TypeOK == DriverType /\ WorkerType

\* A LoRA policy is handed to an engine of made-up weights in two transfers,
\* the base in the first of a job and the adapter from the second on.
SentInTwo == conf.lora /\ conf.dummy

\* Every turn is generated with the actor's current weights, on every rank:
\* after updates that were skipped, a critic warm-up, tests, and a resume.
\* The one exception is the first generation of a job whose policy is sent in
\* two: it has the current base and no adapter, whatever was trained before.
GenerationIsThePolicys ==
  \A r \in EngineRanks : at[r] = "awake" =>
    /\ engine[r].base = policy.base
    /\ engine[r].adapter =
         IF SentInTwo /\ sampled[GroupOf[r]] = 0 THEN 0 ELSE policy.adapter

\* What the docstring of __collect_lora_params says: that an engine whose base
\* is not ready gets the full parameters, so that the first generation too is
\* the policy's.  After a resume it is not: the parameters whose name holds
\* 'lora_' are left out.
FirstGenerationIsThePolicys ==
  \A r \in EngineRanks : at[r] = "awake" /\ sampled[GroupOf[r]] = 0 =>
    engine[r].base = policy.base /\ engine[r].adapter = policy.adapter

\* The ranks of a group sample from one random state, groups from different
\* ones, and no draw serves twice in the life of a job.
RanksOfAGroupAgree ==
  conf.backend = "vllm" =>
    \A r \in Ranks : at[r] = "awake" => rng[r] = Gen(r, sampled[GroupOf[r]])

\* Training draws from the rank's own random state, in order and without a
\* gap, however many generations, tests and restarts lie between.
TrainingDrawsInOrder ==
  \A r \in Ranks : at[r] \in {"ready", "computed"} => rng[r] = Torch(r, drawn[r])

\* An engine generates only when all that can be offloaded is off its GPU, and
\* no training call meets an engine that is awake.  Where the cache can be
\* taken last, the GPU is clear from then on.  (An engine that takes weights
\* and cache at once, SGLang or an old vLLM, takes them while the actor is
\* still on the GPU.)
CacheStandsAlone ==
  \A r \in Ranks :
    /\ "kv" \in engine[r].up /\ (TakesCacheLast \/ at[r] \in {"awake", "sampled"}) =>
         /\ conf.offParam => place[r]["actor"] = "cpu" /\ place[r]["critic"] = "cpu"
         /\ conf.offOptim => place[r]["actorOptim"] # "gpu" /\ place[r]["criticOptim"] # "gpu"
    /\ at[r] \in {"ready", "computed"} => engine[r].up = {}

\* A call computes on the GPU: the model, and for an update what the
\* optimizer holds.
ComputesOnGpu ==
  \A r \in Ranks : at[r] = "ready" =>
    /\ place[r][Model] = "gpu"
    /\ CallOf[driver.stage] = "update" => place[r][Optim] # "cpu"

\* What a call needs of the GPU is there, and nothing that it must not meet.
MemoryIsInPlace == CacheStandsAlone /\ ComputesOnGpu

\* The training ends: no rank waits in a collective for one that is not coming.
RunEnds == <>(driver.stage = "done")
=============================================================================
