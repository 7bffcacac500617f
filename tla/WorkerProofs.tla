---------------------------- MODULE WorkerProofs ----------------------------
(***************************************************************************)
(* What HybridEngine and Dispatch keep to for every set of ranks, any      *)
(* number of steps, turns and deaths of the job: the shapes of the state,  *)
(* the random states, the memory of the GPUs and the weights of the        *)
(* engine; and which rows of a batch each rank has in hand, whatever the   *)
(* batch, its weights and the size of a micro-batch.                       *)
(***************************************************************************)
EXTENDS HybridEngine, Dispatch, ProofLemmas

Generating == {"gathered", "loaded", "awake", "sampled"}
Computing == {"ready", "computed"}
Optims == {"actorOptim", "criticOptim"}
DiskType ==
  disk # None =>
    /\ disk.step \in Nat /\ disk.policy \in [base : Nat, adapter : Nat]
    /\ disk.drawn \in [Ranks -> Nat]
    /\ disk.rng = [r \in Ranks |-> Torch(r, disk.drawn[r])]

\* Where a rank can be depends on the call that is under way.
Positions ==
  /\ ~called => \A r \in Ranks : at[r] = "idle"
  /\ \A r \in Ranks : /\ at[r] \in Generating => CallOf[driver.stage] = "generate"
                      /\ at[r] \in Computing => CallOf[driver.stage] # "generate"
  /\ driver.stage \in {"load", "cload"} => disk # None

\* Which random state is where.
Streams(r) ==
  /\ at[r] \in {"awake", "sampled"} =>
       torchRng[r] = Torch(r, drawn[r]) /\ rng[r] = Gen(r, sampled[GroupOf[r]])
  /\ at[r] \notin {"awake", "sampled"} =>
       rng[r] = Torch(r, drawn[r]) /\ genRng[r] = Gen(r, sampled[GroupOf[r]])

Shape == DriverType /\ WorkerType /\ DiskType
Base == Shape /\ Positions
StreamInv == \A r \in Ranks : Streams(r)

-----------------------------------------------------------------------------
(* The driver.                                                             *)

\* CallOf and Follows are defined on the same stages, and a job that goes on
\* after a load has a checkpoint.
LEMMA Successors ==
  ASSUME conf \in Configs, NEW d \in [stage : DOMAIN CallOf, step : Nat, turn : 1 .. MaxTurns],
         NEW e \in After(d)
  PROVE  /\ e \in [stage : DOMAIN CallOf, step : Nat, turn : 1 .. MaxTurns]
         /\ e.stage \in {"load", "cload"} => d.stage = "load"
<1>. DEFINE Stages == {"load", "cload", "val", "gen", "logp", "ref", "values", "ucritic",
                       "update", "test", "save", "csave", "done"}
<1>1. DOMAIN CallOf = Stages
  BY DEF CallOf
<1>2. \A s \in Stages : \A t \in Follows[s] :
        t \in Stages \union {"next"} /\ (t \in {"load", "cload"} => s = "load")
  BY DEF Follows
<1>3. d.stage \in Stages /\ d.step \in Nat /\ d.turn \in 1 .. MaxTurns /\ MaxTurns \in Nat \ {0}
  BY <1>1, EngineAssumption
<1>4. CASE \E s \in Follows[d.stage] \ {"next"} : e = At(s, d.step)
  <2>1. PICK s \in Follows[d.stage] \ {"next"} : e = At(s, d.step)
    BY <1>4
  <2>2. s \in Stages /\ (s \in {"load", "cload"} => d.stage = "load")
    BY <1>2, <1>3
  <2>3. e = [stage |-> s, step |-> d.step, turn |-> 1]
    BY <2>1 DEF At
  <2>. HIDE DEF Stages
  <2>. QED BY <1>1, <1>3, <2>2, <2>3
<1>5. CASE e = At(IF d.step >= MaxSteps THEN "done" ELSE "gen", d.step + 1)
  <2>1. e.stage \in {"done", "gen"} /\ e.step = d.step + 1 /\ e.turn = 1
    BY <1>5 DEF At
  <2>2. e = [stage |-> e.stage, step |-> d.step + 1, turn |-> 1]
    BY <1>5 DEF At
  <2>. QED BY <1>1, <1>3, <2>1, <2>2
<1>6. CASE d.turn < MaxTurns /\ CallOf[d.stage] = "generate" /\ e = [d EXCEPT !.turn = @ + 1]
  <2>1. d.stage \notin {"load", "cload"}
    BY <1>6 DEF CallOf
  <2>2. e.stage = d.stage /\ e.step = d.step /\ e.turn = d.turn + 1
    BY <1>6
  <2>3. d.turn + 1 \in 1 .. MaxTurns
    BY <1>3, <1>6
  <2>. QED BY <1>1, <1>3, <1>6, <2>1, <2>2, <2>3
<1>. QED BY <1>4, <1>5, <1>6 DEF After

-----------------------------------------------------------------------------
(* The shapes of the state, and where the ranks are.                       *)

LEMMA FreshShape ==
  ASSUME conf \in Configs
  PROVE  /\ FreshPlace(conf) \in [{"actor", "critic", "actorOptim", "criticOptim"}
                                    -> {"gpu", "cpu", "none"}]
         /\ FreshEngine(conf) \in [up : SUBSET {"weights", "kv"}, base : Nat \union {Dummy},
                                   adapter : Nat]
         /\ (~conf.dummy) \in BOOLEAN
<1>1. \A x \in {"actor", "critic", "actorOptim", "criticOptim"} :
        FreshPlace(conf)[x] \in {"gpu", "cpu", "none"}
  BY DEF FreshPlace, AtRest
<1>2. FreshPlace(conf) = [x \in {"actor", "critic", "actorOptim", "criticOptim"} |->
                            FreshPlace(conf)[x]]
  BY DEF FreshPlace
<1>3. FreshPlace(conf) \in [{"actor", "critic", "actorOptim", "criticOptim"}
                              -> {"gpu", "cpu", "none"}]
  BY <1>1, <1>2
<1>4. (IF conf.dummy THEN Dummy ELSE 0) \in Nat \union {Dummy}
  OBVIOUS
<1>5. FreshEngine(conf) \in [up : SUBSET {"weights", "kv"}, base : Nat \union {Dummy},
                             adapter : Nat]
  BY <1>4 DEF FreshEngine
<1>6. (~conf.dummy) \in BOOLEAN
  OBVIOUS
<1>. QED BY <1>3, <1>5, <1>6

LEMMA StreamsTyped ==
  ASSUME NEW r \in Ranks, NEW n \in Nat
  PROVE  Torch(r, n) \in StreamType /\ Gen(r, n) \in StreamType
  BY DEF Torch, Gen, StreamType, Groups

\* The next draw of a random state is one of the same kind.
LEMMA DrawTyped ==
  ASSUME NEW s \in StreamType
  PROVE  [s EXCEPT !.n = @ + 1] \in StreamType
<1>1. s.n + 1 \in Nat
  BY DEF StreamType
<1>2. [s EXCEPT !.n = @ + 1] = [of |-> s.of, seed |-> s.seed, n |-> s.n + 1]
  BY DEF StreamType
<1>. QED BY <1>1, <1>2 DEF StreamType

\* Weights put into an engine leave it an engine.
LEMMA UpdatedTyped ==
  ASSUME NEW r \in Ranks, WorkerType
  PROVE  Updated(r) \in [up : SUBSET {"weights", "kv"}, base : Nat \union {Dummy},
                          adapter : Nat]
<1>1. /\ engine[r] \in [up : SUBSET {"weights", "kv"}, base : Nat \union {Dummy}, adapter : Nat]
      /\ policy.base \in Nat /\ policy.adapter \in Nat
  BY DEF WorkerType
<1>2. CASE conf.lora /\ synced[r]
  <2>1. Updated(r) = [up |-> engine[r].up, base |-> engine[r].base, adapter |-> policy.adapter]
    BY <1>1, <1>2 DEF Updated
  <2>. QED BY <1>1, <2>1
<1>3. CASE ~(conf.lora /\ synced[r])
  <2>1. Updated(r) = [up |-> engine[r].up, base |-> policy.base, adapter |-> engine[r].adapter]
    BY <1>1, <1>3 DEF Updated
  <2>. QED BY <1>1, <2>1
<1>. QED BY <1>2, <1>3

\* Moving what a call needs, to the GPU and back, leaves a place for everything.
LEMMA MovedTyped ==
  ASSUME NEW p \in [{"actor", "critic", "actorOptim", "criticOptim"} -> {"gpu", "cpu", "none"}]
  PROVE  /\ Loaded(p) \in [{"actor", "critic", "actorOptim", "criticOptim"}
                              -> {"gpu", "cpu", "none"}]
         /\ Offloaded(p) \in [{"actor", "critic", "actorOptim", "criticOptim"}
                                 -> {"gpu", "cpu", "none"}]
  BY DEF Loaded, Offloaded

LEMMA InitBase == Init => Base
<1> SUFFICES ASSUME Init PROVE Base
  OBVIOUS
<1>1. DriverType
  <2>1. 1 \in 1 .. MaxTurns /\ {"val", "gen"} \subseteq DOMAIN CallOf
    BY EngineAssumption DEF CallOf
  <2>2. \A s \in DOMAIN CallOf :
          At(s, 1) \in [stage : DOMAIN CallOf, step : Nat, turn : 1 .. MaxTurns]
    BY <2>1 DEF At
  <2>. QED BY <2>1, <2>2 DEF Init, DriverType
<1>2. WorkerType
  BY FreshShape, StreamsTyped DEF Init, WorkerType
<1>3. DiskType /\ Positions
  BY DEF Init, At, DiskType, Positions, Generating, Computing
<1>. QED BY <1>1, <1>2, <1>3 DEF Base, Shape

LEMMA RestartBase == Base /\ Restart => Base'
<1> SUFFICES ASSUME Base, Restart PROVE Base'
  OBVIOUS
<1>1. conf \in Configs /\ conf' = conf /\ disk' = disk
  BY DEF Restart, Base, Shape, DriverType
<1>2. DriverType'
  <2>1. disk # None => disk.step + 1 \in Nat
    BY DEF Base, Shape, DiskType
  <2>2. 1 \in 1 .. MaxTurns
    BY EngineAssumption
  <2>3. \A s \in DOMAIN CallOf, n \in Nat :
          At(s, n) \in [stage : DOMAIN CallOf, step : Nat, turn : 1 .. MaxTurns]
    BY <2>2 DEF At
  <2>4. {"load", "val", "gen"} \subseteq DOMAIN CallOf
    BY DEF CallOf
  <2>5. driver' \in [stage : DOMAIN CallOf, step : Nat, turn : 1 .. MaxTurns]
    BY <2>1, <2>3, <2>4, ZenonT(60) DEF Restart
  <2>. QED BY <1>1, <2>5 DEF Restart, DriverType
<1>3. WorkerType'
  BY <1>1, FreshShape, StreamsTyped DEF Restart, WorkerType
<1>4. DiskType'
  BY <1>1 DEF Base, Shape, DiskType
<1>5. Positions'
  BY <1>1 DEF Restart, Positions, Generating, Computing, At
<1>. QED BY <1>2, <1>3, <1>4, <1>5 DEF Base, Shape

LEMMA ReturnBase == Base /\ StreamInv /\ Return => Base'
<1> SUFFICES ASSUME Base, StreamInv, Return PROVE Base'
  OBVIOUS
<1>. USE DEF Base, Shape
<1>1. driver \in [stage : DOMAIN CallOf, step : Nat, turn : 1 .. MaxTurns] /\ conf \in Configs
  BY DEF DriverType
<1>2. /\ driver' \in [stage : DOMAIN CallOf, step : Nat, turn : 1 .. MaxTurns]
      /\ driver'.stage \in {"load", "cload"} => driver.stage = "load"
  BY <1>1, Successors DEF Return
<1>3. DriverType' /\ WorkerType'
  BY <1>2 DEF Return, DriverType, WorkerType, rankVars
<1>4. rng = [r \in Ranks |-> Torch(r, drawn[r])]
  BY DEF StreamInv, Streams, Return, AllAt, WorkerType
<1>5. DiskType'
  <2>1. CASE driver.stage # "csave"
    BY <2>1 DEF Return, DiskType
  <2>2. CASE driver.stage = "csave"
    <3>1. /\ disk'.step = driver.step /\ disk'.policy = policy
          /\ disk'.rng = rng /\ disk'.drawn = drawn
      BY <2>2 DEF Return
    <3>. QED BY <1>1, <1>4, <3>1 DEF DiskType, WorkerType
  <2>. QED BY <2>1, <2>2
<1>6. Positions'
  <2>1. driver'.stage \in {"load", "cload"} => disk' # None
    BY <1>2 DEF Return, Positions
  <2>2. \A r \in Ranks : at'[r] = "idle"
    BY DEF Return, AllAt, rankVars
  <2>. QED BY <2>1, <2>2 DEF Positions, Generating, Computing
<1>. QED BY <1>3, <1>5, <1>6

\* The steps of a call leave the driver and the checkpoint alone.
Quiet == UNCHANGED <<conf, driver, called, disk>>

LEMMA QuietBase ==
  ASSUME Base, Quiet, WorkerType', called,
         \A r \in Ranks : \/ at'[r] = at[r] \/ at'[r] = "idle"
                          \/ at'[r] \in Generating /\ CallOf[driver.stage] = "generate"
                          \/ at'[r] \in Computing /\ CallOf[driver.stage] # "generate"
  PROVE  Base'
<1>1. DriverType' /\ DiskType'
  BY DEF Base, Shape, DriverType, DiskType, Quiet
<1>2. Positions'
  BY DEF Base, Positions, Quiet, Generating, Computing
<1>. QED BY <1>1, <1>2 DEF Base, Shape

LEMMA WorkerStepBase ==
  Base /\ (\/ Issue \/ LoadWeights \/ Evaluate \/ Update \/ Restore
           \/ \E r \in Ranks : Gather(r) \/ Enter(r) \/ Leave(r) \/ Load(r) \/ Offload(r)
           \/ \E g \in Groups : Sample(g)) => Base'
<1>. USE DEF Base, Shape, WorkerType, Quiet, Move, Doing
<1>1. ASSUME Base, Issue PROVE Base'
  <2>1. WorkerType' /\ DriverType' /\ DiskType'
    BY <1>1 DEF Issue, DriverType, DiskType
  <2>2. Positions'
    BY <1>1 DEF Issue, Positions, Generating, Computing
  <2>. QED BY <2>1, <2>2
<1>2. ASSUME Base, NEW r \in Ranks, Gather(r) PROVE Base'
  <2>1. place' \in [Ranks -> [{"actor", "critic", "actorOptim", "criticOptim"}
                                -> {"gpu", "cpu", "none"}]]
    BY <1>2 DEF Gather, Put
  <2>2. engine' \in [Ranks -> [up : SUBSET {"weights", "kv"}, base : Nat \union {Dummy},
                               adapter : Nat]]
    BY <1>2 DEF Gather, Woken
  <2>3. WorkerType'
    BY <1>2, <2>1, <2>2 DEF Gather
  <2>. QED BY <1>2, <2>3, QuietBase DEF Gather, Generating
<1>3. ASSUME Base, LoadWeights PROVE Base'
  <2>1. \A r \in Ranks : Updated(r) \in [up : SUBSET {"weights", "kv"},
                                         base : Nat \union {Dummy}, adapter : Nat]
    BY <1>3, UpdatedTyped
  <2>2. WorkerType'
    BY <1>3, <2>1 DEF LoadWeights
  <2>. QED BY <1>3, <2>2, QuietBase DEF LoadWeights, Generating
<1>4. ASSUME Base, NEW r \in Ranks, Enter(r) PROVE Base'
  <2>1. place' \in [Ranks -> [{"actor", "critic", "actorOptim", "criticOptim"}
                                -> {"gpu", "cpu", "none"}]]
    BY <1>4 DEF Enter, Put
  <2>2. engine' \in [Ranks -> [up : SUBSET {"weights", "kv"}, base : Nat \union {Dummy},
                               adapter : Nat]]
    BY <1>4, SMTT(60) DEF Enter
  <2>3. WorkerType'
    BY <1>4, <2>1, <2>2 DEF Enter
  <2>. QED BY <1>4, <2>3, QuietBase DEF Enter, Generating
<1>5. ASSUME Base, NEW g \in Groups, Sample(g) PROVE Base'
  <2>1. \A r \in Ranks : [rng[r] EXCEPT !.n = @ + 1] \in StreamType
    BY <1>5, DrawTyped
  <2>2. WorkerType'
    BY <1>5, <2>1 DEF Sample
  <2>. QED BY <1>5, <2>2, QuietBase, EngineAssumption DEF Sample, Generating, AllAt
<1>6. ASSUME Base, NEW r \in Ranks, Leave(r) PROVE Base'
  <2>1. engine' \in [Ranks -> [up : SUBSET {"weights", "kv"}, base : Nat \union {Dummy},
                               adapter : Nat]]
    BY <1>6, SMTT(60) DEF Leave
  <2>2. genRng' \in [Ranks -> StreamType] /\ rng' \in [Ranks -> StreamType]
    BY <1>6 DEF Leave
  <2>3. WorkerType'
    BY <1>6, <2>1, <2>2 DEF Leave
  <2>. QED BY <1>6, <2>3, QuietBase DEF Leave
<1>7. ASSUME Base, NEW r \in Ranks, Load(r) PROVE Base'
  <2>1. place' \in [Ranks -> [{"actor", "critic", "actorOptim", "criticOptim"}
                                -> {"gpu", "cpu", "none"}]]
    BY <1>7, MovedTyped DEF Load
  <2>2. WorkerType'
    BY <1>7, <2>1 DEF Load
  <2>. QED BY <1>7, <2>2, QuietBase DEF Load, Computing
<1>8. ASSUME Base, Evaluate PROVE Base'
  <2>1. WorkerType'
    BY <1>8 DEF Evaluate
  <2>. QED BY <1>8, <2>1, QuietBase DEF Evaluate, Computing
<1>9. ASSUME Base, Update PROVE Base'
  <2>1. PICK finite \in BOOLEAN :
          /\ policy' = IF finite /\ Model = "actor" THEN Trained ELSE policy
          /\ place' = IF finite THEN [r \in Ranks |-> [place[r] EXCEPT ![Optim] = "gpu"]]
                                ELSE place
    BY <1>9 DEF Update
  <2>2. Trained \in [base : Nat, adapter : Nat]
    BY <1>9 DEF Trained
  <2>3. place' \in [Ranks -> [{"actor", "critic", "actorOptim", "criticOptim"}
                                -> {"gpu", "cpu", "none"}]]
    BY <1>9, <2>1
  <2>4. rng' \in [Ranks -> StreamType] /\ drawn' \in [Ranks -> Nat]
    BY <1>9, DrawTyped DEF Update
  <2>5. WorkerType'
    BY <1>9, <2>1, <2>2, <2>3, <2>4 DEF Update
  <2>. QED BY <1>9, <2>5, QuietBase DEF Update, Computing
<1>10. ASSUME Base, Restore PROVE Base'
  <2>1. disk # None
    BY <1>10 DEF Restore, Positions, CallOf, DriverType
  <2>2. policy' \in [base : Nat, adapter : Nat]
    BY <1>10, <2>1 DEF Restore, DiskType
  <2>3. place' \in [Ranks -> [{"actor", "critic", "actorOptim", "criticOptim"}
                                -> {"gpu", "cpu", "none"}]]
    BY <1>10 DEF Restore
  <2>4. rng' \in [Ranks -> StreamType] /\ drawn' \in [Ranks -> Nat]
    BY <1>10, <2>1, StreamsTyped DEF Restore, DiskType
  <2>5. WorkerType'
    BY <1>10, <2>2, <2>3, <2>4 DEF Restore
  <2>. QED BY <1>10, <2>5, QuietBase DEF Restore, Computing
<1>11. ASSUME Base, NEW r \in Ranks, Offload(r) PROVE Base'
  <2>1. place' \in [Ranks -> [{"actor", "critic", "actorOptim", "criticOptim"}
                                -> {"gpu", "cpu", "none"}]]
    BY <1>11, MovedTyped DEF Offload
  <2>2. WorkerType'
    BY <1>11, <2>1 DEF Offload
  <2>. QED BY <1>11, <2>2, QuietBase DEF Offload
<1>. QED
  BY <1>1, <1>2, <1>3, <1>4, <1>5, <1>6, <1>7, <1>8, <1>9, <1>10, <1>11

-----------------------------------------------------------------------------
(* Random states.                                                          *)

\* A draw is the next one of the same stream.
LEMMA NextDraw ==
  ASSUME NEW r \in Ranks, NEW n \in Nat
  PROVE  /\ [Torch(r, n) EXCEPT !.n = @ + 1] = Torch(r, n + 1)
         /\ [Gen(r, n) EXCEPT !.n = @ + 1] = Gen(r, n + 1)
  BY DEF Torch, Gen

LEMMA InitStreams == Init => StreamInv
  BY EngineAssumption DEF Init, StreamInv, Streams, Groups

LEMMA StreamStep == Base /\ StreamInv /\ Next => StreamInv'
<1> SUFFICES ASSUME Base, StreamInv PROVE Next => StreamInv'
  OBVIOUS
<1>. USE DEF StreamInv, Streams, Move, Doing, AllAt
<1>1. WorkerType
  BY DEF Base, Shape
<1>2. \A r \in Ranks : GroupOf[r] \in Groups
  BY DEF Groups
<1>3. ASSUME Restart PROVE StreamInv'
  BY <1>2, <1>3 DEF Restart
<1>4. ASSUME Issue PROVE StreamInv'
  BY <1>1, <1>4 DEF Issue, Base, Positions, WorkerType
<1>5. ASSUME Return PROVE StreamInv'
  BY <1>5 DEF Return, rankVars
<1>6. ASSUME LoadWeights PROVE StreamInv'
  BY <1>6 DEF LoadWeights
<1>7. ASSUME Evaluate PROVE StreamInv'
  BY <1>7 DEF Evaluate
<1>8. ASSUME Update PROVE StreamInv'
  <2>1. ASSUME NEW r \in Ranks PROVE at'[r] = "computed" /\ rng'[r] = Torch(r, drawn'[r])
    <3>1. rng[r] = Torch(r, drawn[r]) /\ drawn[r] \in Nat
      BY <1>1, <1>8 DEF Update, WorkerType
    <3>2. rng'[r] = [rng[r] EXCEPT !.n = @ + 1] /\ drawn'[r] = drawn[r] + 1
      BY <1>8 DEF Update
    <3>3. at'[r] = "computed"
      BY <1>8 DEF Update
    <3>. QED BY <3>1, <3>2, <3>3, NextDraw, ZenonT(60)
  <2>2. \A r \in Ranks : at[r] = "ready" /\ genRng'[r] = genRng[r] /\ sampled' = sampled
    BY <1>8 DEF Update
  <2>. QED BY <2>1, <2>2
<1>9. ASSUME Restore PROVE StreamInv'
  <2>1. disk # None
    BY <1>9 DEF Restore, Base, Shape, Positions, CallOf, DriverType
  <2>2. \A r \in Ranks : rng'[r] = Torch(r, drawn'[r])
    BY <1>9, <2>1 DEF Restore, Base, Shape, DiskType
  <2>. QED BY <1>9, <2>2 DEF Restore
<1>10. ASSUME NEW q \in Ranks, Gather(q) PROVE StreamInv'
  BY <1>10 DEF Gather
<1>11. ASSUME NEW q \in Ranks, Enter(q) PROVE StreamInv'
  BY <1>1, <1>11 DEF Enter, WorkerType
<1>12. ASSUME NEW q \in Ranks, Leave(q) PROVE StreamInv'
  BY <1>1, <1>12 DEF Leave, WorkerType
<1>13. ASSUME NEW q \in Ranks, Load(q) PROVE StreamInv'
  BY <1>13 DEF Load
<1>14. ASSUME NEW q \in Ranks, Offload(q) PROVE StreamInv'
  BY <1>14 DEF Offload
<1>15. ASSUME NEW g \in Groups, Sample(g) PROVE StreamInv'
  <2>1. ASSUME NEW r \in Ranks, GroupOf[r] = g PROVE Streams(r)'
    <3>1. at[r] = "awake" /\ at'[r] = "sampled" /\ sampled[g] \in Nat
      BY <1>1, <1>15, <2>1 DEF Sample, WorkerType
    <3>2. rng'[r] = Gen(r, sampled'[g])
      <4>1. rng[r] = Gen(r, sampled[g])
        BY <2>1, <3>1
      <4>2. CASE conf.backend = "vllm"
        <5>1. rng'[r] = [rng[r] EXCEPT !.n = @ + 1] /\ sampled'[g] = sampled[g] + 1
          BY <1>1, <1>15, <2>1, <4>2 DEF Sample, WorkerType
        <5>. QED BY <3>1, <4>1, <5>1, NextDraw, ZenonT(60)
      <4>3. CASE conf.backend # "vllm"
        BY <1>1, <1>15, <2>1, <4>1, <4>3 DEF Sample, WorkerType
      <4>. QED BY <4>2, <4>3
    <3>3. torchRng'[r] = Torch(r, drawn'[r])
      BY <1>15, <3>1 DEF Sample
    <3>. QED BY <2>1, <3>1, <3>2, <3>3
  <2>2. ASSUME NEW r \in Ranks, GroupOf[r] # g PROVE Streams(r)'
    BY <1>1, <1>2, <1>15, <2>2 DEF Sample, WorkerType
  <2>. QED BY <2>1, <2>2
<1>. QED
  BY <1>3, <1>4, <1>5, <1>6, <1>7, <1>8, <1>9, <1>10, <1>11, <1>12, <1>13, <1>14, <1>15
     DEF Next, Work

\* What a step leaves alone is left alone.
LEMMA StutterStreams == Base /\ StreamInv /\ UNCHANGED vars => Base' /\ StreamInv'
<1>. SUFFICES ASSUME Base, StreamInv, UNCHANGED vars PROVE Base' /\ StreamInv'
  OBVIOUS
<1>1. UNCHANGED <<conf, driver, called, disk, at, place, policy, engine, synced, rng, torchRng,
                  genRng, drawn, sampled>>
  BY DEF vars, rankVars
<1>2. DriverType' /\ WorkerType'
  BY <1>1 DEF Base, Shape, DriverType, WorkerType
<1>3. DiskType' /\ Positions'
  BY <1>1 DEF Base, Shape, DiskType, Positions
<1>4. StreamInv'
  BY <1>1 DEF StreamInv, Streams
<1>. QED BY <1>2, <1>3, <1>4 DEF Base, Shape

LEMMA BaseStep == Base /\ StreamInv /\ Next => Base'
  BY RestartBase, ReturnBase, WorkerStepBase DEF Next, Work

\* Shapes and random states hold together: a checkpoint stores the random
\* states, and its shape is known only because theirs is.
LEMMA Streaming == Spec => [](Base /\ StreamInv)
<1>1. Init => Base /\ StreamInv
  BY InitBase, InitStreams
<1>2. Base /\ StreamInv /\ [Next]_vars => (Base /\ StreamInv)'
  BY BaseStep, StreamStep, StutterStreams
<1>. QED BY <1>1, <1>2, PTL DEF Spec

\* Every variable keeps its type.
THEOREM TypeCorrect == Spec => []TypeOK
<1>1. Base => TypeOK
  BY DEF Base, Shape, TypeOK
<1>. QED BY <1>1, Streaming, PTL

\* The ranks of a tensor parallel group sample from one random state, which
\* goes on where their last generation left it.
THEOREM OneStreamPerGroup == Spec => []RanksOfAGroupAgree
<1>1. StreamInv => RanksOfAGroupAgree
  BY DEF StreamInv, Streams, RanksOfAGroupAgree
<1>. QED BY <1>1, Streaming, PTL

\* Training draws from the rank's own stream in order: no generation in
\* between, no resume, repeats a draw or leaves one out.
THEOREM TrainingStreamIsWhole == Spec => []TrainingDrawsInOrder
<1>1. StreamInv => TrainingDrawsInOrder
  BY DEF StreamInv, Streams, TrainingDrawsInOrder
<1>. QED BY <1>1, Streaming, PTL

-----------------------------------------------------------------------------
(* Memory.                                                                 *)

\* What may be on the GPU besides the engine, and when.
Memory(r) ==
  /\ conf.offParam => \A x \in {"actor", "critic"} :
       \/ place[r][x] = "cpu"
       \/ x = "actor" /\ at[r] \in {"gathered", "loaded"}
       \/ x = Model /\ at[r] \in Computing
  /\ conf.offOptim => \A x \in Optims :
       \/ place[r][x] # "gpu"
       \/ x = Optim /\ at[r] \in Computing /\ CallOf[driver.stage] \in {"update", "load"}
  /\ at[r] \in {"idle", "asked"} \union Computing => engine[r].up = {}
  /\ TakesCacheLast /\ at[r] \in {"gathered", "loaded"} => "kv" \notin engine[r].up
  /\ at[r] = "ready" =>
       place[r][Model] = "gpu" /\ (CallOf[driver.stage] = "update" => place[r][Optim] # "cpu")
MemoryInv == \A r \in Ranks : Memory(r)

\* Model and optimizer of a call are different things with a place.
LEMMA CallMoves ==
  /\ Model \in {"actor", "critic"} /\ Optim \in Optims
  /\ Model \notin Optims /\ Optim \notin {"actor", "critic"}
  BY DEF Model, ModelOf, Optim, Optims

LEMMA FreshMemory ==
  ASSUME conf \in Configs, NEW r \in Ranks
  PROVE  /\ conf.offParam => \A x \in {"actor", "critic"} : FreshPlace(conf)[x] = "cpu"
         /\ \A x \in Optims : FreshPlace(conf)[x] # "gpu"
         /\ FreshEngine(conf).up = {}
  BY DEF FreshPlace, AtRest, FreshEngine, Optims

LEMMA InitMemory == Init => MemoryInv
<1>. SUFFICES ASSUME Init, NEW r \in Ranks PROVE Memory(r)
  BY DEF MemoryInv
<1>1. at[r] = "idle" /\ place[r] = FreshPlace(conf) /\ engine[r] = FreshEngine(conf)
  BY DEF Init
<1>2. conf \in Configs
  BY DEF Init
<1>. QED BY <1>1, <1>2, FreshMemory DEF Memory, Computing

LEMMA MemoryStep == Base /\ MemoryInv /\ Next => MemoryInv'
<1>. SUFFICES ASSUME Base, MemoryInv, NEW r \in Ranks PROVE Next => Memory(r)'
  BY DEF MemoryInv
<1>. USE DEF Move, Doing, AllAt, TakesCacheLast
<1>1. Memory(r) /\ WorkerType /\ Positions /\ conf \in Configs
  BY DEF MemoryInv, Base, Shape, DriverType
<1>2. ASSUME Restart PROVE Memory(r)'
  <2>1. /\ at'[r] = "idle" /\ place'[r] = FreshPlace(conf) /\ engine'[r] = FreshEngine(conf)
        /\ conf' = conf
    BY <1>2 DEF Restart
  <2>. QED BY <1>1, <2>1, FreshMemory DEF Memory, Computing
<1>3. ASSUME Issue PROVE Memory(r)'
  BY <1>1, <1>3 DEF Issue, Memory, Positions, Computing, Model, Optim
<1>4. ASSUME Return PROVE Memory(r)'
  BY <1>1, <1>4 DEF Return, rankVars, Memory, Computing
<1>5. ASSUME LoadWeights PROVE Memory(r)'
  <2>1. engine'[r].up = engine[r].up
    BY <1>1, <1>5 DEF LoadWeights, Updated, WorkerType
  <2>. QED BY <1>1, <1>5, <2>1 DEF LoadWeights, Memory, Computing, Model, Optim
<1>6. ASSUME Evaluate PROVE Memory(r)'
  BY <1>1, <1>6 DEF Evaluate, Memory, Computing, Model, Optim
<1>7. ASSUME Update PROVE Memory(r)'
  <2>1. /\ at[r] = "ready" /\ at'[r] = "computed" /\ CallOf[driver.stage] = "update"
        /\ UNCHANGED <<conf, driver, engine>>
    BY <1>7 DEF Update
  <2>2. \A x \in {"actor", "critic"} \union Optims :
          x # Optim => place'[r][x] = place[r][x]
    BY <1>1, <1>7 DEF Update, WorkerType, Optims
  <2>. QED BY <1>1, <2>1, <2>2, CallMoves DEF Memory, Computing, Model, Optim
<1>8. ASSUME Restore PROVE Memory(r)'
  <2>1. /\ at[r] = "ready" /\ at'[r] = "computed" /\ CallOf[driver.stage] = "load"
        /\ UNCHANGED <<conf, driver, engine>>
    BY <1>8 DEF Restore
  <2>2. \A x \in {"actor", "critic"} \union Optims :
          x # Optim => place'[r][x] = place[r][x]
    BY <1>1, <1>8 DEF Restore, WorkerType, Optims
  <2>. QED BY <1>1, <2>1, <2>2, CallMoves DEF Memory, Computing, Model, Optim
<1>9. ASSUME NEW q \in Ranks, Gather(q) PROVE Memory(r)'
  <2>1. UNCHANGED <<conf, driver>>
    BY <1>9 DEF Gather
  <2>2. CASE r = q
    <3>1. at[r] = "asked" /\ at'[r] = "gathered"
      BY <1>9, <2>2 DEF Gather
    <3>2. \A x \in {"actor", "critic"} \union Optims : x # "actor" => place'[r][x] = place[r][x]
      BY <1>1, <1>9 DEF Gather, Put, WorkerType, Optims
    <3>3. TakesCacheLast => engine'[r].up = {"weights"}
      BY <1>1, <1>9, <2>2 DEF Gather, Woken, WorkerType
    <3>. QED BY <1>1, <2>1, <3>1, <3>2, <3>3 DEF Memory, Computing, Optims
  <2>3. CASE r # q
    <3>1. at'[r] = at[r] /\ place'[r] = place[r] /\ engine'[r] = engine[r]
      BY <1>1, <1>9, <2>3 DEF Gather, Put, WorkerType
    <3>. QED BY <1>1, <2>1, <3>1 DEF Memory, Model, Optim
  <2>. QED BY <2>2, <2>3
<1>10. ASSUME NEW q \in Ranks, Enter(q) PROVE Memory(r)'
  <2>1. UNCHANGED <<conf, driver>>
    BY <1>10 DEF Enter
  <2>2. CASE r = q
    <3>1. at[r] = "loaded" /\ at'[r] = "awake"
      BY <1>10, <2>2 DEF Enter
    <3>2. /\ \A x \in Optims \union {"critic"} : place'[r][x] = place[r][x]
          /\ conf.offParam => place'[r]["actor"] = "cpu"
      BY <1>1, <1>10, <2>2 DEF Enter, Put, WorkerType, Optims
    <3>. QED BY <1>1, <2>1, <3>1, <3>2 DEF Memory, Computing, Optims
  <2>3. CASE r # q
    <3>1. at'[r] = at[r] /\ place'[r] = place[r] /\ engine'[r] = engine[r]
      BY <1>1, <1>10, <2>3 DEF Enter, Put, WorkerType
    <3>. QED BY <1>1, <2>1, <3>1 DEF Memory, Model, Optim
  <2>. QED BY <2>2, <2>3
<1>11. ASSUME NEW q \in Ranks, Leave(q) PROVE Memory(r)'
  <2>1. UNCHANGED <<conf, driver, place>>
    BY <1>11 DEF Leave
  <2>2. CASE r = q
    <3>1. at[r] = "sampled" /\ at'[r] = "idle" /\ engine'[r].up = {}
      BY <1>1, <1>11, <2>2 DEF Leave, WorkerType
    <3>. QED BY <1>1, <2>1, <3>1 DEF Memory, Computing
  <2>3. CASE r # q
    <3>1. at'[r] = at[r] /\ engine'[r] = engine[r]
      BY <1>1, <1>11, <2>3 DEF Leave, WorkerType
    <3>. QED BY <1>1, <2>1, <3>1 DEF Memory, Model, Optim
  <2>. QED BY <2>2, <2>3
<1>12. ASSUME NEW q \in Ranks, Load(q) PROVE Memory(r)'
  <2>1. UNCHANGED <<conf, driver, engine>>
    BY <1>12 DEF Load
  <2>2. CASE r = q
    <3>1. at[r] = "asked" /\ at'[r] = "ready" /\ place'[r] = Loaded(place[r])
      BY <1>1, <1>12, <2>2 DEF Load, WorkerType
    <3>2. place[r] \in [{"actor", "critic", "actorOptim", "criticOptim"}
                          -> {"gpu", "cpu", "none"}]
      BY <1>1 DEF WorkerType
    <3>3. /\ place'[r][Model] = "gpu"
          /\ \A x \in {"actor", "critic"} : x # Model => place'[r][x] = place[r][x]
          /\ \A x \in Optims : x # Optim \/ CallOf[driver.stage] # "update" =>
                place'[r][x] = place[r][x]
          /\ CallOf[driver.stage] = "update" => place'[r][Optim] # "cpu"
      BY <3>1, <3>2, CallMoves DEF Loaded, Optims
    <3>. QED BY <1>1, <2>1, <3>1, <3>3, CallMoves DEF Memory, Computing, Model, Optim
  <2>3. CASE r # q
    <3>1. at'[r] = at[r] /\ place'[r] = place[r]
      BY <1>1, <1>12, <2>3 DEF Load, WorkerType
    <3>. QED BY <1>1, <2>1, <3>1 DEF Memory, Model, Optim
  <2>. QED BY <2>2, <2>3
<1>13. ASSUME NEW q \in Ranks, Offload(q) PROVE Memory(r)'
  <2>1. UNCHANGED <<conf, driver, engine>>
    BY <1>13 DEF Offload
  <2>2. CASE r = q
    <3>1. at[r] = "computed" /\ at'[r] = "idle" /\ place'[r] = Offloaded(place[r])
      BY <1>1, <1>13, <2>2 DEF Offload, WorkerType
    <3>2. place[r] \in [{"actor", "critic", "actorOptim", "criticOptim"}
                          -> {"gpu", "cpu", "none"}]
      BY <1>1 DEF WorkerType
    <3>3. conf.offParam => place'[r][Model] = "cpu"
      BY <3>1, <3>2, CallMoves DEF Offloaded
    <3>4. \A x \in {"actor", "critic"} : x # Model => place'[r][x] = place[r][x]
      BY <3>1, <3>2, CallMoves DEF Offloaded, Optims
    <3>5. \A x \in Optims : x # Optim => place'[r][x] = place[r][x]
      BY <3>1, <3>2, CallMoves DEF Offloaded, Optims
    <3>6. \A x \in Optims : place'[r][x] = "gpu" => place[r][x] = "gpu"
      BY <3>1, <3>2, CallMoves DEF Offloaded, Optims
    <3>7. conf.offOptim /\ CallOf[driver.stage] \in {"update", "load"} => place'[r][Optim] # "gpu"
      BY <3>1, <3>2, CallMoves DEF Offloaded, Optims
    <3>8. conf.offParam => \A x \in {"actor", "critic"} : place'[r][x] = "cpu"
      BY <1>1, <3>1, <3>3, <3>4 DEF Memory, Computing
    <3>9. ASSUME conf.offOptim, NEW x \in Optims PROVE place'[r][x] # "gpu"
      <4>1. place[r][x] # "gpu" \/ (x = Optim /\ CallOf[driver.stage] \in {"update", "load"})
        BY <1>1, <3>9 DEF Memory
      <4>. QED BY <3>6, <3>7, <3>9, <4>1
    <3>10. engine'[r].up = {}
      BY <1>1, <2>1, <3>1 DEF Memory, Computing
    <3>. QED BY <2>1, <3>1, <3>8, <3>9, <3>10 DEF Memory, Computing
  <2>3. CASE r # q
    <3>1. at'[r] = at[r] /\ place'[r] = place[r]
      BY <1>1, <1>13, <2>3 DEF Offload, WorkerType
    <3>. QED BY <1>1, <2>1, <3>1 DEF Memory, Model, Optim
  <2>. QED BY <2>2, <2>3
<1>14. ASSUME NEW g \in Groups, Sample(g) PROVE Memory(r)'
  <2>1. /\ UNCHANGED <<conf, driver, engine, place>>
        /\ at'[r] = at[r] \/ (at[r] = "awake" /\ at'[r] = "sampled")
    BY <1>14 DEF Sample
  <2>. QED BY <1>1, <2>1 DEF Memory, Computing, Model, Optim
<1>. QED
  BY <1>2, <1>3, <1>4, <1>5, <1>6, <1>7, <1>8, <1>9, <1>10, <1>11, <1>12, <1>13, <1>14
     DEF Next, Work

LEMMA Remembering == Spec => []MemoryInv
<1>1. MemoryInv /\ UNCHANGED vars => MemoryInv'
  BY DEF MemoryInv, Memory, TakesCacheLast, Model, Optim, vars, rankVars
<1>2. Base /\ MemoryInv /\ [Next]_vars => MemoryInv'
  BY <1>1, MemoryStep
<1>. QED BY <1>2, InitMemory, Streaming, PTL DEF Spec

\* An engine that generates meets nothing on the GPU that can be offloaded,
\* nor does the cache that is taken last, and no call that trains or scores
\* meets an engine that is awake.
THEOREM TheCacheStandsAlone == Spec => []CacheStandsAlone
<1>1. Base /\ MemoryInv => CacheStandsAlone
  <2>. SUFFICES ASSUME Base, MemoryInv, NEW r \in Ranks
       PROVE /\ /\ "kv" \in engine[r].up
                /\ TakesCacheLast \/ at[r] \in {"awake", "sampled"}
                => /\ conf.offParam => place[r]["actor"] = "cpu" /\ place[r]["critic"] = "cpu"
                   /\ conf.offOptim => /\ place[r]["actorOptim"] # "gpu"
                                       /\ place[r]["criticOptim"] # "gpu"
             /\ at[r] \in {"ready", "computed"} => engine[r].up = {}
    BY DEF CacheStandsAlone
  <2>1. Memory(r)
    BY DEF MemoryInv
  <2>2. at[r] \in {"idle", "asked", "gathered", "loaded", "awake", "sampled",
                   "ready", "computed"}
    BY DEF Base, Shape, WorkerType
  <2>. QED BY <2>1, <2>2 DEF Memory, Computing, Optims
<1>. QED BY <1>1, Streaming, Remembering, PTL

\* What a call computes with is on the GPU when it computes.
THEOREM CallsComputeOnGpu == Spec => []ComputesOnGpu
<1>1. MemoryInv => ComputesOnGpu
  BY DEF MemoryInv, Memory, ComputesOnGpu
<1>. QED BY <1>1, Remembering, PTL

\* Both together: the memory of a call is in place.
THEOREM MemoryCorrect == Spec => []MemoryIsInPlace
<1>1. CacheStandsAlone /\ ComputesOnGpu => MemoryIsInPlace
  BY DEF MemoryIsInPlace
<1>. QED BY <1>1, TheCacheStandsAlone, CallsComputeOnGpu, PTL

-----------------------------------------------------------------------------
(* Weights.                                                                *)

\* A rank whose engine waits for the adapter until its second transfer.
NoAdapter(r) == SentInTwo /\ sampled[GroupOf[r]] = 0

\* Only one kind of weights is ever updated; the engine has the other from the
\* start or from its first transfer, and gets this one at every transfer.  A
\* policy that is sent in two is at its first transfer until it has generated.
WeightsInv ==
  /\ conf.lora => /\ policy.base = 0 /\ (disk # None => disk.policy.base = 0)
                  /\ \A r \in Ranks : /\ synced[r] => engine[r].base = 0
                                      /\ ~synced[r] => engine[r].adapter = 0 /\ SentInTwo
  /\ ~conf.lora => /\ policy.adapter = 0 /\ (disk # None => disk.policy.adapter = 0)
                   /\ \A r \in Ranks : engine[r].adapter = 0
  /\ SentInTwo => \A r \in Ranks :
       synced[r] <=> at[r] \in {"loaded", "awake"} \/ sampled[GroupOf[r]] # 0
  /\ \A r \in EngineRanks : at[r] \in {"loaded", "awake"} =>
       /\ engine[r].base = policy.base
       /\ engine[r].adapter = IF NoAdapter(r) THEN 0 ELSE policy.adapter

LEMMA EngineRanksAreRanks == EngineRanks \subseteq Ranks
  BY EngineAssumption DEF EngineRanks

LEMMA InitWeights == Init => WeightsInv
<1>. SUFFICES ASSUME Init PROVE WeightsInv
  OBVIOUS
<1>1. /\ conf \in Configs /\ disk = None /\ policy.base = 0 /\ policy.adapter = 0
      /\ \A r \in Ranks : /\ at[r] = "idle" /\ synced[r] = ~conf.dummy
                          /\ engine[r] = FreshEngine(conf) /\ sampled[GroupOf[r]] = 0
  BY DEF Init, Groups
<1>2. FreshEngine(conf).adapter = 0 /\ (~conf.dummy => FreshEngine(conf).base = 0)
  BY DEF FreshEngine
<1>. QED BY <1>1, <1>2, EngineRanksAreRanks DEF WeightsInv, SentInTwo

LEMMA WeightsStep == Base /\ WeightsInv /\ Next => WeightsInv'
<1>. SUFFICES ASSUME Base, WeightsInv PROVE Next => WeightsInv'
  OBVIOUS
<1>. USE DEF Move, Doing, AllAt
<1>1. WorkerType /\ Positions /\ conf \in Configs /\ EngineRanks \subseteq Ranks
  BY EngineRanksAreRanks DEF Base, Shape, DriverType
<1>2. ASSUME Restart PROVE WeightsInv'
  <2>1. /\ conf' = conf /\ disk' = disk /\ policy'.base = 0 /\ policy'.adapter = 0
        /\ \A r \in Ranks : /\ at'[r] = "idle" /\ synced'[r] = ~conf.dummy
                            /\ engine'[r] = FreshEngine(conf) /\ sampled'[GroupOf[r]] = 0
    BY <1>2 DEF Restart, Groups
  <2>2. FreshEngine(conf).adapter = 0 /\ (~conf.dummy => FreshEngine(conf).base = 0)
    BY DEF FreshEngine
  <2>. QED BY <1>1, <2>1, <2>2 DEF WeightsInv, SentInTwo, EngineRanks
<1>3. ASSUME Issue PROVE WeightsInv'
  <2>1. UNCHANGED <<conf, policy, disk, engine, synced, sampled>>
        /\ \A r \in Ranks : at[r] = "idle" /\ at'[r] = "asked"
    BY <1>1, <1>3 DEF Issue, Positions
  <2>. QED BY <1>1, <2>1 DEF WeightsInv, SentInTwo, NoAdapter, EngineRanks
<1>4. ASSUME Return PROVE WeightsInv'
  <2>1. UNCHANGED <<conf, policy, engine, synced, at, sampled>>
    BY <1>4 DEF Return, rankVars
  <2>2. disk' = disk \/ disk'.policy = policy
    BY <1>4 DEF Return
  <2>. QED BY <2>1, <2>2 DEF WeightsInv, SentInTwo, NoAdapter, EngineRanks
<1>5. ASSUME LoadWeights PROVE WeightsInv'
  <2>1. UNCHANGED <<conf, policy, disk, sampled>>
        /\ \A r \in Ranks : synced'[r] /\ at[r] = "gathered" /\ at'[r] = "loaded"
    BY <1>5 DEF LoadWeights
  <2>2. ASSUME NEW r \in Ranks
        PROVE  /\ conf.lora => engine'[r].base = 0
               /\ ~conf.lora => engine'[r].adapter = 0
               /\ r \in EngineRanks =>
                    /\ engine'[r].base = policy.base
                    /\ engine'[r].adapter = IF NoAdapter(r) THEN 0 ELSE policy.adapter
    <3>1. engine[r] \in [up : SUBSET {"weights", "kv"}, base : Nat \union {Dummy}, adapter : Nat]
      BY <1>1 DEF WorkerType
    <3>2. engine'[r] = IF r \in EngineRanks THEN Updated(r) ELSE engine[r]
      BY <1>5 DEF LoadWeights
    <3>3. conf.lora => EngineRanks = Ranks
      BY <1>1, EngineAssumption DEF EngineRanks
    <3>4. SentInTwo => conf.lora
      BY DEF SentInTwo
    <3>5. CASE conf.lora /\ synced[r]
      <4>1. ~NoAdapter(r)
        BY <2>1, <3>5 DEF WeightsInv, NoAdapter
      <4>2. engine'[r].base = engine[r].base /\ engine'[r].adapter = policy.adapter
        BY <3>1, <3>2, <3>3, <3>5 DEF Updated
      <4>. QED BY <3>5, <4>1, <4>2 DEF WeightsInv
    <3>6. CASE conf.lora /\ ~synced[r]
      <4>1. NoAdapter(r) /\ engine[r].adapter = 0
        BY <2>1, <3>6 DEF WeightsInv, NoAdapter
      <4>2. engine'[r].base = policy.base /\ engine'[r].adapter = engine[r].adapter
        BY <3>1, <3>2, <3>3, <3>6 DEF Updated
      <4>. QED BY <3>6, <4>1, <4>2 DEF WeightsInv
    <3>7. CASE ~conf.lora
      <4>1. /\ engine'[r].adapter = engine[r].adapter
            /\ r \in EngineRanks => engine'[r].base = policy.base
        BY <3>1, <3>2, <3>7 DEF Updated
      <4>. QED BY <3>4, <3>7, <4>1 DEF WeightsInv, NoAdapter
    <3>. QED BY <3>5, <3>6, <3>7
  <2>. QED BY <1>1, <2>1, <2>2 DEF WeightsInv, SentInTwo, NoAdapter, EngineRanks
<1>6. ASSUME Evaluate PROVE WeightsInv'
  <2>1. UNCHANGED <<conf, policy, disk, engine, synced, sampled>>
        /\ \A r \in Ranks : at[r] = "ready" /\ at'[r] = "computed"
    BY <1>6 DEF Evaluate
  <2>. QED BY <1>1, <2>1 DEF WeightsInv, SentInTwo, NoAdapter, EngineRanks
<1>7. ASSUME Update PROVE WeightsInv'
  <2>1. \/ policy' = policy
        \/ policy' = Trained
    BY <1>7 DEF Update
  <2>2. /\ conf.lora => Trained.base = policy.base
        /\ ~conf.lora => Trained.adapter = policy.adapter
    BY <1>1 DEF Trained, WorkerType
  <2>3. UNCHANGED <<conf, disk, engine, synced, sampled>>
        /\ \A r \in Ranks : at[r] = "ready" /\ at'[r] = "computed"
    BY <1>7 DEF Update
  <2>. QED BY <1>1, <2>1, <2>2, <2>3 DEF WeightsInv, SentInTwo, EngineRanks
<1>8. ASSUME Restore PROVE WeightsInv'
  <2>1. disk # None
    BY <1>8 DEF Restore, Base, Shape, Positions, CallOf, DriverType
  <2>2. policy' = policy \/ policy' = disk.policy
    BY <1>8 DEF Restore
  <2>3. UNCHANGED <<conf, disk, engine, synced, sampled>>
        /\ \A r \in Ranks : at[r] = "ready" /\ at'[r] = "computed"
    BY <1>8 DEF Restore
  <2>. QED BY <1>1, <2>1, <2>2, <2>3 DEF WeightsInv, SentInTwo, EngineRanks
<1>9. ASSUME NEW q \in Ranks, Gather(q) PROVE WeightsInv'
  <2>1. \A r \in Ranks : /\ engine'[r].base = engine[r].base
                         /\ engine'[r].adapter = engine[r].adapter
    BY <1>1, <1>9 DEF Gather, WorkerType
  <2>2. UNCHANGED <<conf, policy, disk, synced, sampled>>
    BY <1>9 DEF Gather
  <2>3. \A r \in Ranks : at'[r] = at[r] \/ (at[r] = "asked" /\ at'[r] = "gathered")
    BY <1>9 DEF Gather
  <2>. QED BY <1>1, <2>1, <2>2, <2>3 DEF WeightsInv, SentInTwo, NoAdapter, EngineRanks
<1>10. ASSUME NEW q \in Ranks, Enter(q) PROVE WeightsInv'
  <2>1. \A r \in Ranks : /\ engine'[r].base = engine[r].base
                         /\ engine'[r].adapter = engine[r].adapter
    BY <1>1, <1>10 DEF Enter, WorkerType
  <2>2. UNCHANGED <<conf, policy, disk, synced, sampled>>
    BY <1>10 DEF Enter
  <2>3. \A r \in Ranks : at'[r] = at[r] \/ (at[r] = "loaded" /\ at'[r] = "awake")
    BY <1>10 DEF Enter
  <2>. QED BY <1>1, <2>1, <2>2, <2>3 DEF WeightsInv, SentInTwo, NoAdapter, EngineRanks
<1>11. ASSUME NEW q \in Ranks, Leave(q) PROVE WeightsInv'
  <2>1. \A r \in Ranks : /\ engine'[r].base = engine[r].base
                         /\ engine'[r].adapter = engine[r].adapter
    BY <1>1, <1>11 DEF Leave, WorkerType
  <2>2. UNCHANGED <<conf, policy, disk, synced, sampled>>
    BY <1>11 DEF Leave
  <2>3. \A r \in Ranks : at'[r] = at[r] \/ (at[r] = "sampled" /\ at'[r] = "idle")
    BY <1>11 DEF Leave
  <2>. QED BY <1>1, <2>1, <2>2, <2>3 DEF WeightsInv, SentInTwo, NoAdapter, EngineRanks
<1>12. ASSUME NEW q \in Ranks, Load(q) PROVE WeightsInv'
  <2>1. UNCHANGED <<conf, policy, disk, engine, synced, sampled>>
        /\ \A r \in Ranks : at'[r] = at[r] \/ (at[r] = "asked" /\ at'[r] = "ready")
    BY <1>12 DEF Load
  <2>. QED BY <1>1, <2>1 DEF WeightsInv, SentInTwo, NoAdapter, EngineRanks
<1>13. ASSUME NEW q \in Ranks, Offload(q) PROVE WeightsInv'
  <2>1. UNCHANGED <<conf, policy, disk, engine, synced, sampled>>
        /\ \A r \in Ranks : at'[r] = at[r] \/ (at[r] = "computed" /\ at'[r] = "idle")
    BY <1>13 DEF Offload
  <2>. QED BY <1>1, <2>1 DEF WeightsInv, SentInTwo, NoAdapter, EngineRanks
<1>14. ASSUME NEW g \in Groups, Sample(g) PROVE WeightsInv'
  <2>1. UNCHANGED <<conf, policy, disk, synced, engine>>
    BY <1>14 DEF Sample
  <2>2. SentInTwo => conf.backend = "vllm"
    BY <1>1, EngineAssumption DEF SentInTwo
  <2>3. \A r \in Ranks : GroupOf[r] = g =>
          at[r] = "awake" /\ at'[r] = "sampled" /\ (SentInTwo => sampled'[GroupOf[r]] # 0)
    BY <1>1, <1>14, <2>2 DEF Sample, WorkerType
  <2>4. \A r \in Ranks : GroupOf[r] # g =>
          at'[r] = at[r] /\ sampled'[GroupOf[r]] = sampled[GroupOf[r]]
    BY <1>1, <1>14 DEF Sample, WorkerType, Groups
  <2>. QED BY <1>1, <2>1, <2>3, <2>4 DEF WeightsInv, SentInTwo, NoAdapter, EngineRanks
<1>. QED
  BY <1>2, <1>3, <1>4, <1>5, <1>6, <1>7, <1>8, <1>9, <1>10, <1>11, <1>12, <1>13, <1>14
     DEF Next, Work

\* Every turn is generated with the actor's current weights, but for the
\* adapter that an engine of made-up weights has still to get: that one comes
\* with the second generation of a job.
THEOREM GenerationIsCurrent == Spec => []GenerationIsThePolicys
<1>1. WeightsInv /\ UNCHANGED vars => WeightsInv'
  BY DEF WeightsInv, SentInTwo, NoAdapter, EngineRanks, vars, rankVars
<1>2. Base /\ WeightsInv /\ [Next]_vars => WeightsInv'
  BY <1>1, WeightsStep
<1>3. WeightsInv => GenerationIsThePolicys
  BY DEF WeightsInv, GenerationIsThePolicys, NoAdapter
<1>. QED BY <1>2, <1>3, InitWeights, Streaming, PTL DEF Spec

-----------------------------------------------------------------------------
(* Lengths balanced: the invariants of a state and of the heap of Karmarkar  *)
(* and Karp, and what the parts that are left promise.                       *)

PartOf(n) == [items : Seq(1 .. n), sum : Nat]
Splits(n, k) == [1 .. k -> PartOf(n)]
Lens(n) == [1 .. n -> Nat \ {0}]
Permutes(o, k) ==
  /\ o \in [1 .. k -> 1 .. k]
  /\ \A i, j \in 1 .. k : o[i] = o[j] => i = j
  /\ \A j \in 1 .. k : \E i \in 1 .. k : o[i] = j

\* What a state promises.
OnePlace(s) ==
  \A i, j \in DOMAIN s : \A x \in DOMAIN s[i].items, y \in DOMAIN s[j].items :
    s[i].items[x] = s[j].items[y] => i = j /\ x = y
Has(s, r) == \E i \in DOMAIN s : \E x \in DOMAIN s[i].items : s[i].items[x] = r
Summed(s, len) == \A i \in DOMAIN s : s[i].sum = Tokens(ToSet(s[i].items), len)
Falling(s) == \A i, j \in DOMAIN s : i <= j => s[j].sum <= s[i].sum
Even(s, d) == \A i, j \in DOMAIN s : s[i].sum - s[j].sum <= d
SameSize(s) == \A i, j \in DOMAIN s : Len(s[i].items) = Len(s[j].items)
Sparse(s) == \A i, j \in DOMAIN s : s[i].items = <<>> => Len(s[j].items) <= 1

\* The rows of a part are a finite set.
LEMMA RowSet ==
  ASSUME NEW n \in Nat, NEW p \in Seq(1 .. n)
  PROVE  ToSet(p) \in SUBSET (1 .. n) /\ IsFiniteSet(ToSet(p)) /\ IsFiniteSet(1 .. n)
<1>1. IsFiniteSet(1 .. n)
  BY FS_Interval
<1>2. ToSet(p) \in SUBSET (1 .. n)
  BY DEF ToSet
<1> QED BY <1>1, <1>2, FS_Subset

\* Only a part without rows has no tokens.
LEMMA TokensAre ==
  ASSUME NEW n \in Nat, NEW len \in Lens(n), NEW p \in Seq(1 .. n)
  PROVE  /\ Tokens(ToSet(p), len) \in Nat
         /\ p = <<>> => Tokens(ToSet(p), len) = 0
         /\ p # <<>> => Tokens(ToSet(p), len) >= 1
<1>1. ToSet(p) \in SUBSET (1 .. n) /\ IsFiniteSet(ToSet(p))
  BY RowSet
<1>2. \A x \in ToSet(p) : len[x] \in Nat /\ len[x] >= 1
  BY <1>1 DEF Lens
<1>3. Tokens(ToSet(p), len) \in Nat /\ \A x \in ToSet(p) : len[x] <= Tokens(ToSet(p), len)
  BY <1>1, <1>2, SumNat DEF Tokens
<1>4. ASSUME p = <<>> PROVE Tokens(ToSet(p), len) = 0
  <2>1. ToSet(p) = {}
    BY <1>4 DEF ToSet
  <2> QED BY <2>1, SumEmpty DEF Tokens
<1>5. ASSUME p # <<>> PROVE Tokens(ToSet(p), len) >= 1
  <2>1. p[1] \in ToSet(p)
    BY <1>5 DEF ToSet
  <2> QED BY <1>2, <1>3, <2>1
<1> QED BY <1>3, <1>4, <1>5

\* What one row weighs.
LEMMA TokensOne ==
  ASSUME NEW n \in Nat, NEW len \in Lens(n), NEW r \in 1 .. n
  PROVE  Tokens(ToSet(<<r>>), len) = len[r]
<1> DEFINE U == {r}
<1>1. ToSet(<<r>>) = U
  BY DEF ToSet
<1>2. IsFiniteSet(U) /\ r \in U /\ U \ {r} = {}
  BY FS_Singleton
<1>3. \A x \in U : len[x] \in Int
  BY DEF Lens
<1> HIDE DEF U
<1>4. SumFunctionOnSet(len, U) = len[r] + SumFunctionOnSet(len, U \ {r})
  BY <1>2, <1>3, SumOut
<1>5. len[r] \in Int /\ SumFunctionOnSet(len, {}) = 0
  BY <1>2, <1>3, SumEmpty
<1>6. SumFunctionOnSet(len, U) = len[r] + 0
  BY <1>2, <1>4, <1>5
<1>7. len[r] + 0 = len[r]
  BY <1>5
<1> QED BY <1>1, <1>6, <1>7 DEF Tokens

\* The rows of two parts put together.
LEMMA RowsConcat ==
  ASSUME NEW R, NEW p \in Seq(R), NEW q \in Seq(R)
  PROVE  ToSet(p \o q) = ToSet(p) \cup ToSet(q)
<1> DEFINE c == p \o q
           l == Len(p)
           m == Len(q)
<1>1. l \in Nat /\ m \in Nat /\ DOMAIN p = 1 .. l /\ DOMAIN q = 1 .. m
  OBVIOUS
<1>2. DOMAIN c = 1 .. (l + m) /\ \A z \in 1 .. (l + m) : c[z] = IF z <= l THEN p[z] ELSE q[z - l]
  OBVIOUS
<1> HIDE DEF c, l, m
<1>3. \A z \in DOMAIN c : c[z] \in ToSet(p) \cup ToSet(q)
  <2> SUFFICES ASSUME NEW z \in DOMAIN c PROVE c[z] \in ToSet(p) \cup ToSet(q)
    OBVIOUS
  <2>1. CASE z <= l
    <3>1. z \in 1 .. l /\ c[z] = p[z]
      BY <1>1, <1>2, <2>1
    <3> QED BY <1>1, <3>1 DEF ToSet
  <2>2. CASE ~ (z <= l)
    <3>1. z - l \in 1 .. m /\ c[z] = q[z - l]
      BY <1>1, <1>2, <2>2
    <3> QED BY <1>1, <3>1 DEF ToSet
  <2> QED BY <2>1, <2>2
<1>4. \A x \in 1 .. l : x \in DOMAIN c /\ c[x] = p[x]
  BY <1>1, <1>2
<1>5. \A y \in 1 .. m : l + y \in DOMAIN c /\ c[l + y] = q[y]
  BY <1>1, <1>2
<1>6. ToSet(c) \subseteq ToSet(p) \cup ToSet(q)
  BY <1>3 DEF ToSet
<1>7. ToSet(p) \subseteq ToSet(c)
  BY <1>1, <1>4 DEF ToSet
<1>8. ToSet(q) \subseteq ToSet(c)
  BY <1>1, <1>5 DEF ToSet
<1> QED BY <1>6, <1>7, <1>8 DEF c

\* Parts without a common row weigh together what each weighs.
LEMMA TokensConcat ==
  ASSUME NEW n \in Nat, NEW len \in Lens(n), NEW p \in Seq(1 .. n), NEW q \in Seq(1 .. n),
         \A x \in DOMAIN p, y \in DOMAIN q : p[x] # q[y]
  PROVE  Tokens(ToSet(p \o q), len) = Tokens(ToSet(p), len) + Tokens(ToSet(q), len)
<1> DEFINE U == ToSet(p)
           V == ToSet(q)
           D == 1 .. n
<1>1. U \in SUBSET D /\ V \in SUBSET D /\ IsFiniteSet(D)
  BY RowSet
<1>2. U \cap V = {}
  BY DEF ToSet
<1>3. ToSet(p \o q) = U \cup V
  BY RowsConcat
<1>4. \A x \in D : len[x] \in Int
  BY DEF Lens
<1> HIDE DEF U, V, D
<1>5. SumFunctionOnSet(len, U \cup V) = SumFunctionOnSet(len, U) + SumFunctionOnSet(len, V)
  <2>1. IsFiniteSet(D)
    BY <1>1
  <2>2. SumsJoin(len, D)
    BY <2>1, <1>4, SumUnion
  <2> QED BY <1>1, <1>2, <2>2 DEF SumsJoin
<1> QED BY <1>3, <1>5 DEF Tokens, U, V

\* sorted() gives parts a linear order, in which sums fall.
LEMMA NoLaterIsLinear ==
  ASSUME NEW n \in Nat, NEW k \in Nat, NEW s \in Splits(n, k)
  PROVE  /\ Linear(NoLater(s), 1 .. k)
         /\ \A i, j \in 1 .. k : <<i, j>> \in NoLater(s) => s[j].sum <= s[i].sum
<1> DEFINE T(i) == s[i].sum
           L(i) == Len(s[i].items)
           F(i) == IF s[i].items = <<>> THEN 0 ELSE s[i].items[1]
           R == NoLater(s)
           D == 1 .. k
           Lt(i, j) == \/ T(i) < T(j)
                       \/ T(i) = T(j) /\ L(i) < L(j)
                       \/ T(i) = T(j) /\ L(i) = L(j) /\ F(i) < F(j)
<1>1. \A i \in D : s[i].items \in Seq(1 .. n) /\ s[i].sum \in Nat
  BY DEF Splits, PartOf
<1>2. \A i \in D : T(i) \in Int /\ L(i) \in Int /\ F(i) \in Int
  BY <1>1
<1>3. \A i, j \in D : Lighter(s[i], s[j]) <=> Lt(i, j)
  <2> SUFFICES ASSUME NEW i \in D, NEW j \in D PROVE Lighter(s[i], s[j]) <=> Lt(i, j)
    OBVIOUS
  <2>1. s[i].items \in Seq(1 .. n) /\ s[j].items \in Seq(1 .. n)
    BY <1>1
  <2>2. L(i) = L(j) => (s[i].items = <<>> <=> s[j].items = <<>>)
    BY <2>1
  <2>3. Lighter(s[i], s[j]) <=>
          \/ T(i) < T(j)
          \/ T(i) = T(j) /\ (L(i) < L(j) \/ (L(i) = L(j) /\ s[i].items # <<>> /\ s[i].items[1] < s[j].items[1]))
    BY DEF Lighter
  <2>4. L(i) = L(j) => (F(i) < F(j) <=> s[i].items # <<>> /\ s[i].items[1] < s[j].items[1])
    BY <2>2
  <2> HIDE DEF T, L, F
  <2> QED BY <2>3, <2>4
<1>4. \A i, j \in D : <<i, j>> \in R <=> Lt(j, i) \/ (i <= j /\ ~ Lt(i, j))
  <2>1. DOMAIN s = D
    BY DEF Splits
  <2> SUFFICES ASSUME NEW i \in D, NEW j \in D
               PROVE  <<i, j>> \in R <=> Lt(j, i) \/ (i <= j /\ ~ Lt(i, j))
    OBVIOUS
  <2>2. <<i, j>> \in R <=> Lighter(s[j], s[i]) \/ (i <= j /\ ~ Lighter(s[i], s[j]))
    BY <2>1 DEF NoLater
  <2> HIDE DEF Lt, R
  <2> QED BY <1>3, <2>2
<1> HIDE DEF T, L, F, R
<1>5. Linear(R, D)
  <2>0. \A i, j \in D : i <= j \/ j <= i
    OBVIOUS
  <2>1. ASSUME NEW a \in D, NEW b \in D PROVE <<a, b>> \in R \/ <<b, a>> \in R
    BY <1>2, <1>4, <2>0
  <2>2. ASSUME NEW a \in D, NEW b \in D, <<a, b>> \in R, <<b, a>> \in R PROVE a = b
    BY <1>2, <1>4, <2>2
  <2>3. ASSUME NEW a \in D, NEW b \in D, NEW c \in D, <<a, b>> \in R, <<b, c>> \in R
        PROVE  <<a, c>> \in R
    BY <1>2, <1>4, <2>3
  <2> HIDE DEF D
  <2> QED BY <2>1, <2>2, <2>3 DEF Linear
<1>6. \A i, j \in D : <<i, j>> \in R => T(j) <= T(i)
  BY <1>2, <1>4
<1> QED BY <1>5, <1>6 DEF T, R

\* A sequence to its end.
LEMMA WholeSeq ==
  ASSUME NEW X, NEW k \in Nat, NEW s \in [1 .. k -> X], NEW m, m = k
  PROVE  SubSeq(s, 1, m) = s
<1>1. s \in Seq(X) /\ Len(s) = k
  OBVIOUS
<1> QED BY <1>1

\* The heaviest parts come first, and nothing else changes.
LEMMA HeaviestFirstIs ==
  ASSUME NEW n \in Nat, NEW k \in Nat, NEW s \in Splits(n, k)
  PROVE  /\ \E o : Permutes(o, k) /\ HeaviestFirst(s) = [i \in 1 .. k |-> s[o[i]]]
         /\ Falling(HeaviestFirst(s))
<1> DEFINE R == NoLater(s)
           D == 1 .. k
           o == Arranged(D, R)
<1>1. Linear(R, D) /\ \A i, j \in D : <<i, j>> \in R => s[j].sum <= s[i].sum
  BY NoLaterIsLinear
<1>2. IsFiniteSet(D) /\ Cardinality(D) = k
  BY FS_Interval
<1>3. DOMAIN s = D /\ HeaviestFirst(s) = SubSeq([i \in D |-> s[o[i]]], 1, Len(s)) /\ Len(s) = k
  <2>1. s \in Seq(PartOf(n)) /\ Len(s) = k /\ DOMAIN s = D
    BY DEF Splits
  <2> HIDE DEF D
  <2> QED BY <2>1 DEF HeaviestFirst
<1>3a. s \in [D -> PartOf(n)]
  BY DEF Splits
<1> HIDE DEF R, D
<1>4. /\ o \in [1 .. k -> D]
      /\ \A i \in 1 .. k : Place(R, D, o[i]) = i
      /\ \A p \in D : Place(R, D, p) \in 1 .. k /\ o[Place(R, D, p)] = p
      /\ \A i, j \in 1 .. k : i <= j => <<o[i], o[j]>> \in R
  BY <1>1, <1>2, ArrangedIs
<1> HIDE DEF o
<1>5. Permutes(o, k)
  BY <1>4 DEF Permutes, D
<1> DEFINE t == [i \in 1 .. k |-> s[o[i]]]
<1>6. Falling(t)
  BY <1>1, <1>4 DEF Falling, D
<1>7. HeaviestFirst(s) = t
  <2>1. t \in [1 .. k -> PartOf(n)]
    BY <1>3a, <1>4
  <2>2. HeaviestFirst(s) = SubSeq(t, 1, Len(s)) /\ Len(s) = k
    BY <1>3 DEF D
  <2> HIDE DEF t
  <2> QED BY <2>1, <2>2, WholeSeq
<1> QED BY <1>5, <1>6, <1>7

KeepsAll(s, t, n, k, len, d) ==
  /\ t \in Splits(n, k)
  /\ OnePlace(s) => OnePlace(t)
  /\ \A r : Has(t, r) <=> Has(s, r)
  /\ Summed(s, len) => Summed(t, len)
  /\ Even(s, d) => Even(t, d)
  /\ SameSize(s) => SameSize(t)
  /\ Sparse(s) => Sparse(t)
\* Parts that only change places keep all that a state promises.
LEMMA Reordered ==
  ASSUME NEW n \in Nat, NEW k \in Nat, NEW len, NEW d, NEW s \in Splits(n, k),
         NEW o, Permutes(o, k), NEW t, t = [i \in 1 .. k |-> s[o[i]]]
  PROVE  KeepsAll(s, t, n, k, len, d)
<1>1. DOMAIN s = 1 .. k /\ DOMAIN t = 1 .. k /\ \A i \in 1 .. k : t[i] = s[o[i]] /\ o[i] \in 1 .. k
  BY DEF Splits, Permutes
<1>2. t \in Splits(n, k)
  BY DEF Splits, Permutes
<1>3. ASSUME OnePlace(s) PROVE OnePlace(t)
  <2> SUFFICES ASSUME NEW i \in 1 .. k, NEW j \in 1 .. k,
                      NEW x \in DOMAIN t[i].items, NEW y \in DOMAIN t[j].items,
                      t[i].items[x] = t[j].items[y]
               PROVE  i = j /\ x = y
    BY <1>1 DEF OnePlace
  <2>1. o[i] = o[j] /\ x = y
    BY <1>1, <1>3 DEF OnePlace
  <2> QED BY <2>1 DEF Permutes
<1>4. \A r : Has(t, r) => Has(s, r)
  BY <1>1 DEF Has
<1>5. \A r : Has(s, r) => Has(t, r)
  <2> SUFFICES ASSUME NEW r, NEW j \in 1 .. k, NEW x \in DOMAIN s[j].items, s[j].items[x] = r
               PROVE  Has(t, r)
    BY <1>1 DEF Has
  <2>1. PICK i \in 1 .. k : o[i] = j
    BY DEF Permutes
  <2> QED BY <1>1, <2>1 DEF Has
<1>6. Even(s, d) => Even(t, d)
  BY <1>1 DEF Even
<1>7. SameSize(s) => SameSize(t)
  BY <1>1 DEF SameSize
<1>8. Sparse(s) => Sparse(t)
  BY <1>1 DEF Sparse
<1>9. Summed(s, len) => Summed(t, len)
  BY <1>1 DEF Summed
<1> QED BY <1>2, <1>3, <1>4, <1>5, <1>6, <1>7, <1>8, <1>9 DEF KeepsAll

State(s, n, k, len, d, e) ==
  /\ s \in Splits(n, k)
  /\ OnePlace(s)
  /\ Summed(s, len)
  /\ Falling(s)
  /\ Even(s, d)
  /\ \E r \in 1 .. n : Has(s, r)
  /\ e => SameSize(s)
  /\ ~ e => Sparse(s)

\* Parts end to end: where a row of two parts is.
LEMMA JoinedRows ==
  ASSUME NEW R, NEW p \in Seq(R), NEW q \in Seq(R)
  PROVE  /\ p \o q \in Seq(R) /\ Len(p \o q) = Len(p) + Len(q)
         /\ \A x \in DOMAIN (p \o q) :
              \/ x \in DOMAIN p /\ (p \o q)[x] = p[x]
              \/ x - Len(p) \in DOMAIN q /\ (p \o q)[x] = q[x - Len(p)]
         /\ \A x \in DOMAIN p : x \in DOMAIN (p \o q) /\ (p \o q)[x] = p[x]
         /\ \A y \in DOMAIN q : Len(p) + y \in DOMAIN (p \o q) /\ (p \o q)[Len(p) + y] = q[y]
<1> DEFINE c == p \o q
           l == Len(p)
           m == Len(q)
<1>1. l \in Nat /\ m \in Nat /\ DOMAIN p = 1 .. l /\ DOMAIN q = 1 .. m
  OBVIOUS
<1>2. /\ c \in Seq(R) /\ Len(c) = l + m /\ DOMAIN c = 1 .. (l + m)
      /\ \A z \in 1 .. (l + m) : c[z] = IF z <= l THEN p[z] ELSE q[z - l]
  OBVIOUS
<1> HIDE DEF c, l, m
<1>3. \A x \in DOMAIN c : \/ x \in DOMAIN p /\ c[x] = p[x]
                          \/ x - l \in DOMAIN q /\ c[x] = q[x - l]
  <2> SUFFICES ASSUME NEW x \in DOMAIN c
               PROVE  \/ x \in DOMAIN p /\ c[x] = p[x]
                      \/ x - l \in DOMAIN q /\ c[x] = q[x - l]
    OBVIOUS
  <2>1. CASE x <= l
    BY <1>1, <1>2, <2>1
  <2>2. CASE ~ (x <= l)
    BY <1>1, <1>2, <2>2
  <2> QED BY <2>1, <2>2
<1>4. \A x \in DOMAIN p : x \in DOMAIN c /\ c[x] = p[x]
  BY <1>1, <1>2
<1>5. \A y \in DOMAIN q : l + y \in DOMAIN c /\ c[l + y] = q[y]
  BY <1>1, <1>2
<1> QED BY <1>2, <1>3, <1>4, <1>5 DEF c, l, m

\* Two states that share no row, heavy parts with light ones.
Disjoint(a, b) == \A r : ~ (Has(a, r) /\ Has(b, r))
Met(a, b, k) == [i \in 1 .. k |-> Joined(a[i], b[k + 1 - i])]

\* The parts of two states put together, one by one.
LEMMA MetRows ==
  ASSUME NEW n \in Nat, NEW k \in Nat, NEW a \in Splits(n, k), NEW b \in Splits(n, k)
  PROVE  /\ Met(a, b, k) \in Splits(n, k)
         /\ \A i \in 1 .. k :
              /\ k + 1 - i \in 1 .. k
              /\ Met(a, b, k)[i].items = a[i].items \o b[k + 1 - i].items
              /\ Met(a, b, k)[i].sum = a[i].sum + b[k + 1 - i].sum
              /\ a[i].items \in Seq(1 .. n) /\ b[i].items \in Seq(1 .. n)
              /\ a[i].sum \in Nat /\ b[i].sum \in Nat
<1> DEFINE m == Met(a, b, k)
<1>1. \A i \in 1 .. k : k + 1 - i \in 1 .. k
  OBVIOUS
<1>2. \A i \in 1 .. k : a[i] \in PartOf(n) /\ b[i] \in PartOf(n)
  BY DEF Splits
<1>3. \A i \in 1 .. k : /\ a[i].items \in Seq(1 .. n) /\ b[i].items \in Seq(1 .. n)
                        /\ a[i].sum \in Nat /\ b[i].sum \in Nat
  BY <1>2 DEF PartOf
<1>4. \A i \in 1 .. k : m[i] = [items |-> a[i].items \o b[k + 1 - i].items,
                                sum |-> a[i].sum + b[k + 1 - i].sum]
  BY DEF Met, Joined
<1>5. ASSUME NEW i \in 1 .. k PROVE Joined(a[i], b[k + 1 - i]) \in PartOf(n)
  <2> DEFINE p == a[i]
             q == b[k + 1 - i]
  <2>1. p.items \in Seq(1 .. n) /\ q.items \in Seq(1 .. n) /\ p.sum \in Nat /\ q.sum \in Nat
    BY <1>1, <1>3
  <2> HIDE DEF p, q
  <2>2. p.items \o q.items \in Seq(1 .. n) /\ p.sum + q.sum \in Nat
    BY <2>1
  <2>3. Joined(p, q) \in PartOf(n)
    BY <2>2 DEF Joined, PartOf
  <2> QED BY <2>3 DEF p, q
<1>6. m \in Splits(n, k)
  BY <1>5 DEF Met, Splits
<1> HIDE DEF m
<1>7. \A i \in 1 .. k : /\ m[i].items = a[i].items \o b[k + 1 - i].items
                        /\ m[i].sum = a[i].sum + b[k + 1 - i].sum
  <2> SUFFICES ASSUME NEW i \in 1 .. k
               PROVE  /\ m[i].items = a[i].items \o b[k + 1 - i].items
                      /\ m[i].sum = a[i].sum + b[k + 1 - i].sum
    OBVIOUS
  <2> DEFINE p == a[i].items \o b[k + 1 - i].items
             q == a[i].sum + b[k + 1 - i].sum
  <2>1. m[i] = [items |-> p, sum |-> q]
    BY <1>4
  <2> HIDE DEF p, q
  <2>2. m[i].items = p /\ m[i].sum = q
    BY <2>1
  <2> QED BY <2>2 DEF p, q
<1>8. \A i \in 1 .. k :
        /\ k + 1 - i \in 1 .. k
        /\ m[i].items = a[i].items \o b[k + 1 - i].items
        /\ m[i].sum = a[i].sum + b[k + 1 - i].sum
        /\ a[i].items \in Seq(1 .. n) /\ b[i].items \in Seq(1 .. n)
        /\ a[i].sum \in Nat /\ b[i].sum \in Nat
  BY ONLY <1>1, <1>3, <1>7
<1> QED BY ONLY <1>6, <1>8 DEF m

\* No row is lost when two states are put together.
LEMMA MetHas ==
  ASSUME NEW n \in Nat, NEW k \in Nat, NEW a \in Splits(n, k), NEW b \in Splits(n, k), NEW r
  PROVE  Has(Met(a, b, k), r) <=> Has(a, r) \/ Has(b, r)
<1> DEFINE m == Met(a, b, k)
<1>0. DOMAIN a = 1 .. k /\ DOMAIN b = 1 .. k /\ DOMAIN m = 1 .. k
  BY DEF Splits, Met
<1>1. \A i \in 1 .. k :
        /\ k + 1 - i \in 1 .. k
        /\ m[i].items = a[i].items \o b[k + 1 - i].items
        /\ a[i].items \in Seq(1 .. n) /\ b[i].items \in Seq(1 .. n)
  BY MetRows
<1> HIDE DEF m
<1>2. ASSUME NEW i \in 1 .. k, NEW x \in DOMAIN m[i].items, m[i].items[x] = r
      PROVE  Has(a, r) \/ Has(b, r)
  <2> DEFINE p == a[i].items
             q == b[k + 1 - i].items
             j == k + 1 - i
  <2>1. p \in Seq(1 .. n) /\ q \in Seq(1 .. n) /\ m[i].items = p \o q /\ j \in 1 .. k
    BY <1>1
  <2> HIDE DEF p, q
  <2>2. \/ x \in DOMAIN p /\ (p \o q)[x] = p[x]
        \/ x - Len(p) \in DOMAIN q /\ (p \o q)[x] = q[x - Len(p)]
    BY <1>2, <2>1, JoinedRows
  <2>3. CASE x \in DOMAIN p /\ (p \o q)[x] = p[x]
    BY <1>0, <1>2, <2>1, <2>3 DEF Has, p
  <2>4. CASE x - Len(p) \in DOMAIN q /\ (p \o q)[x] = q[x - Len(p)]
    BY <1>0, <1>2, <2>1, <2>4 DEF Has, q
  <2> QED BY <2>2, <2>3, <2>4
<1>3. ASSUME NEW i \in 1 .. k, NEW x \in DOMAIN a[i].items, a[i].items[x] = r
      PROVE  Has(m, r)
  <2> DEFINE p == a[i].items
             q == b[k + 1 - i].items
  <2>1. p \in Seq(1 .. n) /\ q \in Seq(1 .. n) /\ m[i].items = p \o q
    BY <1>1
  <2> HIDE DEF p, q
  <2>2. x \in DOMAIN p /\ p[x] = r
    BY <1>3 DEF p
  <2>3. x \in DOMAIN (p \o q) /\ (p \o q)[x] = r
    BY <2>1, <2>2, JoinedRows
  <2> QED BY <1>0, <2>1, <2>3 DEF Has
<1>4. ASSUME NEW h \in 1 .. k, NEW y \in DOMAIN b[h].items, b[h].items[y] = r
      PROVE  Has(m, r)
  <2> DEFINE i == k + 1 - h
             p == a[i].items
             q == b[h].items
  <2>1. p \in Seq(1 .. n) /\ q \in Seq(1 .. n) /\ i \in 1 .. k
    BY <1>1
  <2>2. m[i].items = p \o q
    <3>1. k + 1 - i = h
      OBVIOUS
    <3> HIDE DEF i
    <3> QED BY <1>1, <2>1, <3>1
  <2> HIDE DEF p, q, i
  <2>3. y \in DOMAIN q /\ q[y] = r
    BY <1>4 DEF q
  <2>4. Len(p) + y \in DOMAIN (p \o q) /\ (p \o q)[Len(p) + y] = r
    BY <2>1, <2>3, JoinedRows
  <2> QED BY <1>0, <2>1, <2>2, <2>4 DEF Has
<1>5. Has(m, r) => Has(a, r) \/ Has(b, r)
  BY <1>0, <1>2 DEF Has
<1>6. Has(a, r) \/ Has(b, r) => Has(m, r)
  BY <1>0, <1>3, <1>4 DEF Has
<1> QED BY <1>5, <1>6 DEF m

\* No row is in two places when two states are put together.
LEMMA MetOnePlace ==
  ASSUME NEW n \in Nat, NEW k \in Nat, NEW a \in Splits(n, k), NEW b \in Splits(n, k),
         OnePlace(a), OnePlace(b), Disjoint(a, b)
  PROVE  OnePlace(Met(a, b, k))
<1> DEFINE m == Met(a, b, k)
<1>0. DOMAIN a = 1 .. k /\ DOMAIN b = 1 .. k /\ DOMAIN m = 1 .. k
  BY DEF Splits, Met
<1>1. \A i \in 1 .. k :
        /\ k + 1 - i \in 1 .. k
        /\ m[i].items = a[i].items \o b[k + 1 - i].items
        /\ a[i].items \in Seq(1 .. n) /\ b[i].items \in Seq(1 .. n)
  BY MetRows
<1> HIDE DEF m
<1> DEFINE InA(i, x) == x \in DOMAIN a[i].items /\ m[i].items[x] = a[i].items[x]
           Off(i, x) == x - Len(a[i].items)
           InB(i, x) == /\ Off(i, x) \in DOMAIN b[k + 1 - i].items
                        /\ m[i].items[x] = b[k + 1 - i].items[Off(i, x)]
<1>2. ASSUME NEW i \in 1 .. k, NEW x \in DOMAIN m[i].items
      PROVE  (InA(i, x) \/ InB(i, x)) /\ x \in Int /\ Len(a[i].items) \in Int
  <2> DEFINE p == a[i].items
             q == b[k + 1 - i].items
  <2>1. p \in Seq(1 .. n) /\ q \in Seq(1 .. n) /\ m[i].items = p \o q
    BY <1>1
  <2>2. x \in Int /\ Len(p) \in Int
    BY <2>1
  <2> HIDE DEF p, q
  <2>3. \/ x \in DOMAIN p /\ (p \o q)[x] = p[x]
        \/ x - Len(p) \in DOMAIN q /\ (p \o q)[x] = q[x - Len(p)]
    BY <2>1, JoinedRows
  <2> QED BY <2>1, <2>2, <2>3 DEF p, q
<1> SUFFICES ASSUME NEW i \in 1 .. k, NEW j \in 1 .. k,
                    NEW x \in DOMAIN m[i].items, NEW y \in DOMAIN m[j].items,
                    m[i].items[x] = m[j].items[y]
             PROVE  i = j /\ x = y
  BY <1>0 DEF OnePlace, m
<1>3. /\ InA(i, x) \/ InB(i, x)
      /\ InA(j, y) \/ InB(j, y)
      /\ x \in Int /\ y \in Int /\ Len(a[i].items) \in Int /\ Len(a[j].items) \in Int
  BY <1>2
<1>4. CASE InA(i, x) /\ InA(j, y)
  <2>1. /\ x \in DOMAIN a[i].items /\ y \in DOMAIN a[j].items
        /\ a[i].items[x] = a[j].items[y]
    BY <1>4
  <2> HIDE DEF InA, InB
  <2> QED BY <1>0, <2>1 DEF OnePlace
<1>5. CASE InA(i, x) /\ InB(j, y)
  <2>1. Has(a, m[i].items[x])
    BY <1>0, <1>5 DEF Has
  <2>2. Has(b, m[j].items[y])
    BY <1>0, <1>1, <1>5 DEF Has
  <2> QED BY <2>1, <2>2 DEF Disjoint
<1>6. CASE InB(i, x) /\ InA(j, y)
  <2>1. Has(a, m[j].items[y])
    BY <1>0, <1>6 DEF Has
  <2>2. Has(b, m[i].items[x])
    BY <1>0, <1>1, <1>6 DEF Has
  <2> QED BY <2>1, <2>2 DEF Disjoint
<1>7. CASE InB(i, x) /\ InB(j, y)
  <2> DEFINE f == k + 1 - i
             g == k + 1 - j
             u == Off(i, x)
             v == Off(j, y)
  <2>1. f \in 1 .. k /\ g \in 1 .. k /\ u \in DOMAIN b[f].items /\ v \in DOMAIN b[g].items
        /\ b[f].items[u] = b[g].items[v]
    BY <1>1, <1>7
  <2> HIDE DEF f, g, u, v
  <2>2. f = g /\ u = v
    BY <1>0, <2>1 DEF OnePlace
  <2>3. i = j
    BY <2>2 DEF f, g
  <2>4. x = y
    BY <1>3, <2>2, <2>3 DEF u, v
  <2> QED BY <2>3, <2>4
<1> QED BY <1>3, <1>4, <1>5, <1>6, <1>7

\* Heavy parts that meet light ones stay as even as the states were; parts of
\* equal size, and empty parts, stay so too.
LEMMA MetLoads ==
  ASSUME NEW n \in Nat, NEW k \in Nat, NEW len \in Lens(n), NEW d \in Nat,
         NEW a \in Splits(n, k), NEW b \in Splits(n, k), Disjoint(a, b),
         Falling(a), Falling(b), Summed(a, len), Summed(b, len)
  PROVE  /\ Summed(Met(a, b, k), len)
         /\ Even(a, d) /\ Even(b, d) => Even(Met(a, b, k), d)
         /\ SameSize(a) /\ SameSize(b) => SameSize(Met(a, b, k))
         /\ Sparse(a) /\ Sparse(b) => Sparse(Met(a, b, k))
<1> DEFINE m == Met(a, b, k)
<1>0. DOMAIN a = 1 .. k /\ DOMAIN b = 1 .. k /\ DOMAIN m = 1 .. k
  BY DEF Splits, Met
<1>1. \A i \in 1 .. k :
        /\ k + 1 - i \in 1 .. k
        /\ m[i].items = a[i].items \o b[k + 1 - i].items
        /\ m[i].sum = a[i].sum + b[k + 1 - i].sum
        /\ a[i].items \in Seq(1 .. n) /\ b[i].items \in Seq(1 .. n)
        /\ a[i].sum \in Nat /\ b[i].sum \in Nat
  BY MetRows
<1> HIDE DEF m
<1>2. Summed(m, len)
  <2> SUFFICES ASSUME NEW i \in 1 .. k PROVE m[i].sum = Tokens(ToSet(m[i].items), len)
    BY <1>0 DEF Summed
  <2> DEFINE j == k + 1 - i
             p == a[i].items
             q == b[j].items
  <2>1. j \in 1 .. k /\ p \in Seq(1 .. n) /\ q \in Seq(1 .. n)
    BY <1>1
  <2>2. m[i].items = p \o q /\ m[i].sum = a[i].sum + b[j].sum
    BY <1>1
  <2>3. a[i].sum = Tokens(ToSet(p), len) /\ b[j].sum = Tokens(ToSet(q), len)
    BY <1>0, <2>1 DEF Summed
  <2>4. \A x \in DOMAIN p, y \in DOMAIN q : p[x] # q[y]
    <3> SUFFICES ASSUME NEW x \in DOMAIN p, NEW y \in DOMAIN q, p[x] = q[y] PROVE FALSE
      OBVIOUS
    <3>1. Has(a, p[x]) /\ Has(b, p[x])
      BY <1>0, <2>1 DEF Has
    <3> QED BY <3>1 DEF Disjoint
  <2> HIDE DEF p, q, j
  <2>5. Tokens(ToSet(p \o q), len) = Tokens(ToSet(p), len) + Tokens(ToSet(q), len)
    BY <2>1, <2>4, TokensConcat
  <2> QED BY <2>2, <2>3, <2>5
<1>3. ASSUME Even(a, d), Even(b, d) PROVE Even(m, d)
  <2> SUFFICES ASSUME NEW i \in 1 .. k, NEW j \in 1 .. k PROVE m[i].sum - m[j].sum <= d
    BY <1>0 DEF Even
  <2> DEFINE f == k + 1 - i
             g == k + 1 - j
  <2>1. f \in 1 .. k /\ g \in 1 .. k /\ (i <= j => g <= f) /\ (j <= i => f <= g)
    OBVIOUS
  <2>2. m[i].sum = a[i].sum + b[f].sum /\ m[j].sum = a[j].sum + b[g].sum
    BY <1>1
  <2> HIDE DEF f, g
  <2>3. a[i].sum \in Nat /\ a[j].sum \in Nat /\ b[f].sum \in Nat /\ b[g].sum \in Nat
    BY <1>1, <2>1
  <2>4. a[i].sum - a[j].sum <= d /\ b[f].sum - b[g].sum <= d
    BY <1>0, <1>3, <2>1 DEF Even
  <2>5. CASE i <= j
    <3>1. b[f].sum <= b[g].sum
      BY <1>0, <2>1, <2>5 DEF Falling
    <3> QED BY <2>2, <2>3, <2>4, <3>1
  <2>6. CASE j <= i
    <3>1. a[i].sum <= a[j].sum
      BY <1>0, <2>6 DEF Falling
    <3> QED BY <2>2, <2>3, <2>4, <3>1
  <2> QED BY <2>5, <2>6
<1>4. ASSUME SameSize(a), SameSize(b) PROVE SameSize(m)
  <2> SUFFICES ASSUME NEW i \in 1 .. k, NEW j \in 1 .. k
               PROVE  Len(m[i].items) = Len(m[j].items)
    BY <1>0 DEF SameSize
  <2> DEFINE f == k + 1 - i
             g == k + 1 - j
  <2>1. f \in 1 .. k /\ g \in 1 .. k
    OBVIOUS
  <2>2. m[i].items = a[i].items \o b[f].items /\ m[j].items = a[j].items \o b[g].items
    BY <1>1
  <2> HIDE DEF f, g
  <2>3. Len(a[i].items) = Len(a[j].items) /\ Len(b[f].items) = Len(b[g].items)
    BY <1>0, <1>4, <2>1 DEF SameSize
  <2>4. Len(m[i].items) = Len(a[i].items) + Len(b[f].items)
    BY <1>1, <2>1, <2>2
  <2>5. Len(m[j].items) = Len(a[j].items) + Len(b[g].items)
    BY <1>1, <2>1, <2>2
  <2> QED BY <2>3, <2>4, <2>5
<1>5. \A i \in 1 .. k : /\ a[i].items = <<>> <=> a[i].sum = 0
                        /\ b[i].items = <<>> <=> b[i].sum = 0
  <2> SUFFICES ASSUME NEW i \in 1 .. k
               PROVE  /\ a[i].items = <<>> <=> a[i].sum = 0
                      /\ b[i].items = <<>> <=> b[i].sum = 0
    OBVIOUS
  <2> DEFINE p == a[i].items
             q == b[i].items
  <2>1. p \in Seq(1 .. n) /\ q \in Seq(1 .. n)
    BY <1>1
  <2>2. a[i].sum = Tokens(ToSet(p), len) /\ b[i].sum = Tokens(ToSet(q), len)
    BY <1>0 DEF Summed
  <2> HIDE DEF p, q
  <2>3. /\ p = <<>> => Tokens(ToSet(p), len) = 0
        /\ p # <<>> => Tokens(ToSet(p), len) >= 1
    BY <2>1, TokensAre
  <2>4. /\ q = <<>> => Tokens(ToSet(q), len) = 0
        /\ q # <<>> => Tokens(ToSet(q), len) >= 1
    BY <2>1, TokensAre
  <2>5. p = <<>> <=> a[i].sum = 0
    BY <2>2, <2>3
  <2>6. q = <<>> <=> b[i].sum = 0
    BY <2>2, <2>4
  <2> QED BY <2>5, <2>6 DEF p, q
<1>6. ASSUME Sparse(a), Sparse(b) PROVE Sparse(m)
  <2> SUFFICES ASSUME NEW i \in 1 .. k, NEW j \in 1 .. k, m[i].items = <<>>
               PROVE  Len(m[j].items) <= 1
    BY <1>0 DEF Sparse
  <2> DEFINE f == k + 1 - i
             g == k + 1 - j
  <2>1. f \in 1 .. k /\ g \in 1 .. k /\ (i <= j => g <= f) /\ (j < i => f <= g)
    OBVIOUS
  <2>2. m[i].items = a[i].items \o b[f].items /\ m[j].items = a[j].items \o b[g].items
    BY <1>1
  <2> HIDE DEF f, g
  <2>3. a[i].items = <<>> /\ b[f].items = <<>>
    <3> DEFINE p == a[i].items
               q == b[f].items
    <3>1. p \in Seq(1 .. n) /\ q \in Seq(1 .. n)
      BY <1>1, <2>1
    <3>2. p \o q = <<>>
      BY <2>2
    <3> HIDE DEF p, q
    <3>3. Len(p) + Len(q) = 0 /\ Len(p) \in Nat /\ Len(q) \in Nat
      BY <3>1, <3>2
    <3>4. Len(p) = 0 /\ Len(q) = 0
      BY <3>3
    <3>5. p = <<>> /\ q = <<>>
      BY <3>1, <3>4
    <3> QED BY <3>5 DEF p, q
  <2>4. Len(a[j].items) <= 1 /\ Len(b[g].items) <= 1
    BY <1>0, <1>6, <2>1, <2>3 DEF Sparse
  <2>5. a[j].items = <<>> \/ b[g].items = <<>>
    <3>1. CASE i <= j
      <4>1. a[j].sum <= a[i].sum
        BY <1>0, <3>1 DEF Falling
      <4>2. a[i].sum = 0 /\ a[j].sum \in Nat
        BY <1>1, <1>5, <2>3
      <4>3. a[j].sum = 0
        BY <4>1, <4>2
      <4> QED BY <1>5, <4>3
    <3>2. CASE j < i
      <4>1. b[g].sum <= b[f].sum
        BY <1>0, <2>1, <3>2 DEF Falling
      <4>2. b[f].sum = 0 /\ b[g].sum \in Nat
        BY <1>1, <1>5, <2>1, <2>3
      <4>3. b[g].sum = 0
        BY <4>1, <4>2
      <4> QED BY <1>5, <2>1, <4>3
    <3> QED BY <3>1, <3>2
  <2>6. a[j].items \in Seq(1 .. n) /\ b[g].items \in Seq(1 .. n)
    BY <1>1, <2>1
  <2>7. Len(m[j].items) = Len(a[j].items) + Len(b[g].items)
    BY <2>2, <2>6
  <2> DEFINE u == Len(a[j].items)
             v == Len(b[g].items)
  <2>8. u \in Nat /\ v \in Nat /\ (u = 0 \/ v = 0)
    BY <2>5, <2>6
  <2>9. u <= 1 /\ v <= 1 /\ Len(m[j].items) = u + v
    BY <2>4, <2>7
  <2> HIDE DEF u, v
  <2> QED BY <2>8, <2>9
<1> QED BY <1>2, <1>3, <1>4, <1>6 DEF m

\* Two states become one with the rows of both.
LEMMA MergedIs ==
  ASSUME NEW n \in Nat, NEW k \in Nat, NEW len \in Lens(n), NEW d \in Nat, NEW e \in BOOLEAN,
         NEW a, State(a, n, k, len, d, e), NEW b, State(b, n, k, len, d, e), Disjoint(a, b)
  PROVE  /\ State(Merged(a, b), n, k, len, d, e)
         /\ \A r : Has(Merged(a, b), r) <=> Has(a, r) \/ Has(b, r)
<1> DEFINE m == Met(a, b, k)
           h == HeaviestFirst(m)
<1>0. a \in Splits(n, k) /\ b \in Splits(n, k)
  BY DEF State
<1>1. Merged(a, b) = h
  <2>1. DOMAIN a = 1 .. k /\ Len(b) = k
    BY <1>0 DEF Splits
  <2> QED BY <2>1 DEF Merged, Met
<1>2. m \in Splits(n, k) /\ OnePlace(m) /\ \A r : Has(m, r) <=> Has(a, r) \/ Has(b, r)
  BY <1>0, MetRows, MetOnePlace, MetHas DEF State
<1>3. /\ Summed(m, len)
      /\ Even(m, d)
      /\ e => SameSize(m)
      /\ ~ e => Sparse(m)
  <2>1. /\ Summed(m, len)
        /\ Even(a, d) /\ Even(b, d) => Even(m, d)
        /\ SameSize(a) /\ SameSize(b) => SameSize(m)
        /\ Sparse(a) /\ Sparse(b) => Sparse(m)
    BY <1>0, MetLoads DEF State
  <2> HIDE DEF m
  <2> QED BY <2>1 DEF State
<1> HIDE DEF m
<1>4. Falling(h) /\ \E o : Permutes(o, k) /\ h = [i \in 1 .. k |-> m[o[i]]]
  BY <1>2, HeaviestFirstIs
<1>5. PICK o : Permutes(o, k) /\ h = [i \in 1 .. k |-> m[o[i]]]
  BY <1>4
<1> HIDE DEF h
<1>6. KeepsAll(m, h, n, k, len, d)
  BY <1>2, <1>5, Reordered
<1>7. \A r : Has(h, r) <=> Has(a, r) \/ Has(b, r)
  BY <1>2, <1>6 DEF KeepsAll
<1>8. \E r \in 1 .. n : Has(h, r)
  BY <1>7 DEF State
<1>9. State(h, n, k, len, d, e)
  BY <1>2, <1>3, <1>4, <1>6, <1>8 DEF State, KeepsAll
<1> QED BY <1>1, <1>7, <1>9

Heap(H, n, k, len, d, e) ==
  /\ IsFiniteSet(H)
  /\ \A s \in H : State(s, n, k, len, d, e)
  /\ \A s, t \in H : s # t => Disjoint(s, t)

AllRows(H, n) == \A r \in 1 .. n : \E s \in H : Has(s, r)

\* The heaviest part of a state has a row.
LEMMA FirstRow ==
  ASSUME NEW n \in Nat, NEW k \in Nat \ {0}, NEW len \in Lens(n), NEW d \in Nat, NEW e \in BOOLEAN,
         NEW s, State(s, n, k, len, d, e)
  PROVE  /\ s[1].items \in Seq(1 .. n) /\ s[1].items # <<>> /\ s[1].items[1] \in 1 .. n
         /\ Has(s, s[1].items[1])
         /\ s[1].sum \in Nat /\ Spread(s) \in Int
<1>0. /\ DOMAIN s = 1 .. k /\ Len(s) = k /\ 1 \in 1 .. k /\ k \in 1 .. k
      /\ \A i \in 1 .. k : s[i].items \in Seq(1 .. n) /\ s[i].sum \in Nat
  BY DEF State, Splits, PartOf
<1>1. PICK r \in 1 .. n : Has(s, r)
  BY DEF State
<1>2. PICK i \in 1 .. k : \E x \in DOMAIN s[i].items : s[i].items[x] = r
  BY <1>0, <1>1 DEF Has
<1>3. s[i].items # <<>>
  BY <1>2
<1> DEFINE p == s[i].items
           q == s[1].items
<1>4. p \in Seq(1 .. n) /\ q \in Seq(1 .. n)
  BY <1>0
<1>5. s[i].sum = Tokens(ToSet(p), len) /\ s[1].sum = Tokens(ToSet(q), len) /\ s[i].sum <= s[1].sum
  <2>1. Summed(s, len) /\ Falling(s)
    BY DEF State
  <2>2. s[i].sum = Tokens(ToSet(p), len) /\ s[1].sum = Tokens(ToSet(q), len)
    BY <1>0, <2>1 DEF Summed
  <2>3. 1 <= i
    OBVIOUS
  <2> QED BY <1>0, <2>1, <2>2, <2>3 DEF Falling
<1> HIDE DEF p, q
<1>6. Tokens(ToSet(p), len) >= 1 /\ Tokens(ToSet(p), len) \in Nat
  BY <1>3, <1>4, TokensAre DEF p
<1>7. q = <<>> => Tokens(ToSet(q), len) = 0
  BY <1>4, TokensAre
<1>8. q # <<>>
  BY <1>5, <1>6, <1>7
<1>9. 1 \in DOMAIN q /\ q[1] \in 1 .. n
  BY <1>4, <1>8
<1>10. Has(s, q[1])
  BY <1>0, <1>9 DEF Has, q
<1>11. Spread(s) \in Int
  BY <1>0 DEF Spread, Last
<1> QED BY <1>0, <1>4, <1>8, <1>9, <1>10, <1>11 DEF q

\* States that share no row are ordered by Before, so there is a first.
LEMMA TopIs ==
  ASSUME NEW n \in Nat, NEW k \in Nat \ {0}, NEW len \in Lens(n), NEW d \in Nat, NEW e \in BOOLEAN,
         NEW H, Heap(H, n, k, len, d, e), H # {}
  PROVE  Top(H) \in H
<1> DEFINE T(s) == s[1].sum
           L(s) == Len(s[1].items)
           F(s) == s[1].items[1]
           P(s) == Spread(s)
           Lt(a, b) == \/ P(a) > P(b)
                       \/ P(a) = P(b) /\ T(b) < T(a)
                       \/ P(a) = P(b) /\ T(b) = T(a) /\ L(b) < L(a)
                       \/ P(a) = P(b) /\ T(b) = T(a) /\ L(b) = L(a) /\ F(b) < F(a)
           R == {x \in H \X H : x[1] = x[2] \/ Before(x[1], x[2])}
<1>0. \A s \in H : State(s, n, k, len, d, e)
  BY DEF Heap
<1>1. ASSUME NEW s \in H
      PROVE  /\ s[1].items \in Seq(1 .. n) /\ s[1].items # <<>> /\ F(s) \in 1 .. n
             /\ Has(s, F(s))
             /\ T(s) \in Nat /\ P(s) \in Int
  BY <1>0, FirstRow
<1>2. \A s \in H : P(s) \in Int /\ T(s) \in Int /\ L(s) \in Int /\ F(s) \in Int
  BY <1>1
<1>3. \A s, t \in H : F(s) = F(t) => s = t
  BY <1>1 DEF Heap, Disjoint
<1>4. \A a, b \in H : Before(a, b) <=> Lt(a, b)
  <2> SUFFICES ASSUME NEW a \in H, NEW b \in H PROVE Before(a, b) <=> Lt(a, b)
    OBVIOUS
  <2>1. b[1].items # <<>>
    BY <1>1
  <2>2. Lighter(b[1], a[1]) <=>
          \/ T(b) < T(a)
          \/ T(b) = T(a) /\ (L(b) < L(a) \/ (L(b) = L(a) /\ F(b) < F(a)))
    BY <2>1 DEF Lighter
  <2>3. Before(a, b) <=> P(a) > P(b) \/ (P(a) = P(b) /\ Lighter(b[1], a[1]))
    BY DEF Before
  <2> HIDE DEF T, L, F, P
  <2> QED BY <2>2, <2>3
<1>5. \A a, b \in H : <<a, b>> \in R <=> a = b \/ Lt(a, b)
  <2> SUFFICES ASSUME NEW a \in H, NEW b \in H PROVE <<a, b>> \in R <=> a = b \/ Lt(a, b)
    OBVIOUS
  <2>1. <<a, b>> \in R <=> a = b \/ Before(a, b)
    OBVIOUS
  <2> HIDE DEF R, Lt
  <2> QED BY <1>4, <2>1
<1> HIDE DEF T, L, F, P, R
<1>6. Linear(R, H)
  <2>1. ASSUME NEW a \in H, NEW b \in H PROVE <<a, b>> \in R \/ <<b, a>> \in R
    <3>1. F(a) = F(b) => a = b
      BY <1>3
    <3> QED BY <1>2, <1>5, <3>1
  <2>2. ASSUME NEW a \in H, NEW b \in H, <<a, b>> \in R, <<b, a>> \in R PROVE a = b
    BY <1>2, <1>5, <2>2
  <2>3. ASSUME NEW a \in H, NEW b \in H, NEW c \in H, <<a, b>> \in R, <<b, c>> \in R
        PROVE  <<a, c>> \in R
    BY <1>2, <1>5, <2>3
  <2> QED BY <2>1, <2>2, <2>3 DEF Linear
<1>7. IsFiniteSet(H) /\ Cardinality(H) \in Nat /\ Cardinality(H) # 0
  BY FS_EmptySet, FS_CardinalityType DEF Heap
<1>8. PICK a \in H : Place(R, H, a) = 1
  BY <1>6, <1>7, PlacesFill DEF NoneLeftOut
<1>9. ASSUME NEW b \in H \ {a} PROVE Before(a, b)
  <2>1. <<a, b>> \in R \/ <<b, a>> \in R
    BY <1>6 DEF Linear
  <2>2. ~ (<<b, a>> \in R)
    <3> SUFFICES ASSUME <<b, a>> \in R PROVE FALSE
      OBVIOUS
    <3>1. b \in H /\ b # a
      OBVIOUS
    <3>2. Place(R, H, b) < Place(R, H, a) /\ Place(R, H, b) \in 1 .. Cardinality(H)
      BY <1>6, <1>7, <3>1, PlacesFill
    <3> QED BY <1>7, <1>8, <3>2
  <2>3. a # b
    OBVIOUS
  <2> QED BY <1>4, <1>5, <2>1, <2>2, <2>3
<1>10. \E a0 \in H : \A b \in H \ {a0} : Before(a0, b)
  BY <1>9
<1> QED BY <1>10 DEF Top

\* Some states of a heap are a heap.
LEMMA SubHeap ==
  ASSUME NEW n, NEW k, NEW len, NEW d, NEW e, NEW H, Heap(H, n, k, len, d, e),
         NEW G, G \subseteq H
  PROVE  Heap(G, n, k, len, d, e)
<1>1. IsFiniteSet(G)
  BY FS_Subset DEF Heap
<1> QED BY <1>1 DEF Heap

\* A merge leaves one state less, with the same rows.
LEMMA MergeTwoIs ==
  ASSUME NEW n \in Nat, NEW k \in Nat \ {0}, NEW len \in Lens(n), NEW d \in Nat, NEW e \in BOOLEAN,
         NEW H, Heap(H, n, k, len, d, e), Cardinality(H) >= 2
  PROVE  /\ Heap(MergeTwo(H), n, k, len, d, e)
         /\ Cardinality(MergeTwo(H)) = Cardinality(H) - 1
         /\ AllRows(H, n) => AllRows(MergeTwo(H), n)
<1> DEFINE a == Top(H)
           G == H \ {a}
           b == Top(G)
           K == G \ {b}
           m == Merged(a, b)
<1>0. IsFiniteSet(H) /\ Cardinality(H) \in Nat /\ H # {}
  BY FS_EmptySet, FS_CardinalityType DEF Heap
<1>1. a \in H
  BY <1>0, TopIs
<1> HIDE DEF a
<1>2. Heap(G, n, k, len, d, e)
  <2>1. G \subseteq H
    OBVIOUS
  <2> HIDE DEF G
  <2> QED BY <2>1, SubHeap
<1>3. IsFiniteSet(G) /\ Cardinality(G) = Cardinality(H) - 1
  BY <1>0, <1>1, FS_RemoveElement
<1>4. G # {}
  <2> HIDE DEF G
  <2> QED BY <1>0, <1>3, FS_EmptySet
<1>5. b \in G
  <2> HIDE DEF G
  <2> QED BY <1>2, <1>4, TopIs
<1> HIDE DEF b
<1>6. b \in H /\ a # b /\ a \notin K /\ b \notin K /\ K \subseteq H /\ K = H \ {a, b}
  BY <1>5
<1>7. IsFiniteSet(K) /\ Cardinality(K) = Cardinality(H) - 2
  <2>1. IsFiniteSet(K) /\ Cardinality(K) = Cardinality(G) - 1
    <3> HIDE DEF G
    <3> QED BY <1>3, <1>5, FS_RemoveElement
  <2> QED BY <1>0, <1>3, <2>1
<1>8. MergeTwo(H) = K \cup {m}
  BY <1>6 DEF MergeTwo, a, b
<1> HIDE DEF K, G, m
<1>9. Disjoint(a, b) /\ State(a, n, k, len, d, e) /\ State(b, n, k, len, d, e)
  BY <1>1, <1>6 DEF Heap
<1>10. State(m, n, k, len, d, e) /\ \A r : Has(m, r) <=> Has(a, r) \/ Has(b, r)
  BY <1>9, MergedIs DEF m
<1>11. ASSUME NEW s \in K PROVE State(s, n, k, len, d, e) /\ Disjoint(s, m) /\ Disjoint(m, s)
  <2>1. s \in H /\ s # a /\ s # b
    BY <1>6
  <2>2. Disjoint(s, a) /\ Disjoint(s, b) /\ State(s, n, k, len, d, e)
    BY <1>1, <1>6, <2>1 DEF Heap
  <2> QED BY <1>10, <2>2 DEF Disjoint
<1>12. m \notin K
  <2>1. PICK r \in 1 .. n : Has(m, r)
    BY <1>10 DEF State
  <2> QED BY <1>11, <2>1 DEF Disjoint
<1>13. IsFiniteSet(K \cup {m}) /\ Cardinality(K \cup {m}) = Cardinality(K) + 1
  BY <1>7, <1>12, FS_AddElement
<1>14. \A s, t \in K : s # t => Disjoint(s, t)
  BY <1>6 DEF Heap
<1>15. Heap(K \cup {m}, n, k, len, d, e)
  <2>1. \A s \in K \cup {m} : State(s, n, k, len, d, e)
    BY <1>10, <1>11
  <2>2. \A s, t \in K \cup {m} : s # t => Disjoint(s, t)
    BY <1>11, <1>14
  <2> QED BY <1>13, <2>1, <2>2 DEF Heap
<1>16. ASSUME AllRows(H, n) PROVE AllRows(K \cup {m}, n)
  <2> SUFFICES ASSUME NEW r \in 1 .. n PROVE \E s \in K \cup {m} : Has(s, r)
    BY DEF AllRows
  <2>1. PICK s \in H : Has(s, r)
    BY <1>16 DEF AllRows
  <2>2. CASE s \in K
    BY <2>1, <2>2
  <2>3. CASE s \notin K
    BY <1>6, <1>10, <2>1, <2>3
  <2> QED BY <2>2, <2>3
<1>17. Cardinality(K \cup {m}) = Cardinality(H) - 1
  BY <1>0, <1>7, <1>13
<1> QED BY <1>8, <1>15, <1>16, <1>17

\* How far the rows of the first states can be apart.
Near(n, len, d, e) ==
  \A q, r \in 1 .. n : IF e THEN len[q] - len[r] <= d ELSE len[q] <= d

\* A state of these rows.
RowsAre(s, U) == \A r : Has(s, r) <=> r \in U

Lone(j, k, len) == [i \in 1 .. k |-> IF i = 1 THEN OneRow(j, len) ELSE NoRows]

\* A state of one row.
LEMMA LoneIs ==
  ASSUME NEW n \in Nat, NEW k \in Nat \ {0}, NEW len \in Lens(n), NEW d \in Nat,
         Near(n, len, d, FALSE), NEW j \in 1 .. n
  PROVE  /\ State(Lone(j, k, len), n, k, len, d, FALSE)
         /\ RowsAre(Lone(j, k, len), {j})
<1> DEFINE s == Lone(j, k, len)
<1>1. /\ DOMAIN s = 1 .. k /\ 1 \in 1 .. k
      /\ s[1] = OneRow(j, len)
      /\ \A i \in 1 .. k : i # 1 => s[i] = NoRows
  BY DEF Lone
<1>2. len[j] \in Nat /\ len[j] <= d /\ len[j] >= 1
  BY DEF Near, Lens
<1>3. /\ OneRow(j, len).items = <<j>> /\ OneRow(j, len).sum = len[j]
      /\ NoRows.items = <<>> /\ NoRows.sum = 0
  BY DEF OneRow, NoRows
<1>4. s \in Splits(n, k)
  <2>1. <<j>> \in Seq(1 .. n) /\ <<>> \in Seq(1 .. n)
    OBVIOUS
  <2>2. OneRow(j, len) \in PartOf(n) /\ NoRows \in PartOf(n)
    BY <1>2, <2>1 DEF PartOf, OneRow, NoRows
  <2> QED BY <2>2 DEF Lone, Splits
<1> HIDE DEF s
<1>5. /\ s[1].items = <<j>> /\ s[1].sum = len[j]
      /\ \A i \in 1 .. k : i # 1 => s[i].items = <<>> /\ s[i].sum = 0
  BY <1>1, <1>3
<1>6. \A i \in 1 .. k : \A x \in DOMAIN s[i].items : i = 1 /\ x = 1 /\ s[i].items[x] = j
  BY <1>1, <1>5
<1>7. OnePlace(s)
  BY <1>1, <1>6 DEF OnePlace
<1>8. \A r : Has(s, r) <=> r = j
  <2>1. 1 \in DOMAIN s[1].items /\ s[1].items[1] = j
    BY <1>5
  <2> QED BY <1>1, <1>6, <2>1 DEF Has
<1>9. Summed(s, len)
  <2>1. Tokens(ToSet(<<j>>), len) = len[j]
    BY TokensOne
  <2>2. Tokens(ToSet(<<>>), len) = 0
    <3>1. ToSet(<<>>) = {}
      BY DEF ToSet
    <3> QED BY <3>1, SumEmpty DEF Tokens
  <2> QED BY <1>1, <1>5, <2>1, <2>2 DEF Summed
<1>10. Falling(s) /\ Even(s, d)
  <2>1. \A i \in 1 .. k : s[i].sum \in Nat /\ s[i].sum <= d /\ (i # 1 => s[i].sum = 0)
    BY <1>2, <1>5
  <2>2. \A i, h \in 1 .. k : i <= h => s[h].sum <= s[i].sum
    <3> SUFFICES ASSUME NEW i \in 1 .. k, NEW h \in 1 .. k, i <= h PROVE s[h].sum <= s[i].sum
      OBVIOUS
    <3>1. h # 1 \/ i = h
      OBVIOUS
    <3> QED BY <2>1, <3>1
  <2>3. \A i, h \in 1 .. k : s[i].sum - s[h].sum <= d
    BY <2>1
  <2> QED BY <1>1, <2>2, <2>3 DEF Falling, Even
<1>11. Sparse(s)
  <2>1. Len(<<j>>) <= 1 /\ Len(<<>>) <= 1
    OBVIOUS
  <2>2. \A i \in 1 .. k : Len(s[i].items) <= 1
    BY <1>5, <2>1
  <2> QED BY <1>1, <2>2 DEF Sparse
<1>12. RowsAre(s, {j})
  BY <1>8 DEF RowsAre
<1>13. \E r \in 1 .. n : Has(s, r)
  BY <1>8
<1> QED BY <1>4, <1>7, <1>9, <1>10, <1>11, <1>12, <1>13 DEF State, s

\* Rows of their own, in some order.
Row(b, k, len, S) == [i \in 1 .. k |-> OneRow(S[b + i], len)]

RowsFrom(b, k, S) == {S[b + i] : i \in 1 .. k}

\* A state of k rows of about the same length.
LEMMA RowIs ==
  ASSUME NEW n \in Nat, NEW k \in Nat \ {0}, NEW len \in Lens(n), NEW d \in Nat,
         Near(n, len, d, TRUE), NEW S, Permutes(S, n), NEW b \in Nat, b + k <= n
  PROVE  /\ State(HeaviestFirst(Row(b, k, len, S)), n, k, len, d, TRUE)
         /\ RowsAre(HeaviestFirst(Row(b, k, len, S)), RowsFrom(b, k, S))
<1> DEFINE s == Row(b, k, len, S)
           t == HeaviestFirst(s)
           nth(i) == b + i
<1>0. \A i \in 1 .. k : nth(i) \in 1 .. n
  OBVIOUS
<1>0a. \A i, j \in 1 .. k : nth(i) = nth(j) => i = j
  OBVIOUS
<1>1. DOMAIN s = 1 .. k /\ \A i \in 1 .. k : s[i] = OneRow(S[nth(i)], len)
  BY DEF Row
<1> HIDE DEF nth
<1>2. \A i \in 1 .. k : S[nth(i)] \in 1 .. n /\ len[S[nth(i)]] \in Nat
  BY <1>0 DEF Permutes, Lens
<1>3. \A r : OneRow(r, len).items = <<r>> /\ OneRow(r, len).sum = len[r]
  BY DEF OneRow
<1>4. s \in Splits(n, k)
  <2>1. \A r \in 1 .. n : <<r>> \in Seq(1 .. n) /\ len[r] \in Nat
    BY DEF Lens
  <2>2. \A r \in 1 .. n : OneRow(r, len) \in PartOf(n)
    BY <2>1 DEF PartOf, OneRow
  <2>3. s = [i \in 1 .. k |-> OneRow(S[nth(i)], len)]
    BY DEF Row, nth
  <2> HIDE DEF s
  <2>4. \A i \in 1 .. k : OneRow(S[nth(i)], len) \in PartOf(n)
    BY <1>2, <2>2
  <2> QED BY <2>3, <2>4 DEF Splits
<1> HIDE DEF s
<1>5. \A i \in 1 .. k : s[i].items = <<S[nth(i)]>> /\ s[i].sum = len[S[nth(i)]]
  BY <1>1, <1>3
<1>6. \A i \in 1 .. k : DOMAIN s[i].items = {1} /\ s[i].items[1] = S[nth(i)]
  <2> SUFFICES ASSUME NEW i \in 1 .. k
               PROVE  DOMAIN s[i].items = {1} /\ s[i].items[1] = S[nth(i)]
    OBVIOUS
  <2>1. DOMAIN <<S[nth(i)]>> = {1} /\ <<S[nth(i)]>>[1] = S[nth(i)]
    OBVIOUS
  <2> QED BY <1>5, <2>1
<1>7. OnePlace(s)
  <2> SUFFICES ASSUME NEW i \in 1 .. k, NEW j \in 1 .. k, S[nth(i)] = S[nth(j)]
               PROVE  i = j
    BY <1>1, <1>6 DEF OnePlace
  <2>1. nth(i) = nth(j)
    BY <1>0 DEF Permutes
  <2> QED BY <1>0a, <2>1
<1>8. \A r : Has(s, r) <=> \E i \in 1 .. k : r = S[nth(i)]
  BY <1>1, <1>6 DEF Has
<1>9. Summed(s, len)
  <2> SUFFICES ASSUME NEW i \in 1 .. k PROVE s[i].sum = Tokens(ToSet(s[i].items), len)
    BY <1>1 DEF Summed
  <2> DEFINE r == S[nth(i)]
  <2>1. r \in 1 .. n
    BY <1>2
  <2>2. s[i].items = <<r>> /\ s[i].sum = len[r]
    BY <1>5
  <2> HIDE DEF r
  <2>3. Tokens(ToSet(<<r>>), len) = len[r]
    BY <2>1, TokensOne
  <2> QED BY <2>2, <2>3
<1>10. Even(s, d)
  <2> SUFFICES ASSUME NEW i \in 1 .. k, NEW j \in 1 .. k PROVE s[i].sum - s[j].sum <= d
    BY <1>1 DEF Even
  <2>1. len[S[nth(i)]] - len[S[nth(j)]] <= d
    BY <1>2 DEF Near
  <2> QED BY <1>5, <2>1
<1>11. SameSize(s)
  BY <1>1, <1>5 DEF SameSize
<1>12. Falling(t) /\ \E p : Permutes(p, k) /\ t = [i \in 1 .. k |-> s[p[i]]]
  BY <1>4, HeaviestFirstIs
<1>13. PICK p : Permutes(p, k) /\ t = [i \in 1 .. k |-> s[p[i]]]
  BY <1>12
<1> HIDE DEF t
<1>14. KeepsAll(s, t, n, k, len, d)
  BY <1>4, <1>13, Reordered
<1>15. \A r : Has(t, r) <=> \E i \in 1 .. k : r = S[nth(i)]
  BY <1>8, <1>14 DEF KeepsAll
<1>16. \E r \in 1 .. n : Has(t, r)
  <2>1. 1 \in 1 .. k
    OBVIOUS
  <2> QED BY <1>2, <1>15, <2>1
<1>17. State(t, n, k, len, d, TRUE)
  BY <1>7, <1>9, <1>10, <1>11, <1>12, <1>14, <1>16 DEF State, KeepsAll
<1>18. RowsAre(t, RowsFrom(b, k, S))
  BY <1>15 DEF RowsAre, RowsFrom, nth
<1> QED BY <1>17, <1>18 DEF t, s, nth

\* The rows in order of their lengths: each of them once.
LEMMA ShortestIs ==
  ASSUME NEW n \in Nat, NEW len \in Lens(n)
  PROVE  Permutes(Shortest(len), n)
<1> DEFINE D == 1 .. n
           R == {x \in D \X D :
                   len[x[1]] < len[x[2]] \/ (len[x[1]] = len[x[2]] /\ x[1] <= x[2])}
<1>0. DOMAIN len = D /\ \A i \in D : len[i] \in Nat /\ i \in Nat
  BY DEF Lens
<1>1. Shortest(len) = Arranged(D, R)
  BY <1>0 DEF Shortest
<1>2. \A i, j \in D : <<i, j>> \in R <=> len[i] < len[j] \/ (len[i] = len[j] /\ i <= j)
  OBVIOUS
<1>3. IsFiniteSet(D) /\ Cardinality(D) = n
  BY FS_Interval
<1> HIDE DEF R, D
<1>4. Linear(R, D)
  <2>1. ASSUME NEW a \in D, NEW b \in D PROVE <<a, b>> \in R \/ <<b, a>> \in R
    BY <1>0, <1>2
  <2>2. ASSUME NEW a \in D, NEW b \in D, <<a, b>> \in R, <<b, a>> \in R PROVE a = b
    BY <1>0, <1>2, <2>2
  <2>3. ASSUME NEW a \in D, NEW b \in D, NEW c \in D, <<a, b>> \in R, <<b, c>> \in R
        PROVE  <<a, c>> \in R
    BY <1>0, <1>2, <2>3
  <2> QED BY <2>1, <2>2, <2>3 DEF Linear
<1> DEFINE A == Arranged(D, R)
<1>5. /\ A \in [1 .. n -> D]
      /\ \A i \in 1 .. n : Place(R, D, A[i]) = i
      /\ \A p \in D : Place(R, D, p) \in 1 .. n /\ A[Place(R, D, p)] = p
  BY <1>3, <1>4, ArrangedIs
<1> HIDE DEF A
<1>6. Permutes(A, n)
  BY <1>5 DEF Permutes, D
<1> QED BY <1>1, <1>6 DEF A

\* What the first heap is, by either way to make it.
LEMMA FirstAlone ==
  ASSUME NEW n \in Nat \ {0}, NEW k \in Nat \ {0}, NEW len \in Lens(n), NEW d \in Nat,
         Near(n, len, d, FALSE)
  PROVE  /\ Heap(FirstStates(len, k, FALSE), n, k, len, d, FALSE)
         /\ AllRows(FirstStates(len, k, FALSE), n)
         /\ FirstStates(len, k, FALSE) # {}
<1> DEFINE D == 1 .. n
           H == {Lone(j, k, len) : j \in D}
<1>1. FirstStates(len, k, FALSE) = H
  <2>1. DOMAIN len = D
    BY DEF Lens
  <2> QED BY <2>1 DEF FirstStates, Lone
<1>2. \A j \in D : State(Lone(j, k, len), n, k, len, d, FALSE) /\ RowsAre(Lone(j, k, len), {j})
  BY LoneIs
<1>3. IsFiniteSet(D) /\ 1 \in D
  BY FS_Interval
<1>4. IsFiniteSet(H)
  <2> DEFINE f == [j \in D |-> Lone(j, k, len)]
  <2>1. f \in Surjection(D, H)
    BY DEF Surjection
  <2> QED BY <1>3, <2>1, FS_Surjection
<1>5. \A s \in H : State(s, n, k, len, d, FALSE)
  BY <1>2
<1>6. \A s, t \in H : s # t => Disjoint(s, t)
  <2> SUFFICES ASSUME NEW i \in D, NEW j \in D, Lone(i, k, len) # Lone(j, k, len)
               PROVE  Disjoint(Lone(i, k, len), Lone(j, k, len))
    OBVIOUS
  <2>1. i # j
    OBVIOUS
  <2> QED BY <1>2, <2>1 DEF Disjoint, RowsAre
<1>7. AllRows(H, n)
  BY <1>2 DEF AllRows, RowsAre
<1>8. H # {}
  BY <1>3
<1> QED BY <1>1, <1>4, <1>5, <1>6, <1>7, <1>8 DEF Heap

\* The first heap for parts of equal size has every row.
LEMMA FirstEqual ==
  ASSUME NEW n \in Nat \ {0}, NEW k \in Nat \ {0}, NEW len \in Lens(n), NEW d \in Nat,
         Near(n, len, d, TRUE), (n % k) = 0
  PROVE  /\ Heap(FirstStates(len, k, TRUE), n, k, len, d, TRUE)
         /\ AllRows(FirstStates(len, k, TRUE), n)
         /\ FirstStates(len, k, TRUE) # {}
<1> DEFINE S == Shortest(len)
           O == 0 .. (n \div k) - 1
           T(o) == HeaviestFirst(Row(o * k, k, len, S))
           H == {T(o) : o \in O}
<1>1. FirstStates(len, k, TRUE) = H
  <2>1. Len(len) = n
    BY DEF Lens
  <2> QED BY <2>1 DEF FirstStates, Row
<1>2. Permutes(S, n)
  BY ShortestIs
<1> HIDE DEF S
<1>3. n = (n \div k) * k /\ n \div k \in Nat \ {0}
  <2> DEFINE q == n \div k
  <2>1. n = k * q + (n % k) /\ q \in Int
    OBVIOUS
  <2> HIDE DEF q
  <2>2. n = k * q
    BY <2>1
  <2>3. q > 0
    <3>1. q <= 0 => k * q <= 0
      BY <2>1
    <3> QED BY <2>1, <2>2, <3>1
  <2>4. k * q = q * k
    BY <2>1
  <2> QED BY <2>1, <2>2, <2>3, <2>4 DEF q
<1> DEFINE m == n \div k
<1>4. m \in Nat \ {0} /\ n = m * k
  BY <1>3
<1> HIDE DEF m
<1>5. \A o \in O : o \in Nat /\ (o + 1) * k <= n /\ o * k \in Nat /\ o * k + k <= n
  <2> SUFFICES ASSUME NEW o \in O
               PROVE  o \in Nat /\ (o + 1) * k <= n /\ o * k \in Nat /\ o * k + k <= n
    OBVIOUS
  <2>1. o \in Nat /\ o + 1 <= m
    BY <1>4 DEF m
  <2>2. (o + 1) * k <= m * k
    BY <1>4, <2>1
  <2>3. (o + 1) * k = o * k + k /\ o * k \in Nat
    BY <2>1
  <2> QED BY <1>4, <2>1, <2>2, <2>3
<1>6. ASSUME NEW o \in O
      PROVE  /\ State(T(o), n, k, len, d, TRUE)
             /\ RowsAre(T(o), {S[o * k + i] : i \in 1 .. k})
  <2> DEFINE b == o * k
  <2>1. b \in Nat /\ b + k <= n
    BY <1>5
  <2>2. T(o) = HeaviestFirst(Row(b, k, len, S))
    OBVIOUS
  <2> HIDE DEF O, T, b
  <2>3. /\ State(HeaviestFirst(Row(b, k, len, S)), n, k, len, d, TRUE)
        /\ RowsAre(HeaviestFirst(Row(b, k, len, S)), RowsFrom(b, k, S))
    BY <1>2, <2>1, RowIs
  <2> QED BY <2>2, <2>3 DEF b, RowsFrom
<1>7. IsFiniteSet(O) /\ 0 \in O
  BY <1>4, FS_Interval DEF m
<1> HIDE DEF O, T
<1>8. IsFiniteSet(H)
  <2> DEFINE f == [o \in O |-> T(o)]
  <2>1. f \in Surjection(O, H)
    BY DEF Surjection
  <2> QED BY <1>7, <2>1, FS_Surjection
<1>9. \A s \in H : State(s, n, k, len, d, TRUE)
  BY <1>6
<1>10. ASSUME NEW o \in O, NEW p \in O, o < p PROVE Disjoint(T(o), T(p))
  <2> SUFFICES ASSUME NEW i \in 1 .. k, NEW j \in 1 .. k, S[o * k + i] = S[p * k + j]
               PROVE  FALSE
    <3>1. \A r : Has(T(o), r) <=> r \in {S[o * k + i] : i \in 1 .. k}
      BY <1>6 DEF RowsAre
    <3>2. \A r : Has(T(p), r) <=> r \in {S[p * k + j] : j \in 1 .. k}
      BY <1>6 DEF RowsAre
    <3> QED BY <3>1, <3>2 DEF Disjoint
  <2> DEFINE a == o * k
             b == p * k
  <2>1. a \in Nat /\ b \in Nat /\ a + k <= b /\ b + k <= n
    <3>1. (o + 1) * k = a + k /\ (p + 1) * k = b + k
      BY <1>5
    <3>2. (o + 1) * k <= p * k
      BY <1>5, <1>10
    <3> QED BY <1>5, <3>1, <3>2
  <2> HIDE DEF a, b
  <2>2. a + i \in 1 .. n /\ b + j \in 1 .. n /\ a + i < b + j
    BY <2>1
  <2>3. S[a + i] = S[b + j]
    BY DEF a, b
  <2>4. a + i = b + j
    BY <1>2, <2>2, <2>3 DEF Permutes
  <2> QED BY <2>1, <2>2, <2>4
<1>11. \A s, t \in H : s # t => Disjoint(s, t)
  <2> SUFFICES ASSUME NEW o \in O, NEW p \in O, T(o) # T(p) PROVE Disjoint(T(o), T(p))
    OBVIOUS
  <2>1. o # p /\ o \in Nat /\ p \in Nat
    BY <1>5
  <2>2. o < p \/ p < o
    BY <2>1
  <2> QED BY <1>10, <2>2 DEF Disjoint
<1>12. AllRows(H, n)
  <2> SUFFICES ASSUME NEW r \in 1 .. n PROVE \E s \in H : Has(s, r)
    BY DEF AllRows
  <2>1. PICK x \in 1 .. n : S[x] = r
    BY <1>2 DEF Permutes
  <2> DEFINE o == (x - 1) \div k
             i == x - o * k
  <2>2. o \in O /\ i \in 1 .. k /\ x = o * k + i
    <3>1. x - 1 = k * o + ((x - 1) % k) /\ (x - 1) % k \in 0 .. k - 1 /\ o \in Int /\ x - 1 \in Nat
      OBVIOUS
    <3> DEFINE z == (x - 1) % k
    <3>2. x - 1 = k * o + z /\ z \in 0 .. k - 1
      BY <3>1
    <3> HIDE DEF o, z
    <3>3. k * o = o * k
      BY <3>1
    <3>4. o >= 0
      <4>1. o <= -1 => o * k <= (-1) * k
        BY <3>1
      <4>2. (-1) * k = -k
        OBVIOUS
      <4> QED BY <3>1, <3>2, <3>3, <4>1, <4>2
    <3>5. o < m
      <4>1. o >= m => o * k >= m * k
        BY <1>4, <3>1
      <4> QED BY <1>4, <3>1, <3>2, <3>3, <4>1
    <3>6. o \in O
      BY <1>4, <3>1, <3>4, <3>5 DEF O, m
    <3>7. i \in 1 .. k /\ x = o * k + i
      BY <3>1, <3>2, <3>3
    <3> QED BY <3>6, <3>7
  <2> HIDE DEF o, i
  <2>3. Has(T(o), r)
    BY <1>6, <2>1, <2>2 DEF RowsAre
  <2> QED BY <2>2, <2>3
<1>13. H # {}
  BY <1>7
<1> QED BY <1>1, <1>8, <1>9, <1>11, <1>12, <1>13 DEF Heap

\* Two states at a time become one, until one is left.
Heaps(h, H, m) == h = [j \in 0 .. m |-> IF j = 0 THEN H ELSE MergeTwo(h[j - 1])]

\* Merging two states until one is left ends with a state that has every row.
LEMMA HeapsShrink ==
  ASSUME NEW n \in Nat, NEW k \in Nat \ {0}, NEW len \in Lens(n), NEW d \in Nat, NEW e \in BOOLEAN,
         NEW H, Heap(H, n, k, len, d, e), AllRows(H, n), H # {},
         NEW m, m = Cardinality(H) - 1, NEW h, Heaps(h, H, m)
  PROVE  \E s : h[m] = {s} /\ State(s, n, k, len, d, e) /\ \A r \in 1 .. n : Has(s, r)
<1> DEFINE T == {j \in Nat : j <= m => /\ Heap(h[j], n, k, len, d, e)
                                       /\ AllRows(h[j], n)
                                       /\ Cardinality(h[j]) = m + 1 - j}
<1>0. m \in Nat
  BY FS_EmptySet, FS_CardinalityType DEF Heap
<1>1. h[0] = H /\ \A j \in 1 .. m : h[j] = MergeTwo(h[j - 1])
  <2>1. 0 \in 0 .. m /\ \A j \in 1 .. m : j \in 0 .. m /\ j # 0
    BY <1>0
  <2>2. h = [j \in 0 .. m |-> IF j = 0 THEN H ELSE MergeTwo(h[j - 1])]
    BY DEF Heaps
  <2>3. \A j \in 0 .. m : h[j] = IF j = 0 THEN H ELSE MergeTwo(h[j - 1])
    BY <2>2
  <2> QED BY <2>1, <2>3
<1>2. 0 \in T
  <2>1. Cardinality(H) = m + 1 - 0
    BY <1>0, FS_CardinalityType DEF Heap
  <2> QED BY <1>1, <2>1
<1>3. ASSUME NEW j \in 1 .. m, j - 1 \in T PROVE j \in T
  <2> DEFINE G == h[j - 1]
  <2>1. /\ Heap(G, n, k, len, d, e)
        /\ AllRows(G, n)
        /\ Cardinality(G) = m + 1 - (j - 1)
    BY <1>0, <1>3
  <2>2. h[j] = MergeTwo(G)
    BY <1>1
  <2> HIDE DEF G
  <2>3. Cardinality(G) >= 2
    BY <1>0, <2>1
  <2>4. /\ Heap(MergeTwo(G), n, k, len, d, e)
        /\ Cardinality(MergeTwo(G)) = Cardinality(G) - 1
        /\ AllRows(MergeTwo(G), n)
    BY <2>1, <2>3, MergeTwoIs
  <2>5. Cardinality(MergeTwo(G)) = m + 1 - j
    BY <1>0, <2>1, <2>4
  <2>6. j \in Nat
    BY <1>0
  <2> QED BY <2>2, <2>4, <2>5, <2>6
<1>4. m \in T
  <2> HIDE DEF T
  <2>1. \A j \in 0 .. m : j \in T
    BY <1>0, <1>2, <1>3, Induct
  <2> QED BY <1>0, <2>1
<1>5. Heap(h[m], n, k, len, d, e) /\ AllRows(h[m], n) /\ Cardinality(h[m]) = 1
  BY <1>0, <1>4
<1>6. PICK s : h[m] = {s}
  BY <1>5, FS_Singleton DEF Heap
<1>7. State(s, n, k, len, d, e) /\ \A r \in 1 .. n : Has(s, r)
  BY <1>5, <1>6 DEF Heap, AllRows
<1> QED BY <1>6, <1>7

\* The heaps of the loop as a sequence.
LEMMA HeapsExist ==
  ASSUME NEW n \in Nat, NEW k \in Nat \ {0}, NEW len \in Lens(n), NEW d \in Nat, NEW e \in BOOLEAN,
         NEW H, Heap(H, n, k, len, d, e), H # {}, NEW m, m = Cardinality(H) - 1
  PROVE  \E h : Heaps(h, H, m)
<1> DEFINE All == {G \in SUBSET Splits(n, k) : Heap(G, n, k, len, d, e)}
           F == [x \in All \X (1 .. m) |->
                   IF Cardinality(x[1]) >= 2 THEN MergeTwo(x[1]) ELSE x[1]]
<1>0. m \in Nat
  BY FS_EmptySet, FS_CardinalityType DEF Heap
<1>1. \A G : Heap(G, n, k, len, d, e) => G \in All
  BY DEF Heap, State
<1>2. H \in All
  BY <1>1
<1>3. \A G \in All : Cardinality(G) >= 2 =>
        /\ Heap(MergeTwo(G), n, k, len, d, e)
        /\ Cardinality(MergeTwo(G)) = Cardinality(G) - 1
  BY MergeTwoIs
<1>4. \A G \in All, j \in 1 .. m :
        F[<<G, j>>] = IF Cardinality(G) >= 2 THEN MergeTwo(G) ELSE G
  <2> HIDE DEF All
  <2> QED OBVIOUS
<1> HIDE DEF F, All
<1>5. Closed(All, m, F)
  BY <1>1, <1>3, <1>4 DEF Closed
<1>6. PICK h : Iterates(h, All, m, H, F)
  BY <1>0, <1>2, <1>5, Iterated
<1>7. \A j \in 1 .. m : h[j] = F[<<h[j - 1], j>>] /\ h[j - 1] \in All
  <2>1. \A j \in 1 .. m : j - 1 \in 0 .. m
    BY <1>0
  <2> QED BY <1>6, <2>1 DEF Iterates
<1> DEFINE T == {j \in Nat : j <= m => Cardinality(h[j]) = m + 1 - j}
<1>8. 0 \in T
  <2>1. Cardinality(H) = m + 1 - 0
    BY <1>0, FS_CardinalityType DEF Heap
  <2> QED BY <1>6, <2>1 DEF Iterates
<1>9. ASSUME NEW j \in 1 .. m, j - 1 \in T
      PROVE  j \in T /\ h[j] = MergeTwo(h[j - 1])
  <2> DEFINE G == h[j - 1]
  <2>0. G \in All
    BY <1>7
  <2>1. Cardinality(G) = m + 1 - (j - 1) /\ G \in All
    <3>1. j - 1 <= m
      BY <1>0
    <3>2. Cardinality(h[j - 1]) = m + 1 - (j - 1)
      BY <1>9, <3>1
    <3> QED BY <2>0, <3>2
  <2>2. h[j] = IF Cardinality(G) >= 2 THEN MergeTwo(G) ELSE G
    BY <1>4, <1>7
  <2> HIDE DEF G
  <2>3. Cardinality(G) >= 2
    BY <1>0, <2>1
  <2>4. Cardinality(MergeTwo(G)) = Cardinality(G) - 1
    BY <1>3, <2>1, <2>3
  <2>5. Cardinality(h[j]) = m + 1 - j /\ h[j] = MergeTwo(G)
    BY <1>0, <2>1, <2>2, <2>3, <2>4
  <2>6. j \in Nat
    BY <1>0
  <2> QED BY <2>5, <2>6 DEF G
<1>10. \A j \in 0 .. m : j \in T
  <2> HIDE DEF T
  <2> QED BY <1>0, <1>8, <1>9, Induct
<1>11. \A j \in 1 .. m : h[j] = MergeTwo(h[j - 1])
  <2> SUFFICES ASSUME NEW j \in 1 .. m PROVE h[j] = MergeTwo(h[j - 1])
    OBVIOUS
  <2>1. j - 1 \in T
    <3> HIDE DEF T
    <3>1. j - 1 \in 0 .. m
      BY <1>0
    <3> QED BY <1>10, <3>1
  <2> QED BY <1>9, <2>1
<1>12. h = [j \in 0 .. m |-> IF j = 0 THEN H ELSE MergeTwo(h[j - 1])]
  <2> DEFINE g == [j \in 0 .. m |-> IF j = 0 THEN H ELSE MergeTwo(h[j - 1])]
  <2>1. \A j \in 0 .. m : j = 0 \/ j \in 1 .. m
    BY <1>0
  <2>2. \A j \in 0 .. m : h[j] = g[j]
    BY <1>6, <1>11, <2>1 DEF Iterates
  <2>3. DOMAIN h = 0 .. m /\ h = [j \in 0 .. m |-> h[j]]
    BY <1>6 DEF Iterates
  <2>4. g = [j \in 0 .. m |-> g[j]]
    OBVIOUS
  <2> HIDE DEF g
  <2>5. h = g
    BY <2>2, <2>3, <2>4
  <2> QED BY <2>5 DEF g
<1> QED BY <1>12 DEF Heaps

\* Every one of n rows is in one place of k parts.
Shares(P, n, k) ==
  /\ P \in [1 .. k -> Seq(1 .. n)]
  /\ \A i, j \in 1 .. k : \A x \in DOMAIN P[i], y \in DOMAIN P[j] :
       P[i][x] = P[j][y] => i = j /\ x = y
  /\ \A r \in 1 .. n : \E i \in 1 .. k : \E x \in DOMAIN P[i] : P[i][x] = r

Alike(P, k, len, d) ==
  \A i, j \in 1 .. k : Tokens(ToSet(P[i]), len) - Tokens(ToSet(P[j]), len) <= d

\* Parts are of equal length, or have two rows only if every part has one.
Cut(P, k, e) ==
  \A i, j \in 1 .. k : IF e THEN Len(P[i]) = Len(P[j])
                            ELSE P[i] = <<>> => Len(P[j]) <= 1

\* The members of a set of rows, in order.
LEMMA OrderedRows ==
  ASSUME NEW n \in Nat, NEW U \in SUBSET (1 .. n)
  PROVE  /\ Ordered(U) \in Seq(1 .. n) /\ Len(Ordered(U)) = Cardinality(U)
         /\ ToSet(Ordered(U)) = U
         /\ \A x, y \in DOMAIN Ordered(U) : Ordered(U)[x] = Ordered(U)[y] => x = y
<1> DEFINE A == Ordered(U)
           c == Cardinality(U)
<1>1. U \in SUBSET Int /\ IsFiniteSet(U) /\ c \in Nat
  <2>1. IsFiniteSet(1 .. n)
    BY FS_Interval
  <2>2. IsFiniteSet(U)
    BY <2>1, FS_Subset
  <2> QED BY <2>2, FS_CardinalityType
<1>2. /\ A \in [1 .. c -> U]
      /\ \A x \in 1 .. c : Below(U, A[x]) = x
      /\ \A p \in U : A[Below(U, p)] = p
  BY <1>1, OrderedIs
<1>3. \A p \in U : Below(U, p) \in 1 .. c
  BY <1>1, BelowIs
<1> HIDE DEF A, c
<1>4. A \in Seq(1 .. n) /\ Len(A) = c /\ DOMAIN A = 1 .. c
  <2>1. A \in [1 .. c -> 1 .. n]
    BY <1>2
  <2>2. c \in Nat
    BY <1>1
  <2> QED BY <2>1, <2>2
<1>5. ToSet(A) = U
  BY <1>2, <1>3, <1>4, ZenonT(60) DEF ToSet
<1>6. \A x, y \in DOMAIN A : A[x] = A[y] => x = y
  BY <1>2, <1>4
<1> QED BY <1>4, <1>5, <1>6 DEF A, c

\* A sequence without repetition is as long as its members are many.
LEMMA LenOfSet ==
  ASSUME NEW n \in Nat, NEW p \in Seq(1 .. n), \A x, y \in DOMAIN p : p[x] = p[y] => x = y
  PROVE  Cardinality(ToSet(p)) = Len(p)
<1> DEFINE l == Len(p)
           D == 1 .. l
           U == ToSet(p)
<1>1. l \in Nat /\ DOMAIN p = D /\ p \in [D -> 1 .. n]
  OBVIOUS
<1> HIDE DEF l
<1>2. IsFiniteSet(D) /\ Cardinality(D) = l
  BY <1>1, FS_Interval
<1>3. U = {p[x] : x \in D}
  BY <1>1 DEF ToSet
<1>4. p \in Bijection(D, U)
  <2> HIDE DEF U, D
  <2>1. p \in [D -> U]
    BY <1>1, <1>3
  <2>2. \A x, y \in D : p[x] = p[y] => x = y
    BY <1>1
  <2>3. \A u \in U : \E x \in D : p[x] = u
    BY <1>3
  <2>4. p \in Injection(D, U)
    BY <2>1, <2>2 DEF Injection, IsInjective
  <2>5. p \in Surjection(D, U)
    BY <2>1, <2>3 DEF Surjection
  <2> QED BY <2>4, <2>5 DEF Bijection
<1>5. ExistsBijection(D, U)
  BY <1>4 DEF ExistsBijection
<1> HIDE DEF D, U, l
<1>6. Cardinality(U) = Cardinality(D)
  BY <1>2, <1>5, FS_Bijection
<1> QED BY <1>2, <1>6 DEF U, l

\* From the last state to the partition.
LEMMA LastIs ==
  ASSUME NEW n \in Nat, NEW k \in Nat \ {0}, NEW len \in Lens(n), NEW d \in Nat, NEW e \in BOOLEAN,
         NEW s, State(s, n, k, len, d, e), \A r \in 1 .. n : Has(s, r),
         NEW P, P = [i \in 1 .. k |-> Ordered(ToSet(s[i].items))]
  PROVE  Shares(P, n, k) /\ Alike(P, k, len, d) /\ Cut(P, k, e)
<1> DEFINE U(i) == ToSet(s[i].items)
<1>0. DOMAIN s = 1 .. k /\ \A i \in 1 .. k : s[i].items \in Seq(1 .. n) /\ s[i].sum \in Nat
  BY DEF State, Splits, PartOf
<1>1. \A i \in 1 .. k : U(i) \in SUBSET (1 .. n)
  BY <1>0, RowSet
<1>2. \A i \in 1 .. k : \A r : r \in U(i) <=> \E x \in DOMAIN s[i].items : s[i].items[x] = r
  BY DEF ToSet
<1>3. \A i \in 1 .. k : P[i] = Ordered(U(i))
  OBVIOUS
<1>4. \A i \in 1 .. k : Cardinality(U(i)) = Len(s[i].items)
  <2> SUFFICES ASSUME NEW i \in 1 .. k PROVE Cardinality(U(i)) = Len(s[i].items)
    OBVIOUS
  <2> DEFINE p == s[i].items
  <2>1. p \in Seq(1 .. n) /\ \A x, y \in DOMAIN p : p[x] = p[y] => x = y
    BY <1>0 DEF State, OnePlace
  <2> HIDE DEF p
  <2>2. Cardinality(ToSet(p)) = Len(p)
    BY <2>1, LenOfSet
  <2> QED BY <2>2 DEF p
<1>5. \A i, j \in 1 .. k : \A r : r \in U(i) /\ r \in U(j) => i = j
  <2>1. OnePlace(s)
    BY DEF State
  <2> SUFFICES ASSUME NEW i \in 1 .. k, NEW j \in 1 .. k, NEW r, r \in U(i), r \in U(j)
               PROVE  i = j
    OBVIOUS
  <2>2. PICK x \in DOMAIN s[i].items : s[i].items[x] = r
    BY <1>2
  <2>3. PICK y \in DOMAIN s[j].items : s[j].items[y] = r
    BY <1>2
  <2> QED BY <1>0, <2>1, <2>2, <2>3 DEF OnePlace
<1>6. \A r \in 1 .. n : \E i \in 1 .. k : r \in U(i)
  BY <1>0, <1>2 DEF Has
<1>7. \A i \in 1 .. k : s[i].sum = Tokens(U(i), len)
  BY <1>0 DEF State, Summed
<1> HIDE DEF U
<1>8. ASSUME NEW i \in 1 .. k
      PROVE  /\ P[i] \in Seq(1 .. n) /\ Len(P[i]) = Len(s[i].items)
             /\ ToSet(P[i]) = U(i)
             /\ \A x, y \in DOMAIN P[i] : P[i][x] = P[i][y] => x = y
  <2> DEFINE A == Ordered(U(i))
  <2>1. /\ A \in Seq(1 .. n) /\ Len(A) = Cardinality(U(i))
        /\ ToSet(A) = U(i)
        /\ \A x, y \in DOMAIN A : A[x] = A[y] => x = y
    BY <1>1, OrderedRows
  <2>2. P[i] = A
    BY <1>3
  <2> HIDE DEF A
  <2> QED BY <1>4, <2>1, <2>2
<1>9. \A i \in 1 .. k : \A x \in DOMAIN P[i] : P[i][x] \in U(i)
  <2> SUFFICES ASSUME NEW i \in 1 .. k, NEW x \in DOMAIN P[i] PROVE P[i][x] \in U(i)
    OBVIOUS
  <2>1. P[i][x] \in ToSet(P[i])
    BY DEF ToSet
  <2> QED BY <1>8, <2>1
<1>10. \A i \in 1 .. k : \A r \in U(i) : \E x \in DOMAIN P[i] : P[i][x] = r
  <2> SUFFICES ASSUME NEW i \in 1 .. k, NEW r \in U(i) PROVE \E x \in DOMAIN P[i] : P[i][x] = r
    OBVIOUS
  <2>1. r \in ToSet(P[i])
    BY <1>8
  <2> QED BY <2>1 DEF ToSet
<1>11. Shares(P, n, k)
  <2>1. P \in [1 .. k -> Seq(1 .. n)]
    BY <1>8
  <2>2. \A i, j \in 1 .. k : \A x \in DOMAIN P[i], y \in DOMAIN P[j] :
          P[i][x] = P[j][y] => i = j /\ x = y
    <3> SUFFICES ASSUME NEW i \in 1 .. k, NEW j \in 1 .. k,
                        NEW x \in DOMAIN P[i], NEW y \in DOMAIN P[j], P[i][x] = P[j][y]
                 PROVE  i = j /\ x = y
      OBVIOUS
    <3>1. i = j
      BY <1>5, <1>9
    <3> QED BY <1>8, <3>1
  <2>3. \A r \in 1 .. n : \E i \in 1 .. k : \E x \in DOMAIN P[i] : P[i][x] = r
    BY <1>6, <1>10
  <2> QED BY <2>1, <2>2, <2>3 DEF Shares
<1>12. Alike(P, k, len, d)
  <2> SUFFICES ASSUME NEW i \in 1 .. k, NEW j \in 1 .. k
               PROVE  Tokens(ToSet(P[i]), len) - Tokens(ToSet(P[j]), len) <= d
    BY DEF Alike
  <2>1. s[i].sum - s[j].sum <= d
    BY <1>0 DEF State, Even
  <2> QED BY <1>7, <1>8, <2>1
<1>13. ASSUME e PROVE \A i, j \in 1 .. k : Len(P[i]) = Len(P[j])
  BY <1>0, <1>8, <1>13 DEF State, SameSize
<1>14. ASSUME ~ e PROVE \A i, j \in 1 .. k : P[i] = <<>> => Len(P[j]) <= 1
  <2> SUFFICES ASSUME NEW i \in 1 .. k, NEW j \in 1 .. k, P[i] = <<>> PROVE Len(P[j]) <= 1
    OBVIOUS
  <2>1. Len(s[i].items) = 0
    <3>1. Len(P[i]) = 0
      OBVIOUS
    <3> QED BY <1>8, <3>1
  <2>2. s[i].items = <<>>
    BY <1>0, <2>1
  <2>3. Len(s[j].items) <= 1
    BY <1>0, <1>14, <2>2 DEF State, Sparse
  <2> QED BY <1>8, <2>3
<1> QED BY <1>11, <1>12, <1>13, <1>14 DEF Cut

\* Parts of equal length share the rows out evenly; end to end they are an
\* order of all rows.
LEMMA EvenShares ==
  ASSUME NEW n \in Nat, NEW k \in Nat \ {0}, NEW P, Shares(P, n, k),
         Cut(P, k, TRUE)
  PROVE  \E l \in Nat : /\ \A i \in 1 .. k : Len(P[i]) = l
                        /\ k * l = n
                        /\ Permutes(FlattenSeq(P), n)
                        /\ EndToEnd(FlattenSeq(P), P, k, l)
<1> DEFINE l == Len(P[1])
           f == FlattenSeq(P)
<1>1. P \in [1 .. k -> Seq(1 .. n)] /\ 1 \in 1 .. k
  BY DEF Shares
<1>2. l \in Nat /\ \A i \in 1 .. k : Len(P[i]) = l
  BY <1>1 DEF Cut
<1> HIDE DEF l
<1>2a. \A i \in 1 .. k : DOMAIN P[i] = 1 .. l
  BY <1>1, <1>2
<1>3. f \in Seq(1 .. n) /\ Len(f) = k * l /\ EndToEnd(f, P, k, l)
  <2> DEFINE S == 1 .. n
  <2>1. P \in [1 .. k -> Seq(S)] /\ k \in Nat
    BY <1>1
  <2> HIDE DEF S, f
  <2>2. f = FlattenSeq(P)
    BY DEF f
  <2>3. f \in Seq(S) /\ Len(f) = k * l /\ EndToEnd(f, P, k, l)
    BY <1>2, <2>1, <2>2, FlattenEven
  <2> QED BY <2>3 DEF S
<1> HIDE DEF f
<1> DEFINE m == k * l
<1>4. m \in Nat
  BY <1>2
<1> HIDE DEF m
<1>5. f \in [1 .. m -> 1 .. n] /\ DOMAIN f = 1 .. m
  BY <1>3, <1>4 DEF m
<1>6. \A u, v \in 1 .. m : f[u] = f[v] => u = v
  <2> SUFFICES ASSUME NEW u \in 1 .. m, NEW v \in 1 .. m, f[u] = f[v] PROVE u = v
    OBVIOUS
  <2>0. InPiece(u, k, l) /\ InPiece(v, k, l)
    <3>1. k \in Nat /\ l \in Nat /\ u \in 1 .. k * l /\ v \in 1 .. k * l
      BY <1>2 DEF m
    <3> QED BY ONLY <3>1, PlaceIn
  <2>1. PICK i \in 1 .. k : \E x \in 1 .. l : u = (i - 1) * l + x
    BY <2>0 DEF InPiece
  <2>2. PICK x \in 1 .. l : u = (i - 1) * l + x
    BY <2>1
  <2>3. PICK j \in 1 .. k : \E y \in 1 .. l : v = (j - 1) * l + y
    BY <2>0 DEF InPiece
  <2>4. PICK y \in 1 .. l : v = (j - 1) * l + y
    BY <2>3
  <2>5. P[i][x] = P[j][y]
    BY <1>3, <2>2, <2>4 DEF EndToEnd
  <2>6. i = j /\ x = y
    <3>1. x \in DOMAIN P[i] /\ y \in DOMAIN P[j]
      BY <1>2a
    <3> QED BY <2>5, <3>1 DEF Shares
  <2> QED BY <2>2, <2>4, <2>6
<1>7. \A r \in 1 .. n : \E u \in 1 .. m : f[u] = r
  <2> SUFFICES ASSUME NEW r \in 1 .. n PROVE \E u \in 1 .. m : f[u] = r
    OBVIOUS
  <2>1. PICK i \in 1 .. k : \E x \in DOMAIN P[i] : P[i][x] = r
    BY DEF Shares
  <2>2. PICK x \in 1 .. l : P[i][x] = r
    BY <1>2a, <2>1
  <2> DEFINE u == (i - 1) * l + x
  <2>3. u \in 1 .. m
    BY <1>2, PiecesApart DEF m
  <2>4. f[u] = r
    BY <1>3, <2>2 DEF EndToEnd
  <2> QED BY <2>3, <2>4
<1>8. m = n
  <2>1. f \in Injection(1 .. m, 1 .. n)
    BY <1>5, <1>6 DEF Injection, IsInjective
  <2>2. f \in Surjection(1 .. m, 1 .. n)
    BY <1>5, <1>7 DEF Surjection
  <2>3. ExistsBijection(1 .. m, 1 .. n)
    BY <2>1, <2>2 DEF Bijection, ExistsBijection
  <2>4. IsFiniteSet(1 .. m) /\ Cardinality(1 .. m) = m
    BY <1>4, FS_Interval
  <2>5. Cardinality(1 .. n) = n
    BY FS_Interval
  <2>6. Cardinality(1 .. n) = Cardinality(1 .. m)
    BY <2>3, <2>4, FS_Bijection
  <2> QED BY <2>4, <2>5, <2>6
<1>9. Permutes(f, n)
  BY <1>5, <1>6, <1>7, <1>8 DEF Permutes
<1> QED BY <1>2, <1>3, <1>8, <1>9 DEF m, f

\* If there are rows enough, no part goes without.
Filled(P, k) == \A i \in 1 .. k : P[i] # <<>>

\* With no fewer rows than parts, no part is empty.
LEMMA NoneEmpty ==
  ASSUME NEW n \in Nat, NEW k \in 1 .. n, NEW P, Shares(P, n, k),
         Cut(P, k, FALSE)
  PROVE  Filled(P, k)
<1> SUFFICES ASSUME NEW i \in 1 .. k, P[i] = <<>> PROVE FALSE
  BY DEF Filled
<1> DEFINE D == 1 .. n
           K == (1 .. k) \ {i}
           f == [r \in D |-> CHOOSE j \in K : P[j] = <<r>>]
<1>1. ASSUME NEW r \in D PROVE \E j \in K : P[j] = <<r>>
  <2>1. PICK j \in 1 .. k : \E x \in DOMAIN P[j] : P[j][x] = r
    BY DEF Shares
  <2>2. PICK x \in DOMAIN P[j] : P[j][x] = r
    BY <2>1
  <2> DEFINE p == P[j]
  <2>3. p \in Seq(D) /\ Len(p) <= 1 /\ x \in DOMAIN p /\ p[x] = r
    BY <2>2 DEF Shares, Cut
  <2> HIDE DEF p
  <2>4. Len(p) = 1 /\ x = 1
    <3>1. Len(p) \in Nat /\ DOMAIN p = 1 .. Len(p)
      BY <2>3
    <3> HIDE DEF D
    <3> QED BY <2>3, <3>1
  <2>5. p = <<r>>
    <3> DEFINE q == <<r>>
    <3>1. q \in Seq(D) /\ Len(q) = 1 /\ q[1] = r
      OBVIOUS
    <3> HIDE DEF q, D
    <3>2. \A z \in 1 .. 1 : p[z] = q[z]
      BY <2>3, <2>4, <3>1
    <3>3. p = q
      BY <2>3, <2>4, <3>1, <3>2
    <3> QED BY <3>3 DEF q
  <2>6. j # i
    <3>1. DOMAIN P[i] = {}
      OBVIOUS
    <3> QED BY <2>2, <3>1
  <2> QED BY <2>5, <2>6 DEF p
<1>2. \A r \in D : f[r] \in K /\ P[f[r]] = <<r>>
  BY <1>1
<1> HIDE DEF f
<1>3. \A q, r \in D : f[q] = f[r] => q = r
  <2> SUFFICES ASSUME NEW q \in D, NEW r \in D, f[q] = f[r] PROVE q = r
    OBVIOUS
  <2>1. <<q>> = <<r>>
    BY <1>2
  <2>2. <<q>>[1] = <<r>>[1]
    BY <2>1
  <2> QED BY <2>2
<1>4. f \in Injection(D, K)
  <2>1. f = [r \in D |-> f[r]]
    BY DEF f
  <2>2. f \in [D -> K]
    BY <1>2, <2>1
  <2> QED BY <1>3, <2>2 DEF Injection, IsInjective
<1>5. IsFiniteSet(1 .. k) /\ Cardinality(1 .. k) = k /\ Cardinality(D) = n
  BY FS_Interval
<1>6. IsFiniteSet(K) /\ Cardinality(K) = k - 1
  BY <1>5, FS_RemoveElement
<1>7. Cardinality(D) <= Cardinality(K)
  BY <1>4, <1>6, FS_Injection
<1> QED BY <1>5, <1>6, <1>7

\* What get_seqlen_balanced_partitions returns.
THEOREM BalancedIs ==
  ASSUME NEW n \in Nat \ {0}, NEW k \in Nat \ {0}, NEW len \in Lens(n), NEW d \in Nat,
         NEW e \in BOOLEAN, Near(n, len, d, e), e => (n % k) = 0,
         NEW P, P = BalancedPartitions(len, k, e)
  PROVE  Shares(P, n, k) /\ Alike(P, k, len, d) /\ Cut(P, k, e)
<1> DEFINE H == FirstStates(len, k, e)
           m == Cardinality(H) - 1
           h == CHOOSE g : Heaps(g, H, m)
           s == CHOOSE t \in h[m] : TRUE
<1>1. Heap(H, n, k, len, d, e) /\ AllRows(H, n) /\ H # {}
  <2>1. CASE e = TRUE
    <3>1. Near(n, len, d, TRUE) /\ (n % k) = 0
      BY <2>1
    <3>2. /\ Heap(FirstStates(len, k, TRUE), n, k, len, d, TRUE)
          /\ AllRows(FirstStates(len, k, TRUE), n)
          /\ FirstStates(len, k, TRUE) # {}
      BY <3>1, FirstEqual
    <3> QED BY <2>1, <3>2
  <2>2. CASE e = FALSE
    <3>1. Near(n, len, d, FALSE)
      BY <2>2
    <3>2. /\ Heap(FirstStates(len, k, FALSE), n, k, len, d, FALSE)
          /\ AllRows(FirstStates(len, k, FALSE), n)
          /\ FirstStates(len, k, FALSE) # {}
      BY <3>1, FirstAlone
    <3> QED BY <2>2, <3>2
  <2> QED BY <2>1, <2>2
<1>2. P = [i \in 1 .. k |-> Ordered(ToSet(s[i].items))]
  BY DEF BalancedPartitions, Heaps
<1> HIDE DEF H, m
<1>3. Heaps(h, H, m)
  <2>1. \E g : Heaps(g, H, m)
    BY <1>1, HeapsExist DEF m
  <2> QED BY <2>1
<1> HIDE DEF h
<1>4. PICK t : h[m] = {t} /\ State(t, n, k, len, d, e) /\ \A r \in 1 .. n : Has(t, r)
  BY <1>1, <1>3, HeapsShrink DEF m
<1>5. s = t
  BY <1>4
<1> HIDE DEF s
<1>6. State(s, n, k, len, d, e) /\ \A r \in 1 .. n : Has(s, r)
  BY <1>4, <1>5
<1> QED BY <1>2, <1>6, LastIs

-----------------------------------------------------------------------------
(* A rank that cuts its rows into mini-batches and micro-batches and takes   *)
(* them one after the other.                                                 *)

\* c positions after the first o.
Run(o, c) == [k \in 1 .. c |-> o + k]

\* The end of the j-th piece when c positions are cut into pieces of b.
Edge(j, b, c) == IF j * b <= c THEN j * b ELSE c
Pieces(c, b) == (c + b - 1) \div b

\* Neighbouring positions as a sequence.
LEMMA RunIs ==
  ASSUME NEW o \in Nat, NEW c \in Nat
  PROVE  /\ Run(o, c) \in Seq(Nat) /\ Len(Run(o, c)) = c /\ DOMAIN Run(o, c) = 1 .. c
         /\ \A x \in 1 .. c : Run(o, c)[x] = o + x
<1>1. Run(o, c) \in [1 .. c -> Nat]
  BY DEF Run
<1>2. Run(o, c) \in Seq(Nat) /\ Len(Run(o, c)) = c
  <2> DEFINE R == Run(o, c)
  <2>1. R \in [1 .. c -> Nat]
    BY <1>1
  <2> HIDE DEF R
  <2>2. R \in Seq(Nat) /\ Len(R) = c
    BY <2>1
  <2> QED BY <2>2 DEF R
<1> QED BY <1>2 DEF Run

\* Positions and those that come after them.
LEMMA RunJoins ==
  ASSUME NEW o \in Nat, NEW c \in Nat, NEW e \in Nat
  PROVE  Run(o, c) \o Run(o + c, e) = Run(o, c + e)
<1> DEFINE p == Run(o, c)
           q == Run(o + c, e)
           r == Run(o, c + e)
<1>1. p \in Seq(Nat) /\ Len(p) = c /\ \A x \in 1 .. c : p[x] = o + x
  BY RunIs
<1>2. q \in Seq(Nat) /\ Len(q) = e /\ \A x \in 1 .. e : q[x] = o + c + x
  <2>1. o + c \in Nat
    OBVIOUS
  <2> QED BY <2>1, RunIs
<1>3. r \in Seq(Nat) /\ Len(r) = c + e /\ \A x \in 1 .. c + e : r[x] = o + x
  <2>1. c + e \in Nat
    OBVIOUS
  <2> QED BY <2>1, RunIs
<1> HIDE DEF p, q, r
<1>4. p \o q \in Seq(Nat) /\ Len(p \o q) = c + e
  BY <1>1, <1>2
<1>5. \A x \in 1 .. c + e : (p \o q)[x] = r[x]
  <2> SUFFICES ASSUME NEW x \in 1 .. c + e PROVE (p \o q)[x] = r[x]
    OBVIOUS
  <2>1. (p \o q)[x] = IF x <= c THEN p[x] ELSE q[x - c]
    BY <1>1, <1>2, SMTT(60)
  <2>2. CASE x <= c
    BY <1>1, <1>3, <2>1, <2>2
  <2>3. CASE ~ (x <= c)
    <3>1. x - c \in 1 .. e
      BY <2>3
    <3>2. q[x - c] = o + x
      BY <1>2, <3>1
    <3> QED BY <1>3, <2>1, <2>3, <3>2
  <2> QED BY <2>2, <2>3
<1> DEFINE s == p \o q
           l == c + e
<1>6. s \in Seq(Nat) /\ Len(s) = l /\ r \in Seq(Nat) /\ Len(r) = l /\ \A x \in 1 .. l : s[x] = r[x]
  BY <1>3, <1>4, <1>5
<1> HIDE DEF s, l
<1>7. s = r
  BY <1>6
<1> QED BY <1>7 DEF s, p, q, r

\* Some of the neighbours.
LEMMA RunPart ==
  ASSUME NEW o \in Nat, NEW c \in Nat, NEW a \in 1 .. c + 1, NEW z \in 0 .. c, a <= z + 1
  PROVE  SubSeq(Run(o, c), a, z) = Run(o + a - 1, z - a + 1)
<1> DEFINE p == Run(o, c)
           q == SubSeq(p, a, z)
           r == Run(o + a - 1, z - a + 1)
<1>1. p \in Seq(Nat) /\ Len(p) = c /\ \A x \in 1 .. c : p[x] = o + x
  BY RunIs
<1>2. z - a + 1 \in Nat /\ o + a - 1 \in Nat
  OBVIOUS
<1>3. r \in Seq(Nat) /\ Len(r) = z - a + 1 /\ \A x \in 1 .. z - a + 1 : r[x] = o + a - 1 + x
  BY <1>2, RunIs
<1> HIDE DEF p, r
<1>4. \A x \in 1 .. z - a + 1 : a + x - 1 \in 1 .. c
  OBVIOUS
<1>5. q = [x \in 1 .. z - a + 1 |-> p[a + x - 1]]
  BY <1>1
<1> HIDE DEF q
<1>5a. DOMAIN q = 1 .. z - a + 1 /\ \A x \in 1 .. z - a + 1 : q[x] = p[a + x - 1]
  BY <1>5
<1>6. \A x \in 1 .. z - a + 1 : q[x] = o + a - 1 + x
  <2> SUFFICES ASSUME NEW x \in 1 .. z - a + 1 PROVE q[x] = o + a - 1 + x
    OBVIOUS
  <2>1. q[x] = p[a + x - 1] /\ a + x - 1 \in 1 .. c
    BY <1>4, <1>5a
  <2>2. p[a + x - 1] = o + (a + x - 1)
    BY <1>1, <2>1
  <2> QED BY <2>1, <2>2
<1>7. q \in [1 .. z - a + 1 -> Nat]
  BY <1>1, <1>4, <1>5
<1>8. q \in Seq(Nat) /\ Len(q) = z - a + 1
  <2> DEFINE l == z - a + 1
  <2>1. l \in Nat /\ q \in [1 .. l -> Nat]
    BY <1>2, <1>7
  <2> HIDE DEF l
  <2>2. q \in Seq(Nat) /\ Len(q) = l
    BY <2>1
  <2> QED BY <2>2 DEF l
<1>9. \A x \in 1 .. z - a + 1 : q[x] = r[x]
  BY <1>3, <1>6
<1>10. q = r
  BY <1>3, <1>8, <1>9
<1> QED BY <1>10 DEF q, r, p

\* Where the pieces end.
LEMMA EdgesAre ==
  ASSUME NEW b \in Nat \ {0}, NEW c \in Nat \ {0}
  PROVE  /\ Pieces(c, b) \in Nat \ {0}
         /\ Edge(0, b, c) = 0 /\ Edge(Pieces(c, b), b, c) = c
         /\ \A j \in Nat : /\ Edge(j, b, c) \in 0 .. c
                           /\ Edge(j, b, c) = c \/ Edge(j, b, c) = j * b
                           /\ j * b \in Nat
         /\ \A j \in Nat : j < Pieces(c, b) <=> j * b < c
         /\ \A j \in 1 .. Pieces(c, b) : /\ Edge(j - 1, b, c) = (j - 1) * b
                                         /\ Edge(j - 1, b, c) < Edge(j, b, c)
<1> DEFINE M == Pieces(c, b)
           t == c + b - 1
           q == t \div b
           r == t % b
<1>1. t \in Nat
  OBVIOUS
<1>2. t = b * q + r /\ r \in 0 .. b - 1 /\ q \in Int
  BY <1>1
<1>3. M = q
  BY DEF Pieces
<1>4. b * q = q * b
  BY <1>2
<1> HIDE DEF q, r
<1>5. q >= 1
  <2>1. q <= 0 => q * b <= 0 * b
    BY <1>2
  <2>2. 0 * b = 0
    OBVIOUS
  <2> QED BY <1>2, <1>4, <2>1, <2>2
<1>6. q * b >= c /\ (q - 1) * b < c
  <2>1. (q - 1) * b = q * b - b
    BY <1>2
  <2> QED BY <1>2, <1>4, <2>1
<1>7. \A j \in Nat : j * b \in Nat /\ (j < q => j * b <= (q - 1) * b) /\ (j >= q => j * b >= q * b)
  <2> SUFFICES ASSUME NEW j \in Nat
               PROVE  j * b \in Nat /\ (j < q => j * b <= (q - 1) * b) /\ (j >= q => j * b >= q * b)
    OBVIOUS
  <2>1. j * b \in Nat
    OBVIOUS
  <2>2. ASSUME j < q PROVE j * b <= (q - 1) * b
    <3>1. j <= q - 1 /\ q - 1 \in Int
      BY <1>2, <2>2
    <3> QED BY <3>1
  <2>3. ASSUME j >= q PROVE j * b >= q * b
    BY <1>2, <2>3
  <2> QED BY <2>1, <2>2, <2>3
<1>8. \A j \in Nat : j < q <=> j * b < c
  <2> SUFFICES ASSUME NEW j \in Nat PROVE j < q <=> j * b < c
    OBVIOUS
  <2> DEFINE u == j * b
             v == (q - 1) * b
             w == q * b
  <2>1. u \in Nat /\ (j < q => u <= v) /\ (j >= q => u >= w) /\ w >= c /\ v < c
    BY <1>6, <1>7
  <2>2. v \in Int /\ w \in Int
    BY <1>2
  <2> HIDE DEF u, v, w
  <2>3. j < q <=> u < c
    BY <1>2, <2>1, <2>2
  <2> QED BY <2>3 DEF u
<1>9. \A j \in Nat : Edge(j, b, c) \in 0 .. c /\ (Edge(j, b, c) = c \/ Edge(j, b, c) = j * b)
  <2> SUFFICES ASSUME NEW j \in Nat
               PROVE  Edge(j, b, c) \in 0 .. c /\ (Edge(j, b, c) = c \/ Edge(j, b, c) = j * b)
    OBVIOUS
  <2> DEFINE u == j * b
  <2>1. u \in Nat
    BY <1>7
  <2>2. Edge(j, b, c) = IF u <= c THEN u ELSE c
    BY DEF Edge
  <2> HIDE DEF u
  <2>3. Edge(j, b, c) \in 0 .. c /\ (Edge(j, b, c) = c \/ Edge(j, b, c) = u)
    BY <2>1, <2>2
  <2> QED BY <2>3 DEF u
<1>10. Edge(0, b, c) = 0
  <2>1. 0 * b = 0
    OBVIOUS
  <2> QED BY <2>1 DEF Edge
<1>11. Edge(q, b, c) = c
  <2> DEFINE w == q * b
  <2>1. w \in Int /\ w >= c
    BY <1>2, <1>6
  <2>2. Edge(q, b, c) = IF w <= c THEN w ELSE c
    BY DEF Edge
  <2> HIDE DEF w
  <2> QED BY <2>1, <2>2
<1>12. ASSUME NEW j \in 1 .. q
       PROVE  Edge(j - 1, b, c) = (j - 1) * b /\ Edge(j - 1, b, c) < Edge(j, b, c)
  <2> DEFINE u == (j - 1) * b
             v == j * b
  <2>1. j - 1 \in Nat /\ j - 1 < q
    BY <1>2
  <2>2. u < c /\ u \in Nat
    BY <1>7, <1>8, <2>1
  <2>3. v = u + b
    BY <2>1
  <2>4. Edge(j - 1, b, c) = (IF u <= c THEN u ELSE c) /\ Edge(j, b, c) = IF v <= c THEN v ELSE c
    BY DEF Edge
  <2> HIDE DEF u, v
  <2>5. Edge(j - 1, b, c) = u /\ Edge(j - 1, b, c) < Edge(j, b, c)
    BY <2>2, <2>3, <2>4
  <2> QED BY <2>5 DEF u
<1>13. M \in Nat \ {0}
  BY <1>2, <1>3, <1>5
<1>14. \A j \in Nat : j * b \in Nat
  BY <1>7
<1> QED BY <1>3, <1>8, <1>9, <1>10, <1>11, <1>12, <1>13, <1>14

\* The lesser of two numbers.
LEMMA MinOfTwo ==
  ASSUME NEW a \in Int, NEW b \in Int
  PROVE  Min({a, b}) = IF a <= b THEN a ELSE b
<1> DEFINE m == IF a <= b THEN a ELSE b
<1>1. m \in {a, b} /\ \A y \in {a, b} : m <= y
  OBVIOUS
<1>2. ASSUME NEW x \in {a, b}, \A y \in {a, b} : x <= y PROVE x = m
  BY <1>2
<1> HIDE DEF m
<1>3. Min({a, b}) = m
  BY <1>1, <1>2 DEF Min
<1> QED BY <1>3 DEF m

\* The first c positions.
LEMMA UptoIs ==
  ASSUME NEW c \in Nat
  PROVE  Upto(c) = Run(0, c)
BY DEF Upto, Run

\* batch.split of neighbouring positions.
Cuts(s, o, c, b) ==
  /\ s \in Seq(Seq(Nat)) /\ Len(s) = Pieces(c, b)
  /\ \A j \in 1 .. Pieces(c, b) :
       s[j] = Run(o + Edge(j - 1, b, c), Edge(j, b, c) - Edge(j - 1, b, c))

\* batch.split cuts neighbouring positions at the edges.
LEMMA SplitIs ==
  ASSUME NEW o \in Nat, NEW b \in Nat \ {0}, NEW c \in Nat \ {0}
  PROVE  Cuts(Split(Run(o, c), b), o, c, b)
<1> DEFINE p == Run(o, c)
           s == Split(p, b)
           M == Pieces(c, b)
<1>1. Len(p) = c
  BY RunIs
<1>2. s = [j \in 1 .. M |-> SubSeq(p, (j - 1) * b + 1, Min({j * b, c}))]
  BY <1>1 DEF Split, Pieces
<1>3. M \in Nat \ {0}
  BY EdgesAre
<1>4. ASSUME NEW j \in 1 .. M
      PROVE  /\ SubSeq(p, (j - 1) * b + 1, Min({j * b, c}))
                  = Run(o + Edge(j - 1, b, c), Edge(j, b, c) - Edge(j - 1, b, c))
             /\ Run(o + Edge(j - 1, b, c), Edge(j, b, c) - Edge(j - 1, b, c)) \in Seq(Nat)
  <2> DEFINE u == (j - 1) * b
             v == Edge(j, b, c)
  <2>1. j \in Nat
    BY <1>3
  <2>2. Edge(j - 1, b, c) = u /\ u < v /\ v \in 0 .. c /\ j * b \in Nat
    BY <1>3, <2>1, EdgesAre
  <2>2a. u \in Nat
    <3>1. j - 1 \in Nat
      BY <1>3
    <3> QED BY <3>1
  <2>3. Min({j * b, c}) = v
    BY <2>2, MinOfTwo DEF Edge
  <2> HIDE DEF u, v
  <2>4. u + 1 \in 1 .. c + 1 /\ u + 1 <= v + 1 /\ v \in 0 .. c
    BY <2>2, <2>2a
  <2>5. SubSeq(Run(o, c), u + 1, v) = Run(o + (u + 1) - 1, v - (u + 1) + 1)
    BY <2>4, RunPart
  <2>6. o + (u + 1) - 1 = o + u /\ v - (u + 1) + 1 = v - u /\ o + u \in Nat /\ v - u \in Nat
    BY <2>2, <2>2a
  <2>7. SubSeq(p, u + 1, v) = Run(o + u, v - u)
    BY <2>5, <2>6
  <2>8. Run(o + u, v - u) \in Seq(Nat)
    BY <2>6, RunIs
  <2> QED BY <2>2, <2>3, <2>7, <2>8 DEF u, v
<1> HIDE DEF M, p, s
<1>5. s \in Seq(Seq(Nat)) /\ Len(s) = M
  <2> DEFINE S == Seq(Nat)
  <2>1. s \in [1 .. M -> S]
    BY <1>2, <1>4
  <2> HIDE DEF S
  <2>2. s \in Seq(S) /\ Len(s) = M
    BY <1>3, <2>1
  <2> QED BY <2>2 DEF S
<1>6. \A j \in 1 .. M : s[j] = Run(o + Edge(j - 1, b, c), Edge(j, b, c) - Edge(j - 1, b, c))
  BY <1>2, <1>4
<1> QED BY <1>5, <1>6 DEF Cuts, p, s, M

\* Pieces of m fill what is a multiple of m.
LEMMA FullPieces ==
  ASSUME NEW m \in Nat \ {0}, NEW c \in Nat \ {0}, (c % m) = 0
  PROVE  Pieces(c, m) * m = c /\ \A j \in 0 .. Pieces(c, m) : Edge(j, m, c) = j * m
<1> DEFINE q == c \div m
           M == Pieces(c, m)
<1>1. c = m * q + (c % m) /\ q \in Int
  OBVIOUS
<1> HIDE DEF q
<1>2. c = q * m /\ q \in Int
  BY <1>1
<1>3. q \in Nat
  <2>1. q <= -1 => q * m <= (-1) * m
    BY <1>2
  <2>2. (-1) * m = -m
    OBVIOUS
  <2> QED BY <1>2, <2>1, <2>2
<1>4. M \in Nat \ {0} /\ \A j \in Nat : j < M <=> j * m < c
  BY EdgesAre
<1> HIDE DEF M
<1>5. M = q
  <2>1. ~ (q < M)
    BY <1>2, <1>3, <1>4
  <2>2. ~ (M < q)
    <3> SUFFICES ASSUME M < q PROVE FALSE
      OBVIOUS
    <3>1. M <= q - 1 /\ q - 1 \in Int
      BY <1>3, <1>4
    <3>2. M * m <= (q - 1) * m
      BY <1>3, <1>4, <3>1
    <3>3. (q - 1) * m = q * m - m
      BY <1>3
    <3>4. M * m < c
      <4> DEFINE u == M * m
                 v == q * m
                 w == (q - 1) * m
      <4>1. u \in Int /\ v \in Int /\ w = v - m /\ u <= w /\ c = v
        BY <1>2, <1>3, <1>4, <3>2, <3>3
      <4> HIDE DEF u, v, w
      <4>2. u < c
        BY <4>1
      <4> QED BY <4>2 DEF u
    <3>5. M \in Nat
      BY <1>4
    <3>6. M < M
      BY <1>4, <3>4, <3>5
    <3> QED BY <3>5, <3>6
  <2> QED BY <1>3, <1>4, <2>1, <2>2
<1>6. \A j \in 0 .. M : j * m <= c
  <2> SUFFICES ASSUME NEW j \in 0 .. q PROVE j * m <= c
    BY <1>5
  <2>1. j * m <= q * m
    BY <1>3
  <2> QED BY <1>2, <2>1
<1>7. \A j \in 0 .. M : Edge(j, m, c) = j * m
  BY <1>6 DEF Edge
<1> QED BY <1>2, <1>5, <1>7 DEF M

\* A multiple of m, minus another.
LEMMA EdgesFull ==
  ASSUME NEW m \in Nat \ {0}, NEW b \in Nat \ {0}, NEW c \in Nat \ {0},
         (b % m) = 0, (c % m) = 0, NEW j \in 1 .. Pieces(c, b)
  PROVE  /\ Edge(j, b, c) - Edge(j - 1, b, c) \in Nat \ {0}
         /\ ((Edge(j, b, c) - Edge(j - 1, b, c)) % m) = 0
<1> DEFINE u == Edge(j, b, c)
           v == Edge(j - 1, b, c)
<1>0. Pieces(c, b) \in Nat \ {0}
  BY EdgesAre
<1>1. j \in Nat /\ j - 1 \in Nat
  BY <1>0
<1>2. u \in 0 .. c /\ (u = c \/ u = j * b) /\ v = (j - 1) * b /\ v < u /\ v \in 0 .. c
  BY <1>1, EdgesAre
<1>3. b = m * (b \div m) /\ b \div m \in Int
  <2>1. b = m * (b \div m) + (b % m) /\ b \div m \in Int
    OBVIOUS
  <2> QED BY <2>1
<1>4. c = m * (c \div m) /\ c \div m \in Int
  <2>1. c = m * (c \div m) + (c % m) /\ c \div m \in Int
    OBVIOUS
  <2> QED BY <2>1
<1> DEFINE p == b \div m
           q == c \div m
<1>5. b = m * p /\ p \in Int /\ c = m * q /\ q \in Int
  BY <1>3, <1>4
<1> HIDE DEF p, q, u, v
<1>6. \E x \in Int : u = m * x
  <2>1. CASE u = c
    BY <1>5, <2>1
  <2>2. CASE u = j * b
    <3>1. j * (m * p) = m * (j * p) /\ j * p \in Int
      BY <1>1, <1>5
    <3> QED BY <1>5, <2>2, <3>1
  <2> QED BY <1>2, <2>1, <2>2
<1>7. \E x \in Int : v = m * x
  <2>1. (j - 1) * (m * p) = m * ((j - 1) * p) /\ (j - 1) * p \in Int
    BY <1>1, <1>5
  <2> QED BY <1>2, <1>5, <2>1
<1>8. PICK x \in Int : u = m * x
  BY <1>6
<1>9. PICK y \in Int : v = m * y
  BY <1>7
<1>10. u - v \in Nat \ {0}
  BY <1>2
<1>11. u - v = m * (x - y)
  <2>1. m * (x - y) = m * x - m * y
    OBVIOUS
  <2> QED BY <1>8, <1>9, <2>1
<1>12. ((u - v) % m) = 0
  <2> DEFINE d == u - v
             z == x - y
  <2>1. d \in Nat /\ d = m * z /\ z \in Int
    BY <1>10, <1>11
  <2> HIDE DEF d, z
  <2>2. d = m * (d \div m) + (d % m) /\ (d % m) \in 0 .. m - 1 /\ d \div m \in Int
    BY <2>1
  <2> DEFINE e == d \div m
             f == d % m
  <2>3. d = m * e + f /\ f \in 0 .. m - 1 /\ e \in Int
    BY <2>2
  <2> HIDE DEF e, f
  <2>4. m * z - m * e = f
    BY <2>1, <2>3
  <2>5. m * (z - e) = f
    <3>1. m * (z - e) = m * z - m * e
      BY <2>1, <2>3
    <3> QED BY <2>4, <3>1
  <2>6. z - e <= 0
    <3>1. z - e >= 1 => m * (z - e) >= m * 1
      BY <2>1, <2>3
    <3> QED BY <2>1, <2>3, <2>5, <3>1
  <2>7. z - e >= 0
    <3>1. z - e <= -1 => m * (z - e) <= m * (-1)
      BY <2>1, <2>3
    <3>2. m * (-1) = -m
      OBVIOUS
    <3> QED BY <2>1, <2>3, <2>5, <3>1, <3>2
  <2>8. z - e = 0
    BY <2>1, <2>3, <2>6, <2>7
  <2>9. m * 0 = 0
    OBVIOUS
  <2>10. f = 0
    BY <2>5, <2>8, <2>9
  <2> QED BY <2>10 DEF f, d
<1> QED BY <1>10, <1>12 DEF u, v

Stages == {"idle", "gather", "split", "reduce", "compute", "forward", "answer"}
RankTypes ==
  [pc : Stages, rows : Seq(Nat), mini : Nat, lens : Seq(Nat), plan : Seq(Seq(Nat)),
   done : Nat, seen : Seq(Nat), weights : Seq(Int \X Int)]

\* The positions of the mini-batch that q is at: c in all, b in each.
Start(q, b, c) == Edge(q.mini, b, c)
Stop(q, b, c) == Edge(q.mini + 1, b, c)
Batch(q, b, c) == Run(Start(q, b, c), Stop(q, b, c) - Start(q, b, c))

\* By number of rows, positions are taken in order.
TakesRows(q, b, c) ==
  /\ q.seen = Run(0, Start(q, b, c) + q.done * MicroBatch)
  /\ q.pc \in {"compute", "forward"} => q.plan = Split(Batch(q, b, c), MicroBatch)

\* By tokens, a position is in one micro-batch of the mini-batch.
Covers(q, b, c) ==
  /\ q.plan \in Seq(Seq(1 .. c))
  /\ \A i, j \in DOMAIN q.plan : \A x \in DOMAIN q.plan[i], y \in DOMAIN q.plan[j] :
       q.plan[i][x] = q.plan[j][y] => i = j /\ x = y
  /\ \A p \in 1 .. c :
       (\E i \in DOMAIN q.plan : \E x \in DOMAIN q.plan[i] : q.plan[i][x] = p)
         <=> Start(q, b, c) < p /\ p <= Stop(q, b, c)

Fair(q, w) ==
  \A i, j \in DOMAIN q.plan :
    /\ q.plan[i] # <<>>
    /\ Tokens(ToSet(q.plan[i]), w) - Tokens(ToSet(q.plan[j]), w) <= Max(ToSet(q.lens))

\* The positions that q has computed.
Gone(q, p, b, c) ==
  p <= Start(q, b, c) \/ \E i \in 1 .. q.done : \E y \in DOMAIN q.plan[i] : q.plan[i][y] = p

TakesTokens(q, b, c, w) ==
  /\ q.seen \in Seq(1 .. c)
  /\ \A x, y \in DOMAIN q.seen : q.seen[x] = q.seen[y] => x = y
  /\ \A p \in 1 .. c : (\E x \in DOMAIN q.seen : q.seen[x] = p) <=> Gone(q, p, b, c)
  /\ q.pc \in {"reduce", "compute", "forward"} =>
       q.lens = [k \in 1 .. Stop(q, b, c) - Start(q, b, c) |-> w[Start(q, b, c) + k]]
  /\ q.pc \in {"compute", "forward"} => Covers(q, b, c) /\ Fair(q, w)

\* A rank that has its c rows and computes, with row lengths w.
Works(q, b, c, dynamic, w) ==
  /\ q.pc \in Stages \ {"gather"}
  /\ q.pc \in {"split", "reduce", "compute", "forward"} => q.mini < Pieces(c, b)
  /\ q.pc \in {"answer", "idle"} => Start(q, b, c) = c
  /\ q.pc \notin {"compute", "forward"} => q.plan = <<>> /\ q.done = 0
  /\ q.done <= Len(q.plan)
  /\ q.pc = "forward" => q.done < Len(q.plan)
  /\ q.pc = "reduce" => dynamic
  /\ IF dynamic THEN TakesTokens(q, b, c, w) ELSE TakesRows(q, b, c)

\* What a rank ends up with.
Finished(seen, c, dynamic) == Permutes(seen, c) /\ (dynamic \/ seen = Run(0, c))

\* Numbers that a run of a rank rests on.
Sized(b, c) ==
  /\ MicroBatch \in Nat \ {0} /\ b \in Nat \ {0} /\ c \in Nat \ {0}
  /\ (b % MicroBatch) = 0 /\ (c % MicroBatch) = 0

\* A mini-batch is not empty and divides into micro-batches.
LEMMA BatchIs ==
  ASSUME NEW b, NEW c, Sized(b, c), NEW q \in RankTypes, q.mini < Pieces(c, b)
  PROVE  /\ q.mini + 1 \in 1 .. Pieces(c, b)
         /\ Start(q, b, c) \in Nat /\ Stop(q, b, c) \in Nat /\ Stop(q, b, c) <= c
         /\ Stop(q, b, c) - Start(q, b, c) \in Nat \ {0}
         /\ ((Stop(q, b, c) - Start(q, b, c)) % MicroBatch) = 0
<1> DEFINE j == q.mini + 1
<1>1. q.mini \in Nat /\ Pieces(c, b) \in Nat \ {0}
  BY EdgesAre DEF RankTypes, Sized
<1>2. j \in 1 .. Pieces(c, b) /\ j - 1 = q.mini /\ j \in Nat
  BY <1>1
<1> HIDE DEF j
<1>3. /\ Edge(j, b, c) - Edge(j - 1, b, c) \in Nat \ {0}
      /\ ((Edge(j, b, c) - Edge(j - 1, b, c)) % MicroBatch) = 0
  BY <1>2, EdgesFull DEF Sized
<1>4. Edge(j, b, c) \in 0 .. c /\ Edge(q.mini, b, c) \in 0 .. c
  BY <1>1, <1>2, EdgesAre DEF Sized
<1>5. Stop(q, b, c) = Edge(j, b, c) /\ Start(q, b, c) = Edge(j - 1, b, c)
  BY <1>2 DEF Stop, Start, j
<1>6. c \in Nat
  BY DEF Sized
<1>7. Start(q, b, c) \in Nat /\ Stop(q, b, c) \in Nat /\ Stop(q, b, c) <= c
  BY <1>2, <1>4, <1>5, <1>6
<1> QED BY <1>2, <1>3, <1>5, <1>7 DEF j

\* The next micro-batch by number of rows.
LEMMA NextRows ==
  ASSUME NEW b, NEW c, Sized(b, c), NEW q \in RankTypes, q.mini < Pieces(c, b),
         q.plan = Split(Batch(q, b, c), MicroBatch)
  PROVE  /\ Len(q.plan) * MicroBatch = Stop(q, b, c) - Start(q, b, c)
         /\ \A i \in 1 .. Len(q.plan) :
              q.plan[i] = Run(Start(q, b, c) + (i - 1) * MicroBatch, MicroBatch)
<1> DEFINE o == Start(q, b, c)
           s == Stop(q, b, c) - Start(q, b, c)
           m == MicroBatch
           M == Pieces(s, m)
<1>1. o \in Nat /\ s \in Nat \ {0} /\ (s % m) = 0
  BY BatchIs
<1>2. m \in Nat \ {0}
  BY DEF Sized
<1>3. q.plan = Split(Run(o, s), m)
  BY DEF Batch
<1> HIDE DEF o, s, m
<1>4. Cuts(q.plan, o, s, m)
  BY <1>1, <1>2, <1>3, SplitIs
<1>5. M * m = s /\ \A i \in 0 .. M : Edge(i, m, s) = i * m
  BY <1>1, <1>2, FullPieces
<1>6. Len(q.plan) = M /\ M \in Nat
  BY <1>1, <1>2, <1>4, EdgesAre DEF Cuts
<1>7. ASSUME NEW i \in 1 .. M PROVE q.plan[i] = Run(o + (i - 1) * m, m)
  <2>1. q.plan[i] = Run(o + Edge(i - 1, m, s), Edge(i, m, s) - Edge(i - 1, m, s))
    BY <1>4 DEF Cuts
  <2>2. i \in 0 .. M /\ i - 1 \in 0 .. M
    BY <1>6
  <2>3. Edge(i - 1, m, s) = (i - 1) * m /\ Edge(i, m, s) = i * m
    BY <1>5, <2>2
  <2>4. i * m - (i - 1) * m = m
    BY <1>2, <1>6
  <2> QED BY <2>1, <2>3, <2>4
<1> QED BY <1>5, <1>6, <1>7 DEF o, s, m

\* Its last micro-batch ends a mini-batch.
LEMMA MiniEnds ==
  ASSUME NEW b, NEW c, Sized(b, c), NEW dynamic \in BOOLEAN, NEW w,
         NEW q \in RankTypes, Works(q, b, c, dynamic, w), q.pc = "compute", q.done = Len(q.plan),
         NEW p \in RankTypes, p.mini = q.mini + 1, p.plan = <<>>, p.done = 0, p.seen = q.seen,
         p.pc = IF q.mini + 1 < Pieces(c, b) THEN "split" ELSE "answer"
  PROVE  Works(p, b, c, dynamic, w)
<1>1. q.mini < Pieces(c, b) /\ q.mini \in Nat /\ Pieces(c, b) \in Nat \ {0}
  BY EdgesAre DEF Works, Sized, RankTypes
<1>2. /\ Start(q, b, c) \in Nat /\ Stop(q, b, c) \in Nat /\ Stop(q, b, c) <= c
      /\ Stop(q, b, c) - Start(q, b, c) \in Nat \ {0}
  BY <1>1, BatchIs
<1>3. Start(p, b, c) = Stop(q, b, c)
  BY DEF Start, Stop
<1>4. p.pc # "split" => Start(p, b, c) = c
  <2> SUFFICES ASSUME p.pc # "split" PROVE Edge(p.mini, b, c) = c
    BY DEF Start
  <2>1. p.mini = Pieces(c, b)
    BY <1>1
  <2> QED BY <2>1, EdgesAre DEF Sized
<1>5. CASE dynamic
  <2>1. TakesTokens(q, b, c, w) /\ Covers(q, b, c)
    BY <1>5 DEF Works, TakesTokens
  <2>2. DOMAIN q.plan = 1 .. q.done
    BY DEF RankTypes
  <2>3. \A z \in 1 .. c : Gone(p, z, b, c) <=> Gone(q, z, b, c)
    <3> SUFFICES ASSUME NEW z \in 1 .. c PROVE Gone(p, z, b, c) <=> Gone(q, z, b, c)
      OBVIOUS
    <3>1. Gone(p, z, b, c) <=> z <= Stop(q, b, c)
      <4>1. ~ \E i \in 1 .. 0 : \E y \in DOMAIN p.plan[i] : p.plan[i][y] = z
        OBVIOUS
      <4> QED BY <1>3, <4>1 DEF Gone
    <3>2. Gone(q, z, b, c) <=>
            z <= Start(q, b, c) \/ (Start(q, b, c) < z /\ z <= Stop(q, b, c))
      BY <2>1, <2>2 DEF Gone, Covers
    <3> QED BY <1>2, <3>1, <3>2
  <2>4. TakesTokens(p, b, c, w)
    BY <2>1, <2>3 DEF TakesTokens
  <2>5. p.done <= Len(p.plan) /\ p.pc \in {"split", "answer"}
    OBVIOUS
  <2> QED BY <1>1, <1>4, <1>5, <2>4, <2>5 DEF Works, Stages
<1>6. CASE ~ dynamic
  <2>1. TakesRows(q, b, c)
    BY <1>6 DEF Works
  <2>2. q.done * MicroBatch = Stop(q, b, c) - Start(q, b, c)
    BY <1>1, <2>1, NextRows DEF TakesRows
  <2>3. 0 * MicroBatch = 0
    BY DEF Sized
  <2>4. Start(q, b, c) + q.done * MicroBatch = Start(p, b, c) + 0 * MicroBatch
    BY <1>2, <1>3, <2>2, <2>3
  <2>5. TakesRows(p, b, c)
    BY <2>1, <2>4 DEF TakesRows
  <2>6. p.done <= Len(p.plan) /\ p.pc \in {"split", "answer"}
    OBVIOUS
  <2> QED BY <1>1, <1>4, <1>6, <2>5, <2>6 DEF Works, Stages
<1> QED BY <1>5, <1>6

\* A pass over the next micro-batch.
LEMMA PassIs ==
  ASSUME NEW b, NEW c, Sized(b, c), NEW dynamic \in BOOLEAN, NEW w,
         NEW q \in RankTypes, Works(q, b, c, dynamic, w), q.pc = "forward",
         NEW p \in RankTypes, p.mini = q.mini, p.plan = q.plan, p.done = q.done + 1,
         p.lens = q.lens, p.seen = q.seen \o q.plan[q.done + 1], p.pc = "compute"
  PROVE  Works(p, b, c, dynamic, w)
<1> DEFINE j == q.done + 1
           next == q.plan[j]
<1>1. q.mini < Pieces(c, b) /\ q.done < Len(q.plan) /\ q.done \in Nat /\ Len(q.plan) \in Nat
  BY DEF Works, RankTypes
<1>2. j \in 1 .. Len(q.plan) /\ p.done <= Len(p.plan) /\ DOMAIN q.plan = 1 .. Len(q.plan)
  BY <1>1, SMTT(60) DEF RankTypes
<1>3. Start(p, b, c) = Start(q, b, c) /\ Stop(p, b, c) = Stop(q, b, c)
      /\ Batch(p, b, c) = Batch(q, b, c)
  BY DEF Start, Stop, Batch
<1>4. p.mini < Pieces(c, b) /\ p.pc \in Stages \ {"gather"}
  BY <1>1 DEF Stages
<1>5. CASE dynamic
  <2>1. TakesTokens(q, b, c, w) /\ Covers(q, b, c) /\ Fair(q, w)
    BY <1>5 DEF Works, TakesTokens
  <2>2. q.seen \in Seq(1 .. c) /\ next \in Seq(1 .. c)
    BY <1>2, <2>1 DEF TakesTokens, Covers
  <2> DEFINE s == q.seen
             t == next
             l == Len(s)
  <2>3. p.seen = s \o t /\ s \in Seq(1 .. c) /\ t \in Seq(1 .. c)
    BY <2>2
  <2> HIDE DEF s, t
  <2>4. /\ s \o t \in Seq(1 .. c)
        /\ \A x \in DOMAIN (s \o t) :
              \/ x \in DOMAIN s /\ (s \o t)[x] = s[x]
              \/ x - l \in DOMAIN t /\ (s \o t)[x] = t[x - l]
        /\ \A x \in DOMAIN s : x \in DOMAIN (s \o t) /\ (s \o t)[x] = s[x]
        /\ \A y \in DOMAIN t : l + y \in DOMAIN (s \o t) /\ (s \o t)[l + y] = t[y]
    BY <2>3, JoinedRows
  <2>5. \A x \in DOMAIN s : Gone(q, s[x], b, c)
    <3> SUFFICES ASSUME NEW x \in DOMAIN s PROVE Gone(q, s[x], b, c)
      OBVIOUS
    <3>1. s[x] \in 1 .. c
      BY <2>3, InSeq
    <3> QED BY <2>1, <3>1 DEF TakesTokens, s
  <2>6. \A y \in DOMAIN t : ~ Gone(q, t[y], b, c)
    <3> SUFFICES ASSUME NEW y \in DOMAIN t, Gone(q, t[y], b, c) PROVE FALSE
      OBVIOUS
    <3>1. t[y] \in 1 .. c /\ j \in DOMAIN q.plan /\ y \in DOMAIN q.plan[j] /\ q.plan[j][y] = t[y]
      <4>1. t[y] \in 1 .. c
        BY <2>3, InSeq
      <4> QED BY <1>2, <4>1 DEF t
    <3>2. Start(q, b, c) < t[y]
      BY <2>1, <3>1 DEF Covers
    <3>3. PICK i \in 1 .. q.done : \E z \in DOMAIN q.plan[i] : q.plan[i][z] = t[y]
      <4>1. Start(q, b, c) \in Nat
        BY <1>1, BatchIs
      <4> QED BY <3>1, <3>2, <4>1 DEF Gone
    <3>4. i \in DOMAIN q.plan /\ i # j
      BY <1>1, <1>2
    <3> QED BY <2>1, <3>1, <3>3, <3>4 DEF Covers
  <2>7. \A x, y \in DOMAIN p.seen : p.seen[x] = p.seen[y] => x = y
    <3> SUFFICES ASSUME NEW x \in DOMAIN (s \o t), NEW y \in DOMAIN (s \o t), (s \o t)[x] = (s \o t)[y]
                 PROVE  x = y
      BY <2>3
    <3>1. x \in Int /\ y \in Int /\ l \in Int
      <4>1. DOMAIN (s \o t) = 1 .. Len(s \o t)
        BY <2>4
      <4> QED BY <2>3, <4>1
    <3>2. /\ \/ x \in DOMAIN s /\ (s \o t)[x] = s[x]
             \/ x - l \in DOMAIN t /\ (s \o t)[x] = t[x - l]
          /\ \/ y \in DOMAIN s /\ (s \o t)[y] = s[y]
             \/ y - l \in DOMAIN t /\ (s \o t)[y] = t[y - l]
      BY <2>4
    <3>3. CASE x \in DOMAIN s /\ (s \o t)[x] = s[x] /\ y \in DOMAIN s /\ (s \o t)[y] = s[y]
      <4>1. s[x] = s[y]
        BY <3>3
      <4> QED BY <2>1, <3>3, <4>1 DEF TakesTokens, s
    <3>4. CASE x \in DOMAIN s /\ (s \o t)[x] = s[x] /\ y - l \in DOMAIN t /\ (s \o t)[y] = t[y - l]
      <4>1. s[x] = t[y - l]
        BY <3>4
      <4> QED BY <2>5, <2>6, <3>4, <4>1
    <3>5. CASE x - l \in DOMAIN t /\ (s \o t)[x] = t[x - l] /\ y \in DOMAIN s /\ (s \o t)[y] = s[y]
      <4>1. s[y] = t[x - l]
        BY <3>5
      <4> QED BY <2>5, <2>6, <3>5, <4>1
    <3>6. CASE x - l \in DOMAIN t /\ (s \o t)[x] = t[x - l] /\ y - l \in DOMAIN t /\ (s \o t)[y] = t[y - l]
      <4>1. t[x - l] = t[y - l]
        BY <3>6
      <4>2. j \in DOMAIN q.plan
        BY <1>2
      <4>3. x - l = y - l
        BY <2>1, <3>6, <4>1, <4>2 DEF Covers, t
      <4> QED BY <3>1, <4>3
    <3> QED BY <3>2, <3>3, <3>4, <3>5, <3>6
  <2>8. \A z \in 1 .. c : (\E x \in DOMAIN p.seen : p.seen[x] = z) <=> Gone(p, z, b, c)
    <3> SUFFICES ASSUME NEW z \in 1 .. c
                 PROVE  (\E x \in DOMAIN p.seen : p.seen[x] = z) <=> Gone(p, z, b, c)
      OBVIOUS
    <3>1. (\E x \in DOMAIN p.seen : p.seen[x] = z)
            <=> (\E x \in DOMAIN s : s[x] = z) \/ (\E y \in DOMAIN t : t[y] = z)
      <4> DEFINE u == s \o t
      <4>1. /\ p.seen = u
            /\ \A x \in DOMAIN u : \/ x \in DOMAIN s /\ u[x] = s[x]
                                   \/ x - l \in DOMAIN t /\ u[x] = t[x - l]
            /\ \A x \in DOMAIN s : x \in DOMAIN u /\ u[x] = s[x]
            /\ \A y \in DOMAIN t : l + y \in DOMAIN u /\ u[l + y] = t[y]
        BY <2>3, <2>4
      <4> HIDE DEF u, l
      <4> QED BY <4>1
    <3>2. (\E x \in DOMAIN s : s[x] = z) <=> Gone(q, z, b, c)
      BY <2>1 DEF TakesTokens, s
    <3>3. Gone(p, z, b, c) <=> Gone(q, z, b, c) \/ \E y \in DOMAIN t : t[y] = z
      <4>1. \A i : i \in 1 .. p.done <=> i \in 1 .. q.done \/ i = j
        BY <1>1
      <4>2. Gone(p, z, b, c) <=> \/ z <= Start(q, b, c)
                                 \/ \E i \in 1 .. p.done : \E y \in DOMAIN q.plan[i] : q.plan[i][y] = z
        BY <1>3 DEF Gone
      <4> QED BY <4>1, <4>2 DEF Gone, t
    <3> QED BY <3>1, <3>2, <3>3
  <2>9. Covers(p, b, c) /\ Fair(p, w)
    BY <1>3, <2>1 DEF Covers, Fair
  <2>10. p.lens = [k \in 1 .. Stop(p, b, c) - Start(p, b, c) |-> w[Start(p, b, c) + k]]
    BY <1>3, <2>1 DEF TakesTokens
  <2>11. p.seen \in Seq(1 .. c)
    BY <2>3, <2>4
  <2>12. TakesTokens(p, b, c, w)
    BY <2>7, <2>8, <2>9, <2>10, <2>11 DEF TakesTokens
  <2> QED BY <1>2, <1>4, <1>5, <2>12 DEF Works
<1>6. CASE ~ dynamic
  <2>1. TakesRows(q, b, c)
    BY <1>6 DEF Works
  <2>2. next = Run(Start(q, b, c) + q.done * MicroBatch, MicroBatch)
    <3>1. q.plan = Split(Batch(q, b, c), MicroBatch)
      BY <2>1 DEF TakesRows
    <3>2. \A i \in 1 .. Len(q.plan) :
            q.plan[i] = Run(Start(q, b, c) + (i - 1) * MicroBatch, MicroBatch)
      BY <1>1, <3>1, NextRows
    <3>3. j - 1 = q.done
      BY <1>1
    <3> QED BY <1>2, <3>2, <3>3
  <2> DEFINE e == Start(q, b, c) + q.done * MicroBatch
  <2>3. e \in Nat /\ MicroBatch \in Nat /\ Start(q, b, c) \in Nat /\ 0 + e = e
    <3>1. Start(q, b, c) \in Nat
      BY <1>1, BatchIs
    <3>2. MicroBatch \in Nat
      BY DEF Sized
    <3>3. q.done * MicroBatch \in Nat
      BY <1>1, <3>2
    <3> QED BY <3>1, <3>2, <3>3
  <2>4. e + MicroBatch = Start(p, b, c) + p.done * MicroBatch
    <3>1. (q.done + 1) * MicroBatch = q.done * MicroBatch + MicroBatch
      BY <1>1, <2>3
    <3>2. q.done * MicroBatch \in Nat
      BY <1>1, <2>3
    <3> QED BY <1>3, <2>3, <3>1, <3>2
  <2>5. q.seen = Run(0, e) /\ next = Run(e, MicroBatch)
    BY <2>1, <2>2 DEF TakesRows
  <2> HIDE DEF e
  <2>6. Run(0, e) \o Run(0 + e, MicroBatch) = Run(0, e + MicroBatch)
    BY <2>3, RunJoins
  <2>7. p.seen = Run(0, e + MicroBatch)
    BY <2>3, <2>5, <2>6
  <2>8. TakesRows(p, b, c)
    BY <1>3, <2>1, <2>4, <2>7 DEF TakesRows
  <2> QED BY <1>2, <1>4, <1>6, <2>8 DEF Works
<1> QED BY <1>5, <1>6

\* The rank turns to other things; positions and plan stay.
LEMMA StepsOn ==
  ASSUME NEW b, NEW c, Sized(b, c), NEW w, NEW dynamic \in BOOLEAN,
         NEW q \in RankTypes, Works(q, b, c, dynamic, w), q.pc = "compute", q.done < Len(q.plan),
         NEW p \in RankTypes, p.mini = q.mini, p.plan = q.plan, p.done = q.done,
         p.lens = q.lens, p.seen = q.seen, p.pc = "forward"
  PROVE  Works(p, b, c, dynamic, w)
<1>1. Start(p, b, c) = Start(q, b, c) /\ Stop(p, b, c) = Stop(q, b, c)
      /\ Batch(p, b, c) = Batch(q, b, c)
  BY DEF Start, Stop, Batch
<1>2. CASE dynamic
  <2>1. TakesTokens(q, b, c, w)
    BY <1>2 DEF Works
  <2>2. TakesTokens(p, b, c, w)
    BY <1>1, <2>1 DEF TakesTokens, Covers, Fair, Gone
  <2> QED BY <1>2, <2>2 DEF Works, Stages
<1>3. CASE ~ dynamic
  <2>1. TakesRows(p, b, c)
    BY <1>1, <1>3 DEF Works, TakesRows
  <2> QED BY <1>3, <2>1 DEF Works, Stages
<1> QED BY <1>2, <1>3

\* A mini-batch cut by rows.
LEMMA PlansRows ==
  ASSUME NEW b, NEW c, Sized(b, c), NEW w,
         NEW q \in RankTypes, Works(q, b, c, FALSE, w), q.pc = "split",
         NEW p \in RankTypes, p.mini = q.mini, p.plan = Split(Batch(q, b, c), MicroBatch),
         p.done = 0, p.seen = q.seen, p.pc = "compute"
  PROVE  Works(p, b, c, FALSE, w)
<1>1. Start(p, b, c) = Start(q, b, c) /\ Batch(p, b, c) = Batch(q, b, c)
  BY DEF Start, Stop, Batch
<1>2. TakesRows(p, b, c)
  BY <1>1 DEF Works, TakesRows
<1>3. p.done <= Len(p.plan)
  BY DEF RankTypes
<1> QED BY <1>2, <1>3 DEF Works, Stages

\* A rank that has measured its mini-batch.
LEMMA MeasuresOn ==
  ASSUME NEW b, NEW c, Sized(b, c), NEW w,
         NEW q \in RankTypes, Works(q, b, c, TRUE, w), q.pc = "split",
         NEW p \in RankTypes, p.mini = q.mini, p.plan = q.plan, p.done = q.done, p.seen = q.seen,
         p.lens = [k \in 1 .. Stop(q, b, c) - Start(q, b, c) |-> w[Start(q, b, c) + k]],
         p.pc = "reduce"
  PROVE  Works(p, b, c, TRUE, w)
<1>1. Start(p, b, c) = Start(q, b, c) /\ Stop(p, b, c) = Stop(q, b, c)
  BY DEF Start, Stop
<1>2. TakesTokens(q, b, c, w)
  BY DEF Works
<1>3. TakesTokens(p, b, c, w)
  BY <1>1, <1>2 DEF TakesTokens, Gone
<1> QED BY <1>3 DEF Works, Stages

\* The same rows by other numbers: a part of a mini-batch, as positions.
Moved(part, o) == [x \in DOMAIN part |-> o + part[x]]

IsMoved(part, o, c, w, len) ==
  /\ Moved(part, o) \in Seq(1 .. c) /\ Len(Moved(part, o)) = Len(part)
  /\ DOMAIN Moved(part, o) = DOMAIN part
  /\ Tokens(ToSet(Moved(part, o)), w) = Tokens(ToSet(part), len)

\* A part of a mini-batch by other numbers keeps its size and its weight.
LEMMA MovedIs ==
  ASSUME NEW o \in Nat, NEW n \in Nat, NEW c \in Nat, o + n <= c, NEW part \in Seq(1 .. n),
         NEW w \in [1 .. c -> Nat], NEW len, len = [x \in 1 .. n |-> w[o + x]]
  PROVE  IsMoved(part, o, c, w, len)
<1> DEFINE t == Moved(part, o)
           l == Len(part)
           S == ToSet(part)
           T == 1 .. c
           h == [x \in S |-> o + x]
<1>1. l \in Nat /\ DOMAIN part = 1 .. l /\ \A x \in 1 .. l : part[x] \in 1 .. n
  BY InSeq
<1>2. t = [x \in 1 .. l |-> o + part[x]]
  BY <1>1 DEF Moved
<1>3. \A y \in 1 .. n : o + y \in T
  OBVIOUS
<1>4. S \in SUBSET (1 .. n) /\ IsFiniteSet(S)
  BY RowSet
<1>5. IsFiniteSet(T)
  BY FS_Interval
<1>6. t \in [1 .. l -> T]
  BY <1>1, <1>2, <1>3
<1> HIDE DEF l, T
<1>7. t \in Seq(T) /\ Len(t) = l /\ DOMAIN t = 1 .. l
  BY <1>1, <1>6
<1>8. ToSet(t) = Image(h, S)
  <2>1. \A x \in 1 .. l : t[x] = o + part[x] /\ part[x] \in S
    BY <1>1, <1>2 DEF ToSet
  <2>2. \A x \in S : \E y \in 1 .. l : part[y] = x
    BY <1>1 DEF ToSet
  <2>3. \A x \in S : h[x] = o + x
    OBVIOUS
  <2>4. ToSet(t) = {t[x] : x \in 1 .. l}
    BY <1>7 DEF ToSet
  <2> HIDE DEF S, t, h
  <2>5. \A x \in 1 .. l : t[x] \in Image(h, S)
    BY <2>1, <2>3 DEF Image
  <2>6. \A x \in S : h[x] \in ToSet(t)
    BY <2>1, <2>2, <2>3, <2>4, SMTT(60)
  <2> QED BY <2>4, <2>5, <2>6 DEF Image
<1>9. Tokens(ToSet(t), w) = Tokens(S, len)
  <2>1. h \in [S -> T] /\ \A x, y \in S : h[x] = h[y] => x = y
    <3>1. \A x \in S : o + x \in T /\ x \in Int
      <4> HIDE DEF S
      <4>1. \A x \in S : x \in 1 .. n
        BY <1>4
      <4> SUFFICES ASSUME NEW x \in S PROVE o + x \in T /\ x \in Int
        OBVIOUS
      <4>2. x \in 1 .. n
        BY <4>1
      <4>3. o + x \in T
        BY ONLY <1>3, <4>2
      <4>4. x \in Int
        BY <4>2
      <4> QED BY <4>3, <4>4
    <3>2. h \in [S -> T] /\ \A x \in S : h[x] = o + x
      BY <3>1
    <3> HIDE DEF h, S, T
    <3> QED BY <3>1, <3>2
  <2>2. \A x \in T : w[x] \in Int
    BY DEF T
  <2>3. \A x \in S : len[x] = w[h[x]]
    BY <1>4
  <2> HIDE DEF S, h, t
  <2>4. SumFunctionOnSet(len, S) = SumFunctionOnSet(w, Image(h, S))
    BY ONLY <1>4, <1>5, <2>1, <2>2, <2>3, SumMoved
  <2> QED BY <1>8, <2>4 DEF Tokens
<1> QED BY <1>1, <1>7, <1>9 DEF IsMoved, t, S, l, T

\* The longest of some rows.
LEMMA LongestIs ==
  ASSUME NEW n \in Nat \ {0}, NEW len \in Lens(n)
  PROVE  /\ Max(ToSet(len)) \in Nat /\ \A x \in 1 .. n : len[x] <= Max(ToSet(len))
         /\ Min(ToSet(len)) \in Nat /\ \A x \in 1 .. n : Min(ToSet(len)) <= len[x]
         /\ Min(ToSet(len)) <= Max(ToSet(len))
<1> DEFINE S == ToSet(len)
           D == 1 .. n
<1>1. DOMAIN len = D /\ 1 \in D /\ \A x \in D : len[x] \in Nat
  BY DEF Lens
<1>2. S = {len[x] : x \in D}
  BY <1>1 DEF ToSet
<1> HIDE DEF S, D
<1>3. S \in SUBSET Nat /\ S \in SUBSET Int /\ S # {}
  BY <1>1, <1>2
<1>4. IsFiniteSet(S)
  <2>1. IsFiniteSet(D)
    BY FS_Interval DEF D
  <2>2. len \in Surjection(D, S)
    <3>1. len \in [D -> S]
      BY <1>1, <1>2 DEF Lens, D
    <3> QED BY <1>2, <3>1 DEF Surjection
  <2> QED BY <2>1, <2>2, FS_Surjection
<1>5. Max(S) \in S /\ \A y \in S : Max(S) >= y
  BY <1>3, <1>4, MaxIs
<1>6. Min(S) \in S /\ \A y \in S : Min(S) <= y
  <2>1. \E x \in S : \A y \in S : x <= y
    BY <1>3, Least
  <2> QED BY <2>1 DEF Min
<1>7. \A x \in D : len[x] \in S
  BY <1>2
<1> QED BY <1>3, <1>5, <1>6, <1>7 DEF S, D

Planned(p, parts, o) == p.plan = [i \in DOMAIN parts |-> Moved(parts[i], o)]

\* A mini-batch cut by tokens: every row is in one micro-batch, none of which is
\* empty or much heavier than another.
LEMMA PlansTokens ==
  ASSUME NEW b, NEW c, Sized(b, c), NEW w \in Lens(c),
         NEW q \in RankTypes, Works(q, b, c, TRUE, w), q.pc = "reduce",
         NEW k \in 1 .. Len(q.lens), NEW parts, parts = BalancedPartitions(q.lens, k, FALSE),
         NEW p \in RankTypes, p.mini = q.mini, p.done = 0, p.seen = q.seen, p.lens = q.lens,
         Planned(p, parts, Start(q, b, c)),
         p.pc = "compute"
  PROVE  Works(p, b, c, TRUE, w)
<1> DEFINE o == Start(q, b, c)
           n == Stop(q, b, c) - o
           d == Max(ToSet(q.lens))
<1>1. q.mini < Pieces(c, b) /\ TakesTokens(q, b, c, w) /\ c \in Nat
  BY DEF Works, Sized
<1>2. o \in Nat /\ n \in Nat \ {0} /\ o + n = Stop(q, b, c) /\ o + n <= c
  BY <1>1, BatchIs
<1>3. Start(p, b, c) = o /\ Stop(p, b, c) = o + n
  BY <1>2 DEF Start, Stop
<1>4. q.lens = [x \in 1 .. n |-> w[o + x]]
  BY <1>1 DEF TakesTokens
<1> HIDE DEF o, n
<1>5. w \in [1 .. c -> Nat] /\ \A x \in 1 .. c : w[x] \in Nat \ {0}
  BY DEF Lens
<1>6. q.lens \in Lens(n) /\ Len(q.lens) = n
  <2>1. \A x \in 1 .. n : w[o + x] \in Nat \ {0}
    BY <1>1, <1>2, <1>5
  <2>2. q.lens \in [1 .. n -> Nat \ {0}]
    BY <1>4, <2>1
  <2> QED BY <1>2, <2>2 DEF Lens
<1>7. d \in Nat /\ Near(n, q.lens, d, FALSE)
  BY <1>2, <1>6, LongestIs DEF Near
<1>8. k \in 1 .. n /\ k \in Nat \ {0}
  BY <1>2, <1>6
<1> HIDE DEF d
<1>9. Shares(parts, n, k) /\ Alike(parts, k, q.lens, d) /\ Cut(parts, k, FALSE)
  BY <1>2, <1>6, <1>7, <1>8, BalancedIs
<1>10. \A i \in 1 .. k : parts[i] # <<>>
  <2>1. Filled(parts, k)
    BY <1>2, <1>8, <1>9, NoneEmpty
  <2> QED BY <2>1 DEF Filled
<1>11. DOMAIN parts = 1 .. k /\ \A i \in 1 .. k : parts[i] \in Seq(1 .. n)
  BY <1>9 DEF Shares
<1> DEFINE pl == p.plan
           ln == q.lens
<1>12. DOMAIN pl = 1 .. k /\ \A i \in 1 .. k : pl[i] = Moved(parts[i], o)
  BY <1>11 DEF o, Planned
<1>12a. ln = [x \in 1 .. n |-> w[o + x]]
  BY <1>4
<1> HIDE DEF pl, ln
<1>13. ASSUME NEW i \in 1 .. k
       PROVE  /\ pl[i] \in Seq(1 .. c) /\ Len(pl[i]) = Len(parts[i])
              /\ DOMAIN pl[i] = DOMAIN parts[i]
              /\ Tokens(ToSet(pl[i]), w) = Tokens(ToSet(parts[i]), ln)
              /\ \A x \in DOMAIN parts[i] : pl[i][x] = o + parts[i][x] /\ parts[i][x] \in 1 .. n
  <2> DEFINE u == parts[i]
  <2>1. u \in Seq(1 .. n)
    BY <1>11
  <2> HIDE DEF u
  <2>2. IsMoved(u, o, c, w, ln)
    BY <1>1, <1>2, <1>5, <1>12a, <2>1, MovedIs
  <2>3. \A x \in DOMAIN u : Moved(u, o)[x] = o + u[x] /\ u[x] \in 1 .. n
    BY <2>1, InSeq DEF Moved
  <2>4. pl[i] = Moved(u, o)
    BY <1>12 DEF u
  <2> QED BY <2>2, <2>3, <2>4 DEF IsMoved, u
<1>14. pl \in Seq(Seq(1 .. c))
  <2> DEFINE S == Seq(1 .. c)
  <2>1. \A i \in 1 .. k : pl[i] \in S
    BY <1>13
  <2>2. pl = [i \in 1 .. k |-> pl[i]]
    <3>1. pl \in Seq(Seq(Nat))
      BY DEF pl, RankTypes
    <3> QED BY <1>12, <3>1
  <2> HIDE DEF S
  <2>3. pl \in [1 .. k -> S]
    BY <2>1, <2>2
  <2>4. pl \in Seq(S)
    <3>1. k \in Nat
      BY <1>8
    <3> QED BY <2>3, <3>1
  <2> QED BY <2>4 DEF S
<1>15. Covers(p, b, c)
  <2>1. ASSUME NEW i \in 1 .. k, NEW j \in 1 .. k,
               NEW x \in DOMAIN pl[i], NEW y \in DOMAIN pl[j],
               pl[i][x] = pl[j][y]
        PROVE  i = j /\ x = y
    <3>1. /\ x \in DOMAIN parts[i] /\ y \in DOMAIN parts[j]
          /\ pl[i][x] = o + parts[i][x] /\ parts[i][x] \in 1 .. n
          /\ pl[j][y] = o + parts[j][y] /\ parts[j][y] \in 1 .. n
      BY <1>13
    <3>2. parts[i][x] = parts[j][y]
      <4> DEFINE f == parts[i][x]
                 g == parts[j][y]
      <4>1. f \in 1 .. n /\ g \in 1 .. n /\ o + f = o + g
        BY <2>1, <3>1
      <4> HIDE DEF f, g
      <4>2. f = g
        BY <1>2, <4>1
      <4> QED BY <4>2 DEF f, g
    <3>3. \A e, f \in 1 .. k : \A u \in DOMAIN parts[e], v \in DOMAIN parts[f] :
            parts[e][u] = parts[f][v] => e = f /\ u = v
      BY <1>9 DEF Shares
    <3> QED BY ONLY <3>1, <3>2, <3>3
  <2>2. ASSUME NEW z \in 1 .. c
        PROVE  (\E i \in 1 .. k : \E x \in DOMAIN pl[i] : pl[i][x] = z)
                 <=> o < z /\ z <= o + n
    <3>1. ASSUME NEW i \in 1 .. k, NEW x \in DOMAIN pl[i], pl[i][x] = z
          PROVE  o < z /\ z <= o + n
      <4> DEFINE f == parts[i][x]
      <4>1. z = o + f /\ f \in 1 .. n
        BY <1>13, <3>1
      <4> HIDE DEF f
      <4> QED BY <1>2, <4>1
    <3>2. ASSUME o < z, z <= o + n
          PROVE  \E i \in 1 .. k : \E x \in DOMAIN pl[i] : pl[i][x] = z
      <4> DEFINE r == z - o
      <4>1. r \in 1 .. n /\ z = o + r
        BY <1>2, <3>2
      <4> HIDE DEF r
      <4>2. PICK i \in 1 .. k : \E x \in DOMAIN parts[i] : parts[i][x] = r
        BY <1>9, <4>1 DEF Shares
      <4>3. PICK x \in DOMAIN parts[i] : parts[i][x] = r
        BY <4>2
      <4>4. x \in DOMAIN pl[i] /\ pl[i][x] = z
        BY <1>13, <4>1, <4>3
      <4> QED BY <4>4
    <3> QED BY <3>1, <3>2
  <2>3. \A i, j \in DOMAIN pl : \A x \in DOMAIN pl[i], y \in DOMAIN pl[j] :
          pl[i][x] = pl[j][y] => i = j /\ x = y
    BY <1>12, <2>1
  <2>4. \A z \in 1 .. c : (\E i \in DOMAIN pl : \E x \in DOMAIN pl[i] : pl[i][x] = z)
          <=> o < z /\ z <= o + n
    BY <1>12, <2>2
  <2>5. p.plan = pl
    BY DEF pl
  <2>6. \A z \in 1 .. c : (\E i \in DOMAIN pl : \E x \in DOMAIN pl[i] : pl[i][x] = z)
          <=> Start(p, b, c) < z /\ z <= Stop(p, b, c)
    <3> HIDE DEF pl
    <3> QED BY ONLY <1>3, <2>4
  <2> HIDE DEF pl
  <2> QED BY ONLY <1>14, <2>3, <2>5, <2>6 DEF Covers
<1>16. Fair(p, w)
  <2> SUFFICES ASSUME NEW i \in 1 .. k, NEW j \in 1 .. k
               PROVE  /\ pl[i] # <<>>
                      /\ Tokens(ToSet(pl[i]), w) - Tokens(ToSet(pl[j]), w)
                           <= Max(ToSet(p.lens))
    BY <1>12 DEF Fair, pl
  <2>1. pl[i] # <<>>
    <3>1. parts[i] # <<>> /\ parts[i] \in Seq(1 .. n) /\ Len(pl[i]) = Len(parts[i])
      BY <1>10, <1>11, <1>13
    <3>2. Len(parts[i]) # 0
      <4> DEFINE u == parts[i]
      <4>1. u \in Seq(1 .. n) /\ u # <<>>
        BY <3>1
      <4> HIDE DEF u
      <4>2. Len(u) # 0
        BY <4>1
      <4> QED BY <4>2 DEF u
    <3>3. Len(<<>>) = 0
      OBVIOUS
    <3> QED BY <3>1, <3>2, <3>3
  <2>2. Tokens(ToSet(parts[i]), ln) - Tokens(ToSet(parts[j]), ln) <= d
    BY <1>9 DEF Alike, ln
  <2> QED BY <1>13, <2>1, <2>2 DEF d, ln
<1>17. \A z \in 1 .. c : Gone(p, z, b, c) <=> Gone(q, z, b, c)
  <2>1. q.done = 0 /\ p.done = 0
    BY DEF Works
  <2>2. ~ \E i : i \in 1 .. 0
    OBVIOUS
  <2> QED BY <1>3, <2>1, <2>2 DEF Gone, o
<1>18. p.lens = [x \in 1 .. Stop(p, b, c) - Start(p, b, c) |-> w[Start(p, b, c) + x]]
  <2>1. Stop(p, b, c) - Start(p, b, c) = n
    BY <1>2, <1>3
  <2> QED BY <1>3, <1>4, <2>1
<1>19. TakesTokens(p, b, c, w)
  BY <1>1, <1>15, <1>16, <1>17, <1>18 DEF TakesTokens
<1>20. p.done <= Len(p.plan)
  BY DEF RankTypes
<1> QED BY <1>1, <1>19, <1>20 DEF Works, Stages

\* Whoever is through has taken every position, and in order if by rows.
LEMMA AllTaken ==
  ASSUME NEW b, NEW c, Sized(b, c), NEW dynamic \in BOOLEAN, NEW w,
         NEW q \in RankTypes, Works(q, b, c, dynamic, w), q.pc \in {"answer", "idle"}
  PROVE  Finished(q.seen, c, dynamic)
<1>1. Start(q, b, c) = c /\ q.done = 0 /\ c \in Nat
  BY DEF Works, Sized
<1>2. CASE dynamic
  <2>1. TakesTokens(q, b, c, w)
    BY <1>2 DEF Works
  <2> DEFINE s == q.seen
             l == Len(s)
  <2>2. s \in Seq(1 .. c) /\ \A x, y \in DOMAIN s : s[x] = s[y] => x = y
    BY <2>1 DEF TakesTokens
  <2>3. \A z \in 1 .. c : \E x \in DOMAIN s : s[x] = z
    BY <1>1, <2>1 DEF TakesTokens, Gone
  <2> HIDE DEF s
  <2>4. l \in Nat /\ DOMAIN s = 1 .. l /\ \A x \in DOMAIN s : s[x] \in 1 .. c
    BY <2>2, InSeq
  <2>5. ToSet(s) = 1 .. c
    BY <2>3, <2>4 DEF ToSet
  <2>6. Cardinality(ToSet(s)) = l
    BY <1>1, <2>2, LenOfSet
  <2>7. Cardinality(1 .. c) = c
    BY <1>1, FS_Interval
  <2>8. l = c
    BY <2>5, <2>6, <2>7
  <2> HIDE DEF l
  <2>9. s \in [1 .. c -> 1 .. c]
    <3>1. s = [x \in 1 .. l |-> s[x]]
      BY <2>2, <2>4
    <3> QED BY <2>4, <2>8, <3>1
  <2>10. Permutes(s, c)
    BY <2>2, <2>3, <2>4, <2>8, <2>9 DEF Permutes
  <2> QED BY <1>2, <2>10 DEF Finished, s
<1>3. CASE ~ dynamic
  <2>1. q.seen = Run(0, c + 0 * MicroBatch)
    BY <1>1, <1>3 DEF Works, TakesRows
  <2>2. c + 0 * MicroBatch = c
    <3>1. 0 * MicroBatch = 0
      BY DEF Sized
    <3> QED BY <1>1, <3>1
  <2>3. q.seen = Run(0, c)
    BY <2>1, <2>2
  <2>4. DOMAIN Run(0, c) = 1 .. c /\ \A x \in 1 .. c : Run(0, c)[x] = x
    BY <1>1 DEF Run
  <2>5. Permutes(Run(0, c), c)
    <3>1. Run(0, c) \in [1 .. c -> 1 .. c]
      BY <1>1 DEF Run
    <3> QED BY <2>4, <3>1 DEF Permutes
  <2> QED BY <2>3, <2>5 DEF Finished
<1> QED BY <1>2, <1>3

-----------------------------------------------------------------------------
(* What is dealt out, and the invariant of a call.                           *)

\* l neighbouring rows after the first o.
Slice(rows, o, l) == [x \in 1 .. l |-> rows[o + x]]

\* What a slice is.
LEMMA SliceIs ==
  ASSUME NEW S, NEW rows \in Seq(S), NEW o \in Nat, NEW l \in Nat, o + l <= Len(rows)
  PROVE  /\ Slice(rows, o, l) \in Seq(S) /\ Len(Slice(rows, o, l)) = l
         /\ DOMAIN Slice(rows, o, l) = 1 .. l
         /\ \A x \in 1 .. l : Slice(rows, o, l)[x] = rows[o + x] /\ o + x \in DOMAIN rows
<1> DEFINE s == Slice(rows, o, l)
<1>1. \A x \in 1 .. l : o + x \in DOMAIN rows
  <2>1. DOMAIN rows = 1 .. Len(rows) /\ Len(rows) \in Nat
    BY InSeq
  <2> QED BY <2>1
<1>2. \A x \in 1 .. l : rows[o + x] \in S
  BY <1>1, InSeq
<1>3. s \in [1 .. l -> S] /\ \A x \in 1 .. l : s[x] = rows[o + x]
  BY <1>2 DEF Slice
<1> HIDE DEF s
<1>4. s \in Seq(S) /\ Len(s) = l /\ DOMAIN s = 1 .. l
  BY <1>3
<1> QED BY <1>1, <1>3, <1>4 DEF s

\* A slice as a subsequence.
LEMMA SliceOfSeq ==
  ASSUME NEW S, NEW rows \in Seq(S), NEW o \in Nat, NEW l \in Nat, o + l <= Len(rows),
         NEW a, a = o + 1, NEW z, z = o + l
  PROVE  SubSeq(rows, a, z) = Slice(rows, o, l)
<1> DEFINE s == Slice(rows, o, l)
           t == SubSeq(rows, a, z)
<1>1. s \in Seq(S) /\ Len(s) = l /\ \A x \in 1 .. l : s[x] = rows[o + x] /\ o + x \in DOMAIN rows
  BY SliceIs
<1>2. a \in Nat /\ z \in Nat /\ z - a + 1 = l /\ \A x \in 1 .. l : a + x - 1 = o + x
  OBVIOUS
<1>3. t = [x \in 1 .. z - a + 1 |-> rows[a + x - 1]]
  BY <1>2
<1> HIDE DEF s, t
<1>4. DOMAIN t = 1 .. l /\ \A x \in 1 .. l : t[x] = rows[o + x]
  BY <1>2, <1>3
<1>5. \A x \in 1 .. l : rows[o + x] \in S
  BY <1>1, InSeq
<1>6. t \in [1 .. l -> S]
  <2>1. t = [x \in 1 .. l |-> t[x]]
    BY <1>2, <1>3, <1>4
  <2> QED BY <1>4, <1>5, <2>1
<1>7. t \in Seq(S) /\ Len(t) = l
  BY <1>6
<1>8. t = s
  BY <1>1, <1>4, <1>7
<1> QED BY <1>8 DEF s, t

\* Neighbouring slices, end to end.
Sliced(P, rows, o, g, l, m) ==
  m = g * l /\ P = [i \in 1 .. g |-> Slice(rows, o + (i - 1) * l, l)]

\* Neighbouring slices, end to end, are one slice.
LEMMA SlicesJoin ==
  ASSUME NEW S, NEW rows \in Seq(S), NEW o \in Nat, NEW g \in Nat, NEW l \in Nat,
         NEW m \in Nat, o + m <= Len(rows),
         NEW P, Sliced(P, rows, o, g, l, m), NEW f, f = FlattenSeq(P)
  PROVE  f = Slice(rows, o, m)
<1> DEFINE s == Slice(rows, o, m)
<1>0. m = g * l /\ DOMAIN P = 1 .. g /\ \A i \in 1 .. g : P[i] = Slice(rows, o + (i - 1) * l, l)
  BY DEF Sliced
<1>1. m \in Nat /\ rows \in Seq(S) /\ o \in Nat /\ o + m <= Len(rows)
  OBVIOUS
<1>2. s \in Seq(S) /\ Len(s) = m /\ \A x \in 1 .. m : s[x] = rows[o + x]
  BY ONLY <1>1, SliceIs
<1>3. ASSUME NEW i \in 1 .. g
      PROVE  /\ P[i] \in Seq(S) /\ Len(P[i]) = l
             /\ \A x \in 1 .. l : P[i][x] = rows[o + ((i - 1) * l + x)]
  <2> DEFINE e == (i - 1) * l
             u == o + e
  <2>1. e \in Nat /\ e + l <= m
    <3>1. i - 1 \in Nat /\ i \in Nat /\ i <= g
      OBVIOUS
    <3>2. e \in Nat /\ e + l = i * l
      BY <3>1
    <3>3. i * l <= g * l
      BY <3>1
    <3> QED BY <1>0, <3>2, <3>3
  <2>2. o + m <= Len(rows)
    BY <1>0
  <2>3. P[i] = Slice(rows, u, l)
    BY <1>0
  <2> HIDE DEF e
  <2>4. u \in Nat /\ u + l <= Len(rows)
    BY <1>1, <2>1, <2>2, InSeq
  <2> HIDE DEF u
  <2>5. /\ Slice(rows, u, l) \in Seq(S) /\ Len(Slice(rows, u, l)) = l
        /\ \A x \in 1 .. l : Slice(rows, u, l)[x] = rows[u + x]
    <3>1. rows \in Seq(S) /\ l \in Nat
      OBVIOUS
    <3>2. /\ Slice(rows, u, l) \in Seq(S) /\ Len(Slice(rows, u, l)) = l
          /\ DOMAIN Slice(rows, u, l) = 1 .. l
          /\ \A x \in 1 .. l : /\ Slice(rows, u, l)[x] = rows[u + x]
                              /\ u + x \in DOMAIN rows
      BY ONLY <2>4, <3>1, SliceIs, ZenonT(60)
    <3> QED BY ONLY <3>2, ZenonT(60)
  <2>6. \A x \in 1 .. l : u + x = o + (e + x)
    BY <2>1 DEF u
  <2>7. \A x \in 1 .. l : P[i][x] = rows[o + (e + x)]
    BY <2>3, <2>5, <2>6
  <2> QED BY <2>3, <2>5, <2>7 DEF e
<1>4. P \in [1 .. g -> Seq(S)]
  <2>1. P = [i \in 1 .. g |-> P[i]]
    BY <1>0 DEF Sliced
  <2> QED BY <1>0, <1>3, <2>1
<1>5. f \in Seq(S) /\ Len(f) = m /\ EndToEnd(f, P, g, l)
  <2>1. f = FlattenSeq(P) /\ g \in Nat /\ l \in Nat /\ \A i \in 1 .. g : Len(P[i]) = l
    BY <1>3
  <2>2. f \in Seq(S) /\ Len(f) = g * l /\ EndToEnd(f, P, g, l)
    BY ONLY <1>4, <2>1, FlattenEven
  <2> QED BY <1>0, <2>2
<1> HIDE DEF s
<1>6. ASSUME NEW z \in 1 .. m PROVE f[z] = s[z]
  <2>1. InPiece(z, g, l)
    BY <1>0, PlaceIn
  <2>2. PICK i \in 1 .. g : \E x \in 1 .. l : z = (i - 1) * l + x
    BY <2>1 DEF InPiece
  <2>3. PICK x \in 1 .. l : z = (i - 1) * l + x
    BY <2>2
  <2>4. f[z] = P[i][x]
    BY <1>5, <2>3 DEF EndToEnd
  <2>5. P[i][x] = rows[o + z]
    BY <1>3, <2>3
  <2> QED BY <1>2, <2>4, <2>5
<1>7. f = s
  BY <1>1, <1>2, <1>5, <1>6
<1> QED BY <1>7 DEF s

\* pad_dataproto_to_divisor: n rows fill d equal parts, and begin in order.
LEMMA PaddedIs ==
  ASSUME NEW n \in Nat \ {0}, NEW d \in Nat \ {0}
  PROVE  /\ PaddedTo(n, d) \in Seq(1 .. n) /\ Len(PaddedTo(n, d)) = d * Pieces(n, d)
         /\ Pieces(n, d) \in Nat \ {0} /\ n <= d * Pieces(n, d)
         /\ SubSeq(PaddedTo(n, d), 1, n) = Run(0, n)
<1> DEFINE l == Pieces(n, d)
           m == d * l
           p == PaddedTo(n, d)
           T == 1 .. n
<1>1. l \in Nat \ {0} /\ ~ (l * d < n) /\ l * d \in Nat
  <2>1. l \in Nat \ {0} /\ \A j \in Nat : (j < l <=> j * d < n) /\ j * d \in Nat
    BY EdgesAre
  <2> HIDE DEF l
  <2> QED BY <2>1
<1>2. p = [k \in 1 .. m |-> 1 + ((k - 1) % n)]
  BY DEF PaddedTo, Pieces
<1> HIDE DEF l
<1>3. m \in Nat /\ n <= m
  <2>1. d * l = l * d
    BY <1>1
  <2> QED BY <1>1, <2>1
<1> HIDE DEF m
<1>4. \A k \in 1 .. m : 1 + ((k - 1) % n) \in T
  <2> SUFFICES ASSUME NEW k \in 1 .. m PROVE 1 + ((k - 1) % n) \in T
    OBVIOUS
  <2>1. k - 1 \in Nat
    OBVIOUS
  <2>2. (k - 1) % n \in 0 .. n - 1
    BY <2>1
  <2> QED BY <2>2
<1>5. p \in [1 .. m -> T]
  BY <1>2, <1>4
<1> HIDE DEF p, T
<1>6. p \in Seq(T) /\ Len(p) = m
  BY <1>3, <1>5
<1>7. SubSeq(p, 1, n) = Slice(p, 0, n)
  <2> DEFINE o == 0
             a == 1
             z == n
  <2>1. o \in Nat /\ n \in Nat /\ o + n <= Len(p) /\ a = o + 1 /\ z = o + n
    BY <1>3, <1>6
  <2> HIDE DEF o, a, z
  <2>2. SubSeq(p, a, z) = Slice(p, o, n)
    BY ONLY <1>6, <2>1, SliceOfSeq, ZenonT(60)
  <2> QED BY <2>2 DEF o, a, z
<1>8. Slice(p, 0, n) = Run(0, n)
  <2> SUFFICES ASSUME NEW k \in 1 .. n PROVE p[0 + k] = 0 + k
    BY DEF Slice, Run
  <2>1. k \in 1 .. m /\ 0 + k = k /\ k - 1 \in 0 .. n - 1
    BY <1>3
  <2>2. p[k] = 1 + ((k - 1) % n)
    BY <1>2, <2>1
  <2>3. (k - 1) % n = k - 1
    BY <2>1
  <2> QED BY <2>1, <2>2, <2>3
<1> QED BY <1>1, <1>3, <1>6, <1>7, <1>8 DEF p, T, m, l

\* A call as the ranks find it.
Job == [ranks |-> World, group |-> shape[2], op |-> call.op, dynamic |-> call.dynamic,
        mean |-> call.mean, tokens |-> call.tokens, lens |-> length, rows |-> sent]

\* Rows for each rank, and for each group of ranks.
Share(t) == Len(t.rows) \div t.ranks
Pooled(t) == t.group * Share(t)
Portion(t) == IF t.op = "update" THEN MiniBatch ELSE Pooled(t)

\* The rows that the group of rank r has gathered, and their lengths.
Pool(t, r) == Slice(t.rows, (t.group * (r \div t.group)) * Share(t), Pooled(t))
PoolLens(t, r) == [p \in 1 .. Pooled(t) |-> t.lens[Pool(t, r)[p]]]

Shaped(t) ==
  /\ t.ranks \in Nat \ {0} /\ t.group \in Nat \ {0} /\ (t.ranks % t.group) = 0
  /\ t.dynamic \in BOOLEAN

\* What the driver deals out.
Dealt(t) ==
  /\ Shaped(t)
  /\ t.op \in {"generate", "log_prob", "update"}
  /\ Len(t.lens) \in Nat \ {0} /\ t.lens \in Lens(Len(t.lens))
  /\ t.rows \in Seq(1 .. Len(t.lens)) /\ Len(t.lens) <= Len(t.rows)
  /\ Share(t) \in Nat \ {0} /\ Len(t.rows) = t.ranks * Share(t)
  /\ t.op = "generate" =>
       ~ t.dynamic /\ SubSeq(t.rows, 1, Len(t.lens)) = Run(0, Len(t.lens))
  /\ t.op # "generate" =>
       /\ Permutes(t.rows, Len(t.lens)) /\ (Share(t) % MicroBatch) = 0
       /\ t.tokens \in Lens(Len(t.lens))
  /\ t.dynamic => MaxTokens \in Nat \ {0}

Waiting(t, r) ==
  [Idle EXCEPT !.pc = "gather", !.rows = Slice(t.rows, r * Share(t), Share(t))]

\* An engine answers all it has.
Generates(q, c) ==
  /\ q.pc \in {"split", "answer", "idle"} /\ q.plan = <<>>
  /\ q.pc # "split" => q.seen = Run(0, c)

\* Every row weighs the same, unless the loss is a mean over tokens.
Weighed(q, mean) ==
  mean # "tokens" => \A x \in DOMAIN q.weights : q.weights[x][1] * MiniBatch = q.weights[x][2]

\* A rank that takes part in a call.
Takes(q, r, t) ==
  /\ q \in RankTypes
  /\ q.pc = "gather" => q = Waiting(t, r)
  /\ q.pc # "gather" =>
       /\ q.rows = Pool(t, r)
       /\ IF t.op = "generate" THEN Generates(q, Pooled(t))
          ELSE /\ Works(q, Portion(t), Pooled(t), t.dynamic, PoolLens(t, r))
               /\ Weighed(q, t.mean)

\* Mini-batches that a rank has planned.
Level(q) == q.mini + (IF q.pc \in {"compute", "forward"} THEN 1 ELSE 0)

Calls == [op : {"none", "generate", "log_prob", "update"}, dynamic : BOOLEAN,
          mean : {"none", "tokens", "rows"}, tokens : Seq(Nat)]

AtWork ==
  /\ Dealt(Job)
  /\ \A r \in AllRanks : Takes(rank[r], r, Job)
  /\ call.dynamic => \A r, s \in AllRanks : Level(rank[r]) = Level(rank[s])
  /\ result # <<>> => \A r \in AllRanks : rank[r].pc = "idle"

DispatchInd ==
  /\ shape \in Shapes /\ call \in Calls
  /\ rank = [r \in AllRanks |-> rank[r]]
  /\ call.op = "none" => result = <<>> /\ \A r \in AllRanks : rank[r] = Idle
  /\ call.op # "none" => AtWork
  /\ AnswersInOrder /\ RanksBalance

\* RankTypes 0 .. w - 1, in groups of g.
Grouped(r, w, g) ==
  /\ r \div g \in 0 .. (w \div g) - 1 /\ r % g \in 0 .. g - 1
  /\ r = g * (r \div g) + (r % g)
  /\ g * (r \div g) \in Nat /\ g * (r \div g) + g <= w
  /\ w \div g \in Nat /\ w = g * (w \div g)

\* Rank r is in the group r div g, as number r mod g.
LEMMA GroupsFit ==
  ASSUME NEW w \in Nat \ {0}, NEW g \in Nat \ {0}, (w % g) = 0, NEW r \in 0 .. w - 1
  PROVE  Grouped(r, w, g)
<1> DEFINE q == r \div g
           m == w \div g
           s == r % g
<1>1. m \in Nat /\ w = g * m
  BY Multiple
<1>2. q \in Int /\ s \in 0 .. g - 1 /\ r = g * q + s
  OBVIOUS
<1> HIDE DEF q, m, s
<1>3. q < m
  <2>1. q >= m => g * q >= g * m
    BY <1>1, <1>2
  <2>2. g * q \in Int /\ g * m \in Int
    BY <1>1, <1>2
  <2> QED BY <1>1, <1>2, <2>1, <2>2
<1>4. q >= 0
  <2>1. q <= -1 => g * q <= g * (-1)
    BY <1>2
  <2>2. g * (-1) = -g
    OBVIOUS
  <2>3. g * q \in Int
    BY <1>2
  <2> QED BY <1>2, <2>1, <2>2, <2>3
<1>5. g * q + g <= w /\ g * q \in Nat
  <2>1. q + 1 <= m /\ q \in Nat
    BY <1>1, <1>2, <1>3, <1>4
  <2>2. g * (q + 1) <= g * m
    BY <1>1, <2>1
  <2>3. g * (q + 1) = g * q + g
    BY <2>1
  <2>4. g * q \in Nat
    BY <2>1
  <2> QED BY <1>1, <2>2, <2>3, <2>4
<1>6. q \in 0 .. m - 1
  BY <1>1, <1>2, <1>3, <1>4
<1> QED BY <1>1, <1>2, <1>5, <1>6 DEF q, m, s, Grouped

\* Where the rows of a group's rank begin, among all and in the group.
LiesIn(r, w, g, l) ==
  /\ r * l \in Nat /\ r * l + l <= w * l
  /\ (g * (r \div g)) * l \in Nat /\ g * l \in Nat
  /\ (g * (r \div g)) * l + g * l <= w * l
  /\ (r % g) * l \in Nat /\ (r % g) * l + l <= g * l
  /\ r * l = (g * (r \div g)) * l + (r % g) * l

\* A rank keeps within all rows, and within those of its group.
LEMMA LiesThere ==
  ASSUME NEW w \in Nat \ {0}, NEW g \in Nat \ {0}, (w % g) = 0, NEW r \in 0 .. w - 1,
         NEW l \in Nat
  PROVE  LiesIn(r, w, g, l)
<1> DEFINE u == g * (r \div g)
           s == r % g
<1>1. u \in Nat /\ s \in 0 .. g - 1 /\ r = u + s /\ u + g <= w
  <2>1. Grouped(r, w, g)
    BY GroupsFit
  <2> QED BY ONLY <2>1 DEF Grouped
<1> HIDE DEF u, s
<1>2. r * l \in Nat /\ u * l \in Nat /\ s * l \in Nat /\ g * l \in Nat /\ w * l \in Nat
  BY <1>1
<1>3. (r + 1) * l <= w * l /\ (r + 1) * l = r * l + l
  OBVIOUS
<1>4. (u + g) * l <= w * l /\ (u + g) * l = u * l + g * l
  BY <1>1
<1>5. (s + 1) * l <= g * l /\ (s + 1) * l = s * l + l
  BY <1>1
<1>6. (u + s) * l = u * l + s * l
  BY <1>1
<1>7. r * l = u * l + s * l
  BY <1>1, <1>6
<1>8. /\ r * l \in Nat /\ r * l + l <= w * l
      /\ u * l \in Nat /\ g * l \in Nat /\ u * l + g * l <= w * l
      /\ s * l \in Nat /\ s * l + l <= g * l
  BY ONLY <1>2, <1>3, <1>4, <1>5
<1> QED BY ONLY <1>7, <1>8 DEF u, s, LiesIn

\* The same, with every part of it stated.
LEMMA Placed ==
  ASSUME NEW w \in Nat \ {0}, NEW g \in Nat \ {0}, (w % g) = 0, NEW r \in 0 .. w - 1,
         NEW l \in Nat
  PROVE  /\ r * l \in Nat /\ r * l + l <= w * l
         /\ (g * (r \div g)) * l \in Nat /\ g * l \in Nat
         /\ (g * (r \div g)) * l + g * l <= w * l
         /\ (r % g) * l \in Nat /\ (r % g) * l + l <= g * l
         /\ r * l = (g * (r \div g)) * l + (r % g) * l
<1>1. LiesIn(r, w, g, l)
  BY LiesThere
<1> QED BY ONLY <1>1 DEF LiesIn

\* A group has gathered rows of the batch, and knows their lengths.
LEMMA PoolIs ==
  ASSUME NEW t, Dealt(t), NEW r \in 0 .. t.ranks - 1
  PROVE  /\ Pooled(t) \in Nat \ {0} /\ Len(t.lens) \in Nat \ {0}
         /\ Pool(t, r) \in Seq(1 .. Len(t.lens)) /\ Len(Pool(t, r)) = Pooled(t)
         /\ DOMAIN Pool(t, r) = 1 .. Pooled(t)
         /\ \A x \in 1 .. Pooled(t) :
              Pool(t, r)[x] = t.rows[(t.group * (r \div t.group)) * Share(t) + x]
         /\ PoolLens(t, r) \in Lens(Pooled(t))
<1> DEFINE w == t.ranks
           g == t.group
           l == Share(t)
           n == Len(t.lens)
           rows == t.rows
           o == (g * (r \div g)) * l
           c == g * l
           S == 1 .. n
<1>1. w \in Nat \ {0} /\ g \in Nat \ {0} /\ (w % g) = 0 /\ l \in Nat \ {0} /\ n \in Nat \ {0}
      /\ rows \in Seq(S) /\ Len(rows) = w * l
  BY DEF Dealt, Shaped
<1>2. Pooled(t) = c /\ Pool(t, r) = Slice(rows, o, c)
  BY DEF Pooled, Pool
<1>3. t.lens \in [S -> Nat \ {0}]
  BY DEF Dealt, Lens
<1> HIDE DEF w, l, n, rows, g, S
<1>4. r \in 0 .. w - 1
  BY DEF w
<1>5. o \in Nat /\ c \in Nat /\ o + c <= w * l
  BY <1>1, <1>4, Placed, ZenonT(60)
<1>6. c # 0
  <2>1. g >= 1 /\ l >= 1
    BY <1>1
  <2>2. g * l >= 1 * l
    BY <1>1, <2>1
  <2> QED BY <1>1, <1>5, <2>1, <2>2
<1> HIDE DEF o, c
<1>7. o + c <= Len(rows)
  BY <1>1, <1>5
<1>8. /\ Slice(rows, o, c) \in Seq(S) /\ Len(Slice(rows, o, c)) = c
      /\ DOMAIN Slice(rows, o, c) = 1 .. c
      /\ \A x \in 1 .. c : Slice(rows, o, c)[x] = rows[o + x]
  BY ONLY <1>1, <1>5, <1>7, SliceIs
<1>9. PoolLens(t, r) \in [1 .. c -> Nat \ {0}]
  <2>1. PoolLens(t, r) = [p \in 1 .. c |-> t.lens[Pool(t, r)[p]]]
    BY <1>2 DEF PoolLens
  <2>2. \A p \in 1 .. c : Pool(t, r)[p] \in S
    <3> DEFINE p == Pool(t, r)
    <3>1. p \in Seq(S) /\ DOMAIN p = 1 .. c
      BY <1>2, <1>8
    <3> HIDE DEF p
    <3>2. \A x \in 1 .. c : p[x] \in S
      BY <3>1, InSeq
    <3> QED BY <3>2 DEF p
  <2>3. \A p \in 1 .. c : t.lens[Pool(t, r)[p]] \in Nat \ {0}
    BY <1>3, <2>2
  <2> QED BY <2>1, <2>3
<1>10. PoolLens(t, r) \in Lens(c)
  BY <1>9 DEF Lens
<1> QED BY <1>1, <1>2, <1>5, <1>6, <1>8, <1>10 DEF S, n, rows, o, g, l

\* What a rank can be counted on for.
LEMMA SizedIs ==
  ASSUME DispatchAssumption, NEW t, Dealt(t), t.op # "generate"
  PROVE  Sized(Portion(t), Pooled(t))
<1> DEFINE g == t.group
           l == Share(t)
           c == g * l
           m == MicroBatch
<1>1. m \in Nat \ {0} /\ MiniBatch \in Nat \ {0} /\ (MiniBatch % m) = 0
  BY DEF DispatchAssumption
<1>2. g \in Nat \ {0} /\ l \in Nat \ {0} /\ (l % m) = 0
  BY DEF Dealt, Shaped
<1>3. 0 \in 0 .. t.ranks - 1
  BY DEF Dealt, Shaped
<1>4. Pooled(t) = c /\ c \in Nat \ {0}
  BY <1>3, PoolIs DEF Pooled
<1>5. (c % m) = 0
  <2> DEFINE k == l \div m
             j == g * k
  <2> HIDE DEF l, g, m
  <2>1. k \in Nat /\ l = m * k
    BY <1>1, <1>2, Multiple
  <2> HIDE DEF k
  <2>2. j \in Nat /\ c = m * j
    <3>1. g * (m * k) = m * (g * k)
      BY <1>1, <1>2, <2>1
    <3> QED BY <1>2, <2>1, <3>1
  <2> HIDE DEF j, c
  <2>3. (c % m) = 0
    BY <1>1, <2>2, NoRest
  <2> QED BY <2>3
<1>6. Portion(t) \in Nat \ {0} /\ (Portion(t) % m) = 0
  BY <1>1, <1>4, <1>5 DEF Portion
<1> QED BY <1>1, <1>4, <1>5, <1>6 DEF Sized

\* The rows that a rank starts with.
LEMMA WaitingIs ==
  ASSUME NEW t, Dealt(t), NEW r \in 0 .. t.ranks - 1
  PROVE  /\ Waiting(t, r) \in RankTypes /\ Waiting(t, r).pc = "gather" /\ Waiting(t, r).mini = 0
         /\ Waiting(t, r).rows = Slice(t.rows, r * Share(t), Share(t))
         /\ Waiting(t, r).weights = <<>>
<1> DEFINE w == t.ranks
           g == t.group
           l == Share(t)
           n == Len(t.lens)
           rows == t.rows
           o == r * l
           S == 1 .. n
<1>1. w \in Nat \ {0} /\ g \in Nat \ {0} /\ (w % g) = 0 /\ l \in Nat \ {0} /\ n \in Nat \ {0}
      /\ rows \in Seq(S) /\ Len(rows) = w * l
  BY DEF Dealt, Shaped
<1>2. S \subseteq Nat
  OBVIOUS
<1> HIDE DEF w, l, n, rows, g, S
<1>3. r \in 0 .. w - 1
  BY DEF w
<1>4. o \in Nat /\ o + l <= w * l
  BY <1>1, <1>3, Placed
<1> HIDE DEF o
<1>5. o + l <= Len(rows) /\ l \in Nat
  BY <1>1, <1>4
<1>6. Slice(rows, o, l) \in Seq(S)
  BY ONLY <1>1, <1>4, <1>5, SliceIs
<1>7. Slice(rows, o, l) \in Seq(Nat)
  BY <1>2, <1>6, SeqWithin
<1> DEFINE p == Slice(rows, o, l)
<1>8. Waiting(t, r) = [pc |-> "gather", rows |-> p, mini |-> 0, lens |-> <<>>,
                       plan |-> <<>>, done |-> 0, seen |-> <<>>, weights |-> <<>>]
  <2>1. Waiting(t, r) = [Idle EXCEPT !.pc = "gather", !.rows = p]
    BY ONLY DEF Waiting, rows, o, l, p
  <2> HIDE DEF p
  <2> QED BY <2>1 DEF Idle
<1>8a. p \in Seq(Nat)
  BY <1>7
<1> HIDE DEF p
<1>9. <<>> \in Seq(Nat) /\ <<>> \in Seq(Seq(Nat)) /\ <<>> \in Seq(Int \X Int)
  OBVIOUS
<1>10. Waiting(t, r) \in RankTypes
  <2>1. "gather" \in Stages /\ 0 \in Nat
    BY DEF Stages
  <2> QED BY <1>8, <1>8a, <1>9, <2>1 DEF RankTypes
<1>11. /\ Waiting(t, r).pc = "gather" /\ Waiting(t, r).mini = 0
       /\ Waiting(t, r).rows = p /\ Waiting(t, r).weights = <<>>
  BY <1>8
<1> QED BY <1>10, <1>11 DEF rows, o, l, p

\* The ranks of a group put their rows together.
LEMMA PoolsAre ==
  ASSUME NEW t, Dealt(t), NEW r \in 0 .. t.ranks - 1,
         NEW P, P = [i \in 1 .. t.group |->
           Slice(t.rows, (t.group * (r \div t.group) + i - 1) * Share(t), Share(t))]
  PROVE  FlattenSeq(P) = Pool(t, r)
<1> DEFINE w == t.ranks
           g == t.group
           l == Share(t)
           n == Len(t.lens)
           rows == t.rows
           u == g * (r \div g)
           o == u * l
           S == 1 .. n
<1>1. w \in Nat \ {0} /\ g \in Nat \ {0} /\ (w % g) = 0 /\ l \in Nat \ {0}
      /\ rows \in Seq(S) /\ Len(rows) = w * l
  BY DEF Dealt, Shaped
<1>2. Pool(t, r) = Slice(rows, o, g * l)
  BY DEF Pooled, Pool
<1>3. P = [i \in 1 .. g |-> Slice(rows, (u + i - 1) * l, l)]
  OBVIOUS
<1>4. u \in Nat /\ o \in Nat /\ g * l \in Nat /\ o + g * l <= w * l
  <2> HIDE DEF w, g, l
  <2>1. r \in 0 .. w - 1
    BY DEF w
  <2>2. Grouped(r, w, g)
    BY <1>1, <2>1, GroupsFit
  <2>3. o \in Nat /\ g * l \in Nat /\ o + g * l <= w * l
    BY <1>1, <2>1, Placed, ZenonT(60)
  <2> QED BY <2>2, <2>3 DEF Grouped
<1> HIDE DEF w, g, l, n, rows, u, S
<1>5. ASSUME NEW i \in 1 .. g PROVE (u + i - 1) * l = o + (i - 1) * l
  <2>1. i - 1 \in Nat /\ u + i - 1 = u + (i - 1)
    BY <1>1, <1>4
  <2>2. (u + (i - 1)) * l = u * l + (i - 1) * l
    BY <1>1, <1>4, <2>1
  <2> QED BY <2>1, <2>2
<1> HIDE DEF o
<1> DEFINE m == g * l
<1>6. Sliced(P, rows, o, g, l, m)
  BY <1>3, <1>5 DEF Sliced
<1>7. g \in Nat /\ l \in Nat /\ m \in Nat /\ o + m <= Len(rows)
  BY <1>1, <1>4
<1> HIDE DEF m
<1> DEFINE f == FlattenSeq(P)
<1>8. f = Slice(rows, o, m)
  <2>1. rows \in Seq(S) /\ o \in Nat
    BY <1>1, <1>4
  <2>2. f = FlattenSeq(P)
    OBVIOUS
  <2> HIDE DEF f
  <2> QED BY ONLY <1>6, <1>7, <2>1, <2>2, SlicesJoin
<1> QED BY <1>2, <1>8 DEF m, f

\* Having gathered, a rank begins with its first mini-batch.
LEMMA BeginsIs ==
  ASSUME DispatchAssumption, NEW t, Dealt(t), NEW r \in 0 .. t.ranks - 1,
         NEW p, p = [Waiting(t, r) EXCEPT !.pc = "split", !.rows = Pool(t, r)]
  PROVE  Takes(p, r, t) /\ Level(p) = 0 /\ p.pc = "split"
<1> DEFINE c == Pooled(t)
           b == Portion(t)
           rows == Pool(t, r)
           w == PoolLens(t, r)
<1>1. c \in Nat \ {0} /\ rows \in Seq(1 .. Len(t.lens)) /\ Len(t.lens) \in Nat
  BY PoolIs
<1>2. rows \in Seq(Nat)
  <2>1. 1 .. Len(t.lens) \subseteq Nat
    OBVIOUS
  <2> QED BY <1>1, <2>1, SeqWithin
<1> HIDE DEF c, b, rows, w
<1>3. p = [pc |-> "split", rows |-> rows, mini |-> 0, lens |-> <<>>,
           plan |-> <<>>, done |-> 0, seen |-> <<>>, weights |-> <<>>]
  BY DEF Waiting, Idle, rows
<1>4. p \in RankTypes
  <2>1. <<>> \in Seq(Nat) /\ <<>> \in Seq(Seq(Nat)) /\ <<>> \in Seq(Int \X Int)
    OBVIOUS
  <2>2. "split" \in Stages /\ 0 \in Nat
    BY DEF Stages
  <2> QED BY ONLY <1>2, <1>3, <2>1, <2>2 DEF RankTypes
<1>5. /\ p.pc = "split" /\ p.rows = rows /\ p.mini = 0 /\ p.plan = <<>> /\ p.done = 0
      /\ p.seen = <<>> /\ p.weights = <<>>
  BY ONLY <1>3
<1>6. Weighed(p, t.mean)
  BY <1>5 DEF Weighed
<1>7. t.op = "generate" => Generates(p, c)
  BY <1>5 DEF Generates
<1>8. ASSUME t.op # "generate" PROVE Works(p, b, c, t.dynamic, w)
  <2>1. Sized(b, c)
    BY <1>8, SizedIs DEF b, c
  <2>2. Pieces(c, b) \in Nat \ {0} /\ Edge(0, b, c) = 0
    BY <2>1, EdgesAre DEF Sized
  <2>3. Start(p, b, c) = 0
    BY <1>5, <2>2 DEF Start
  <2>4. TakesRows(p, b, c)
    <3>1. 0 + 0 * MicroBatch = 0
      BY <2>1 DEF Sized
    <3>2. Run(0, 0) = <<>>
      BY DEF Run
    <3> QED BY <1>5, <2>3, <3>1, <3>2 DEF TakesRows
  <2>5. TakesTokens(p, b, c, w)
    <3>1. \A z \in 1 .. c : ~ Gone(p, z, b, c)
      <4>1. ~ \E i : i \in 1 .. 0
        OBVIOUS
      <4> QED BY <1>5, <2>3, <4>1 DEF Gone
    <3>2. <<>> \in Seq(1 .. c) /\ DOMAIN <<>> = {}
      OBVIOUS
    <3> QED BY <1>5, <3>1, <3>2 DEF TakesTokens
  <2>6. p.done <= Len(p.plan) /\ p.mini < Pieces(c, b)
    BY <1>5, <2>2
  <2> QED BY <1>5, <2>4, <2>5, <2>6 DEF Works, Stages
<1>9. Takes(p, r, t)
  BY <1>4, <1>5, <1>6, <1>7, <1>8 DEF Takes, rows, b, c, w
<1> QED BY <1>5, <1>9 DEF Level

\* A rank that is not idle has a job, which nobody has answered.
Busy ==
  /\ DispatchInd /\ AtWork /\ call.op # "none" /\ result = <<>>
  /\ Dealt(Job) /\ Job.ranks = World /\ Job.group = shape[2] /\ Job.op = call.op
  /\ Job.dynamic = call.dynamic /\ Job.lens = length /\ Job.rows = sent
  /\ Job.mean = call.mean /\ Job.tokens = call.tokens
  /\ AllRanks = 0 .. Job.ranks - 1
  /\ \A s \in AllRanks : Takes(rank[s], s, Job) /\ rank[s] \in RankTypes

\* A rank with something to do is in a call.
LEMMA BusyIs ==
  ASSUME DispatchInd, NEW r \in AllRanks, rank[r].pc # "idle"
  PROVE  Busy
<1>1. call.op # "none"
  <2>1. Idle.pc = "idle"
    BY DEF Idle
  <2> QED BY <2>1 DEF DispatchInd
<1>2. AtWork /\ result = <<>>
  BY <1>1 DEF DispatchInd, AtWork
<1>3. Dealt(Job) /\ \A s \in AllRanks : Takes(rank[s], s, Job)
  BY <1>2 DEF AtWork
<1>4. \A s \in AllRanks : rank[s] \in RankTypes
  BY <1>3 DEF Takes
<1>5. /\ Job.ranks = World /\ Job.group = shape[2] /\ Job.op = call.op
      /\ Job.dynamic = call.dynamic /\ Job.lens = length /\ Job.rows = sent
      /\ Job.mean = call.mean /\ Job.tokens = call.tokens
  BY DEF Job
<1>6. AllRanks = 0 .. Job.ranks - 1
  BY <1>5 DEF AllRanks
<1> QED BY <1>1, <1>2, <1>3, <1>4, <1>5, <1>6 DEF Busy

\* What is left to show of a rank's step.
LEMMA StepIs ==
  ASSUME Busy, UNCHANGED <<shape, call, length, sent, result>>,
         rank' = [s \in AllRanks |-> rank'[s]],
         \A s \in AllRanks : Takes(rank'[s], s, Job),
         call.dynamic => \A r, s \in AllRanks : Level(rank'[r]) = Level(rank'[s])
  PROVE  DispatchInd'
<1>1. Job' = Job /\ AllRanks' = AllRanks
  BY DEF Job, AllRanks, World
<1>2. AtWork'
  <2>1. Dealt(Job)' /\ \A s \in AllRanks : Takes(rank'[s], s, Job')
    BY <1>1 DEF Busy
  <2>2. \A s \in AllRanks' : Takes(rank[s], s, Job)'
    BY <1>1, <2>1
  <2>3. (result # <<>>)' = FALSE
    BY DEF Busy
  <2> QED BY <1>1, <2>1, <2>2, <2>3 DEF AtWork
<1>3. AnswersInOrder'
  BY DEF AnswersInOrder, Busy
<1>4. RanksBalance'
  <2>1. RanksBalance
    BY DEF Busy, DispatchInd
  <2> QED BY <1>1, <2>1 DEF RanksBalance, Shard, World
<1> QED BY <1>1, <1>2, <1>3, <1>4 DEF DispatchInd, Busy

\* The mini-batches of a rank.
LEMMA MinisAre ==
  ASSUME DispatchAssumption, Busy, NEW r \in AllRanks, rank[r].pc # "gather",
         call.op # "generate", NEW c, c = Pooled(Job), NEW b, b = Portion(Job)
  PROVE  /\ Sized(b, c) /\ Len(Minis(r)) = Pieces(c, b)
         /\ rank[r].mini < Pieces(c, b) => Current(r) = Batch(rank[r], b, c)
<1>1. Sized(b, c)
  BY SizedIs DEF Busy
<1>2. rank[r].rows = Pool(Job, r) /\ r \in 0 .. Job.ranks - 1 /\ rank[r] \in RankTypes
  BY DEF Busy, Takes
<1>3. Len(rank[r].rows) = c /\ c \in Nat \ {0} /\ b \in Nat \ {0}
  BY <1>1, <1>2, PoolIs DEF Busy, Sized
<1>4. Upto(c) = Run(0, c)
  BY <1>3, UptoIs
<1> DEFINE m == Minis(r)
           M == Pieces(c, b)
<1>5. M \in Nat \ {0} /\ Edge(0, b, c) = 0 /\ Edge(M, b, c) = c
      /\ \A j \in Nat : Edge(j, b, c) \in 0 .. c /\ (j < M <=> j * b < c)
  BY ONLY <1>3, EdgesAre
<1>6. /\ Len(m) = M
      /\ \A j \in 1 .. M : m[j] = Run(0 + Edge(j - 1, b, c), Edge(j, b, c) - Edge(j - 1, b, c))
  <2>1. CASE call.op = "update"
    <3>1. b = MiniBatch
      BY <2>1 DEF Portion, Busy
    <3>2. m = Split(Run(0, c), b)
      BY <1>3, <1>4, <2>1, <3>1 DEF Minis
    <3>3. Cuts(m, 0, c, b)
      BY <1>3, <3>2, SplitIs
    <3> QED BY <3>3 DEF Cuts
  <2>2. CASE call.op # "update"
    <3>1. b = c
      BY <2>2 DEF Portion, Busy
    <3>2. m = <<Run(0, c)>>
      BY <1>3, <1>4, <2>2 DEF Minis
    <3>3. M = 1
      <4>1. 1 * b = c /\ 0 * b = 0
        BY <1>3, <3>1
      <4>2. Edge(1, b, c) \in 0 .. c /\ (1 < M <=> 1 * b < c)
        BY ONLY <1>5
      <4>3. ~ (1 < M)
        <5> DEFINE e == 1 * b
        <5>1. e = c /\ (1 < M <=> e < c)
          BY <4>1, <4>2
        <5> HIDE DEF e, M
        <5> QED BY ONLY <1>3, <5>1
      <4> QED BY <1>5, <4>3
    <3>4. 0 + Edge(1 - 1, b, c) = 0 /\ Edge(1, b, c) - Edge(1 - 1, b, c) = c
      <4>1. Edge(0, b, c) = 0 /\ Edge(1, b, c) = c /\ 1 - 1 = 0
        BY <1>5, <3>3
      <4>2. 0 + 0 = 0 /\ c - 0 = c
        BY ONLY <1>3
      <4> QED BY ONLY <4>1, <4>2
    <3>5. m[1] = Run(0 + Edge(1 - 1, b, c), Edge(1, b, c) - Edge(1 - 1, b, c)) /\ Len(m) = 1
      BY <3>2, <3>4
    <3> HIDE DEF m, M
    <3>6. \A j \in 1 .. M : j = 1
      BY <3>3
    <3> QED BY <3>3, <3>5, <3>6
  <2> QED BY <2>1, <2>2
<1> HIDE DEF m, M
<1>7. ASSUME rank[r].mini < M PROVE Current(r) = Batch(rank[r], b, c)
  <2> DEFINE j == rank[r].mini + 1
  <2>1. rank[r].mini \in Nat
    BY <1>2 DEF RankTypes
  <2>2. j \in 1 .. M /\ j - 1 = rank[r].mini
    BY ONLY <1>5, <1>7, <2>1
  <2> DEFINE k == rank[r].mini
             e == Edge(k, b, c)
  <2> HIDE DEF k
  <2>3. e \in 0 .. c
    BY ONLY <1>5, <2>1 DEF k
  <2>4. 0 + Edge(j - 1, b, c) = Edge(rank[r].mini, b, c)
    <3> HIDE DEF e
    <3>1. 0 + e = e
      BY <1>3, <2>3
    <3> QED BY <2>2, <3>1 DEF e, k
  <2>5. Current(r) = m[j]
    BY DEF Current, m
  <2> HIDE DEF j
  <2>6. m[j] = Run(Edge(rank[r].mini, b, c), Edge(j, b, c) - Edge(rank[r].mini, b, c))
    BY <1>6, <2>2, <2>4
  <2> QED BY <2>5, <2>6 DEF Batch, Start, Stop, j
<1> QED BY <1>1, <1>6, <1>7 DEF m, M

-----------------------------------------------------------------------------
(* Its steps: those of a rank, the collectives, and those of the driver.     *)

\* What is left to show of a step of one rank.
LEMMA OneSteps ==
  ASSUME Busy, NEW r \in AllRanks, NEW p, UNCHANGED <<shape, call, length, sent, result>>,
         rank' = [rank EXCEPT ![r] = p],
         Takes(p, r, Job), call.dynamic => Level(p) = Level(rank[r])
  PROVE  DispatchInd'
<1>1. DOMAIN rank = AllRanks /\ rank = [s \in AllRanks |-> rank[s]]
  BY DEF Busy, DispatchInd
<1>2. /\ rank' = [s \in AllRanks |-> rank'[s]]
      /\ \A s \in AllRanks : rank'[s] = IF s = r THEN p ELSE rank[s]
  BY <1>1
<1>3. \A s \in AllRanks : Takes(rank'[s], s, Job)
  BY <1>2 DEF Busy
<1>4. call.dynamic => \A q, s \in AllRanks : Level(rank[q]) = Level(rank[s])
  BY DEF Busy, AtWork
<1>5. call.dynamic => \A q, s \in AllRanks : Level(rank'[q]) = Level(rank'[s])
  <2>1. \A s \in AllRanks : call.dynamic => Level(rank'[s]) = Level(rank[s])
    BY <1>2
  <2> QED BY <1>4, <2>1
<1> QED BY <1>2, <1>3, <1>5, StepIs

\* A rank that has its rows.
LEMMA AtIt ==
  ASSUME DispatchAssumption, Busy, NEW r \in AllRanks, rank[r].pc # "gather",
         call.op # "generate"
  PROVE  /\ rank[r] \in RankTypes /\ rank[r].rows = Pool(Job, r) /\ Weighed(rank[r], call.mean)
         /\ Works(rank[r], Portion(Job), Pooled(Job), call.dynamic, PoolLens(Job, r))
         /\ Sized(Portion(Job), Pooled(Job)) /\ call.dynamic \in BOOLEAN
         /\ PoolLens(Job, r) \in Lens(Pooled(Job))
<1>1. Takes(rank[r], r, Job) /\ Dealt(Job) /\ r \in 0 .. Job.ranks - 1
  BY DEF Busy
<1>2. Sized(Portion(Job), Pooled(Job))
  BY <1>1, SizedIs DEF Busy
<1>3. call.dynamic \in BOOLEAN
  BY DEF Busy, Dealt, Shaped
<1>4. PoolLens(Job, r) \in Lens(Pooled(Job))
  BY <1>1, PoolIs
<1> QED BY <1>1, <1>2, <1>3, <1>4 DEF Takes, Busy

\* The same rank after a step that leaves its rows.
LEMMA StillTakes ==
  ASSUME Busy, NEW r \in AllRanks, call.op # "generate",
         NEW p \in RankTypes, p.pc # "gather", p.rows = Pool(Job, r), Weighed(p, call.mean),
         Works(p, Portion(Job), Pooled(Job), call.dynamic, PoolLens(Job, r))
  PROVE  Takes(p, r, Job)
BY DEF Takes, Busy

\* PlanByRows keeps the invariant.
LEMMA StepPlanByRows ==
  ASSUME DispatchAssumption, DispatchInd, NEW r \in AllRanks, PlanByRows(r)
  PROVE  DispatchInd'
<1> DEFINE q == rank[r]
           c == Pooled(Job)
           b == Portion(Job)
           w == PoolLens(Job, r)
           s == Split(Current(r), MicroBatch)
           p == [q EXCEPT !.pc = "compute", !.done = 0, !.plan = s]
<1>1. q.pc = "split" /\ call.op # "generate" /\ call.dynamic = FALSE
  BY DEF PlanByRows, DispatchInd, Calls
<1>2. Busy
  BY <1>1, BusyIs
<1>3. q \in RankTypes /\ q.rows = Pool(Job, r) /\ Weighed(q, call.mean) /\ Sized(b, c)
      /\ Works(q, b, c, FALSE, w)
  BY <1>1, <1>2, AtIt
<1>4. q.mini < Pieces(c, b)
  BY <1>1, <1>3 DEF Works
<1>5. Current(r) = Batch(q, b, c)
  BY <1>1, <1>2, <1>4, MinisAre
<1>6. rank' = [rank EXCEPT ![r] = p] /\ UNCHANGED <<shape, call, length, sent, result>>
  BY DEF PlanByRows
<1> HIDE DEF q, b, c, w, s
<1>7. s = Split(Batch(q, b, c), MicroBatch) /\ s \in Seq(Seq(Nat))
  <2> DEFINE o == Start(q, b, c)
             d == Stop(q, b, c) - Start(q, b, c)
  <2>1. o \in Nat /\ d \in Nat \ {0}
    BY <1>3, <1>4, BatchIs
  <2>2. MicroBatch \in Nat \ {0}
    BY <1>3 DEF Sized
  <2>3. s = Split(Run(o, d), MicroBatch)
    BY <1>5 DEF s, Batch
  <2> HIDE DEF o, d
  <2>4. Cuts(Split(Run(o, d), MicroBatch), o, d, MicroBatch)
    BY <2>1, <2>2, SplitIs
  <2>5. s \in Seq(Seq(Nat))
    BY <2>3, <2>4 DEF Cuts
  <2> QED BY <1>5, <2>5 DEF s
<1>8. /\ p \in RankTypes /\ p.pc = "compute" /\ p.mini = q.mini /\ p.done = 0 /\ p.plan = s
      /\ p.seen = q.seen /\ p.rows = q.rows /\ p.weights = q.weights
  BY <1>3, <1>7 DEF RankTypes, Stages
<1> HIDE DEF p
<1>9. Works(p, b, c, FALSE, w)
  BY <1>1, <1>3, <1>7, <1>8, PlansRows
<1>10. Weighed(p, call.mean)
  BY <1>3, <1>8 DEF Weighed
<1>11. Takes(p, r, Job)
  BY <1>1, <1>2, <1>3, <1>8, <1>9, <1>10, StillTakes DEF b, c, w
<1> QED BY <1>1, <1>2, <1>6, <1>11, OneSteps

\* Measure keeps the invariant.
LEMMA StepMeasure ==
  ASSUME DispatchAssumption, DispatchInd, NEW r \in AllRanks, Measure(r)
  PROVE  DispatchInd'
<1> DEFINE q == rank[r]
           c == Pooled(Job)
           b == Portion(Job)
           w == PoolLens(Job, r)
           s == LengthsAt(r, Current(r))
           p == [q EXCEPT !.pc = "reduce", !.lens = s]
<1>1. q.pc = "split" /\ call.dynamic = TRUE
  BY DEF Measure, DispatchInd, Calls
<1>2. Busy /\ call.op # "generate"
  <2>1. Busy
    BY <1>1, BusyIs
  <2> QED BY <1>1, <2>1 DEF Busy, Dealt
<1>3. q \in RankTypes /\ q.rows = Pool(Job, r) /\ Weighed(q, call.mean) /\ Sized(b, c)
      /\ Works(q, b, c, TRUE, w) /\ w \in Lens(c)
  BY <1>1, <1>2, AtIt
<1>4. q.mini < Pieces(c, b)
  BY <1>1, <1>3 DEF Works
<1>5. Current(r) = Batch(q, b, c)
  BY <1>1, <1>2, <1>4, MinisAre
<1>6. rank' = [rank EXCEPT ![r] = p] /\ UNCHANGED <<shape, call, length, sent, result>>
  BY DEF Measure
<1> DEFINE o == Start(q, b, c)
           d == Stop(q, b, c) - Start(q, b, c)
<1>7. o \in Nat /\ d \in Nat \ {0} /\ o + d <= c /\ c \in Nat
  <2> HIDE DEF q, b, c
  <2>1. /\ Start(q, b, c) \in Nat /\ Stop(q, b, c) \in Nat /\ Stop(q, b, c) <= c
        /\ Stop(q, b, c) - Start(q, b, c) \in Nat \ {0}
    BY <1>3, <1>4, BatchIs
  <2> QED BY <1>3, <2>1 DEF Sized
<1>8. s = [k \in 1 .. d |-> w[o + k]] /\ s \in Seq(Nat)
  <2>1. Current(r) = [k \in 1 .. d |-> o + k]
    BY <1>5 DEF Batch, Run
  <2>2. s = [k \in 1 .. d |-> length[Pool(Job, r)[o + k]]]
    BY <1>3, <2>1 DEF LengthsAt
  <2>3. w = [z \in 1 .. c |-> length[Pool(Job, r)[z]]]
    BY <1>2 DEF PoolLens, Busy
  <2> HIDE DEF s, o, d, c, w
  <2>4. \A k \in 1 .. d : o + k \in 1 .. c
    BY <1>7
  <2>5. s = [k \in 1 .. d |-> w[o + k]]
    BY <2>2, <2>3, <2>4
  <2>6. \A k \in 1 .. d : w[o + k] \in Nat
    BY <1>3, <2>4 DEF Lens
  <2>7. s \in [1 .. d -> Nat]
    BY <2>5, <2>6
  <2>8. s \in Seq(Nat)
    BY <1>7, <2>7
  <2> QED BY ONLY <2>5, <2>8
<1> HIDE DEF q, b, c, w, s
<1>9. /\ p \in RankTypes /\ p.pc = "reduce" /\ p.mini = q.mini /\ p.done = q.done
      /\ p.plan = q.plan /\ p.lens = s
      /\ p.seen = q.seen /\ p.rows = q.rows /\ p.weights = q.weights
  BY <1>3, <1>8 DEF RankTypes, Stages
<1> HIDE DEF p
<1>10. Works(p, b, c, TRUE, w)
  BY <1>1, <1>3, <1>8, <1>9, MeasuresOn
<1>11. Weighed(p, call.mean)
  BY <1>3, <1>9 DEF Weighed
<1>12. Takes(p, r, Job)
  BY <1>1, <1>2, <1>3, <1>9, <1>10, <1>11, StillTakes DEF b, c, w
<1>13. Level(p) = Level(rank[r])
  BY <1>1, <1>9 DEF Level, q
<1> QED BY <1>2, <1>6, <1>12, <1>13, OneSteps

\* Only a rank that computes is ever here.
LEMMA Computes ==
  ASSUME Busy, NEW r \in AllRanks, rank[r].pc \in {"compute", "forward", "reduce"}
  PROVE  call.op # "generate"
<1>1. Takes(rank[r], r, Job)
  BY DEF Busy
<1> QED BY <1>1 DEF Takes, Generates, Busy

\* Compute keeps the invariant.
LEMMA StepCompute ==
  ASSUME DispatchAssumption, DispatchInd, NEW r \in AllRanks, Compute(r)
  PROVE  DispatchInd'
<1> DEFINE q == rank[r]
           c == Pooled(Job)
           b == Portion(Job)
           w == PoolLens(Job, r)
           p == [q EXCEPT !.pc = "forward"]
<1>1. q.pc = "compute" /\ q.done < Len(q.plan)
  BY DEF Compute
<1>2. Busy /\ call.op # "generate"
  <2>1. Busy
    BY <1>1, BusyIs
  <2> QED BY <1>1, <2>1, Computes
<1>3. q \in RankTypes /\ q.rows = Pool(Job, r) /\ Weighed(q, call.mean) /\ Sized(b, c)
      /\ Works(q, b, c, call.dynamic, w) /\ call.dynamic \in BOOLEAN
  BY <1>1, <1>2, AtIt
<1>4. rank' = [rank EXCEPT ![r] = p] /\ UNCHANGED <<shape, call, length, sent, result>>
  BY DEF Compute
<1> HIDE DEF q, b, c, w
<1>5. /\ p \in RankTypes /\ p.pc = "forward" /\ p.mini = q.mini /\ p.done = q.done
      /\ p.plan = q.plan /\ p.lens = q.lens
      /\ p.seen = q.seen /\ p.rows = q.rows /\ p.weights = q.weights
  BY <1>3 DEF RankTypes, Stages
<1> HIDE DEF p
<1>6. Works(p, b, c, call.dynamic, w)
  BY <1>1, <1>3, <1>5, StepsOn
<1>7. Weighed(p, call.mean)
  BY <1>3, <1>5 DEF Weighed
<1>8. Takes(p, r, Job)
  BY <1>2, <1>3, <1>5, <1>6, <1>7, StillTakes DEF b, c, w
<1>9. Level(p) = Level(rank[r])
  BY <1>1, <1>5 DEF Level, q
<1> QED BY <1>2, <1>4, <1>8, <1>9, OneSteps

\* EndMini keeps the invariant.
LEMMA StepEndMini ==
  ASSUME DispatchAssumption, DispatchInd, NEW r \in AllRanks, EndMini(r)
  PROVE  DispatchInd'
<1> DEFINE q == rank[r]
           c == Pooled(Job)
           b == Portion(Job)
           w == PoolLens(Job, r)
           n == IF rank[r].mini + 1 < Len(Minis(r)) THEN "split" ELSE "answer"
           p == [q EXCEPT !.mini = q.mini + 1, !.plan = <<>>, !.done = 0, !.pc = n]
<1>1. q.pc = "compute" /\ q.done = Len(q.plan)
  BY DEF EndMini
<1>2. Busy /\ call.op # "generate"
  <2>1. Busy
    BY <1>1, BusyIs
  <2> QED BY <1>1, <2>1, Computes
<1>3. q \in RankTypes /\ q.rows = Pool(Job, r) /\ Weighed(q, call.mean) /\ Sized(b, c)
      /\ Works(q, b, c, call.dynamic, w) /\ call.dynamic \in BOOLEAN
  BY <1>1, <1>2, AtIt
<1>4. rank' = [rank EXCEPT ![r] = p] /\ UNCHANGED <<shape, call, length, sent, result>>
  BY DEF EndMini
<1>5. Len(Minis(r)) = Pieces(c, b)
  BY <1>1, <1>2, MinisAre
<1>6. n = IF q.mini + 1 < Pieces(c, b) THEN "split" ELSE "answer"
  BY <1>5
<1> HIDE DEF q, b, c, w, n
<1>7. /\ p \in RankTypes /\ p.pc = n /\ p.mini = q.mini + 1 /\ p.done = 0
      /\ p.plan = <<>> /\ p.lens = q.lens
      /\ p.seen = q.seen /\ p.rows = q.rows /\ p.weights = q.weights
  <2>1. n \in Stages /\ <<>> \in Seq(Seq(Nat)) /\ 0 \in Nat
    BY <1>6 DEF Stages
  <2>2. q.mini + 1 \in Nat
    BY <1>3 DEF RankTypes
  <2> QED BY <1>3, <2>1, <2>2 DEF RankTypes
<1> HIDE DEF p
<1>8. Works(p, b, c, call.dynamic, w)
  BY <1>1, <1>3, <1>6, <1>7, MiniEnds
<1>9. Weighed(p, call.mean)
  BY <1>3, <1>7 DEF Weighed
<1>10. Takes(p, r, Job)
  BY <1>2, <1>3, <1>6, <1>7, <1>8, <1>9, StillTakes DEF b, c, w
<1>11. Level(p) = Level(rank[r])
  <2>1. Level(p) = (q.mini + 1) + 0 /\ Level(q) = q.mini + 1
    BY <1>1, <1>6, <1>7 DEF Level
  <2>2. q.mini \in Nat
    BY <1>3 DEF RankTypes
  <2> QED BY <2>1, <2>2 DEF q
<1> QED BY <1>2, <1>4, <1>10, <1>11, OneSteps

\* Engine keeps the invariant.
LEMMA StepEngine ==
  ASSUME DispatchAssumption, DispatchInd, NEW r \in AllRanks, Engine(r)
  PROVE  DispatchInd'
<1> DEFINE P(s) == [rank[s] EXCEPT !.pc = "answer", !.seen = Upto(Len(rank[s].rows))]
<1>1. /\ call.op = "generate" /\ \A s \in Group(r) : rank[s].pc = "split"
      /\ r \in Group(r) /\ Group(r) \subseteq AllRanks
      /\ UNCHANGED <<shape, call, length, sent, result>>
  BY DEF Engine, Group
<1>2. Busy
  BY <1>1, BusyIs
<1>3. /\ rank' = [s \in AllRanks |-> rank'[s]]
      /\ \A s \in AllRanks : rank'[s] = IF s \in Group(r) THEN P(s) ELSE rank[s]
  BY DEF Engine
<1>4. ASSUME NEW s \in Group(r) PROVE Takes(P(s), s, Job)
  <2> DEFINE q == rank[s]
             c == Pooled(Job)
             u == Upto(Len(q.rows))
             p == [q EXCEPT !.pc = "answer", !.seen = u]
  <2>1. q \in RankTypes /\ q.pc = "split" /\ q.rows = Pool(Job, s) /\ Generates(q, c)
    BY <1>1, <1>2 DEF Busy, Takes
  <2>2. Len(q.rows) = c /\ c \in Nat
    BY <1>1, <1>2, <2>1, PoolIs DEF Busy
  <2>3. u = Run(0, c) /\ u \in Seq(Nat)
    BY <2>2, UptoIs, RunIs
  <2> HIDE DEF q, c, u
  <2>4. /\ p \in RankTypes /\ p.pc = "answer" /\ p.plan = q.plan /\ p.seen = u /\ p.rows = q.rows
    BY <2>1, <2>3 DEF RankTypes, Stages
  <2>5. P(s) = p
    BY DEF q, u
  <2> HIDE DEF p
  <2>6. Generates(p, c)
    BY <2>1, <2>3, <2>4 DEF Generates
  <2>7. Takes(p, s, Job)
    BY <1>1, <1>2, <2>1, <2>4, <2>6 DEF Takes, Busy, c
  <2> HIDE DEF P
  <2> QED BY <2>5, <2>7
<1> HIDE DEF P
<1>5. \A s \in AllRanks : Takes(rank'[s], s, Job)
  BY <1>2, <1>3, <1>4 DEF Busy
<1>6. ~ call.dynamic
  BY <1>1, <1>2 DEF Busy, Dealt
<1> QED BY <1>1, <1>2, <1>3, <1>5, <1>6, StepIs

\* GatherRows keeps the invariant.
LEMMA StepGather ==
  ASSUME DispatchAssumption, DispatchInd, NEW r \in AllRanks, GatherRows(r)
  PROVE  DispatchInd'
<1> DEFINE g == shape[2]
           R == [k \in 1 .. g |-> rank[g * (r \div g) + k - 1].rows]
           rows == FlattenSeq(R)
           P(s) == [rank[s] EXCEPT !.pc = "split", !.rows = rows]
<1>1. /\ \A s \in Group(r) : rank[s].pc = "gather"
      /\ r \in Group(r) /\ Group(r) \subseteq AllRanks
      /\ UNCHANGED <<shape, call, length, sent, result>>
  BY DEF GatherRows, Group
<1>2. Busy
  BY <1>1, BusyIs
<1>3. /\ rank' = [s \in AllRanks |-> rank'[s]]
      /\ \A s \in AllRanks : rank'[s] = IF s \in Group(r) THEN P(s) ELSE rank[s]
  BY DEF GatherRows
<1>4. \A s \in Group(r) : rank[s] = Waiting(Job, s)
  BY <1>1, <1>2 DEF Busy, Takes
<1>5. /\ World \in Nat \ {0} /\ g \in Nat \ {0} /\ (World % g) = 0 /\ r \in 0 .. World - 1
      /\ Dealt(Job) /\ r \in 0 .. Job.ranks - 1 /\ Job.group = g /\ Job.rows = sent
  BY <1>2 DEF Busy, Dealt, Shaped
<1>6. ASSUME NEW i \in 1 .. g
      PROVE  g * (r \div g) + i - 1 \in Group(r)
  <2> DEFINE h == r \div g
             z == g * h + i - 1
  <2>1. Grouped(r, World, g)
    BY <1>5, GroupsFit
  <2>2. h \in Nat /\ g * h \in Nat /\ g * h + g <= World
    BY <2>1 DEF Grouped
  <2>3. z \in 0 .. World - 1
    <3> DEFINE e == g * h
    <3>1. e \in Nat /\ e + g <= World
      BY <2>2
    <3> HIDE DEF e, h
    <3> QED BY <1>5, <3>1 DEF e
  <2>4. z \div g = h
    <3> HIDE DEF g, h
    <3>1. z = g * h + (i - 1) /\ i - 1 \in 0 .. g - 1
      BY <1>5, <2>2
    <3> QED BY <1>5, <2>2, <3>1
  <2> QED BY <2>3, <2>4 DEF Group, AllRanks
<1>7. R = [k \in 1 .. g |-> Slice(Job.rows, (Job.group * (r \div Job.group) + k - 1) * Share(Job), Share(Job))]
  <2>1. \A s \in Group(r) : rank[s].rows = Slice(Job.rows, s * Share(Job), Share(Job))
    <3> SUFFICES ASSUME NEW s \in Group(r)
                 PROVE  rank[s].rows = Slice(Job.rows, s * Share(Job), Share(Job))
      OBVIOUS
    <3>1. s \in 0 .. Job.ranks - 1
      BY <1>1, <1>2 DEF Busy
    <3>2. Waiting(Job, s).rows = Slice(Job.rows, s * Share(Job), Share(Job))
      BY <1>5, <3>1, WaitingIs
    <3> QED BY <1>4, <3>2
  <2> QED BY <1>5, <1>6, <2>1
<1>8. rows = Pool(Job, r)
  <2> HIDE DEF R
  <2> QED BY <1>5, <1>7, PoolsAre
<1>9. ASSUME NEW s \in Group(r) PROVE Takes(P(s), s, Job) /\ Level(P(s)) = 0
  <2>1. Pool(Job, s) = Pool(Job, r)
    BY <1>5 DEF Group, Pool
  <2> HIDE DEF rows
  <2>2. P(s) = [Waiting(Job, s) EXCEPT !.pc = "split", !.rows = Pool(Job, s)]
    BY <1>4, <1>8, <2>1
  <2>3. s \in 0 .. Job.ranks - 1
    BY <1>1, <1>2 DEF Busy
  <2> HIDE DEF P
  <2> QED BY <1>5, <2>2, <2>3, BeginsIs, ZenonT(60)
<1> HIDE DEF P
<1>10. \A s \in AllRanks : Takes(rank'[s], s, Job)
  BY <1>2, <1>3, <1>9 DEF Busy
<1>11. \A s \in AllRanks : call.dynamic => Level(rank'[s]) = 0
  <2>1. \A s \in Group(r) : Level(rank[s]) = 0
    <3> SUFFICES ASSUME NEW s \in Group(r) PROVE Level(rank[s]) = 0
      OBVIOUS
    <3>1. s \in 0 .. Job.ranks - 1
      BY <1>1, <1>2 DEF Busy
    <3>2. Waiting(Job, s).pc = "gather" /\ Waiting(Job, s).mini = 0
      BY <1>5, <3>1, WaitingIs
    <3> QED BY <1>4, <3>2 DEF Level
  <2>2. call.dynamic => \A s \in AllRanks : Level(rank[s]) = 0
    BY <1>1, <1>2, <2>1 DEF Busy, AtWork
  <2> QED BY <1>3, <1>9, <2>2
<1> QED BY <1>1, <1>2, <1>3, <1>10, <1>11, StepIs

\* There is a rank.
LEMMA SomeRank ==
  ASSUME DispatchAssumption, DispatchInd
  PROVE  0 \in AllRanks
BY DEF DispatchAssumption, DispatchInd, AllRanks, World

\* The loss of a micro-batch is scaled to its rows' part of a mini-batch.
LEMMA ScaleIs ==
  ASSUME DispatchAssumption, NEW r, NEW micro \in Seq(Nat),
         call.dynamic \/ Len(micro) = MicroBatch
  PROVE  /\ Scale(r, micro)[1] \in Int /\ Scale(r, micro)[2] \in Int
         /\ Scale(r, micro)[1] * MiniBatch = Scale(r, micro)[2] * Len(micro)
<1> DEFINE n == Len(micro)
           B == MiniBatch
           m == MicroBatch
           a == Scale(r, micro)[1]
           y == Scale(r, micro)[2]
<1>1. n \in Nat /\ B \in Nat \ {0} /\ m \in Nat \ {0} /\ (B % m) = 0
  BY DEF DispatchAssumption
<1>2. CASE call.dynamic
  <2>1. a = n /\ y = B
    BY <1>2 DEF Scale
  <2> HIDE DEF n, B, a, y
  <2>2. a \in Int /\ y \in Int /\ a * B = y * n
    BY <1>1, <2>1
  <2> QED BY <2>2 DEF n, B, a, y
<1>3. CASE ~ call.dynamic
  <2>1. a = 1 /\ y = B \div m /\ n = m
    BY <1>3 DEF Scale
  <2> HIDE DEF n, B, m, a, y
  <2>2. B \div m \in Nat /\ B = m * (B \div m)
    BY <1>1, Multiple
  <2>3. y \in Nat /\ B = m * y
    BY <2>1, <2>2
  <2>4. a \in Int /\ y \in Int /\ a * B = y * n
    BY <1>1, <2>1, <2>3
  <2> QED BY <2>4 DEF n, B, a, y
<1> QED BY <1>2, <1>3

\* A sequence as a function.
LEMMA SeqIsFunction ==
  ASSUME NEW S, NEW c, NEW f \in Seq(S), DOMAIN f = 1 .. c
  PROVE  f \in [1 .. c -> S]
<1>1. f \in [1 .. Len(f) -> S]
  OBVIOUS
<1>2. DOMAIN f = 1 .. Len(f)
  BY InSeq
<1> QED BY <1>1, <1>2

\* What is a part of a mean: rows, or response tokens.
LEMMA PartsAre ==
  ASSUME NEW r, NEW c, NEW n, NEW micro \in Seq(1 .. c),
         rank[r].rows \in [1 .. c -> 1 .. n], call.tokens \in Lens(n)
  PROVE  \A k \in DOMAIN micro :
           /\ Parts(r, micro)[k] \in Int \X Int
           /\ call.mean # "tokens" => Parts(r, micro)[k] = <<1, Len(micro)>>
<1> DEFINE tokens == [k \in DOMAIN micro |-> call.tokens[rank[r].rows[micro[k]]]]
           z == Tokens(DOMAIN micro, tokens)
<1>1. \A k \in DOMAIN micro : tokens[k] \in Nat
  <2> SUFFICES ASSUME NEW k \in DOMAIN micro PROVE call.tokens[rank[r].rows[micro[k]]] \in Nat
    OBVIOUS
  <2>1. micro[k] \in 1 .. c
    <3> DEFINE S == 1 .. c
    <3>1. micro \in Seq(S)
      OBVIOUS
    <3> HIDE DEF S
    <3>2. micro[k] \in S
      BY <3>1, InSeq
    <3> QED BY <3>2 DEF S
  <2>2. rank[r].rows[micro[k]] \in 1 .. n
    BY <2>1
  <2> QED BY <2>2 DEF Lens
<1>2. Len(micro) \in Nat /\ DOMAIN micro = 1 .. Len(micro)
  OBVIOUS
<1>3. IsFiniteSet(DOMAIN micro)
  BY <1>2, FS_Interval
<1> HIDE DEF tokens
<1>4. z \in Nat
  BY <1>1, <1>3, SumNat DEF Tokens
<1>5. \A k \in DOMAIN micro :
        Parts(r, micro)[k] = IF call.mean = "tokens" THEN <<tokens[k], z>> ELSE <<1, Len(micro)>>
  BY DEF Parts, tokens
<1> HIDE DEF z
<1>6. ASSUME NEW k \in DOMAIN micro
      PROVE  /\ Parts(r, micro)[k] \in Int \X Int
             /\ call.mean # "tokens" => Parts(r, micro)[k] = <<1, Len(micro)>>
  <2> DEFINE x == tokens[k]
             l == Len(micro)
  <2>1. x \in Int /\ z \in Int /\ l \in Int
    BY <1>1, <1>2, <1>4
  <2>2. Parts(r, micro)[k] = IF call.mean = "tokens" THEN <<x, z>> ELSE <<1, l>>
    BY <1>5
  <2> HIDE DEF x, l
  <2> QED BY <2>1, <2>2 DEF l
<1> QED BY <1>6

\* The weights of a micro-batch's rows.
LEMMA WeightsAre ==
  ASSUME DispatchAssumption, NEW r, NEW c \in Nat, NEW n, NEW micro \in Seq(1 .. c),
         rank[r].rows \in [1 .. c -> 1 .. n], call.tokens \in Lens(n),
         call.dynamic \/ Len(micro) = MicroBatch
  PROVE  /\ Weights(r, micro) \in Seq(Int \X Int)
         /\ call.mean # "tokens" =>
              \A x \in DOMAIN Weights(r, micro) :
                Weights(r, micro)[x][1] * MiniBatch = Weights(r, micro)[x][2]
<1> DEFINE l == Len(micro)
           a == Scale(r, micro)[1]
           y == Scale(r, micro)[2]
           P(k) == Parts(r, micro)[k]
           v == Weights(r, micro)
<1>1. micro \in Seq(Nat)
  <2>1. 1 .. c \subseteq Nat
    OBVIOUS
  <2> QED BY <2>1, SeqWithin
<1>2. a \in Int /\ y \in Int /\ a * MiniBatch = y * l
  BY <1>1, ScaleIs
<1>3. l \in Nat /\ DOMAIN micro = 1 .. l
  BY <1>1, InSeq
<1>4. \A k \in 1 .. l : P(k) \in Int \X Int /\ (call.mean # "tokens" => P(k) = <<1, l>>)
  <2>0. micro \in Seq(1 .. c) /\ rank[r].rows \in [1 .. c -> 1 .. n] /\ call.tokens \in Lens(n)
    OBVIOUS
  <2>1. \A k \in DOMAIN micro :
          /\ Parts(r, micro)[k] \in Int \X Int
          /\ call.mean # "tokens" => Parts(r, micro)[k] = <<1, Len(micro)>>
    BY ONLY <2>0, PartsAre, Zenon
  <2> HIDE DEF l
  <2>2. \A k \in 1 .. l : Parts(r, micro)[k] \in Int \X Int
                         /\ (call.mean # "tokens" => Parts(r, micro)[k] = <<1, Len(micro)>>)
    BY <1>3, <2>1
  <2> QED BY <2>2 DEF l
<1>5. v = [k \in 1 .. l |-> <<a * P(k)[1], y * P(k)[2]>>]
  BY <1>3 DEF Weights
<1> HIDE DEF l, a, y, P, v
<1>6. ASSUME NEW k \in 1 .. l
      PROVE  /\ v[k] \in Int \X Int
             /\ call.mean # "tokens" => v[k] = <<a, y * l>>
  <2>1. P(k)[1] \in Int /\ P(k)[2] \in Int /\ v[k] = <<a * P(k)[1], y * P(k)[2]>>
    BY <1>4, <1>5
  <2>2. a * P(k)[1] \in Int /\ y * P(k)[2] \in Int
    BY <1>2, <2>1
  <2>3. call.mean # "tokens" => P(k)[1] = 1 /\ P(k)[2] = l
    BY <1>4
  <2>4. a * 1 = a
    BY <1>2
  <2> QED BY <2>1, <2>2, <2>3, <2>4
<1>7. v \in [1 .. l -> Int \X Int]
  BY <1>5, <1>6
<1>8. v \in Seq(Int \X Int) /\ DOMAIN v = 1 .. l
  BY <1>3, <1>7
<1>9. call.mean # "tokens" => \A x \in 1 .. l : v[x][1] = a /\ v[x][2] = y * l
  BY <1>6
<1> QED BY <1>2, <1>8, <1>9 DEF v

\* Of a mini-batch by number of rows, every micro-batch is full.
LEMMA MicrosAreFull ==
  ASSUME NEW b, NEW c, Sized(b, c), NEW w, NEW q \in RankTypes, Works(q, b, c, FALSE, w),
         q.pc \in {"compute", "forward"}, NEW i \in 1 .. Len(q.plan)
  PROVE  Len(q.plan[i]) = MicroBatch /\ q.plan[i] \in Seq(1 .. c)
<1> DEFINE o == Start(q, b, c) + (i - 1) * MicroBatch
<1>1. q.mini < Pieces(c, b) /\ q.plan = Split(Batch(q, b, c), MicroBatch)
  BY DEF Works, TakesRows
<1>2. q.plan[i] = Run(o, MicroBatch)
      /\ Len(q.plan) * MicroBatch = Stop(q, b, c) - Start(q, b, c)
  BY <1>1, NextRows
<1>3. /\ MicroBatch \in Nat /\ c \in Nat /\ Start(q, b, c) \in Nat /\ Stop(q, b, c) \in Nat
      /\ Stop(q, b, c) <= c
  BY <1>1, BatchIs DEF Sized
<1>4. o \in Nat /\ o + MicroBatch <= c
  <2> DEFINE m == MicroBatch
             l == Len(q.plan)
             e == Start(q, b, c)
             f == Stop(q, b, c)
  <2>1. l \in Nat /\ i \in 1 .. l /\ l * m = f - e
    BY <1>2 DEF RankTypes
  <2>2. m \in Nat /\ c \in Nat /\ e \in Nat /\ f \in Nat /\ f <= c /\ o = e + (i - 1) * m
    BY <1>3
  <2> HIDE DEF m, l, e, f, o
  <2>3. (i - 1) * m \in Nat /\ (i - 1) * m + m = i * m
    BY <2>1, <2>2
  <2>4. i * m <= l * m
    <3>1. i \in Nat /\ i <= l
      BY <2>1
    <3> QED BY <2>1, <2>2, <3>1
  <2>5. i * m \in Nat /\ l * m \in Nat
    BY <2>1, <2>2
  <2> QED BY <2>1, <2>2, <2>3, <2>4, <2>5 DEF m
<1> HIDE DEF o
<1>5. /\ Len(q.plan[i]) = MicroBatch /\ q.plan[i] \in Seq(Nat)
      /\ \A x \in 1 .. MicroBatch : q.plan[i][x] = o + x
  <2> DEFINE t == Run(o, MicroBatch)
  <2>1. t \in Seq(Nat) /\ Len(t) = MicroBatch /\ \A x \in 1 .. MicroBatch : t[x] = o + x
    BY <1>3, <1>4, RunIs
  <2> HIDE DEF t
  <2> QED BY <1>2, <2>1 DEF t
<1>6. \A x \in 1 .. MicroBatch : q.plan[i][x] \in 1 .. c
  <2> TAKE x \in 1 .. MicroBatch
  <2>1. x \in Nat /\ 1 <= x /\ x <= MicroBatch
    BY <1>3
  <2>2. o + x \in 1 .. c
    BY <1>3, <1>4, <2>1
  <2> QED BY <1>5, <2>2
<1>7. q.plan[i] \in Seq(1 .. c)
  <2> DEFINE t == q.plan[i]
             S == 1 .. c
  <2>1. t \in Seq(Nat) /\ \A x \in 1 .. Len(t) : t[x] \in S
    BY <1>5, <1>6
  <2> HIDE DEF t, S
  <2>2. DOMAIN t = 1 .. Len(t) /\ Len(t) \in Nat
    BY <2>1, InSeq
  <2>3. t = [x \in 1 .. Len(t) |-> t[x]]
    BY <2>1, <2>2
  <2>4. t \in [1 .. Len(t) -> S]
    BY <2>1, <2>3
  <2>5. t \in Seq(S)
    BY <2>2, <2>4
  <2> QED BY <2>5 DEF t, S
<1> QED BY <1>5, <1>7

\* One rank in a pass of all.
LEMMA RankPasses ==
  ASSUME DispatchAssumption, Busy, NEW r \in AllRanks, rank[r].pc = "forward",
         NEW next, next = rank[r].plan[rank[r].done + 1],
         NEW p, p = [rank[r] EXCEPT !.pc = "compute", !.done = rank[r].done + 1,
                                    !.seen = rank[r].seen \o next,
                                    !.weights = rank[r].weights \o Weights(r, next)]
  PROVE  Takes(p, r, Job) /\ Level(p) = Level(rank[r])
<1> DEFINE q == rank[r]
           c == Pooled(Job)
           b == Portion(Job)
           w == PoolLens(Job, r)
           s == q.seen \o next
           v == q.weights \o Weights(r, next)
<1>1. call.op # "generate"
  BY Computes
<1>2. q \in RankTypes /\ q.rows = Pool(Job, r) /\ Weighed(q, call.mean) /\ Sized(b, c)
      /\ Works(q, b, c, call.dynamic, w) /\ call.dynamic \in BOOLEAN
  BY <1>1, AtIt
<1>3. p = [q EXCEPT !.pc = "compute", !.done = q.done + 1, !.seen = s, !.weights = v]
  OBVIOUS
<1>3a. q.pc = "forward" /\ next = q.plan[q.done + 1]
  OBVIOUS
<1> HIDE DEF q, b, c, w
<1>4. q.done < Len(q.plan) /\ q.mini < Pieces(c, b) /\ q.done \in Nat /\ q.plan \in Seq(Seq(Nat))
      /\ q.seen \in Seq(Nat) /\ q.weights \in Seq(Int \X Int)
  BY <1>2, <1>3a DEF Works, RankTypes
<1>5. next \in Seq(Nat)
  <2> DEFINE l == q.plan
             j == q.done + 1
  <2>1. l \in Seq(Seq(Nat)) /\ j \in 1 .. Len(l) /\ next = l[j]
    BY <1>3a, <1>4
  <2> HIDE DEF l, j
  <2>2. j \in DOMAIN l
    BY <2>1
  <2> QED BY <2>1, <2>2, InSeq
<1>6. (call.dynamic \/ Len(next) = MicroBatch) /\ next \in Seq(1 .. c)
  <2> DEFINE j == q.done + 1
  <2>1. j \in 1 .. Len(q.plan)
    BY <1>4, SMTT(60)
  <2>2. CASE ~ call.dynamic
    <3>1. Works(q, b, c, FALSE, w)
      BY <1>2, <2>2
    <3> HIDE DEF j
    <3>2. Len(q.plan[j]) = MicroBatch /\ q.plan[j] \in Seq(1 .. c)
      BY <1>2, <1>3a, <2>1, <3>1, MicrosAreFull
    <3> QED BY <1>3a, <3>2 DEF j
  <2>3. CASE call.dynamic
    <3>1. q.plan \in Seq(Seq(1 .. c))
      BY <1>2, <1>3a, <2>3 DEF Works, TakesTokens, Covers
    <3> DEFINE l == q.plan
               S == Seq(1 .. c)
    <3>2. l \in Seq(S) /\ j \in DOMAIN l
      BY <2>1, <3>1
    <3> HIDE DEF l, j, S
    <3>3. l[j] \in S
      BY <3>2, InSeq
    <3> QED BY <1>3a, <2>3, <3>3 DEF l, j, S
  <2> QED BY <2>2, <2>3
<1> DEFINE u == Weights(r, next)
<1>7. u \in Seq(Int \X Int)
      /\ (call.mean # "tokens" => \A x \in DOMAIN u : u[x][1] * MiniBatch = u[x][2])
  <2>1. Dealt(Job) /\ Job.op = call.op /\ Job.tokens = call.tokens /\ r \in 0 .. Job.ranks - 1
    BY DEF Busy, Job
  <2> DEFINE n == Len(Job.lens)
  <2>2. call.tokens \in Lens(n)
    BY <1>1, <2>1 DEF Dealt
  <2>3. rank[r].rows = Pool(Job, r)
    BY <1>2 DEF q
  <2>4. c \in Nat /\ rank[r].rows \in [1 .. c -> 1 .. n]
    <3>1. Pool(Job, r) \in Seq(1 .. n) /\ DOMAIN Pool(Job, r) = 1 .. c /\ c \in Nat
      BY <2>1, PoolIs DEF c
    <3> DEFINE T == 1 .. n
               f == Pool(Job, r)
    <3>2. f \in Seq(T) /\ DOMAIN f = 1 .. c
      BY <3>1
    <3> HIDE DEF T, f, c
    <3>3. f \in [1 .. c -> T]
      BY <3>2, SeqIsFunction
    <3> QED BY <2>3, <3>1, <3>3 DEF T, f
  <2> HIDE DEF n
  <2> QED BY <1>6, <2>2, <2>4, WeightsAre
<1>7a. v = q.weights \o u
  OBVIOUS
<1> HIDE DEF u
<1>8. s \in Seq(Nat) /\ v \in Seq(Int \X Int)
  <2>1. s \in Seq(Nat)
    BY <1>4, <1>5
  <2>2. v \in Seq(Int \X Int)
    <3> DEFINE S == Int \X Int
               a == q.weights
    <3>1. a \in Seq(S) /\ u \in Seq(S) /\ v = a \o u
      BY <1>4, <1>7, <1>7a
    <3> HIDE DEF S, a, v
    <3>2. v \in Seq(S)
      BY <3>1
    <3> QED BY <3>2 DEF S
  <2> QED BY <2>1, <2>2
<1>9. call.mean # "tokens" => \A x \in DOMAIN v : v[x][1] * MiniBatch = v[x][2]
  <2> SUFFICES ASSUME call.mean # "tokens" PROVE \A x \in DOMAIN v : v[x][1] * MiniBatch = v[x][2]
    OBVIOUS
  <2> DEFINE a == q.weights
             n == Len(a)
  <2>1. \A x \in DOMAIN a : a[x][1] * MiniBatch = a[x][2]
    BY <1>2 DEF Weighed
  <2>2. a \in Seq(Int \X Int) /\ v = a \o u
    BY <1>4, <1>7a
  <2> HIDE DEF a, v
  <2>3. \A x \in DOMAIN v : \/ x \in DOMAIN a /\ v[x] = a[x]
                            \/ x - n \in DOMAIN u /\ v[x] = u[x - n]
    BY <1>7, <2>2, JoinedRows
  <2> QED BY <1>7, <2>1, <2>3
<1> HIDE DEF s, v
<1>10. /\ p \in RankTypes /\ p.pc = "compute" /\ p.mini = q.mini /\ p.done = q.done + 1
       /\ p.plan = q.plan /\ p.lens = q.lens
       /\ p.seen = s /\ p.rows = q.rows /\ p.weights = v
  <2> DEFINE d == q.done + 1
  <2>1. d \in Nat /\ "compute" \in Stages /\ q \in RankTypes
    BY <1>2, <1>4 DEF Stages
  <2>2. p = [q EXCEPT !.pc = "compute", !.done = d, !.seen = s, !.weights = v]
    BY ONLY <1>3
  <2> HIDE DEF d
  <2>3. /\ p \in RankTypes /\ p.pc = "compute" /\ p.mini = q.mini /\ p.done = d
        /\ p.plan = q.plan /\ p.lens = q.lens
        /\ p.seen = s /\ p.rows = q.rows /\ p.weights = v
    BY ONLY <1>8, <2>1, <2>2 DEF RankTypes
  <2> QED BY <2>3 DEF d
<1>11. Works(p, b, c, call.dynamic, w)
  <2>1. p.seen = q.seen \o q.plan[q.done + 1]
    BY <1>3a, <1>10 DEF s
  <2> QED BY ONLY <1>2, <1>3a, <1>10, <2>1, PassIs
<1>12. Weighed(p, call.mean)
  BY <1>9, <1>10 DEF Weighed
<1>13. Takes(p, r, Job)
  BY <1>1, <1>2, <1>10, <1>11, <1>12, StillTakes DEF b, c, w
<1>14. Level(p) = Level(rank[r])
  BY <1>3a, <1>10 DEF Level, q
<1> QED BY <1>13, <1>14

\* Forward keeps the invariant.
LEMMA StepForward ==
  ASSUME DispatchAssumption, DispatchInd, Forward
  PROVE  DispatchInd'
<1> DEFINE next(r) == rank[r].plan[rank[r].done + 1]
           P(r) == [rank[r] EXCEPT !.pc = "compute", !.done = rank[r].done + 1,
                                   !.seen = rank[r].seen \o next(r),
                                   !.weights = rank[r].weights \o Weights(r, next(r))]
<1>1. /\ \A r \in AllRanks : rank[r].pc = "forward"
      /\ UNCHANGED <<shape, call, length, sent, result>>
  BY DEF Forward
<1>2. Busy
  BY <1>1, SomeRank, BusyIs
<1>3. /\ rank' = [s \in AllRanks |-> rank'[s]] /\ \A s \in AllRanks : rank'[s] = P(s)
  BY DEF Forward
<1>4. ASSUME NEW s \in AllRanks PROVE Takes(P(s), s, Job) /\ Level(P(s)) = Level(rank[s])
  BY <1>1, <1>2, RankPasses
<1> HIDE DEF P
<1>5. \A s \in AllRanks : Takes(rank'[s], s, Job)
  BY <1>3, <1>4
<1>6. call.dynamic => \A r, s \in AllRanks : Level(rank'[r]) = Level(rank'[s])
  BY <1>2, <1>3, <1>4 DEF Busy, AtWork
<1> QED BY <1>1, <1>2, <1>3, <1>5, <1>6, StepIs

\* The level of a rank in each of its stages.
LEMMA LevelIs ==
  ASSUME NEW q \in RankTypes
  PROVE  /\ q.mini \in Nat
         /\ q.pc \in {"compute", "forward"} => Level(q) = q.mini + 1
         /\ q.pc \notin {"compute", "forward"} => Level(q) = q.mini
<1>1. q.mini \in Nat
  BY DEF RankTypes
<1>2. q.mini + 0 = q.mini
  BY <1>1
<1> QED BY <1>1, <1>2 DEF Level

\* How many micro-batches a rank asks for: at least one, at most one per row.
LEMMA WantedIs ==
  ASSUME MaxTokens \in Nat \ {0}, NEW n \in Nat \ {0}, NEW len \in Lens(n)
  PROVE  Wanted(len) \in 1 .. n
<1> DEFINE D == 1 .. n
           t == SumFunctionOnSet(len, D)
           m == Pieces(t, MaxTokens)
<1>1. DOMAIN len = D /\ len \in [D -> Nat \ {0}] /\ 1 \in D
  BY DEF Lens
<1>2. Len(len) = n
  BY DEF Lens
<1>3. t \in Nat /\ len[1] <= t
  <2>1. IsFiniteSet(D)
    BY FS_Interval
  <2>2. \A x \in D : len[x] \in Nat
    BY <1>1
  <2> HIDE DEF D
  <2>3. SumFunctionOnSet(len, D) \in Nat /\ \A x \in D : len[x] <= SumFunctionOnSet(len, D)
    BY ONLY <2>1, <2>2, SumNat
  <2> QED BY <1>1, <2>3
<1>4. Wanted(len) = Min({n, m})
  BY <1>1, <1>2 DEF Wanted, Tokens, Pieces
<1> HIDE DEF t
<1>5. t \in Nat \ {0}
  <2>1. len[1] \in Nat \ {0}
    BY <1>1
  <2> QED BY <1>3, <2>1
<1>6. m \in Nat \ {0}
  BY <1>5, EdgesAre
<1> HIDE DEF m
<1>7. Min({n, m}) = IF n <= m THEN n ELSE m
  BY <1>6, MinOfTwo
<1> QED BY <1>4, <1>6, <1>7

\* A mini-batch in parts by tokens.
LEMMA PartsMove ==
  ASSUME NEW n \in Nat \ {0}, NEW k \in Nat \ {0}, NEW len \in Lens(n), NEW o \in Nat,
         NEW parts, parts = BalancedPartitions(len, k, FALSE),
         NEW s, s = [i \in DOMAIN parts |-> Moved(parts[i], o)]
  PROVE  s \in Seq(Seq(Nat))
<1> DEFINE d == Max(ToSet(len))
<1>1. d \in Nat /\ \A x \in 1 .. n : len[x] <= d
  BY LongestIs
<1>2. Near(n, len, d, FALSE)
  BY <1>1 DEF Near
<1> HIDE DEF d
<1>3. Shares(parts, n, k)
  <2>1. FALSE \in BOOLEAN /\ (FALSE => (n % k) = 0)
    OBVIOUS
  <2> QED BY <1>1, <1>2, <2>1, BalancedIs
<1>4. parts \in [1 .. k -> Seq(1 .. n)]
  BY <1>3 DEF Shares
<1>5. ASSUME NEW i \in 1 .. k PROVE Moved(parts[i], o) \in Seq(Nat)
  <2> DEFINE p == parts[i]
             l == Len(p)
  <2>1. p \in Seq(1 .. n)
    BY <1>4
  <2> HIDE DEF p
  <2>2. DOMAIN p = 1 .. l /\ l \in Nat /\ \A x \in 1 .. l : p[x] \in 1 .. n
    BY <2>1, InSeq
  <2>3. \A x \in 1 .. l : o + p[x] \in Nat
    BY <2>2
  <2>4. Moved(p, o) = [x \in 1 .. l |-> o + p[x]]
    BY <2>2 DEF Moved
  <2> HIDE DEF l
  <2>5. Moved(p, o) \in [1 .. l -> Nat]
    BY <2>3, <2>4
  <2>6. Moved(p, o) \in Seq(Nat)
    BY <2>2, <2>5
  <2> QED BY <2>6 DEF p
<1> DEFINE S == Seq(Nat)
<1>6. s \in [1 .. k -> S] /\ k \in Nat
  BY <1>4, <1>5
<1> HIDE DEF S
<1>7. s \in Seq(S)
  BY ONLY <1>6
<1> QED BY <1>7 DEF S

\* Where a rank that measures stands.
LEMMA MeasuredIs ==
  ASSUME DispatchAssumption, Busy, NEW r \in AllRanks, rank[r].pc = "reduce"
  PROVE  /\ call.op # "generate" /\ call.dynamic = TRUE
         /\ Works(rank[r], Portion(Job), Pooled(Job), TRUE, PoolLens(Job, r))
         /\ rank[r].mini < Pieces(Pooled(Job), Portion(Job))
         /\ Current(r) = Batch(rank[r], Portion(Job), Pooled(Job))
<1> DEFINE c == Pooled(Job)
           b == Portion(Job)
<1>1. call.op # "generate"
  BY Computes
<1>2. Works(rank[r], b, c, call.dynamic, PoolLens(Job, r)) /\ call.dynamic \in BOOLEAN
  BY <1>1, AtIt
<1>3. call.dynamic = TRUE /\ rank[r].mini < Pieces(c, b)
  BY <1>2 DEF Works
<1>4. Current(r) = Batch(rank[r], b, c)
  BY <1>1, <1>3, MinisAre
<1> QED BY <1>1, <1>2, <1>3, <1>4

\* All ranks measure equally many rows.
LEMMA LensAre ==
  ASSUME DispatchAssumption, Busy, AllMeasured, NEW r \in AllRanks
  PROVE  \E n \in Nat \ {0} : \A s \in AllRanks :
           rank[s].lens \in Lens(n) /\ Len(rank[s].lens) = n
<1> DEFINE c == Pooled(Job)
           b == Portion(Job)
           q == rank[r]
           o == Start(q, b, c)
           n == Stop(q, b, c) - o
<1>0. \A s \in AllRanks : rank[s].pc = "reduce"
  BY DEF AllMeasured
<1>1. /\ call.op # "generate" /\ call.dynamic = TRUE /\ Sized(b, c) /\ q \in RankTypes
      /\ q.mini < Pieces(c, b)
  <2>1. q \in RankTypes
    BY DEF Busy
  <2> QED BY <1>0, <2>1, MeasuredIs, AtIt
<1>2. o \in Nat /\ n \in Nat \ {0} /\ o + n <= c
  <2> HIDE DEF b, c, q
  <2>1. /\ Start(q, b, c) \in Nat /\ Stop(q, b, c) \in Nat /\ Stop(q, b, c) <= c
        /\ Stop(q, b, c) - Start(q, b, c) \in Nat \ {0} /\ c \in Nat
    BY <1>1, BatchIs DEF Sized
  <2> QED BY <2>1
<1>3. ASSUME NEW s \in AllRanks PROVE rank[s].lens \in Lens(n) /\ Len(rank[s].lens) = n
  <2> DEFINE p == rank[s]
             w == PoolLens(Job, s)
             v == p.lens
  <2>1. p \in RankTypes /\ p.pc = "reduce" /\ w \in Lens(c) /\ Works(p, b, c, TRUE, w)
    <3>1. p \in RankTypes
      BY DEF Busy
    <3> QED BY <1>0, <1>1, <3>1, AtIt
  <2>2. p.mini = q.mini
    <3>1. Level(p) = Level(q)
      BY <1>1 DEF Busy, AtWork
    <3>2. p.pc = "reduce" /\ q.pc = "reduce"
      BY <1>0
    <3>3. Level(p) = p.mini /\ Level(q) = q.mini
      BY <1>1, <2>1, <3>2, LevelIs
    <3> QED BY <3>1, <3>3
  <2>3. Start(p, b, c) = o /\ Stop(p, b, c) - Start(p, b, c) = n
    BY <2>2 DEF Start, Stop
  <2>4. v = [x \in 1 .. n |-> w[o + x]]
    <3> HIDE DEF o, n, b, c, p, w, q
    <3>1. TakesTokens(p, b, c, w)
      BY <2>1 DEF Works
    <3>2. v = [k \in 1 .. Stop(p, b, c) - Start(p, b, c) |-> w[Start(p, b, c) + k]]
      BY <2>1, <3>1 DEF TakesTokens
    <3> QED BY ONLY <2>3, <3>2
  <2>4a. c \in Nat
    BY <1>1 DEF Sized
  <2> HIDE DEF o, n, p, w, c, v, q, b
  <2>5. \A x \in 1 .. n : w[o + x] \in Nat \ {0}
    <3>1. \A x \in 1 .. n : o + x \in 1 .. c
      BY <1>2, <2>4a
    <3> QED BY <2>1, <3>1 DEF Lens
  <2>6. v \in [1 .. n -> Nat \ {0}]
    BY <2>4, <2>5
  <2>7. Len(v) = n
    BY <1>2, <2>6
  <2>8. v \in Lens(n)
    BY <2>6 DEF Lens
  <2> QED BY <2>7, <2>8 DEF v, p
<1> QED BY <1>2, <1>3

\* The number of micro-batches that all ranks agree on.
LEMMA AgreedIs ==
  ASSUME DispatchAssumption, Busy, AllMeasured, NEW r \in AllRanks
  PROVE  MicroBatches(r) \in 1 .. Len(rank[r].lens)
<1>1. PICK n \in Nat \ {0} : \A s \in AllRanks :
        rank[s].lens \in Lens(n) /\ Len(rank[s].lens) = n
  BY LensAre
<1>2. MaxTokens \in Nat \ {0}
  <2>1. call.dynamic = TRUE
    BY MeasuredIs DEF AllMeasured
  <2> QED BY <2>1 DEF Busy, Dealt
<1> DEFINE S == {Wanted(rank[s].lens) : s \in AllRanks}
           T == 1 .. n
<1>3. \A s \in AllRanks : Wanted(rank[s].lens) \in T
  BY <1>1, <1>2, WantedIs
<1>4. S \in SUBSET T /\ S # {}
  BY <1>3
<1>5. IsFiniteSet(T)
  BY FS_Interval
<1>6. T \subseteq Int
  OBVIOUS
<1>7. MicroBatches(r) = Max(S)
  BY DEF MicroBatches
<1> HIDE DEF S, T
<1>8. IsFiniteSet(S) /\ S \in SUBSET Int
  BY <1>4, <1>5, <1>6, FS_Subset
<1>9. Max(S) \in S
  BY <1>4, <1>8, MaxIs
<1>10. MicroBatches(r) \in T
  BY <1>4, <1>7, <1>9
<1> QED BY <1>1, <1>10 DEF T

\* One rank, of those that have agreed.
LEMMA RankPlans ==
  ASSUME DispatchAssumption, Busy, AllMeasured, NEW r \in AllRanks,
         NEW p, p = [rank[r] EXCEPT !.pc = "compute", !.done = 0, !.plan = ByTokens(r)]
  PROVE  Takes(p, r, Job) /\ p.mini = rank[r].mini /\ p.pc = "compute"
<1> DEFINE q == rank[r]
           c == Pooled(Job)
           b == Portion(Job)
           w == PoolLens(Job, r)
           k == MicroBatches(r)
           o == Start(q, b, c)
           parts == BalancedPartitions(q.lens, k, FALSE)
           s == ByTokens(r)
<1>1. q.pc = "reduce" /\ call.op # "generate" /\ call.dynamic = TRUE
      /\ Works(q, b, c, TRUE, w) /\ q.mini < Pieces(c, b) /\ Current(r) = Batch(q, b, c)
  <2>1. q.pc = "reduce"
    BY DEF AllMeasured
  <2> QED BY <2>1, MeasuredIs
<1>2. q \in RankTypes /\ q.rows = Pool(Job, r) /\ Weighed(q, call.mean) /\ Sized(b, c) /\ w \in Lens(c)
  BY <1>1, AtIt
<1>3. k \in 1 .. Len(q.lens)
  BY AgreedIs
<1>4. PICK n \in Nat \ {0} : q.lens \in Lens(n) /\ Len(q.lens) = n
  BY LensAre
<1>5. p = [q EXCEPT !.pc = "compute", !.done = 0, !.plan = s]
  OBVIOUS
<1>6. o \in Nat /\ Current(r)[1] - 1 = o
  <2> DEFINE d == Stop(q, b, c) - o
  <2> HIDE DEF q, b, c
  <2>1. o \in Nat /\ d \in Nat \ {0}
    BY <1>1, <1>2, BatchIs
  <2>2. Current(r) = Run(o, d)
    BY <1>1 DEF Batch
  <2> HIDE DEF o, d
  <2>3. Run(o, d)[1] = o + 1
    <3>1. 1 \in 1 .. d
      BY <2>1
    <3> QED BY <3>1 DEF Run
  <2> QED BY <2>1, <2>2, <2>3
<1>7. s = [i \in DOMAIN parts |-> Moved(parts[i], o)]
  BY <1>6 DEF ByTokens, Moved
<1> HIDE DEF q, b, c, w, s, o, k
<1>8. s \in Seq(Seq(Nat))
  <2> DEFINE v == q.lens
             P == BalancedPartitions(v, k, FALSE)
  <2>1. s = [i \in DOMAIN P |-> Moved(P[i], o)]
    BY <1>7
  <2>2. k \in Nat \ {0} /\ v \in Lens(n) /\ P = BalancedPartitions(v, k, FALSE)
    BY <1>3, <1>4
  <2> HIDE DEF v, P
  <2> QED BY ONLY n \in Nat \ {0}, <1>6, <2>1, <2>2, PartsMove
<1>9. /\ p \in RankTypes /\ p.pc = "compute" /\ p.mini = q.mini /\ p.done = 0 /\ p.plan = s
      /\ p.lens = q.lens /\ p.seen = q.seen /\ p.rows = q.rows /\ p.weights = q.weights
  <2>1. "compute" \in Stages /\ 0 \in Nat
    BY DEF Stages
  <2> QED BY ONLY <1>2, <1>5, <1>8, <2>1 DEF RankTypes
<1>10. Works(p, b, c, TRUE, w)
  <2>1. Planned(p, parts, Start(q, b, c))
    BY <1>7, <1>9 DEF o, Planned
  <2>2. parts = BalancedPartitions(q.lens, k, FALSE)
    OBVIOUS
  <2> HIDE DEF parts
  <2> QED BY ONLY <1>1, <1>2, <1>3, <1>9, <2>1, <2>2, PlansTokens
<1>11. Weighed(p, call.mean)
  BY <1>2, <1>9 DEF Weighed
<1>12. Takes(p, r, Job)
  BY <1>1, <1>2, <1>9, <1>10, <1>11, StillTakes DEF b, c, w
<1> QED BY <1>9, <1>12 DEF q

\* PlanByTokens keeps the invariant: the number of micro-batches is the same on
\* all ranks, and no rank has fewer rows than that in its mini-batch.
LEMMA StepPlanByTokens ==
  ASSUME DispatchAssumption, DispatchInd, PlanByTokens
  PROVE  DispatchInd'
<1> DEFINE P(r) == [rank[r] EXCEPT !.pc = "compute", !.done = 0, !.plan = ByTokens(r)]
<1>1. /\ \A r \in AllRanks : rank[r].pc = "reduce"
      /\ AllMeasured /\ UNCHANGED <<shape, call, length, sent, result>>
  BY DEF PlanByTokens, AllMeasured
<1>2. Busy
  BY <1>1, SomeRank, BusyIs
<1>3. /\ rank' = [s \in AllRanks |-> rank'[s]] /\ \A s \in AllRanks : rank'[s] = P(s)
  BY DEF PlanByTokens
<1>4. ASSUME NEW s \in AllRanks
      PROVE  Takes(P(s), s, Job) /\ P(s).mini = rank[s].mini /\ P(s).pc = "compute"
  BY <1>1, <1>2, RankPlans
<1> HIDE DEF P
<1>5. \A s \in AllRanks : Takes(rank'[s], s, Job)
  BY <1>3, <1>4
<1>6. call.dynamic => \A r, s \in AllRanks : Level(rank'[r]) = Level(rank'[s])
  <2> SUFFICES ASSUME call.dynamic, NEW r \in AllRanks, NEW s \in AllRanks
               PROVE  Level(rank'[r]) = Level(rank'[s])
    OBVIOUS
  <2>1. Level(rank[r]) = Level(rank[s])
    BY <1>2 DEF Busy, AtWork
  <2>2. Level(rank[r]) = rank[r].mini /\ Level(rank[s]) = rank[s].mini
    BY <1>1, <1>2, LevelIs DEF Busy
  <2>3. /\ rank'[r] \in RankTypes /\ rank'[r].pc = "compute" /\ rank'[r].mini = rank[r].mini
        /\ rank'[s] \in RankTypes /\ rank'[s].pc = "compute" /\ rank'[s].mini = rank[s].mini
    BY <1>3, <1>4 DEF Takes
  <2>4. Level(rank'[r]) = rank'[r].mini + 1 /\ Level(rank'[s]) = rank'[s].mini + 1
    BY <2>3, LevelIs
  <2> QED BY <2>1, <2>2, <2>3, <2>4
<1> QED BY <1>1, <1>2, <1>3, <1>5, <1>6, StepIs

\* What generate_sequences deals out.
LEMMA PaddedDeal ==
  ASSUME NEW n \in Nat \ {0}, NEW t, Shaped(t), t.op = "generate", t.dynamic = FALSE,
         t.lens = [k \in 1 .. n |-> 1], t.rows = PaddedTo(n, t.ranks)
  PROVE  Dealt(t)
<1> DEFINE w == t.ranks
           l == Pieces(n, w)
           rows == PaddedTo(n, w)
           m == w * l
<1>1. w \in Nat \ {0}
  BY DEF Shaped
<1>2. /\ rows \in Seq(1 .. n) /\ Len(rows) = m /\ l \in Nat \ {0} /\ n <= m
      /\ SubSeq(rows, 1, n) = Run(0, n)
  BY <1>1, PaddedIs
<1>3. t.lens \in [1 .. n -> Nat \ {0}] /\ Len(t.lens) = n
  OBVIOUS
<1>4. t.lens \in Lens(n)
  BY <1>3 DEF Lens
<1>5. t.rows = rows
  OBVIOUS
<1> HIDE DEF w, l, rows
<1>6. m \div w = l
  <2>1. m = w * l
    OBVIOUS
  <2> HIDE DEF m
  <2> QED BY <1>1, <1>2, <2>1, Quotient
<1>7. Share(t) = l
  BY <1>2, <1>5, <1>6 DEF Share, w
<1> QED BY <1>2, <1>3, <1>4, <1>5, <1>7 DEF Dealt, w, m

\* RankTypes with about the same number of tokens.
Balances(t) ==
  \A r, s \in 0 .. t.ranks - 1 :
    Tokens(ToSet(Slice(t.rows, r * Share(t), Share(t))), t.lens)
      - Tokens(ToSet(Slice(t.rows, s * Share(t), Share(t))), t.lens)
        <= Max(ToSet(t.lens)) - Min(ToSet(t.lens))

\* What compute_log_prob and update_actor deal out.
LEMMA BalancedDeal ==
  ASSUME DispatchAssumption, NEW n \in Nat \ {0}, NEW t, Shaped(t),
         t.op \in {"log_prob", "update"}, t.lens \in Lens(n), t.tokens \in Lens(n),
         MaxTokens \in Nat \ {0},
         (n % (MicroBatch * t.ranks)) = 0,
         t.rows = FlattenSeq(BalancedPartitions(t.lens, t.ranks, TRUE))
  PROVE  Dealt(t) /\ Balances(t)
<1> DEFINE k == t.ranks
           m == MicroBatch
           len == t.lens
           rows == t.rows
           P == BalancedPartitions(len, k, TRUE)
           S == ToSet(len)
           d == Max(S) - Min(S)
           e == m * k
           h == n \div e
           a == m * h
<1>1. k \in Nat \ {0} /\ m \in Nat \ {0} /\ len \in Lens(n)
  BY DEF Shaped, DispatchAssumption
<1>2. (n % e) = 0 /\ rows = FlattenSeq(P)
  OBVIOUS
<1>3. len \in [1 .. n -> Nat \ {0}] /\ Len(len) = n
  BY DEF Lens
<1> HIDE DEF k, m, len, rows
<1>4. e \in Nat \ {0}
  <2>1. m >= 1 /\ k >= 1
    BY <1>1
  <2>2. m * k >= 1 * k /\ m * k \in Nat
    BY <1>1, <2>1
  <2> QED BY <1>1, <2>1, <2>2
<1>5. h \in Nat /\ n = e * h
  <2> HIDE DEF e
  <2> QED BY <1>2, <1>4, Multiple
<1> HIDE DEF h
<1>6. a \in Nat /\ n = k * a
  <2>1. (m * k) * h = k * (m * h)
    BY <1>1, <1>5
  <2> QED BY <1>1, <1>5, <2>1
<1> HIDE DEF e
<1>7. (a % m) = 0
  <2>1. a = m * h
    OBVIOUS
  <2> HIDE DEF a
  <2> QED BY <1>1, <1>5, <2>1, NoRest
<1> HIDE DEF a
<1>8. (n % k) = 0 /\ n \div k = a
  BY <1>1, <1>6, NoRest, Quotient
<1>9. d \in Nat /\ Near(n, len, d, TRUE)
  <2>1. /\ Max(S) \in Nat /\ \A x \in 1 .. n : len[x] <= Max(S)
        /\ Min(S) \in Nat /\ \A x \in 1 .. n : Min(S) <= len[x]
        /\ Min(S) <= Max(S)
    BY <1>1, LongestIs
  <2>2. \A x \in 1 .. n : len[x] \in Nat
    BY <1>3
  <2> HIDE DEF S
  <2>3. \A x, y \in 1 .. n : len[x] - len[y] <= d
    BY <2>1, <2>2
  <2> QED BY <2>1, <2>3 DEF Near
<1> HIDE DEF d
<1>10. Shares(P, n, k) /\ Alike(P, k, len, d) /\ Cut(P, k, TRUE)
  <2>1. P = BalancedPartitions(len, k, TRUE) /\ TRUE \in BOOLEAN
    OBVIOUS
  <2> HIDE DEF P
  <2> QED BY <1>1, <1>8, <1>9, <2>1, BalancedIs
<1> HIDE DEF P
<1>11. PICK l \in Nat : /\ \A i \in 1 .. k : Len(P[i]) = l
                        /\ k * l = n
                        /\ Permutes(FlattenSeq(P), n)
                        /\ EndToEnd(FlattenSeq(P), P, k, l)
  BY <1>1, <1>10, EvenShares
<1>12. Permutes(rows, n) /\ EndToEnd(rows, P, k, l)
  BY <1>2, <1>11
<1>13. rows \in [1 .. n -> 1 .. n]
  BY <1>12 DEF Permutes
<1>14. rows \in Seq(1 .. n) /\ Len(rows) = n
  <2> DEFINE D == 1 .. n
             T == D
  <2>1. rows \in [1 .. n -> T]
    BY <1>13
  <2> HIDE DEF D
  <2>2. rows \in Seq(T) /\ Len(rows) = n
    BY <2>1
  <2> QED BY <2>2 DEF D
<1>15. l = a
  <2>1. n = k * l
    BY <1>11
  <2>2. n \div k = l
    BY <1>1, <2>1, Quotient
  <2> QED BY <1>8, <2>2
<1>16. Share(t) = l
  BY <1>8, <1>14, <1>15 DEF Share, k, rows
<1>17. l # 0
  <2>1. l = 0 => k * l = 0
    BY <1>1
  <2> QED BY <1>11, <2>1
<1>18. Dealt(t)
  <2>1. Share(t) \in Nat \ {0} /\ (Share(t) % MicroBatch) = 0
    BY <1>7, <1>15, <1>16, <1>17 DEF m
  <2>2. Len(t.rows) = t.ranks * Share(t)
    <3>1. Len(rows) = k * l
      BY <1>11, <1>14
    <3> QED BY ONLY <1>16, <3>1 DEF k, rows
  <2>3. Len(t.lens) = n /\ t.lens \in Lens(n)
    BY <1>1, <1>3 DEF len
  <2>4. t.rows \in Seq(1 .. n) /\ Permutes(t.rows, n) /\ n <= Len(t.rows)
    <3>1. n <= Len(rows)
      BY <1>14
    <3> QED BY ONLY <1>12, <1>14, <3>1 DEF rows
  <2>5. /\ Len(t.lens) \in Nat \ {0} /\ t.lens \in Lens(Len(t.lens))
        /\ t.rows \in Seq(1 .. Len(t.lens)) /\ Len(t.lens) <= Len(t.rows)
        /\ Permutes(t.rows, Len(t.lens)) /\ t.tokens \in Lens(Len(t.lens))
    BY ONLY n \in Nat \ {0}, t.tokens \in Lens(n), <2>3, <2>4
  <2>6. Shaped(t) /\ t.op \in {"log_prob", "update"} /\ MaxTokens \in Nat \ {0}
    OBVIOUS
  <2> QED BY ONLY <2>1, <2>2, <2>5, <2>6 DEF Dealt
<1>19. ASSUME NEW r \in 0 .. k - 1 PROVE Slice(rows, r * l, l) = P[r + 1]
  <2> DEFINE i == r + 1
             p == P[i]
  <2>1. i \in 1 .. k /\ i - 1 = r
    BY <1>1
  <2>2. p \in Seq(1 .. n) /\ Len(p) = l
    BY <1>10, <1>11, <2>1 DEF Shares
  <2>3. \A x \in 1 .. l : rows[(i - 1) * l + x] = p[x]
    BY <1>12, <2>1 DEF EndToEnd
  <2>4. Slice(rows, r * l, l) = [x \in 1 .. l |-> rows[(i - 1) * l + x]]
    BY <2>1 DEF Slice
  <2> HIDE DEF p, i
  <2>5. p = [x \in 1 .. l |-> p[x]]
    <3> DEFINE T == 1 .. n
    <3>1. p \in Seq(T)
      BY <2>2
    <3> HIDE DEF T
    <3> QED BY <2>2, <3>1
  <2>6. Slice(rows, r * l, l) = p
    BY <2>3, <2>4, <2>5
  <2> QED BY <2>6 DEF p, i
<1>20. Balances(t)
  <2> SUFFICES ASSUME NEW r \in 0 .. k - 1, NEW s \in 0 .. k - 1
               PROVE  Tokens(ToSet(Slice(rows, r * l, l)), len)
                        - Tokens(ToSet(Slice(rows, s * l, l)), len) <= d
    BY <1>16 DEF Balances, k, rows, len, d
  <2>1. r + 1 \in 1 .. k /\ s + 1 \in 1 .. k
    BY <1>1
  <2>2. Tokens(ToSet(P[r + 1]), len) - Tokens(ToSet(P[s + 1]), len) <= d
    BY <1>10, <2>1 DEF Alike
  <2>3. Slice(rows, r * l, l) = P[r + 1] /\ Slice(rows, s * l, l) = P[s + 1]
    BY <1>19
  <2> QED BY <2>2, <2>3
<1> QED BY <1>18, <1>20

\* The shards of a batch.
LEMMA ShardIs ==
  ASSUME NEW t, Dealt(t), NEW r \in 0 .. t.ranks - 1, NEW l, l = Share(t)
  PROVE  SubSeq(t.rows, r * l + 1, (r + 1) * l) = Slice(t.rows, r * l, l)
<1> DEFINE w == t.ranks
           g == t.group
           n == Len(t.lens)
           rows == t.rows
           o == r * l
           S == 1 .. n
           a == o + 1
           z == (r + 1) * l
<1>1. w \in Nat \ {0} /\ g \in Nat \ {0} /\ (w % g) = 0 /\ l \in Nat \ {0}
      /\ rows \in Seq(S) /\ Len(rows) = w * l
  BY DEF Dealt, Shaped
<1>2. r \in 0 .. w - 1
  OBVIOUS
<1> HIDE DEF w, n, rows, g, S
<1>3. o \in Nat /\ o + l <= w * l
  BY <1>1, <1>2, Placed
<1>4. z = o + l
  BY <1>1, <1>2
<1>5. rows \in Seq(S) /\ o \in Nat /\ l \in Nat /\ o + l <= Len(rows) /\ a = o + 1 /\ z = o + l
  BY <1>1, <1>3, <1>4
<1> HIDE DEF o, a, z
<1>6. SubSeq(rows, a, z) = Slice(rows, o, l)
  BY ONLY <1>5, SliceOfSeq, ZenonT(60)
<1> QED BY <1>6 DEF rows, o, a, z

\* Dealing out a batch establishes what holds of ranks at work.
LEMMA DealIs ==
  ASSUME DispatchInd, call.op = "none", NEW rows, Deal(rows), shape' = shape, result' = result,
         call' \in Calls, call'.op # "none", NEW t, t = Job', Dealt(t),
         call'.op # "generate" => Balances(t)
  PROVE  DispatchInd'
<1>1. /\ t.ranks = World /\ t.group = shape[2] /\ t.op = call'.op /\ t.dynamic = call'.dynamic
      /\ t.lens = length' /\ t.rows = rows /\ World' = World /\ AllRanks' = AllRanks
  BY DEF Job, World, AllRanks, Deal
<1>2. AllRanks = 0 .. t.ranks - 1 /\ Share(t) = Len(rows) \div World
  BY <1>1 DEF AllRanks, Share
<1>3. ASSUME NEW r \in AllRanks PROVE Shard(r, rows) = Slice(rows, r * Share(t), Share(t))
  <2> DEFINE l == Share(t)
  <2>1. Shard(r, rows) = SubSeq(rows, r * l + 1, (r + 1) * l)
    BY <1>2 DEF Shard
  <2>2. r \in 0 .. t.ranks - 1 /\ l = Share(t)
    BY <1>2
  <2> HIDE DEF l
  <2>3. SubSeq(t.rows, r * l + 1, (r + 1) * l) = Slice(t.rows, r * l, l)
    BY <2>2, ShardIs
  <2> QED BY <1>1, <2>1, <2>3 DEF l
<1>4. /\ rank' = [r \in AllRanks |-> rank'[r]]
      /\ \A r \in AllRanks : rank'[r] = [Idle EXCEPT !.pc = "gather", !.rows = Shard(r, rows)]
  BY DEF Deal
<1>5. \A r \in AllRanks : rank'[r] = Waiting(t, r)
  BY <1>1, <1>3, <1>4 DEF Waiting
<1>6. ASSUME NEW r \in AllRanks PROVE Takes(rank'[r], r, t) /\ Level(rank'[r]) = 0
  <2>1. r \in 0 .. t.ranks - 1
    BY <1>2
  <2>2. Waiting(t, r) \in RankTypes /\ Waiting(t, r).pc = "gather" /\ Waiting(t, r).mini = 0
    BY <2>1, WaitingIs
  <2>3. Takes(Waiting(t, r), r, t)
    BY <2>2 DEF Takes
  <2>4. Level(Waiting(t, r)) = 0
    BY <2>2, LevelIs
  <2> QED BY <1>5, <2>3, <2>4
<1>7. result' = <<>>
  BY DEF DispatchInd
<1>8. AtWork'
  <2>1. Dealt(Job')
    OBVIOUS
  <2>2. \A r \in AllRanks : Takes(rank'[r], r, Job')
    BY <1>6
  <2>3. \A r, s \in AllRanks : Level(rank'[r]) = Level(rank'[s])
    BY <1>6
  <2>5. \A r \in AllRanks' : Takes(rank[r], r, Job)'
    BY <1>1, <2>2
  <2>6. (call.dynamic => \A r, s \in AllRanks : Level(rank[r]) = Level(rank[s]))'
    BY <1>1, <2>3
  <2>7. (result # <<>>)' = FALSE
    BY <1>7
  <2>8. Dealt(Job)'
    BY <2>1
  <2> QED BY <2>5, <2>6, <2>7, <2>8 DEF AtWork
<1>9. AnswersInOrder'
  BY <1>7 DEF AnswersInOrder
<1>10. RanksBalance'
  <2> DEFINE load == [r \in AllRanks |-> Tokens(ToSet(Shard(r, rows)), length')]
             d == Max(ToSet(length')) - Min(ToSet(length'))
  <2>1. ASSUME call'.op \in {"log_prob", "update"}, NEW r \in AllRanks, NEW s \in AllRanks
        PROVE  load[r] - load[s] <= d
    <3>1. Balances(t)
      BY <2>1
    <3>2. Tokens(ToSet(Slice(rows, r * Share(t), Share(t))), length')
            - Tokens(ToSet(Slice(rows, s * Share(t), Share(t))), length') <= d
      BY <1>1, <1>2, <3>1 DEF Balances
    <3> QED BY <1>3, <3>2
  <2>2. sent' = rows
    BY DEF Deal
  <2>3. [r \in AllRanks |-> Tokens(ToSet(Shard(r, sent)), length)]' = load
    BY <1>1, <2>2 DEF Shard
  <2> HIDE DEF load, d
  <2>4. (call.op \in {"log_prob", "update"})' => \A r, s \in AllRanks' : load[r] - load[s] <= d
    BY <1>1, <2>1
  <2> QED BY <2>3, <2>4 DEF RanksBalance, d
<1>11. rank' = [r \in AllRanks' |-> rank'[r]] /\ shape' \in Shapes
  BY <1>1, <1>4 DEF DispatchInd
<1> QED BY <1>7, <1>8, <1>9, <1>10, <1>11 DEF DispatchInd

\* Generate keeps the invariant.
LEMMA StepGenerate ==
  ASSUME DispatchAssumption, DispatchInd, Generate
  PROVE  DispatchInd'
<1> DEFINE t == Job'
<1>1. /\ call.op = "none"
      /\ call' = [op |-> "generate", dynamic |-> FALSE, mean |-> "none", tokens |-> <<>>]
      /\ shape' = shape /\ result' = result
  BY DEF Generate
<1>2. PICK n \in Sizes : length' = [k \in 1 .. n |-> 1] /\ Deal(PaddedTo(n, World))
  BY DEF Generate
<1>3. n \in Nat \ {0}
  BY DEF DispatchAssumption
<1>4. /\ t.ranks = World /\ t.group = shape[2] /\ t.op = "generate" /\ t.dynamic = FALSE
      /\ t.lens = [k \in 1 .. n |-> 1] /\ t.rows = PaddedTo(n, World)
  BY <1>1, <1>2 DEF Job, World, Deal
<1>5. Shaped(t)
  BY <1>4 DEF Shaped, DispatchInd, DispatchAssumption, World
<1>6. call' \in Calls /\ call'.op = "generate" /\ t = Job'
  BY <1>1 DEF Calls
<1> HIDE DEF t
<1>7. Dealt(t)
  BY <1>3, <1>4, <1>5, PaddedDeal
<1> QED BY <1>1, <1>2, <1>6, <1>7, DealIs

\* Train keeps the invariant.
LEMMA StepTrain ==
  ASSUME DispatchAssumption, DispatchInd, Train
  PROVE  DispatchInd'
<1> DEFINE t == Job'
<1>1. call.op = "none" /\ shape' = shape /\ result' = result
  BY DEF Train
<1>2. PICK b \in {b \in Batches : Len(b) % SizeDivisor = 0} :
        /\ length' = [k \in DOMAIN b |-> b[k][1] + b[k][2]] /\ Deal(Balanced(length'))
        /\ \E dynamic \in BOOLEAN, c \in {<<"log_prob", "none">>, <<"update", "tokens">>,
                                         <<"update", "rows">>} :
             call' = [op |-> c[1], dynamic |-> dynamic, mean |-> c[2],
                      tokens |-> [k \in DOMAIN b |-> b[k][2]]]
  BY DEF Train
<1> DEFINE n == Len(b)
           S == (Nat \ {0}) \X (Nat \ {0})
           len == [k \in DOMAIN b |-> b[k][1] + b[k][2]]
           tokens == [k \in DOMAIN b |-> b[k][2]]
<1>3. /\ b \in Seq(S) /\ b # <<>> /\ (n % (MicroBatch * World)) = 0
      /\ \A k \in DOMAIN b : b[k][1] + b[k][2] <= MaxTokens
  BY DEF DispatchAssumption, SizeDivisor
<1>4. /\ n \in Nat \ {0} /\ DOMAIN b = 1 .. n
      /\ \A k \in 1 .. n : b[k][1] \in Nat \ {0} /\ b[k][2] \in Nat \ {0}
  <2>1. n \in Nat /\ DOMAIN b = 1 .. n /\ n # 0
    BY <1>3
  <2>2. \A k \in 1 .. n : b[k] \in S
    BY <1>3, <2>1
  <2> QED BY <2>1, <2>2
<1>5. len \in Lens(n) /\ tokens \in Lens(n) /\ tokens \in Seq(Nat) /\ MaxTokens \in Nat \ {0}
  <2>1. \A k \in 1 .. n : len[k] \in Nat \ {0} /\ len[k] <= MaxTokens
    BY <1>3, <1>4
  <2>2. len \in Lens(n) /\ tokens \in Lens(n)
    BY <1>4, <2>1 DEF Lens
  <2>3. tokens \in Seq(Nat)
    BY <1>4
  <2>4. 1 \in 1 .. n /\ MaxTokens \in Nat
    BY <1>4 DEF DispatchAssumption
  <2>5. MaxTokens # 0
    BY <2>1, <2>4
  <2> QED BY <2>2, <2>3, <2>4, <2>5
<1>6. /\ length' = len /\ Deal(Balanced(len)) /\ call'.op \in {"log_prob", "update"}
      /\ call' \in Calls /\ call'.tokens = tokens
  <2>1. \A op, d, mean :
          /\ op \in {"log_prob", "update"} /\ d \in BOOLEAN /\ mean \in {"none", "tokens", "rows"}
          => [op |-> op, dynamic |-> d, mean |-> mean, tokens |-> tokens] \in Calls
    BY <1>5 DEF Calls
  <2>2. length' = len
    BY <1>2
  <2>3. Deal(Balanced(len))
    BY <1>2, <2>2, Zenon
  <2>4. PICK d \in BOOLEAN, c \in {<<"log_prob", "none">>, <<"update", "tokens">>,
                                   <<"update", "rows">>} :
          call' = [op |-> c[1], dynamic |-> d, mean |-> c[2], tokens |-> tokens]
    BY <1>2
  <2>5. c[1] \in {"log_prob", "update"} /\ c[2] \in {"none", "tokens", "rows"}
    BY <2>4
  <2> HIDE DEF len, tokens
  <2>6. call'.op = c[1] /\ call'.tokens = tokens /\ call' \in Calls
    BY <2>1, <2>4, <2>5
  <2> QED BY <2>2, <2>3, <2>5, <2>6
<1> HIDE DEF len, tokens, n
<1>7. /\ t.ranks = World /\ t.group = shape[2] /\ t.op = call'.op /\ t.dynamic = call'.dynamic
      /\ t.tokens = tokens /\ t.lens = len
      /\ t.rows = FlattenSeq(BalancedPartitions(len, World, TRUE))
  BY <1>1, <1>6 DEF Job, World, Deal, Balanced
<1>8. call'.dynamic \in BOOLEAN
  BY <1>6 DEF Calls
<1>9. Shaped(t) /\ t.op \in {"log_prob", "update"}
  BY <1>6, <1>7, <1>8 DEF Shaped, DispatchInd, DispatchAssumption, World
<1>10. t = Job'
  OBVIOUS
<1> HIDE DEF t
<1>11. t.lens \in Lens(n) /\ t.tokens \in Lens(n) /\ (n % (MicroBatch * t.ranks)) = 0
       /\ t.rows = FlattenSeq(BalancedPartitions(t.lens, t.ranks, TRUE))
  BY <1>3, <1>5, <1>7 DEF n
<1>12. Dealt(t) /\ Balances(t)
  BY ONLY DispatchAssumption, <1>4, <1>5, <1>9, <1>11, BalancedDeal DEF n
<1>13. call'.op # "none"
  BY <1>6
<1> QED BY <1>1, <1>6, <1>10, <1>12, <1>13, DealIs

\* The invariant holds at first.
LEMMA IndInit ==
  ASSUME DispatchAssumption, DispatchInit
  PROVE  DispatchInd
<1>1. /\ shape \in Shapes /\ result = <<>>
      /\ call = [op |-> "none", dynamic |-> FALSE, mean |-> "none", tokens |-> <<>>]
      /\ rank = [r \in AllRanks |-> Idle]
  BY DEF DispatchInit
<1>2. call \in Calls /\ call.op = "none"
  BY <1>1 DEF Calls
<1>3. AnswersInOrder /\ RanksBalance
  BY <1>1, <1>2 DEF AnswersInOrder, RanksBalance
<1> QED BY <1>1, <1>2, <1>3 DEF DispatchInd

\* The order of the answers, undone.
LEMMA Undo ==
  ASSUME NEW c \in Nat, NEW order, NEW dynamic \in BOOLEAN, Finished(order, c, dynamic), NEW rows
  PROVE  /\ DOMAIN order = 1 .. c
         /\ \A k \in 1 .. c :
              rows[order[IF dynamic THEN ReverseIdx(order)[k] ELSE k]] = rows[k]
<1>1. DOMAIN order = 1 .. c /\ \A j \in 1 .. c : \E i \in 1 .. c : order[i] = j
  BY DEF Finished, Permutes
<1>2. ASSUME NEW k \in 1 .. c PROVE order[ReverseIdx(order)[k]] = k
  <2>1. ReverseIdx(order)[k] = CHOOSE i \in DOMAIN order : order[i] = k
    BY <1>1 DEF ReverseIdx
  <2>2. \E i \in DOMAIN order : order[i] = k
    BY <1>1
  <2> QED BY <2>1, <2>2
<1>3. ASSUME NEW k \in 1 .. c, ~ dynamic PROVE order[k] = k
  <2>1. order = Run(0, c)
    BY <1>3 DEF Finished
  <2>2. Run(0, c)[k] = k
    BY DEF Run
  <2> QED BY <2>1, <2>2
<1> QED BY <1>1, <1>2, <1>3

\* A rank answers its rows in order.
LEMMA AnswersAre ==
  ASSUME DispatchAssumption, AtWork, NEW r \in AllRanks, rank[r].pc \in {"answer", "idle"}
  PROVE  /\ Answers(r) = Pool(Job, r) /\ rank[r].rows = Pool(Job, r)
         /\ Pooled(Job) \in Nat \ {0} /\ DOMAIN Pool(Job, r) = 1 .. Pooled(Job)
         /\ Finished(rank[r].seen, Pooled(Job), Job.dynamic)
<1> DEFINE t == Job
           q == rank[r]
           c == Pooled(t)
           rows == Pool(t, r)
<1>1. Dealt(t) /\ r \in 0 .. t.ranks - 1 /\ q \in RankTypes /\ Takes(q, r, t) /\ t.dynamic = call.dynamic
  BY DEF AtWork, Job, AllRanks, World, Takes
<1>2. t.dynamic \in BOOLEAN
  BY <1>1 DEF Dealt, Shaped
<1> HIDE DEF t
<1>3. c \in Nat \ {0} /\ DOMAIN rows = 1 .. c /\ rows \in Seq(1 .. Len(t.lens)) /\ Len(rows) = c
  BY <1>1, PoolIs
<1>4. q.rows = rows
  BY <1>1 DEF Takes
<1>5. Finished(q.seen, c, t.dynamic)
  <2>1. CASE t.op = "generate"
    <3>1. q.seen = Run(0, c)
      BY <1>1, <2>1 DEF Takes, Generates
    <3> HIDE DEF c
    <3>2. Run(0, c) \in [1 .. c -> 1 .. c] /\ \A x \in 1 .. c : Run(0, c)[x] = x
      BY <1>3 DEF Run
    <3> QED BY <3>1, <3>2 DEF Finished, Permutes
  <2>2. CASE t.op # "generate"
    <3>1. Sized(Portion(t), c) /\ Works(q, Portion(t), c, t.dynamic, PoolLens(t, r))
      BY <1>1, <2>2, SizedIs DEF Takes
    <3> QED BY <1>1, <1>2, <3>1, AllTaken
  <2> QED BY <2>1, <2>2
<1> HIDE DEF c, rows
<1> DEFINE o == q.seen
<1>6. DOMAIN o = 1 .. c
      /\ \A k \in 1 .. c : rows[o[IF t.dynamic THEN ReverseIdx(o)[k] ELSE k]] = rows[k]
  BY <1>2, <1>3, <1>5, Undo
<1>7. Answers(r) = [k \in DOMAIN o |-> rows[o[IF t.dynamic THEN ReverseIdx(o)[k] ELSE k]]]
  BY <1>1, <1>4 DEF Answers
<1> HIDE DEF o
<1>8. Answers(r) = [k \in 1 .. c |-> rows[k]]
  BY <1>6, <1>7
<1>9. rows = [k \in 1 .. c |-> rows[k]]
  BY <1>3
<1> QED BY <1>3, <1>4, <1>5, <1>8, <1>9 DEF rows, c, t

\* The part of the group's answers that a rank keeps.
LEMMA KeptIs ==
  ASSUME DispatchAssumption, Busy, NEW r \in AllRanks, rank[r].pc = "answer"
  PROVE  Kept(r) = Slice(sent, r * Share(Job), Share(Job))
<1> DEFINE t == Job
           g == t.group
           w == t.ranks
           l == Share(t)
           c == g * l
           s == r % g
           u == (g * (r \div g)) * l
           rows == Pool(t, r)
           S == 1 .. Len(t.lens)
<1>1. Dealt(t) /\ r \in 0 .. w - 1 /\ g = shape[2] /\ t.rows = sent
  BY DEF Busy
<1>2. Answers(r) = rows /\ rank[r].rows = rows
  BY AnswersAre DEF Busy
<1> HIDE DEF t
<1>3. g \in Nat \ {0} /\ w \in Nat \ {0} /\ (w % g) = 0 /\ l \in Nat \ {0}
  BY <1>1 DEF Dealt, Shaped
<1>4. rows \in Seq(S) /\ Len(rows) = c /\ \A x \in 1 .. c : rows[x] = t.rows[u + x]
  BY <1>1, PoolIs DEF Pooled
<1> HIDE DEF rows, S, l, w, g
<1>5. Len(rows) \div g = l
  BY <1>3, <1>4, Quotient
<1> DEFINE o == s * l
           v == r * l
<1>6. /\ o \in Nat /\ o + l <= c /\ v = u + o /\ u \in Nat /\ c \in Nat /\ s \in Nat
  <2>1. s \in Nat
    BY <1>1, <1>3
  <2>2. /\ v \in Nat /\ u \in Nat /\ c \in Nat /\ o \in Nat /\ o + l <= c /\ v = u + o
    <3>1. l \in Nat
      BY <1>3
    <3>2. w \in Nat \ {0} /\ g \in Nat \ {0} /\ (w % g) = 0 /\ r \in 0 .. w - 1
      BY <1>1, <1>3
    <3>3. LiesIn(r, w, g, l)
      BY ONLY <3>1, <3>2, LiesThere
    <3> QED BY ONLY <3>3 DEF LiesIn
  <2> QED BY <2>1, <2>2
<1> DEFINE z == (s + 1) * l
           a == o + 1
<1>7. z = o + l
  BY <1>3, <1>6
<1>8. Kept(r) = SubSeq(rows, a, z)
  <2>1. Kept(r) = LET n == Len(rows) \div g
                  IN  SubSeq(rows, ((r % g) * n) + 1, ((r % g) + 1) * n)
    BY <1>1, <1>2 DEF Kept
  <2> QED BY <1>5, <2>1
<1> HIDE DEF z, a, o, v, u, s, c
<1>9. SubSeq(rows, a, z) = Slice(rows, o, l)
  <2>1. l \in Nat /\ a = o + 1 /\ o + l <= Len(rows) /\ o \in Nat
    BY <1>3, <1>4, <1>6 DEF a
  <2> QED BY ONLY <1>4, <1>7, <2>1, SliceOfSeq, ZenonT(60)
<1>10. Slice(rows, o, l) = Slice(t.rows, v, l)
  <2> SUFFICES ASSUME NEW x \in 1 .. l PROVE rows[o + x] = t.rows[v + x]
    BY DEF Slice
  <2>1. o + x \in 1 .. c /\ u + (o + x) = v + x
    BY <1>3, <1>6
  <2> QED BY <1>4, <2>1
<1> QED BY <1>1, <1>8, <1>9, <1>10 DEF v, l, t

\* The driver puts the parts together.
LEMMA JoinedIs ==
  ASSUME DispatchAssumption, Busy, \A r \in AllRanks : rank[r].pc = "answer"
  PROVE  FlattenSeq([k \in 1 .. World |-> Kept(k - 1)]) = sent
<1> DEFINE t == Job
           w == t.ranks
           l == Share(t)
           rows == t.rows
           S == 1 .. Len(t.lens)
           m == Len(rows)
           P == [k \in 1 .. w |-> Kept(k - 1)]
           o == 0
<1>1. Dealt(t) /\ w = World /\ rows = sent /\ AllRanks = 0 .. w - 1
  BY DEF Busy
<1>2. w \in Nat \ {0} /\ l \in Nat /\ rows \in Seq(S) /\ m = w * l
  BY <1>1 DEF Dealt, Shaped
<1>3. m \in Nat /\ rows = [x \in 1 .. m |-> rows[x]]
  <2> HIDE DEF S, rows
  <2> QED BY <1>2
<1>4. ASSUME NEW k \in 1 .. w PROVE P[k] = Slice(rows, o + (k - 1) * l, l)
  <2>1. k - 1 \in AllRanks
    BY <1>1, <1>2
  <2>2. Kept(k - 1) = Slice(sent, (k - 1) * l, l)
    BY <2>1, KeptIs
  <2> HIDE DEF l
  <2>3. o + (k - 1) * l = (k - 1) * l
    BY <1>2
  <2> QED BY <1>1, <2>2, <2>3
<1> HIDE DEF l, w, rows, m
<1>5. P = [i \in 1 .. w |-> Slice(rows, o + (i - 1) * l, l)]
  BY <1>4
<1>6. Sliced(P, rows, o, w, l, m)
  BY <1>2, <1>5 DEF Sliced
<1>7. o \in Nat /\ w \in Nat /\ o + m <= Len(rows)
  BY <1>2, <1>3 DEF m
<1> HIDE DEF o, P, S
<1>8. FlattenSeq(P) = Slice(rows, o, m)
  <2> DEFINE f == FlattenSeq(P)
  <2>1. f = FlattenSeq(P)
    OBVIOUS
  <2> HIDE DEF f
  <2>2. f = Slice(rows, o, m)
    BY ONLY <1>2, <1>3, <1>6, <1>7, <2>1, SlicesJoin
  <2> QED BY <2>1, <2>2
<1>9. Slice(rows, o, m) = [x \in 1 .. m |-> rows[x]]
  <2>1. \A x \in 1 .. m : o + x = x
    BY <1>3 DEF o
  <2> QED BY <2>1 DEF Slice
<1> QED BY <1>1, <1>3, <1>8, <1>9 DEF P

\* The answers that the driver collects are in the order of the rows it sent.
LEMMA InOrder ==
  ASSUME DispatchAssumption, DispatchInd, Collect
  PROVE  AnswersInOrder' /\ Busy
<1>1. /\ call' = call /\ length' = length /\ sent' = sent
      /\ \A r \in AllRanks : rank[r].pc = "answer"
      /\ result' = IF call.op = "update" THEN sent
                   ELSE SubSeq(FlattenSeq([k \in 1 .. World |-> Kept(k - 1)]), 1, Len(length))
  BY DEF Collect
<1>2. Busy
  BY <1>1, SomeRank, BusyIs
<1> DEFINE t == Job
           n == Len(t.lens)
           rows == t.rows
<1>3. Dealt(t) /\ t.rows = sent /\ t.lens = length /\ t.op = call.op
  BY <1>2 DEF Busy
<1>4. CASE call.op = "update"
  BY <1>1, <1>2, <1>4 DEF AnswersInOrder
<1>5. CASE call.op # "update"
  <2>1. result' = SubSeq(sent, 1, Len(length))
    BY <1>1, <1>2, <1>5, JoinedIs
  <2> HIDE DEF t
  <2>2. n \in Nat
    BY <1>3 DEF Dealt
  <2>3. CASE call.op = "generate"
    <3>1. SubSeq(rows, 1, n) = Run(0, n)
      BY <1>3, <2>3 DEF Dealt
    <3>2. Upto(n) = Run(0, n)
      BY <2>2, UptoIs
    <3> QED BY <1>1, <1>2, <1>3, <2>1, <2>3, <3>1, <3>2 DEF AnswersInOrder
  <2>4. CASE call.op # "generate"
    <3>1. rows \in [1 .. n -> 1 .. n]
      BY <1>3, <2>4 DEF Dealt, Permutes
    <3> HIDE DEF n, rows
    <3>2. SubSeq(rows, 1, n) = rows
      BY <2>2, <3>1, WholeSeq
    <3> QED BY <1>1, <1>2, <1>3, <2>1, <2>4, <3>2 DEF AnswersInOrder, n, rows
  <2> QED BY <2>3, <2>4
<1> QED BY <1>2, <1>4, <1>5

\* Collect keeps the invariant.
LEMMA StepCollect ==
  ASSUME DispatchAssumption, DispatchInd, Collect
  PROVE  DispatchInd'
<1> DEFINE p(r) == [rank[r] EXCEPT !.pc = "idle"]
<1>1. /\ UNCHANGED <<shape, call, length, sent>>
      /\ \A r \in AllRanks : rank[r].pc = "answer"
      /\ rank' = [r \in AllRanks |-> p(r)]
  BY DEF Collect
<1>2. Busy /\ AnswersInOrder'
  BY InOrder
<1>3. Job' = Job /\ AllRanks' = AllRanks
  BY <1>1 DEF Job, AllRanks, World
<1>4. ASSUME NEW r \in AllRanks
      PROVE  /\ Takes(rank'[r], r, Job) /\ Level(rank'[r]) = Level(rank[r])
             /\ rank'[r].pc = "idle"
  <2> DEFINE q == rank[r]
             t == Job
  <2>1. q \in RankTypes /\ Takes(q, r, t) /\ rank'[r] = p(r) /\ q.pc = "answer"
    BY <1>1, <1>2 DEF Busy
  <2> HIDE DEF t
  <2> DEFINE h == [q EXCEPT !.pc = "idle"]
  <2>2. rank'[r] = h
    BY <2>1
  <2> HIDE DEF q
  <2>3. /\ h \in RankTypes /\ h.pc = "idle" /\ h.rows = q.rows /\ h.mini = q.mini /\ h.lens = q.lens
        /\ h.plan = q.plan /\ h.done = q.done /\ h.seen = q.seen /\ h.weights = q.weights
    BY ONLY <2>1 DEF RankTypes, Stages
  <2> HIDE DEF h
  <2>4. Level(h) = Level(q)
    BY <2>1, <2>3 DEF Level
  <2>5. ASSUME NEW b, NEW c, NEW d, NEW v, Works(q, b, c, d, v) PROVE Works(h, b, c, d, v)
    BY <2>1, <2>3, <2>5 DEF Works, Stages, TakesRows, TakesTokens, Gone, Start, Stop, Covers, Fair
  <2>6. ASSUME NEW c, Generates(q, c) PROVE Generates(h, c)
    BY <2>1, <2>3, <2>6 DEF Generates
  <2>7. Weighed(q, t.mean) => Weighed(h, t.mean)
    BY <2>3 DEF Weighed
  <2>8. Takes(h, r, t)
    BY <2>1, <2>3, <2>5, <2>6, <2>7 DEF Takes
  <2> QED BY <2>2, <2>3, <2>4, <2>8 DEF q, t
<1>5. AtWork'
  <2>1. Dealt(Job)'
    BY <1>2, <1>3 DEF Busy
  <2>2. \A r \in AllRanks' : Takes(rank[r], r, Job)'
    BY <1>3, <1>4
  <2>3. (call.dynamic => \A r, s \in AllRanks : Level(rank[r]) = Level(rank[s]))'
    <3>1. call.dynamic => \A r, s \in AllRanks : Level(rank[r]) = Level(rank[s])
      BY <1>2 DEF Busy, AtWork
    <3>2. call'.dynamic = call.dynamic
      BY <1>1
    <3>3. call.dynamic => \A r, s \in AllRanks : Level(rank'[r]) = Level(rank'[s])
      BY <3>1, <1>4
    <3> HIDE DEF p
    <3> QED BY <1>3, <3>2, <3>3
  <2>4. (result # <<>> => \A r \in AllRanks : rank[r].pc = "idle")'
    BY <1>3, <1>4
  <2> QED BY <2>1, <2>2, <2>3, <2>4 DEF AtWork
<1>6. RanksBalance'
  <2>1. RanksBalance
    BY DEF DispatchInd
  <2> QED BY <1>1, <1>3, <2>1 DEF RanksBalance, Shard, World
<1>7. rank' = [r \in AllRanks |-> rank'[r]]
  BY <1>1
<1>8. shape' \in Shapes /\ call' \in Calls /\ call'.op # "none"
  BY <1>1, <1>2 DEF DispatchInd, Busy
<1> QED BY <1>2, <1>3, <1>5, <1>6, <1>7, <1>8 DEF DispatchInd

-----------------------------------------------------------------------------
(* What follows.                                                             *)

\* Stuttering keeps the invariant.
LEMMA StepNone ==
  ASSUME DispatchInd, UNCHANGED dispatchVars
  PROVE  DispatchInd'
<1>1. UNCHANGED <<shape, call, length, sent, rank, result>>
  BY DEF dispatchVars
<1>2. Job' = Job /\ AllRanks' = AllRanks /\ World' = World
  BY <1>1 DEF Job, AllRanks, World
<1>3. AtWork' = AtWork
  <2>1. ASSUME AtWork PROVE AtWork'
    <3>1. Dealt(Job)' /\ \A r \in AllRanks' : Takes(rank[r], r, Job)'
      BY <1>1, <1>2, <2>1 DEF AtWork
    <3>2. (call.dynamic => \A r, s \in AllRanks : Level(rank[r]) = Level(rank[s]))'
      BY <1>1, <1>2, <2>1 DEF AtWork
    <3>3. (result # <<>> => \A r \in AllRanks : rank[r].pc = "idle")'
      BY <1>1, <1>2, <2>1 DEF AtWork
    <3> QED BY <3>1, <3>2, <3>3 DEF AtWork
  <2>2. ASSUME AtWork' PROVE AtWork
    <3>1. Dealt(Job) /\ \A r \in AllRanks : Takes(rank[r], r, Job)
      BY <1>1, <1>2, <2>2 DEF AtWork
    <3>2. call.dynamic => \A r, s \in AllRanks : Level(rank[r]) = Level(rank[s])
      BY <1>1, <1>2, <2>2 DEF AtWork
    <3>3. result # <<>> => \A r \in AllRanks : rank[r].pc = "idle"
      BY <1>1, <1>2, <2>2 DEF AtWork
    <3> QED BY <3>1, <3>2, <3>3 DEF AtWork
  <2> QED BY <2>1, <2>2 DEF AtWork
<1>4. AnswersInOrder'
  BY <1>1 DEF AnswersInOrder, DispatchInd
<1>5. RanksBalance'
  BY <1>1, <1>2 DEF RanksBalance, Shard, DispatchInd
<1> QED BY <1>1, <1>2, <1>3, <1>4, <1>5 DEF DispatchInd

\* Every step keeps the invariant.
LEMMA StepDispatch ==
  ASSUME DispatchAssumption, DispatchInd, [DispatchNext]_dispatchVars
  PROVE  DispatchInd'
<1>1. CASE Generate
  BY <1>1, StepGenerate
<1>2. CASE Train
  BY <1>2, StepTrain
<1>3. CASE PlanByTokens
  BY <1>3, StepPlanByTokens
<1>4. CASE Forward
  BY <1>4, StepForward
<1>5. CASE Collect
  BY <1>5, StepCollect
<1>6. ASSUME NEW r \in AllRanks, RankStep(r) PROVE DispatchInd'
  <2>1. CASE GatherRows(r)
    BY <2>1, StepGather
  <2>2. CASE PlanByRows(r)
    BY <2>2, StepPlanByRows
  <2>3. CASE Measure(r)
    BY <2>3, StepMeasure
  <2>4. CASE Compute(r)
    BY <2>4, StepCompute
  <2>5. CASE EndMini(r)
    BY <2>5, StepEndMini
  <2>6. CASE Engine(r)
    BY <2>6, StepEngine
  <2> QED BY <1>6, <2>1, <2>2, <2>3, <2>4, <2>5, <2>6 DEF RankStep
<1>7. CASE UNCHANGED dispatchVars
  BY <1>7, StepNone
<1> QED BY <1>1, <1>2, <1>3, <1>4, <1>5, <1>6, <1>7 DEF DispatchNext

\* The invariant of a call.
THEOREM DispatchIsSound == DispatchSpec => []DispatchInd
<1>1. DispatchInit => DispatchInd
  BY DispatchAssumption, IndInit
<1>2. DispatchInd /\ [DispatchNext]_dispatchVars => DispatchInd'
  BY DispatchAssumption, StepDispatch
<1> QED BY <1>1, <1>2, PTL DEF DispatchSpec

\* The caller gets the answer to its k-th row in k-th place, through padding,
\* balancing, groups, micro-batches of any order, and back.
THEOREM AnswersStayInOrder == DispatchSpec => []AnswersInOrder
<1>1. DispatchInd => AnswersInOrder
  BY DEF DispatchInd
<1> QED BY <1>1, DispatchIsSound, PTL

\* By tokens, no micro-batch is empty or much heavier than another.
LEMMA MicrosBalance ==
  ASSUME DispatchAssumption, DispatchInd
  PROVE  MicroBatchesBalance
<1>1. ASSUME NEW r \in AllRanks, call.dynamic, rank[r].plan # <<>>
      PROVE  Fair(rank[r], RowLengths(r))
  <2> DEFINE q == rank[r]
             t == Job
             w == PoolLens(t, r)
  <2>1. call.op # "none"
    <3>1. Idle.plan = <<>>
      BY DEF Idle
    <3> QED BY <1>1, <3>1 DEF DispatchInd
  <2>2. Dealt(t) /\ Takes(q, r, t) /\ r \in 0 .. t.ranks - 1 /\ t.dynamic = call.dynamic
        /\ t.lens = length
    BY <2>1 DEF DispatchInd, AtWork, Job, AllRanks, World
  <2> HIDE DEF t
  <2>3. t.op # "generate"
    BY <1>1, <2>2 DEF Dealt
  <2>4. q.pc # "gather"
    <3>1. Waiting(t, r).plan = <<>>
      BY DEF Waiting, Idle
    <3> QED BY <1>1, <2>2, <3>1 DEF Takes
  <2>5. q.rows = Pool(t, r) /\ Works(q, Portion(t), Pooled(t), t.dynamic, w)
    BY <2>2, <2>3, <2>4 DEF Takes
  <2>6. Fair(q, w)
    <3> HIDE DEF q, w
    <3>1. q.pc \in {"compute", "forward"}
      BY <1>1, <2>5 DEF Works, q
    <3> QED BY <1>1, <2>2, <2>5, <3>1 DEF Works, TakesTokens
  <2>7. RowLengths(r) = w
    BY <2>2, <2>5, PoolIs DEF RowLengths, PoolLens
  <2> QED BY <2>6, <2>7
<1>2. ASSUME NEW r \in AllRanks, call.dynamic
      PROVE  \A j, k \in DOMAIN rank[r].plan :
               /\ rank[r].plan[j] # <<>>
               /\ Tokens(ToSet(rank[r].plan[j]), RowLengths(r))
                    - Tokens(ToSet(rank[r].plan[k]), RowLengths(r)) <= Max(ToSet(rank[r].lens))
  <2>1. CASE rank[r].plan = <<>>
    BY <2>1
  <2>2. CASE rank[r].plan # <<>>
    BY <1>1, <1>2, <2>2 DEF Fair
  <2> QED BY <2>1, <2>2
<1> QED BY <1>2 DEF MicroBatchesBalance

\* Nobody carries much more than another.
THEOREM LoadsStayBalanced == DispatchSpec => []LoadsBalance
<1>1. DispatchInd => LoadsBalance
  BY DispatchAssumption, MicrosBalance DEF DispatchInd, LoadsBalance
<1> QED BY <1>1, DispatchIsSound, PTL

\* Row z of the caller's is computed once by the group it has gone to.
Multiplied(n, m, c) == n = m * c
AtPlace(z, j, x, c) == z = (j - 1) * c + x
Picks(f, rows, order, h, c) ==
  DOMAIN f = 1 .. c /\ \A k \in 1 .. c : f[k] = rows[(h - 1) * c + order[k]]
Counted(f, v) == Cardinality({k \in DOMAIN f : f[k] = v})

\* A group's ranks compute a row of the group once, and no row of another group.
LEMMA SeenOnce ==
  ASSUME NEW c \in Nat, NEW m \in Nat, NEW n, Multiplied(n, m, c), NEW rows, Permutes(rows, n),
         NEW z \in 1 .. n, NEW j \in 1 .. m, NEW x \in 1 .. c, AtPlace(z, j, x, c),
         NEW h \in 1 .. m, NEW order, Permutes(order, c),
         NEW f, Picks(f, rows, order, h, c)
  PROVE  Counted(f, rows[z]) = IF h = j THEN 1 ELSE 0
<1>0. DOMAIN f = 1 .. c /\ \A k \in 1 .. c : f[k] = rows[(h - 1) * c + order[k]]
  BY DEF Picks
<1>1. ASSUME NEW k \in 1 .. c PROVE f[k] = rows[z] <=> h = j /\ order[k] = x
  <2> DEFINE y == order[k]
             u == (h - 1) * c + y
  <2>1. y \in 1 .. c
    BY DEF Permutes
  <2>2. u \in 1 .. n
    BY <2>1, PiecesApart DEF Multiplied
  <2>3. u = z <=> h = j /\ y = x
    <3> HIDE DEF y
    <3>1. u = (j - 1) * c + x => h = j /\ y = x
      BY <2>1, PiecesApart
    <3> HIDE DEF u
    <3>2. h = j /\ y = x => u = (j - 1) * c + x
      BY DEF u
    <3> QED BY <3>1, <3>2 DEF AtPlace
  <2>4. f[k] = rows[u]
    BY <1>0
  <2>5. \A a, b \in 1 .. n : rows[a] = rows[b] => a = b
    BY DEF Permutes
  <2> HIDE DEF u, y
  <2>6. f[k] = rows[z] <=> u = z
    BY <2>2, <2>4, <2>5
  <2> QED BY <2>3, <2>6 DEF y
<1> DEFINE K == {k \in DOMAIN f : f[k] = rows[z]}
<1>2. CASE h = j
  <2>1. PICK k \in 1 .. c : order[k] = x
    BY DEF Permutes
  <2>2. K = {k}
    <3>1. \A y \in 1 .. c : order[y] = x => y = k
      BY <2>1 DEF Permutes
    <3> QED BY <1>0, <1>1, <1>2, <2>1, <3>1
  <2>3. Cardinality(K) = 1
    BY <2>2, FS_Singleton
  <2> QED BY <1>2, <2>3 DEF Counted
<1>3. CASE h # j
  <2>1. K = {}
    BY <1>0, <1>1, <1>3
  <2> QED BY <1>3, <2>1, FS_EmptySet DEF Counted
<1> QED BY <1>2, <1>3 DEF Counted

\* The rows of rank s among all: those of its group.
LEMMA SeenAre ==
  ASSUME DispatchAssumption, AtWork, NEW s \in AllRanks, rank[s].pc \in {"answer", "idle"},
         NEW t, t = Job, NEW c, c = Pooled(t)
  PROVE  /\ DOMAIN Seen(s) = 1 .. c /\ Permutes(rank[s].seen, c)
         /\ \A k \in 1 .. c :
              Seen(s)[k] = t.rows[(s \div t.group) * c + rank[s].seen[k]]
<1> DEFINE q == rank[s]
           o == q.seen
           rows == Pool(t, s)
           g == t.group
           l == Share(t)
           e == s \div g
           u == (g * e) * l
           v == e * c
<1>1. q.rows = rows /\ Finished(o, c, t.dynamic) /\ c \in Nat \ {0}
  BY AnswersAre
<1>2. Dealt(t) /\ s \in 0 .. t.ranks - 1
  BY DEF AtWork, AllRanks, Job, World
<1>3. \A x \in 1 .. c : rows[x] = t.rows[u + x]
  BY <1>2, PoolIs
<1>4. u = v /\ v \in Nat
  <2>1. g \in Nat \ {0} /\ l \in Nat /\ t.ranks \in Nat \ {0} /\ (t.ranks % g) = 0
    BY <1>2 DEF Dealt, Shaped
  <2>2. c = g * l
    BY DEF Pooled
  <2>3. e \in Nat
    <3>1. Grouped(s, t.ranks, g)
      BY <1>2, <2>1, GroupsFit
    <3> QED BY <2>1, <3>1 DEF Grouped
  <2> HIDE DEF g, l, e
  <2>4. (g * e) * l = e * (g * l) /\ e * (g * l) \in Nat
    BY <2>1, <2>3
  <2> QED BY <2>2, <2>4
<1> HIDE DEF rows, o, u, v
<1>5. Permutes(o, c) /\ DOMAIN o = 1 .. c /\ \A k \in 1 .. c : o[k] \in 1 .. c
  BY <1>1 DEF Finished, Permutes
<1>6. Seen(s) = [k \in DOMAIN o |-> rows[o[k]]]
  BY <1>1 DEF Seen, o
<1>7. \A k \in 1 .. c : Seen(s)[k] = t.rows[v + o[k]]
  BY <1>3, <1>4, <1>5, <1>6
<1> QED BY <1>5, <1>6, <1>7 DEF o, v

\* Every row is computed once, by the ranks of one group.
LEMMA RowsOnce ==
  ASSUME DispatchAssumption, DispatchInd
  PROVE  EveryRowOnce
<1> SUFFICES ASSUME result # <<>>, call.op # "generate", NEW i \in DOMAIN length
             PROVE  \E r \in AllRanks : \A s \in AllRanks :
                      Cardinality({k \in DOMAIN Seen(s) : Seen(s)[k] = i})
                        = IF s \in Group(r) THEN 1 ELSE 0
  BY DEF EveryRowOnce
<1> DEFINE t == Job
           w == t.ranks
           g == t.group
           l == Share(t)
           c == Pooled(t)
           m == w \div g
           n == Len(t.lens)
           rows == t.rows
<1>1. AtWork /\ \A s \in AllRanks : rank[s].pc = "idle"
  BY DEF DispatchInd, AtWork
<1>2. Dealt(t) /\ AllRanks = 0 .. w - 1 /\ t.op # "generate" /\ t.lens = length /\ g = shape[2]
  BY <1>1 DEF AtWork, AllRanks, Job, World
<1> HIDE DEF t
<1>3. /\ w \in Nat \ {0} /\ g \in Nat \ {0} /\ (w % g) = 0 /\ l \in Nat \ {0} /\ n \in Nat \ {0}
      /\ Permutes(rows, n) /\ Len(rows) = w * l /\ c = g * l
  BY <1>2 DEF Dealt, Shaped, Pooled
<1>4. i \in 1 .. n /\ Len(rows) = n
  <2>1. t.lens \in [1 .. n -> Nat \ {0}]
    BY <1>2 DEF Dealt, Lens
  <2>2. rows \in [1 .. n -> 1 .. n]
    BY <1>3 DEF Permutes
  <2> HIDE DEF n
  <2>3. Len(rows) = n
    BY <1>3, <2>2
  <2> QED BY <1>2, <2>1, <2>3
<1> HIDE DEF w, g, l, c, n, rows
<1>5. m \in Nat /\ w = g * m
  BY <1>3, Multiple
<1> HIDE DEF m
<1>6. c \in Nat /\ Multiplied(n, m, c)
  <2>1. (g * m) * l = m * (g * l) /\ g * l \in Nat
    BY <1>3, <1>5
  <2> QED BY <1>3, <1>4, <1>5, <2>1 DEF Multiplied
<1>7. PICK z \in 1 .. n : rows[z] = i
  BY <1>3, <1>4 DEF Permutes
<1>8. InPiece(z, m, c)
  BY <1>5, <1>6, PlaceIn DEF Multiplied
<1>9. PICK j \in 1 .. m : \E x \in 1 .. c : z = (j - 1) * c + x
  BY <1>8 DEF InPiece
<1>10. PICK x \in 1 .. c : AtPlace(z, j, x, c)
  BY <1>9 DEF AtPlace
<1> DEFINE e == j - 1
           r == g * e
<1>11. r \in AllRanks /\ r \div g = e
  <2>1. e \in Nat /\ e <= m - 1
    BY <1>5
  <2> HIDE DEF e
  <2>2. r \div g = e /\ r \in Nat
    BY <1>3, <2>1, Quotient
  <2>3. g * e <= g * (m - 1) /\ g * (m - 1) = g * m - g
    BY <1>3, <1>5, <2>1
  <2> DEFINE a == g * e
             b == g * m
  <2>4. a <= b - g /\ a \in Nat /\ w = b /\ r = a /\ r \div g = e
    BY <1>5, <2>2, <2>3
  <2> HIDE DEF a, b, r
  <2>5. r \in 0 .. w - 1
    BY <1>3, <2>4
  <2> QED BY <1>2, <2>4, <2>5
<1> HIDE DEF r
<1>12. ASSUME NEW s \in AllRanks
       PROVE  Cardinality({k \in DOMAIN Seen(s) : Seen(s)[k] = i})
                = IF s \in Group(r) THEN 1 ELSE 0
  <2> DEFINE f == Seen(s)
             o == rank[s].seen
             d == s \div g
             h == d + 1
  <2>1. /\ DOMAIN f = 1 .. c /\ Permutes(o, c)
        /\ \A k \in 1 .. c : f[k] = rows[d * c + o[k]]
    BY <1>1, SeenAre DEF c, g, rows, t
  <2>2. s \in Group(r) <=> h = j
    <3>1. s \in Group(r) <=> d = e
      BY <1>2, <1>11 DEF Group
    <3>2. d \in Int
      BY <1>2, <1>3, SMTT(60)
    <3> HIDE DEF d
    <3> QED BY <3>1, <3>2
  <2>3. h \in 1 .. m /\ h - 1 = d
    <3>1. Grouped(s, w, g)
      BY <1>2, <1>3, GroupsFit
    <3>2. d \in 0 .. m - 1
      BY <3>1 DEF Grouped, m
    <3> HIDE DEF d
    <3> QED BY <1>5, <3>2
  <2> HIDE DEF d, f, o, h
  <2>4. Picks(f, rows, o, h, c)
    BY <2>1, <2>3 DEF Picks
  <2>5. Counted(f, rows[z]) = IF h = j THEN 1 ELSE 0
    <3>1. /\ c \in Nat /\ m \in Nat /\ Multiplied(n, m, c) /\ Permutes(rows, n) /\ z \in 1 .. n
          /\ j \in 1 .. m /\ x \in 1 .. c /\ AtPlace(z, j, x, c) /\ h \in 1 .. m
          /\ Permutes(o, c) /\ Picks(f, rows, o, h, c)
      BY <1>3, <1>5, <1>6, <1>10, <2>1, <2>3, <2>4
    <3> QED BY ONLY <3>1, SeenOnce
  <2> QED BY <1>7, <2>2, <2>5 DEF f, Counted
<1> QED BY <1>11, <1>12

\* With a mean over rows, every row that was trained on has the same weight.
LEMMA RowsWeigh ==
  ASSUME DispatchAssumption, DispatchInd
  PROVE  RowsWeighTheSame
<1> SUFFICES ASSUME call.op = "update", call.mean = "rows", NEW r \in AllRanks,
                    NEW k \in DOMAIN rank[r].weights
             PROVE  rank[r].weights[k][1] * MiniBatch = rank[r].weights[k][2]
  BY DEF RowsWeighTheSame
<1>1. Takes(rank[r], r, Job) /\ Job.op = "update" /\ Job.mean = "rows"
  BY DEF DispatchInd, AtWork, Job
<1>2. CASE rank[r].pc = "gather"
  <2>1. rank[r].weights = <<>>
    BY <1>1, <1>2 DEF Takes, Waiting, Idle
  <2> QED BY <2>1
<1>3. CASE rank[r].pc # "gather"
  BY <1>1, <1>3 DEF Takes, Weighed
<1> QED BY <1>2, <1>3

\* With either mean, every micro-batch has the weight of its rows.
LEMMA PassesWeigh ==
  ASSUME DispatchAssumption, DispatchInd
  PROVE  PassesWeighTheirRows
<1> SUFFICES ASSUME call.op = "update", NEW r \in AllRanks, NEW i \in DOMAIN rank[r].plan
             PROVE  Scale(r, rank[r].plan[i])[1] * MiniBatch
                      = Scale(r, rank[r].plan[i])[2] * Len(rank[r].plan[i])
  BY DEF PassesWeighTheirRows
<1> DEFINE q == rank[r]
           c == Pooled(Job)
           b == Portion(Job)
           w == PoolLens(Job, r)
           micro == q.plan[i]
<1>1. Takes(q, r, Job) /\ Job.op = "update"
  BY DEF DispatchInd, AtWork, Job
<1>2. q.plan # <<>>
  <2>1. ~ \E x : x \in DOMAIN <<>>
    OBVIOUS
  <2> QED BY <2>1
<1>3. q.pc # "gather"
  <2>1. q.pc = "gather" => q.plan = <<>>
    BY <1>1 DEF Takes, Waiting, Idle
  <2> QED BY <1>2, <2>1
<1>4. Works(q, b, c, call.dynamic, w) /\ q.plan \in Seq(Seq(Nat))
  BY <1>1, <1>3 DEF Takes, Job, RankTypes
<1>5. i \in 1 .. Len(q.plan) /\ q.pc \in {"compute", "forward"}
  <2>1. i \in DOMAIN q.plan
    OBVIOUS
  <2> HIDE DEF q, b, c, w
  <2> QED BY <1>2, <1>4, <2>1, InSeq DEF Works
<1>5a. q \in RankTypes /\ Sized(b, c) /\ call.dynamic \in BOOLEAN
  <2>1. rank[r].pc # "idle" /\ rank[r].pc # "gather" /\ call.op # "generate"
    BY <1>5
  <2>2. Busy
    BY <2>1, BusyIs
  <2> QED BY <2>1, <2>2, AtIt
<1> HIDE DEF q, b, c, w
<1>6. micro \in Seq(Nat)
  <2> DEFINE l == q.plan
  <2>1. l \in Seq(Seq(Nat)) /\ i \in DOMAIN l
    BY <1>4 DEF q
  <2> HIDE DEF l
  <2>2. l[i] \in Seq(Nat)
    BY <2>1, InSeq
  <2> QED BY <2>2 DEF l
<1>7. call.dynamic \/ Len(micro) = MicroBatch
  <2> SUFFICES ASSUME ~ call.dynamic PROVE Len(micro) = MicroBatch
    OBVIOUS
  <2>1. Works(q, b, c, FALSE, w)
    BY <1>4, <1>5a
  <2> QED BY <1>5, <1>5a, <2>1, MicrosAreFull
<1> HIDE DEF micro
<1>8. Scale(r, micro)[1] * MiniBatch = Scale(r, micro)[2] * Len(micro)
  BY <1>6, <1>7, ScaleIs
<1> QED BY <1>8 DEF micro, q

\* A row counts once.  With a mean over rows it weighs like every other; with
\* either mean, micro-batches weigh as much as they have rows.
THEOREM RowsAlwaysCountAlike == DispatchSpec => []RowsCountAlike
<1>1. DispatchInd => RowsCountAlike
  BY DispatchAssumption, RowsOnce, RowsWeigh, PassesWeigh DEF RowsCountAlike
<1> QED BY <1>1, DispatchIsSound, PTL
=============================================================================
