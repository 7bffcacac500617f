----------------------------- MODULE Checkpoint -----------------------------
(***************************************************************************)
(* Saving and resuming a training run (ray_trainer.py, and the checkpoint  *)
(* managers of the worker ranks).                                          *)
(*                                                                         *)
(* The driver trains one batch a step.  At a step that is due it has every *)
(* rank of the actor's workers, then of the critic's, write its shard,     *)
(* then writes the dataloader's state, then overwrites the tracker file    *)
(* that a later launch reads to find where to resume.  The process may die *)
(* between any two of those writes and in the middle of any of them: the   *)
(* disk stays, everything else is gone.                                    *)
(*                                                                         *)
(* What is in a file is told by the launch that wrote it, for two launches *)
(* that reach the same step have different weights.                        *)
(***************************************************************************)
EXTENDS Integers, Sequences, FiniteSets, RewardSchedule

CONSTANTS
  Ranks,          \* worker ranks of one group
  UseCritic,
  Keep,           \* max_actor_ckpt_to_keep, max_critic_ckpt_to_keep; 0: null
  SaveFreq,
  EpochLen,       \* len(train_dataloader)
  TotalEpochs,
  TotalSteps,     \* total_training_steps
  ResumeModes,    \* the values of resume_mode an operator launches with
  MaxLaunches     \* bound on the launches of a behaviour

Parts == {"actor", "critic"}
Saved == IF UseCritic THEN Parts ELSE {"actor"}
Steps == 1 .. TotalSteps + MaxLaunches
Launches == 1 .. MaxLaunches

Absent == 0       \* no such file; as a step: none
Torn == -1        \* created or truncated, not yet written

ASSUME RanksAssumption == Ranks # {} /\ IsFiniteSet(Ranks)
ASSUME ConfigAssumption ==
  /\ UseCritic \in BOOLEAN
  /\ Keep \in [Parts -> Nat]
  /\ SaveFreq \in Nat \ {0}
  /\ EpochLen \in Nat \ {0}
  /\ TotalEpochs \in Nat \ {0}
  /\ TotalSteps \in Nat \ {0}
  /\ ResumeModes \subseteq {"auto", "disable", "resume_path"}
  /\ MaxLaunches \in Nat

VARIABLES
  shard,    \* shard[s][p][r]: rank r's file of part p in global_step_s
  data,     \* data[s]: data.pt of global_step_s, its writer and position
  folder,   \* the steps whose folder global_step_s exists
  tracker,  \* latest_checkpointed_iteration.txt
  phase,    \* what the driver is doing
  step,     \* global_steps
  epoch,    \* the epoch the environments were last told
  pos,      \* batches taken from the dataloader in its current pass
  part,     \* the worker group that is saving
  pc,       \* where each rank of that group is in save_checkpoint
  prev,     \* prev[p][r]: the rank's previous_saved_paths
  launch,   \* launches so far
  astray    \* history: some launch began elsewhere than the tracker says

disk == <<shard, data, folder, tracker>>
vars == <<shard, data, folder, tracker, phase, step, epoch, pos, part, pc,
          prev, launch, astray>>

NoData == [by |-> Absent, at |-> 0]
Idle == [r \in Ranks |-> "idle"]
NothingSaved == [p \in Parts |-> [r \in Ranks |-> <<>>]]

Init ==
  /\ shard = [s \in Steps |-> [p \in Parts |-> [r \in Ranks |-> Absent]]]
  /\ data = [s \in Steps |-> NoData]
  /\ folder = {}
  /\ tracker = Absent
  /\ phase = "down"
  /\ step = 0
  /\ epoch = 0
  /\ pos = 0
  /\ part = "actor"
  /\ pc = Idle
  /\ prev = NothingSaved
  /\ launch = 0
  /\ astray = FALSE

-----------------------------------------------------------------------------
(* Launching: fit() up to its loop, and _load_checkpoint.                  *)

\* find_latest_ckpt_path, of a tracker that can be parsed.
Latest == IF tracker \in folder THEN tracker ELSE Absent

\* torch.load raises on a missing and on a torn file; a missing data.pt is
\* only warned about.
Loadable(s) ==
  /\ \A p \in Saved, r \in Ranks : shard[s][p][r] \notin {Absent, Torn}
  /\ data[s].by # Torn

\* The folders a launch may be asked to resume from.
Targets(mode) ==
  IF mode = "resume_path" THEN folder
  ELSE {IF mode = "auto" THEN Latest ELSE Absent}

BugStartAfter(s) ==
  /\ phase' = "train"
  /\ step' = s
  /\ epoch' = 0
  /\ pos' = IF s = Absent \/ data[s].by = Absent THEN 0 ELSE data[s].at

\* A launch whose first step is s + 1: the loop over the epochs starts at 0
\* whatever the checkpoint's epoch was.
StartAfter(s) ==
  /\ phase' = "train"
  /\ step' = s + 1
  /\ epoch' = 0
  /\ pos' = IF s = Absent \/ data[s].by = Absent THEN 0 ELSE data[s].at

\* int() of an empty tracker raises, in every mode but "disable"; so does a
\* shard that cannot be read.
Fails(mode, s) ==
  \/ mode # "disable" /\ tracker = Torn
  \/ s # Absent /\ ~Loadable(s)

Launch ==
  /\ phase \in {"down", "over"}
  /\ launch < MaxLaunches
  /\ launch' = launch + 1
  /\ pc' = Idle
  /\ part' = "actor"
  /\ prev' = NothingSaved
  /\ \E mode \in ResumeModes : \E s \in Targets(mode) :
       /\ astray' = (astray \/ s # Latest)
       /\ IF Fails(mode, s)
          THEN phase' = "failed" /\ UNCHANGED <<step, epoch, pos>>
          ELSE StartAfter(s)
  /\ UNCHANGED disk

-----------------------------------------------------------------------------
(* The training loop.                                                      *)

IsLastStep == step >= TotalSteps
SaveIsDue == IsLastStep \/ step % SaveFreq = 0

\* The end of a step's body.
EndStep ==
  /\ step' = step + 1
  /\ phase' = IF IsLastStep THEN "over" ELSE "train"

TrainBatch ==
  /\ phase = "train"
  /\ pos < EpochLen
  /\ pos' = pos + 1
  /\ IF SaveIsDue
     THEN /\ phase' = "workers"
          /\ part' = "actor"
          /\ pc' = [r \in Ranks |-> "rotate"]
          /\ step' = step
     ELSE EndStep /\ UNCHANGED <<part, pc>>
  /\ UNCHANGED <<disk, epoch, prev, launch, astray>>

\* The dataloader is exhausted: the next epoch, if there is one.
NextEpoch ==
  /\ phase = "train"
  /\ pos = EpochLen
  /\ IF epoch + 1 < TotalEpochs
     THEN /\ epoch' = epoch + 1
          /\ pos' = 0
          /\ UNCHANGED phase
     ELSE phase' = "over" /\ UNCHANGED <<epoch, pos>>
  /\ UNCHANGED <<disk, step, part, pc, prev, launch, astray>>

-----------------------------------------------------------------------------
(* save_checkpoint on rank r of the group that is saving.                  *)

BugExcessAll(p, r) ==
  LET n == Len(prev[p][r])
  IN  IF Keep[p] > 0 /\ n >= Keep[p] THEN n ELSE 0

BugExcessLess(p, r) ==
  LET n == Len(prev[p][r])
  IN  IF Keep[p] > 0 /\ n > Keep[p] THEN n - Keep[p] ELSE 0

\* How many of the previous paths go before a new one is written.
Excess(p, r) ==
  LET n == Len(prev[p][r])
  IN  IF Keep[p] > 0 /\ n >= Keep[p] THEN n - Keep[p] + 1 ELSE 0

Removed(p, r) == {prev[p][r][i] : i \in 1 .. Excess(p, r)}

Rotate(r) ==
  /\ phase = "workers"
  /\ pc[r] = "rotate"
  /\ shard' = [s \in Steps |->
                 IF s \in Removed(part, r)
                 THEN [shard[s] EXCEPT ![part] = [q \in Ranks |-> Absent]]
                 ELSE shard[s]]
  /\ prev' = [prev EXCEPT ![part][r] =
                SubSeq(@, Excess(part, r) + 1, Len(@))]
  /\ folder' = folder \union {step}
  /\ pc' = [pc EXCEPT ![r] = "barrier"]
  /\ UNCHANGED <<data, tracker, phase, step, epoch, pos, part, launch, astray>>

BugAllRotated == \A q \in Ranks : pc[q] = "barrier"

\* torch.distributed.barrier(): no rank writes before all have removed.
AllRotated == \A q \in Ranks : pc[q] # "rotate"

OpenShard(r) ==
  /\ phase = "workers"
  /\ pc[r] = "barrier"
  /\ AllRotated
  /\ shard' = [shard EXCEPT ![step][part][r] = Torn]
  /\ pc' = [pc EXCEPT ![r] = "writing"]
  /\ UNCHANGED <<data, folder, tracker, phase, step, epoch, pos, part, prev,
                 launch, astray>>

WriteShard(r) ==
  /\ phase = "workers"
  /\ pc[r] = "writing"
  /\ shard' = [shard EXCEPT ![step][part][r] = launch]
  /\ pc' = [pc EXCEPT ![r] = "written"]
  /\ UNCHANGED <<data, folder, tracker, phase, step, epoch, pos, part, prev,
                 launch, astray>>

BugAllWritten == \E q \in Ranks : pc[q] = "written"

AllWritten == \A q \in Ranks : pc[q] = "written"

\* Behind the second barrier every rank notes the path, and the call returns.
WorkersReturn ==
  /\ phase = "workers"
  /\ AllWritten
  /\ prev' = [prev EXCEPT ![part] = [r \in Ranks |-> Append(@[r], step)]]
  /\ IF part = "actor" /\ UseCritic
     THEN /\ part' = "critic"
          /\ pc' = [r \in Ranks |-> "rotate"]
          /\ UNCHANGED phase
     ELSE /\ phase' = "data"
          /\ pc' = Idle
          /\ UNCHANGED part
  /\ UNCHANGED <<disk, step, epoch, pos, launch, astray>>

-----------------------------------------------------------------------------
(* The driver's own two files.                                             *)

OpenData ==
  /\ phase = "data"
  /\ data' = [data EXCEPT ![step] = [by |-> Torn, at |-> 0]]
  /\ phase' = "data open"
  /\ UNCHANGED <<shard, folder, tracker, step, epoch, pos, part, pc, prev,
                 launch, astray>>

WriteData ==
  /\ phase = "data open"
  /\ data' = [data EXCEPT ![step] = [by |-> launch, at |-> pos]]
  /\ phase' = "tracker"
  /\ UNCHANGED <<shard, folder, tracker, step, epoch, pos, part, pc, prev,
                 launch, astray>>

\* open(..., "w") truncates before f.write fills.
OpenTracker ==
  /\ phase = "tracker"
  /\ tracker' = Torn
  /\ phase' = "tracker open"
  /\ UNCHANGED <<shard, data, folder, step, epoch, pos, part, pc, prev,
                 launch, astray>>

WriteTracker ==
  /\ phase = "tracker open"
  /\ tracker' = step
  /\ EndStep
  /\ UNCHANGED <<shard, data, folder, epoch, pos, part, pc, prev, launch,
                 astray>>

-----------------------------------------------------------------------------
\* The process dies, all its workers with it.  Also how a launch that could
\* not load ends.
Crash ==
  /\ phase \notin {"down", "over"}
  /\ phase' = "down"
  /\ step' = 0
  /\ epoch' = 0
  /\ pos' = 0
  /\ part' = "actor"
  /\ pc' = Idle
  /\ prev' = NothingSaved
  /\ UNCHANGED <<disk, launch, astray>>

Driver ==
  \/ TrainBatch
  \/ NextEpoch
  \/ WorkersReturn
  \/ OpenData
  \/ WriteData
  \/ OpenTracker
  \/ WriteTracker

Worker(r) == Rotate(r) \/ OpenShard(r) \/ WriteShard(r)

\* Nothing is left to do once the last launch is over or dead.
Rest == phase \in {"down", "over"} /\ launch = MaxLaunches /\ UNCHANGED vars

Next == Launch \/ Crash \/ Driver \/ (\E r \in Ranks : Worker(r)) \/ Rest

Spec == Init /\ [][Next]_vars

\* A process that is not killed keeps running; nobody promises a launch.
FairSpec ==
  Spec /\ WF_vars(Driver) /\ \A r \in Ranks : WF_vars(Worker(r))

-----------------------------------------------------------------------------
(* Properties.                                                             *)

\* Every file of step s is there and one launch wrote them all.
Whole(s) ==
  /\ s \in folder
  /\ \E l \in Launches :
       /\ \A p \in Saved, r \in Ranks : shard[s][p][r] = l
       /\ data[s].by = l

Phases == {"down", "failed", "train", "workers", "data", "data open",
           "tracker", "tracker open", "over"}

DiskOK ==
  /\ shard \in [Steps -> [Parts -> [Ranks -> Launches \union {Absent, Torn}]]]
  /\ data \in [Steps -> [by : Launches \union {Absent, Torn},
                         at : 0 .. EpochLen]]
  /\ folder \subseteq Steps
  /\ tracker \in Steps \union {Absent, Torn}

CountersOK ==
  /\ step \in 0 .. TotalSteps + MaxLaunches + 1
  /\ epoch \in 0 .. TotalEpochs - 1
  /\ pos \in 0 .. EpochLen
  /\ launch \in 0 .. MaxLaunches

ControlOK ==
  /\ phase \in Phases
  /\ part \in Parts
  /\ astray \in BOOLEAN

WorkersOK ==
  /\ pc \in [Ranks -> {"idle", "rotate", "barrier", "writing", "written"}]
  /\ prev \in [Parts -> [Ranks -> Seq(Steps)]]

(* The values the files and the program's memory can have. *)
TypeOK == DiskOK /\ CountersOK /\ ControlOK /\ WorkersOK

(* What the tracker names is a whole checkpoint of one launch at every     *)
(* moment, and so wherever a crash falls: the tracker is written after     *)
(* everything it vouches for (ray_trainer.py:1047-1062) and rotation spares *)
(* the last save while the next is incomplete                              *)
(* (fsdp_checkpoint_manager.py:154-157).                                   *)
TrackedIsWhole == ~astray /\ tracker \in Steps => Whole(tracker)

(* A launch that resumes where the tracker says can only fail on a tracker *)
(* that a crash left empty between open and write.                         *)
FailsOnlyOnTornTracker == ~astray /\ phase = "failed" => tracker = Torn

(* However often the run was killed and resumed, step k trains on the k-th *)
(* batch of the schedule: the dataloader's position and global_steps come  *)
(* back together (ray_trainer.py:1093, 1107-1111).                         *)
BatchesInOrder ==
  ~astray /\ phase = "train" => pos % EpochLen = (step - 1) % EpochLen

(* One launch never has more than max_ckpt_to_keep checkpoints of its own  *)
(* on disk, the one being written included                                 *)
(* (fsdp_checkpoint_manager.py:139, 154-157).                              *)
KeptWithinLimit ==
  \A p \in Saved :
    phase \notin {"down", "failed"} /\ Keep[p] > 0 =>
      Cardinality({s \in Steps : \E r \in Ranks :
                     \/ shard[s][p][r] = launch
                     \/ s = step /\ p = part /\ pc[r] = "writing"}) <= Keep[p]

(* A run that ends by itself has saved the weights of its last step: the   *)
(* epochs left after a resume, counted from 0 again, hold enough batches.  *)
FinishedIsSaved == ~astray /\ phase = "over" => tracker >= TotalSteps

(* A batch is played with the belief-reward weight of its own epoch as long *)
(* as nothing was resumed; a resumed launch counts its epochs from 0        *)
(* (ray_trainer.py:1168-1172), so that it is behind the run, never ahead:   *)
(* once warm, beliefs count at least as much as the schedule says, and a    *)
(* resume may warm up again.                                                *)
WeightsLag ==
  ~astray /\ phase = "train" /\ pos < EpochLen =>
    LET due == (step - 1) \div EpochLen
    IN  /\ epoch <= due
        /\ launch = 1 => epoch = due
        /\ epoch >= Warmup => \A rate \in Rates \cup {NoRate} :
                               Weight(due, rate) <= Weight(epoch, rate)

(* Neither the order of the batches nor the end of the schedule is lost,   *)
(* and its weights come late, never early.                                 *)
ScheduleSurvives == BatchesInOrder /\ FinishedIsSaved /\ WeightsLag

(* A launch that is not killed ends: no rank waits at a barrier for ever.  *)
LaunchEnds == phase = "train" ~> phase \in {"down", "over"}
=============================================================================
