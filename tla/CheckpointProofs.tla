-------------------------- MODULE CheckpointProofs --------------------------
(***************************************************************************)
(* For any number of ranks, launches and steps: whatever moments the run   *)
(* is killed at, the tracker names a whole checkpoint, unless rotation     *)
(* keeps a single one, and a launch keeps no more of its own checkpoints   *)
(* than it was told to.  From there the schedule of batches across crashes *)
(* and resumes: step k trains on the k-th batch, a run that ends has saved *)
(* its last step, and the epoch that sets the weight of the belief rewards *)
(* is never ahead of the batches.                                          *)
(***************************************************************************)
EXTENDS Checkpoint, SequenceTheorems, FiniteSetTheorems, TLAPS

Running == phase \notin {"down", "over", "failed"}
Driving == {"data", "data open", "tracker", "tracker open"}

\* Part p has not yet been saved at this step.
Pending(p) == phase = "workers" /\ (p = part \/ part = "actor")

Early(p) == phase = "train" \/ Pending(p)

\* The counters stay within what the launches so far allow.
Bounded ==
  /\ folder \subseteq 1 .. TotalSteps + launch
  /\ Running => step \in 1 .. TotalSteps + launch
  /\ phase = "over" => step \in 1 .. TotalSteps + launch + 1
  /\ phase # "down" => launch \in Launches

\* A launch that went by the tracker works on later steps than its own.
Ahead == ~astray /\ Running => tracker < step

\* The paths a rank remembers are those of earlier steps, and rotation's
\* last one is the only one that can be the tracker's.
Remembered ==
  \A p \in Parts, r \in Ranks : \A i \in DOMAIN prev[p][r] :
    Running =>
      /\ prev[p][r][i] <= step
      /\ i < Len(prev[p][r]) => prev[p][r][i] < step
      /\ Early(p) => prev[p][r][i] < step
      /\ Early(p) /\ i < Len(prev[p][r]) => prev[p][r][i] # tracker

\* What this step's save has put on disk so far.
Progress ==
  /\ phase = "workers" =>
       /\ part \in Saved
       /\ \A r \in Ranks :
            /\ pc[r] # "idle"
            /\ pc[r] # "rotate" => step \in folder
            /\ pc[r] = "written" => shard[step][part][r] = launch
       /\ part = "critic" => /\ step \in folder
                             /\ \A r \in Ranks : shard[step]["actor"][r] = launch
  /\ phase \in Driving =>
       /\ step \in folder
       /\ \A p \in Saved, r \in Ranks : shard[step][p][r] = launch
  /\ phase \in {"tracker", "tracker open"} => data[step].by = launch

IInv ==
  /\ TypeOK
  /\ Bounded
  /\ Ahead
  /\ Remembered
  /\ Progress
  /\ TrackedIsWhole
  /\ FailsOnlyOnTornTracker

-----------------------------------------------------------------------------
(* Every value keeps its type, and the counters their bounds.              *)

LEMMA Numbers ==
  /\ TotalSteps \in Nat \ {0} /\ MaxLaunches \in Nat
  /\ EpochLen \in Nat \ {0} /\ TotalEpochs \in Nat \ {0}
  /\ Absent = 0 /\ Torn = -1
  /\ Absent \notin Steps /\ Torn \notin Steps
  /\ Steps = 1 .. TotalSteps + MaxLaunches /\ Launches = 1 .. MaxLaunches
  BY ConfigAssumption DEF Steps, Launches, Absent, Torn

LEMMA TypeInit == Init => TypeOK /\ Bounded
<1> SUFFICES ASSUME Init PROVE TypeOK /\ Bounded
  OBVIOUS
<1>1. WorkersOK
  BY DEF Init, NothingSaved, Idle, WorkersOK
<1>2. DiskOK
  BY Numbers DEF Init, NoData, DiskOK
<1>3. CountersOK
  BY Numbers DEF Init, CountersOK
<1>4. ControlOK
  BY DEF Init, ControlOK, Phases, Parts
<1>5. folder = {} /\ phase = "down"
  BY DEF Init
<1> QED BY <1>1, <1>2, <1>3, <1>4, <1>5 DEF TypeOK, Bounded, Running

LEMMA Counters ==
  ASSUME TypeOK
  PROVE  /\ launch \in Int /\ 0 <= launch /\ launch <= MaxLaunches
         /\ step \in Int /\ epoch \in Int /\ pos \in Int
         /\ 0 <= step /\ step <= TotalSteps + MaxLaunches + 1
         /\ 0 <= epoch /\ epoch <= TotalEpochs - 1
         /\ 0 <= pos /\ pos <= EpochLen
         /\ tracker \in Int /\ part \in Parts
<1>1. tracker \in Int
  BY Numbers DEF TypeOK, DiskOK
<1>2. part \in Parts
  BY DEF TypeOK, ControlOK
<1> QED BY Numbers, <1>1, <1>2 DEF TypeOK, CountersOK

\* While a launch runs, its step and number are within their bounds.
LEMMA InRange ==
  ASSUME TypeOK, Bounded, Running
  PROVE  /\ launch \in Launches
         /\ step \in 1 .. TotalSteps + launch
         /\ step \in Steps
<1>1. launch \in Launches /\ step \in 1 .. TotalSteps + launch
  BY DEF Running, Bounded
<1> QED BY <1>1, Numbers

LEMMA LaunchType ==
  ASSUME TypeOK, Bounded, Launch
  PROVE  TypeOK' /\ Bounded'
<1>1. launch' = launch + 1 /\ launch \in Int /\ launch' \in Launches
      /\ launch' \in 0 .. MaxLaunches
  BY Counters, Numbers DEF Launch
<1>2. WorkersOK' /\ part' \in Parts
  BY DEF Launch, WorkersOK, Idle, NothingSaved, Parts
<1>3. DiskOK' /\ folder' = folder
  BY DEF Launch, disk, TypeOK, DiskOK
<1>a. PICK mode \in ResumeModes : \E s \in Targets(mode) :
        /\ astray' = (astray \/ s # Latest)
        /\ IF Fails(mode, s)
           THEN phase' = "failed" /\ UNCHANGED <<step, epoch, pos>>
           ELSE StartAfter(s)
  BY DEF Launch
<1>4. PICK s \in Targets(mode) :
        /\ astray' = (astray \/ s # Latest)
        /\ IF Fails(mode, s)
           THEN phase' = "failed" /\ UNCHANGED <<step, epoch, pos>>
           ELSE StartAfter(s)
  BY <1>a
<1>5. s = Absent \/ s \in folder
  BY DEF Targets, Latest
<1>6. s \in Int /\ 0 <= s /\ s <= TotalSteps + launch /\ (s = Absent \/ s \in Steps)
  <2>1. folder \subseteq 1 .. TotalSteps + launch
    BY DEF Bounded
  <2>2. folder \subseteq Steps
    BY DEF TypeOK, DiskOK
  <2>3. CASE s = Absent
    BY <2>3, Counters, Numbers
  <2>4. CASE s \in folder
    <3>1. s \in 1 .. TotalSteps + launch /\ s \in Steps
      BY <2>1, <2>2, <2>4
    <3> QED BY <3>1, Counters, Numbers
  <2> QED BY <1>5, <2>3, <2>4
<1>7. astray' \in BOOLEAN
  BY <1>4 DEF TypeOK, ControlOK
<1>8. folder' \subseteq 1 .. TotalSteps + launch'
  <2>1. folder \subseteq 1 .. TotalSteps + launch
    BY DEF Bounded
  <2>2. TotalSteps + launch <= TotalSteps + launch' /\ TotalSteps \in Int
    BY <1>1, Numbers
  <2> QED BY <1>1, <1>3, <2>1, <2>2
<1>9. CASE Fails(mode, s)
  <2>1. phase' = "failed" /\ UNCHANGED <<step, epoch, pos>>
    BY <1>4, <1>9
  <2>2. ControlOK'
    BY <1>2, <1>7, <2>1 DEF ControlOK, Phases
  <2>3. CountersOK'
    BY <1>1, <2>1 DEF TypeOK, CountersOK
  <2> QED BY <1>1, <1>2, <1>3, <1>8, <2>1, <2>2, <2>3 DEF TypeOK, Bounded, Running
<1>10. CASE ~Fails(mode, s)
  <2>1. phase' = "train" /\ step' = s + 1 /\ epoch' = 0
        /\ pos' = IF s = Absent \/ data[s].by = Absent THEN 0 ELSE data[s].at
    BY <1>4, <1>10 DEF StartAfter
  <2>2. pos' \in 0 .. EpochLen
    BY <2>1, <1>6, Numbers DEF TypeOK, DiskOK
  <2>3. step' \in 1 .. TotalSteps + launch'
        /\ step' \in 0 .. TotalSteps + MaxLaunches + 1
    BY <2>1, <1>6, <1>1, Numbers
  <2>4. CountersOK'
    BY <1>1, <2>1, <2>2, <2>3, Numbers DEF CountersOK
  <2>5. ControlOK'
    BY <1>2, <1>7, <2>1 DEF ControlOK, Phases
  <2> QED
    BY <1>1, <1>2, <1>3, <1>8, <2>1, <2>3, <2>4, <2>5 DEF TypeOK, Bounded, Running
<1> QED BY <1>9, <1>10

LEMMA TrainType ==
  ASSUME TypeOK, Bounded, TrainBatch
  PROVE  TypeOK' /\ Bounded'
<1>1. Running
  BY DEF TrainBatch, Running
<1>2. launch \in Launches /\ launch' = launch /\ step \in 1 .. TotalSteps + launch
  BY <1>1, InRange DEF TrainBatch
<1>3. DiskOK' /\ folder' = folder
  BY DEF TrainBatch, disk, TypeOK, DiskOK
<1>4. epoch' = epoch /\ pos' \in 0 .. EpochLen
  BY Counters, Numbers DEF TrainBatch
<1>5. step' \in 1 .. TotalSteps + launch /\ phase' \in {"workers", "train"}
      /\ WorkersOK' /\ ControlOK'
  <2>1. CASE SaveIsDue
    <3>1. pc' \in [Ranks -> {"idle", "rotate", "barrier", "writing", "written"}]
          /\ prev' = prev
      BY <2>1 DEF TrainBatch
    <3> QED
      BY <1>2, <2>1, <3>1
      DEF TrainBatch, TypeOK, WorkersOK, ControlOK, Phases, Parts
  <2>2. CASE ~SaveIsDue
    <3>1. step < TotalSteps /\ step' = step + 1 /\ phase' = "train"
      BY <2>2, Counters, Numbers
      DEF TrainBatch, SaveIsDue, EndStep, IsLastStep
    <3>2. step' \in 1 .. TotalSteps + launch
      BY <3>1, <1>2, Counters, Numbers
    <3> QED
      BY <2>2, <3>1, <3>2 DEF TrainBatch, TypeOK, WorkersOK, ControlOK, Phases
  <2> QED BY <2>1, <2>2
<1>6. CountersOK'
  BY <1>2, <1>4, <1>5, Counters, Numbers DEF TypeOK, CountersOK
<1> QED BY <1>2, <1>3, <1>5, <1>6 DEF TypeOK, Bounded, Running

LEMMA EpochType ==
  ASSUME TypeOK, Bounded, NextEpoch
  PROVE  TypeOK' /\ Bounded'
<1>1. Running
  BY DEF NextEpoch, Running
<1>2. launch \in Launches /\ launch' = launch /\ step' = step
      /\ step \in 1 .. TotalSteps + launch
  BY <1>1, InRange DEF NextEpoch
<1>3. DiskOK' /\ folder' = folder
  BY DEF NextEpoch, disk, TypeOK, DiskOK
<1>4. WorkersOK' /\ phase' \in {"train", "over"}
  BY DEF NextEpoch, TypeOK, WorkersOK
<1>5. ControlOK'
  BY <1>4 DEF NextEpoch, TypeOK, ControlOK, Phases
<1>6. epoch' \in 0 .. TotalEpochs - 1 /\ pos' \in 0 .. EpochLen
  BY Counters, Numbers DEF NextEpoch
<1>7. CountersOK'
  BY <1>2, <1>6 DEF TypeOK, CountersOK
<1>8. step \in 1 .. TotalSteps + launch + 1
  BY <1>2, Counters, Numbers
<1> QED
  BY <1>2, <1>3, <1>4, <1>5, <1>7, <1>8 DEF TypeOK, Bounded, Running

LEMMA WorkerType ==
  ASSUME NEW r \in Ranks, TypeOK, Bounded, Worker(r)
  PROVE  TypeOK' /\ Bounded'
<1>1. phase = "workers" /\ phase' = "workers"
      /\ UNCHANGED <<data, tracker, step, epoch, pos, part, launch, astray>>
  BY DEF Worker, Rotate, OpenShard, WriteShard
<1>2. launch \in Launches /\ step \in 1 .. TotalSteps + launch /\ step \in Steps
  BY <1>1, InRange DEF Running
<1>3. CountersOK' /\ ControlOK'
  BY <1>1 DEF TypeOK, CountersOK, ControlOK
<1>4. part \in Parts
  BY Counters
<1>5. shard' \in [Steps -> [Parts -> [Ranks -> Launches \union {Absent, Torn}]]]
  <2>1. CASE Rotate(r)
    BY <1>4, <2>1 DEF Rotate, TypeOK, DiskOK
  <2>2. CASE OpenShard(r)
    BY <1>2, <1>4, <2>2 DEF OpenShard, TypeOK, DiskOK
  <2>3. CASE WriteShard(r)
    BY <1>2, <1>4, <2>3 DEF WriteShard, TypeOK, DiskOK
  <2> QED BY <2>1, <2>2, <2>3 DEF Worker
<1>6. folder' \in {folder, folder \union {step}}
  BY DEF Worker, Rotate, OpenShard, WriteShard
<1>7. pc' \in [Ranks -> {"idle", "rotate", "barrier", "writing", "written"}]
  BY DEF Worker, Rotate, OpenShard, WriteShard, TypeOK, WorkersOK
<1>8. prev' \in [Parts -> [Ranks -> Seq(Steps)]]
  <2>1. CASE Rotate(r)
    <3>1. prev[part][r] \in Seq(Steps)
      BY <1>4 DEF TypeOK, WorkersOK
    <3>2. Excess(part, r) \in Nat
      BY <1>4, <3>1, ConfigAssumption DEF Excess
    <3>3. SubSeq(prev[part][r], Excess(part, r) + 1, Len(prev[part][r]))
            \in Seq(Steps)
      BY <3>1, <3>2
    <3> QED BY <1>4, <2>1, <3>3 DEF Rotate, TypeOK, WorkersOK
  <2>2. CASE OpenShard(r) \/ WriteShard(r)
    BY <2>2 DEF OpenShard, WriteShard, TypeOK, WorkersOK
  <2> QED BY <2>1, <2>2 DEF Worker
<1>9. DiskOK'
  BY <1>1, <1>2, <1>5, <1>6 DEF TypeOK, DiskOK
<1>10. folder' \subseteq 1 .. TotalSteps + launch
  BY <1>2, <1>6 DEF Bounded
<1> QED
  BY <1>1, <1>2, <1>3, <1>7, <1>8, <1>9, <1>10
  DEF TypeOK, WorkersOK, Bounded, Running

LEMMA ReturnType ==
  ASSUME TypeOK, Bounded, WorkersReturn
  PROVE  TypeOK' /\ Bounded'
<1>1. phase = "workers" /\ phase' \in {"workers", "data"} /\ part' \in Parts
      /\ UNCHANGED <<shard, data, folder, tracker, step, epoch, pos, launch, astray>>
  BY Counters DEF WorkersReturn, disk, Parts
<1>2. launch \in Launches /\ step \in 1 .. TotalSteps + launch /\ step \in Steps
  BY <1>1, InRange DEF Running
<1>3. prev' \in [Parts -> [Ranks -> Seq(Steps)]]
  <2>1. part \in Parts
    BY Counters
  <2>2. \A r \in Ranks : Append(prev[part][r], step) \in Seq(Steps)
    BY <1>2, <2>1 DEF TypeOK, WorkersOK
  <2> QED BY <2>1, <2>2 DEF WorkersReturn, TypeOK, WorkersOK
<1>4. pc' \in [Ranks -> {"idle", "rotate", "barrier", "writing", "written"}]
  BY DEF WorkersReturn, Idle
<1>5. DiskOK' /\ CountersOK'
  BY <1>1 DEF TypeOK, DiskOK, CountersOK
<1>6. ControlOK'
  BY <1>1 DEF TypeOK, ControlOK, Phases
<1> QED
  BY <1>1, <1>2, <1>3, <1>4, <1>5, <1>6 DEF TypeOK, WorkersOK, Bounded, Running

LEMMA DriverType ==
  ASSUME TypeOK, Bounded, OpenData \/ WriteData \/ OpenTracker \/ WriteTracker
  PROVE  TypeOK' /\ Bounded'
<1>1. Running /\ UNCHANGED <<shard, folder, epoch, pos, part, pc, prev, launch, astray>>
  BY DEF OpenData, WriteData, OpenTracker, WriteTracker, Running
<1>2. launch \in Launches /\ step \in 1 .. TotalSteps + launch /\ step \in Steps
  BY <1>1, InRange
<1>a. /\ step \in Int /\ 1 <= step /\ step <= TotalSteps + launch
      /\ launch \in Int /\ 1 <= launch /\ launch <= MaxLaunches
      /\ TotalSteps \in Int /\ MaxLaunches \in Int
  BY <1>2, Numbers
<1>3. \/ /\ step' = step
         /\ phase' \in {"data open", "tracker", "tracker open"}
      \/ /\ step' = step + 1
         /\ phase' = IF step >= TotalSteps THEN "over" ELSE "train"
  BY DEF OpenData, WriteData, OpenTracker, WriteTracker, EndStep, IsLastStep
<1>c. step' \in Int /\ 1 <= step' /\ step' <= TotalSteps + launch + 1
  <2>1. step' = step \/ step' = step + 1
    BY <1>3
  <2> QED BY <1>a, <2>1
<1>d. phase' # "over" => step' <= TotalSteps + launch
  <2>1. phase' # "over" => step' = step \/ (step' = step + 1 /\ ~(step >= TotalSteps))
    BY <1>3
  <2> QED BY <1>a, <2>1
<1>e. phase' \in {"data open", "tracker", "tracker open", "train", "over"}
  BY <1>3
<1>4. CountersOK'
  <2>1. step' \in 0 .. TotalSteps + MaxLaunches + 1
    BY <1>a, <1>c
  <2> QED BY <1>1, <2>1 DEF TypeOK, CountersOK
<1>5. ControlOK' /\ WorkersOK'
  BY <1>1, <1>e DEF TypeOK, ControlOK, WorkersOK, Phases
<1>6. data' \in [Steps -> [by : Launches \union {Absent, Torn}, at : 0 .. EpochLen]]
  <2>1. CASE OpenData
    <3>1. [by |-> Torn, at |-> 0]
            \in [by : Launches \union {Absent, Torn}, at : 0 .. EpochLen]
      BY Numbers
    <3> QED BY <1>2, <2>1, <3>1 DEF OpenData, TypeOK, DiskOK
  <2>2. CASE WriteData
    <3>1. [by |-> launch, at |-> pos]
            \in [by : Launches \union {Absent, Torn}, at : 0 .. EpochLen]
      BY <1>2, Counters, Numbers
    <3> QED BY <1>2, <2>2, <3>1 DEF WriteData, TypeOK, DiskOK
  <2>3. CASE OpenTracker \/ WriteTracker
    BY <2>3 DEF OpenTracker, WriteTracker, TypeOK, DiskOK
  <2> QED BY <2>1, <2>2, <2>3
<1>7. tracker' \in Steps \union {Absent, Torn}
  BY <1>2 DEF OpenData, WriteData, OpenTracker, WriteTracker, TypeOK, DiskOK
<1>8. DiskOK'
  BY <1>1, <1>6, <1>7 DEF TypeOK, DiskOK
<1>9. Bounded'
  <2>1. phase' # "over" => step' \in 1 .. TotalSteps + launch
    BY <1>a, <1>c, <1>d
  <2>2. step' \in 1 .. TotalSteps + launch + 1
    BY <1>a, <1>c
  <2> QED BY <1>1, <1>2, <1>e, <2>1, <2>2 DEF Bounded, Running
<1> QED BY <1>4, <1>5, <1>8, <1>9 DEF TypeOK

LEMMA CrashType ==
  ASSUME TypeOK, Bounded, Crash
  PROVE  TypeOK' /\ Bounded'
<1>1. DiskOK' /\ folder' = folder /\ launch' = launch /\ phase' = "down"
  BY DEF Crash, disk, TypeOK, DiskOK
<1>2. CountersOK'
  BY Numbers DEF Crash, TypeOK, CountersOK
<1>3. ControlOK'
  BY DEF Crash, TypeOK, ControlOK, Phases, Parts
<1>4. WorkersOK'
  BY DEF Crash, WorkersOK, Idle, NothingSaved
<1> QED BY <1>1, <1>2, <1>3, <1>4 DEF TypeOK, Bounded, Running

LEMMA StutterType ==
  ASSUME TypeOK, Bounded, UNCHANGED vars
  PROVE  TypeOK' /\ Bounded'
<1>1. DiskOK' /\ CountersOK' /\ ControlOK' /\ WorkersOK'
  BY DEF vars, TypeOK, DiskOK, CountersOK, ControlOK, WorkersOK
<1> QED BY <1>1 DEF vars, TypeOK, Bounded, Running

LEMMA NextType == TypeOK /\ Bounded /\ [Next]_vars => TypeOK' /\ Bounded'
  BY LaunchType, TrainType, EpochType, WorkerType, ReturnType, DriverType,
     CrashType, StutterType
  DEF Next, Driver, Rest

\* The files and the memory of every reachable state have their types, and
\* no counter leaves its range however often the run is relaunched.
THEOREM TypeCorrect == Spec => []TypeOK
<1>1. TypeOK /\ Bounded /\ [Next]_vars => (TypeOK /\ Bounded)'
  BY NextType
<1> QED BY TypeInit, <1>1, PTL DEF Spec

-----------------------------------------------------------------------------
(* The tracker's checkpoint survives every step.                           *)

\* More than one checkpoint is kept, or rotation is off.
KeepsOlder == \A p \in Parts : Keep[p] # 1

\* A file that no step touches keeps its checkpoint whole.
LEMMA WholeStays ==
  ASSUME NEW s, Whole(s), folder \subseteq folder',
         shard'[s] = shard[s], data'[s] = data[s]
  PROVE  /\ s \in folder'
         /\ \E l \in Launches :
              /\ \A p \in Saved, r \in Ranks : shard'[s][p][r] = l
              /\ data'[s].by = l
  BY DEF Whole

\* Rotation removes neither this step's folder nor the tracker's.
LEMMA RotationSpares ==
  ASSUME IInv, KeepsOlder, NEW r \in Ranks, Rotate(r)
  PROVE  step \notin Removed(part, r) /\ tracker \notin Removed(part, r)
<1> DEFINE q == prev[part][r]
<1>1. part \in Parts /\ phase = "workers"
  BY Counters DEF IInv, Rotate
<1>2. q \in Seq(Steps) /\ Len(q) \in Nat /\ DOMAIN q = 1 .. Len(q)
  BY <1>1 DEF IInv, TypeOK, WorkersOK
<1>3. Keep[part] \in Nat /\ Keep[part] # 1
  BY <1>1, ConfigAssumption DEF KeepsOlder
<1>4. Excess(part, r) \in Int /\ 0 <= Excess(part, r)
      /\ (Excess(part, r) = 0 \/ Excess(part, r) < Len(q))
  BY <1>2, <1>3 DEF Excess
<1>5. Running /\ Early(part)
  BY <1>1 DEF Running, Early, Pending
<1> SUFFICES ASSUME NEW i \in 1 .. Excess(part, r)
             PROVE  q[i] # step /\ q[i] # tracker
  BY DEF Removed
<1>6. i \in DOMAIN q /\ i < Len(q)
  BY <1>2, <1>4
<1>7. q[i] < step /\ q[i] # tracker
  BY <1>1, <1>5, <1>6 DEF IInv, Remembered
<1>8. step \in Int
  BY Counters DEF IInv
<1> QED BY <1>7, <1>8

\* What the launch finds: a tracker that names a folder names a whole one.
LEMMA LaunchInv == IInv /\ Launch => IInv'
<1> SUFFICES ASSUME IInv, Launch PROVE IInv'
  OBVIOUS
<1>1. TypeOK' /\ Bounded'
  BY LaunchType DEF IInv
<1>2. UNCHANGED <<shard, data, folder, tracker>> /\ prev' = NothingSaved
      /\ phase' \in {"train", "failed"}
  BY DEF Launch, disk, StartAfter
<1>a. PICK mode \in ResumeModes : \E s \in Targets(mode) :
        /\ astray' = (astray \/ s # Latest)
        /\ IF Fails(mode, s)
           THEN phase' = "failed" /\ UNCHANGED <<step, epoch, pos>>
           ELSE StartAfter(s)
  BY DEF Launch
<1>3. PICK s \in Targets(mode) :
        /\ astray' = (astray \/ s # Latest)
        /\ IF Fails(mode, s)
           THEN phase' = "failed" /\ UNCHANGED <<step, epoch, pos>>
           ELSE StartAfter(s)
  BY <1>a
<1>4. ASSUME ~astray' PROVE ~astray /\ s = Latest
  BY <1>3, <1>4
<1>5. TrackedIsWhole'
  BY <1>2, <1>4 DEF IInv, TrackedIsWhole, Whole
<1>6. ASSUME ~astray' PROVE tracker \in Steps => s = tracker /\ Whole(s)
  BY <1>4, <1>6 DEF IInv, TrackedIsWhole, Latest, Whole
<1>7. ASSUME ~astray' PROVE tracker \notin Steps => s = Absent
  BY <1>4, <1>7 DEF IInv, TypeOK, DiskOK, Latest
<1>8. Ahead'
  <2> SUFFICES ASSUME ~astray', Running' PROVE tracker < step'
    BY <1>2 DEF Ahead
  <2>1. step' = s + 1
    BY <1>2, <1>3 DEF Running, StartAfter
  <2>2. tracker \in Int /\ (tracker \notin Steps => tracker \in {Absent, Torn})
    BY Counters DEF IInv, TypeOK, DiskOK
  <2>3. s \in Int /\ tracker <= s
    BY <1>6, <1>7, <2>2, Numbers
  <2> QED BY <2>1, <2>2, <2>3
<1>9. FailsOnlyOnTornTracker'
  <2> SUFFICES ASSUME ~astray', phase' = "failed" PROVE tracker = Torn
    BY <1>2 DEF FailsOnlyOnTornTracker
  <2>1. Fails(mode, s)
    BY <1>3 DEF StartAfter
  <2>2. s # Absent => Loadable(s)
    BY <1>6, <1>7, Numbers DEF Whole, Loadable
  <2> QED BY <2>1, <2>2 DEF Fails
<1>10. Remembered'
  BY <1>2 DEF Remembered, NothingSaved
<1>11. Progress'
  BY <1>2 DEF Progress, Driving
<1> QED BY <1>1, <1>5, <1>8, <1>9, <1>10, <1>11 DEF IInv

LEMMA TrainInv == IInv /\ TrainBatch => IInv'
<1> SUFFICES ASSUME IInv, TrainBatch PROVE IInv'
  OBVIOUS
<1>1. TypeOK' /\ Bounded'
  BY TrainType DEF IInv
<1>2. UNCHANGED <<shard, data, folder, tracker, prev, launch, astray>>
      /\ phase = "train"
  BY DEF TrainBatch, disk
<1>3. \/ phase' = "workers" /\ step' = step /\ part' = "actor"
         /\ pc' = [r \in Ranks |-> "rotate"]
      \/ phase' \in {"train", "over"} /\ step' = step + 1
  BY DEF TrainBatch, EndStep
<1>4. step \in Int /\ tracker \in Int
  BY Counters DEF IInv
<1>5. TrackedIsWhole' /\ FailsOnlyOnTornTracker'
  BY <1>2, <1>3 DEF IInv, TrackedIsWhole, FailsOnlyOnTornTracker, Whole
<1>6. Ahead'
  BY <1>2, <1>3, <1>4 DEF IInv, Ahead, Running
<1>7. Remembered'
  <2> SUFFICES ASSUME NEW p \in Parts, NEW r \in Ranks,
                      NEW i \in DOMAIN prev[p][r]
               PROVE  /\ prev[p][r][i] <= step'
                      /\ prev[p][r][i] < step'
                      /\ i < Len(prev[p][r]) => prev[p][r][i] # tracker
    BY <1>2 DEF Remembered
  <2>1. prev[p][r] \in Seq(Steps)
    BY DEF IInv, TypeOK, WorkersOK
  <2>2. prev[p][r][i] \in Int
    BY <2>1, Numbers
  <2>3. Running /\ Early(p)
    BY <1>2 DEF Running, Early
  <2>4. prev[p][r][i] < step /\ (i < Len(prev[p][r]) => prev[p][r][i] # tracker)
    BY <2>3 DEF IInv, Remembered
  <2> QED BY <1>3, <1>4, <2>2, <2>4
<1>8. Progress'
  BY <1>3 DEF Progress, Driving, Saved, Parts
<1> QED BY <1>1, <1>5, <1>6, <1>7, <1>8 DEF IInv

LEMMA EpochInv == IInv /\ NextEpoch => IInv'
<1> SUFFICES ASSUME IInv, NextEpoch PROVE IInv'
  OBVIOUS
<1>1. TypeOK' /\ Bounded'
  BY EpochType DEF IInv
<1>2. UNCHANGED <<shard, data, folder, tracker, step, part, prev, launch, astray>>
      /\ phase = "train" /\ phase' \in {"train", "over"}
  BY DEF NextEpoch, disk
<1>3. TrackedIsWhole' /\ FailsOnlyOnTornTracker' /\ Ahead' /\ Progress'
  BY <1>2
  DEF IInv, TrackedIsWhole, FailsOnlyOnTornTracker, Whole, Ahead, Running,
      Progress, Driving
<1>4. Remembered'
  BY <1>2 DEF IInv, Remembered, Running, Early, Pending
<1> QED BY <1>1, <1>3, <1>4 DEF IInv

LEMMA Remainder ==
  ASSUME NEW n \in Nat, NEW e \in Nat, e <= n
  PROVE  (IF e + 1 <= n THEN n - (e + 1) + 1 ELSE 0) = n - e
  OBVIOUS

\* A sequence without its first e elements.
LEMMA DropFirst ==
  ASSUME NEW S, NEW q \in Seq(S), NEW e \in Nat, e <= Len(q)
  PROVE  LET d == SubSeq(q, e + 1, Len(q))
         IN  /\ Len(d) = Len(q) - e
             /\ DOMAIN d = 1 .. Len(q) - e
             /\ \A i \in DOMAIN d :
                  /\ i \in Int
                  /\ d[i] = q[i + e]
                  /\ i + e \in DOMAIN q
                  /\ i < Len(d) => i + e < Len(q)
<1> DEFINE d == SubSeq(q, e + 1, Len(q))
<1>1. Len(q) \in Nat /\ DOMAIN q = 1 .. Len(q)
  OBVIOUS
<1>2. \A i \in e + 1 .. Len(q) : q[i] \in S
  BY <1>1
<1>3. /\ d \in Seq(S)
      /\ Len(d) = IF e + 1 <= Len(q) THEN Len(q) - (e + 1) + 1 ELSE 0
      /\ \A i \in 1 .. Len(q) - (e + 1) + 1 : d[i] = q[e + 1 + i - 1]
  BY <1>1, <1>2, SubSeqProperties
<1> HIDE DEF d
<1>4. Len(d) = Len(q) - e
  BY <1>1, <1>3, Remainder
<1>5. DOMAIN d = 1 .. Len(q) - e
  BY <1>3, <1>4
<1>6. ASSUME NEW i \in DOMAIN d
      PROVE  i \in Int /\ d[i] = q[i + e] /\ i + e \in DOMAIN q
             /\ (i < Len(d) => i + e < Len(q))
  <2>1. i \in Int /\ 1 <= i /\ i <= Len(q) - e
    BY <1>1, <1>5, <1>6
  <2>2. e + 1 + i - 1 = i + e /\ i \in 1 .. Len(q) - (e + 1) + 1
    BY <1>1, <2>1
  <2>3. d[i] = q[i + e]
    BY <1>3, <2>2
  <2>4. i + e \in DOMAIN q
    BY <1>1, <2>1
  <2>5. i < Len(d) => i + e < Len(q)
    BY <1>1, <1>4, <2>1
  <2> QED BY <2>1, <2>3, <2>4, <2>5
<1> QED BY <1>4, <1>5, <1>6 DEF d

LEMMA RotateInv ==
  ASSUME IInv, KeepsOlder, NEW r \in Ranks, Rotate(r)
  PROVE  IInv'
<1>1. TypeOK' /\ Bounded'
  BY WorkerType DEF IInv, Worker
<1>2. UNCHANGED <<data, tracker, phase, step, part, launch, astray>>
      /\ phase = "workers" /\ folder' = folder \union {step}
  BY DEF Rotate
<1>3. part \in Parts /\ step \in Steps /\ step \in Int
  BY <1>2, Counters, InRange DEF IInv, Running
<1>4. \A s \in Steps : s \notin Removed(part, r) => shard'[s] = shard[s]
  BY DEF Rotate
<1>5. shard'[step] = shard[step]
  BY <1>3, <1>4, RotationSpares
<1>6. tracker \in Steps => shard'[tracker] = shard[tracker]
  BY <1>4, RotationSpares
<1>7. TrackedIsWhole'
  BY <1>2, <1>6 DEF IInv, TrackedIsWhole, Whole
<1>8. FailsOnlyOnTornTracker' /\ Ahead'
  BY <1>2 DEF IInv, FailsOnlyOnTornTracker, Ahead, Running
<1>9. Progress'
  <2>1. \A u \in Ranks : /\ pc'[u] # "idle"
                         /\ pc'[u] = "written" => pc[u] = "written"
    BY <1>2 DEF IInv, Progress, Rotate, TypeOK, WorkersOK
  <2> QED BY <1>2, <1>5, <2>1 DEF IInv, Progress, Driving
<1>10. Remembered'
  <2> SUFFICES ASSUME NEW p \in Parts, NEW u \in Ranks,
                      NEW i \in DOMAIN prev'[p][u]
               PROVE  /\ prev'[p][u][i] <= step
                      /\ i < Len(prev'[p][u]) => prev'[p][u][i] < step
                      /\ Early(p) => prev'[p][u][i] < step
                      /\ Early(p) /\ i < Len(prev'[p][u]) =>
                           prev'[p][u][i] # tracker
    BY <1>2 DEF Remembered, Early, Pending
  <2>1. CASE p = part /\ u = r
    <3> DEFINE q == prev[part][r]
               e == Excess(part, r)
    <3>1. q \in Seq(Steps) /\ Len(q) \in Nat /\ DOMAIN q = 1 .. Len(q)
      BY <1>3 DEF IInv, TypeOK, WorkersOK
    <3>2. e \in Nat /\ e <= Len(q)
      <4>1. Keep[part] \in Int /\ Len(q) \in Nat
        BY <1>3, <3>1, ConfigAssumption
      <4>2. CASE Keep[part] > 0 /\ Len(q) >= Keep[part]
        <5>1. e = Len(q) - Keep[part] + 1
          BY <4>2 DEF Excess
        <5> HIDE DEF q, e
        <5> QED BY <4>1, <4>2, <5>1
      <4>3. CASE ~(Keep[part] > 0 /\ Len(q) >= Keep[part])
        <5>1. e = 0
          BY <4>3 DEF Excess
        <5> HIDE DEF q, e
        <5> QED BY <4>1, <5>1
      <4> QED BY <4>2, <4>3
    <3>3. prev'[p][u] = SubSeq(q, e + 1, Len(q))
      BY <1>3, <2>1 DEF Rotate, IInv, TypeOK, WorkersOK
    <3>4. prev'[p][u][i] = q[i + e] /\ i + e \in DOMAIN q
          /\ (i < Len(prev'[p][u]) => i + e < Len(q))
      <4>1. i \in DOMAIN SubSeq(q, e + 1, Len(q))
        BY <3>3
      <4> QED BY <3>1, <3>2, <3>3, <4>1, DropFirst
    <3> HIDE DEF q, e
    <3>6. Running /\ Early(part)
      BY <1>2 DEF Running, Early, Pending
    <3>7. q[i + e] < step /\ (i + e < Len(q) => q[i + e] # tracker)
      BY <1>3, <3>4, <3>6 DEF q, IInv, Remembered
    <3>8. q[i + e] \in Int
      BY <3>1, <3>4, Numbers
    <3> QED BY <1>3, <3>4, <3>7, <3>8
  <2>2. CASE ~(p = part /\ u = r)
    <3>1. prev'[p][u] = prev[p][u]
      BY <1>3, <2>2 DEF Rotate, IInv, TypeOK, WorkersOK
    <3>2. Running
      BY <1>2 DEF Running
    <3> QED BY <3>1, <3>2 DEF IInv, Remembered
  <2> QED BY <2>1, <2>2
<1> QED BY <1>1, <1>7, <1>8, <1>9, <1>10 DEF IInv

\* Writing a shard of this step: another folder than the tracker's.
LEMMA ShardInv ==
  ASSUME IInv, NEW r \in Ranks, OpenShard(r) \/ WriteShard(r)
  PROVE  IInv'
<1>1. TypeOK' /\ Bounded'
  BY WorkerType DEF IInv, Worker
<1>2. UNCHANGED <<data, folder, tracker, phase, step, part, prev, launch, astray>>
      /\ phase = "workers"
  BY DEF OpenShard, WriteShard
<1>3. part \in Parts /\ step \in Steps /\ step \in Int /\ tracker \in Int
  BY <1>2, Counters, InRange DEF IInv, Running
<1>4. /\ \A s \in Steps \ {step} : shard'[s] = shard[s]
      /\ \A p \in Parts \ {part} : shard'[step][p] = shard[step][p]
      /\ \A u \in Ranks \ {r} : shard'[step][part][u] = shard[step][part][u]
      /\ WriteShard(r) => shard'[step][part][r] = launch
  BY <1>3 DEF OpenShard, WriteShard, IInv, TypeOK, DiskOK
<1>5. TrackedIsWhole'
  <2>1. ~astray => tracker # step
    BY <1>2, <1>3 DEF IInv, Ahead, Running
  <2> QED BY <1>2, <1>4, <2>1 DEF IInv, TrackedIsWhole, Whole
<1>6. FailsOnlyOnTornTracker' /\ Ahead' /\ Remembered'
  BY <1>2
  DEF IInv, FailsOnlyOnTornTracker, Ahead, Remembered, Running, Early, Pending
<1>7. Progress'
  <2>1. \A u \in Ranks :
          /\ pc'[u] # "idle"
          /\ pc'[u] # "rotate" => step \in folder
          /\ pc'[u] = "written" => shard'[step][part][u] = launch
    <3> TAKE u \in Ranks
    <3>1. CASE u = r
      BY <1>2, <1>4, <3>1
      DEF IInv, Progress, OpenShard, WriteShard, TypeOK, WorkersOK
    <3>2. CASE u # r
      BY <1>2, <1>4, <3>2
      DEF IInv, Progress, OpenShard, WriteShard, TypeOK, WorkersOK
    <3> QED BY <3>1, <3>2
  <2>2. part = "critic" => \A u \in Ranks : shard'[step]["actor"][u] = launch
    BY <1>2, <1>4 DEF IInv, Progress, Parts
  <2> QED BY <1>2, <2>1, <2>2 DEF IInv, Progress, Driving
<1> QED BY <1>1, <1>5, <1>6, <1>7 DEF IInv

LEMMA ReturnInv == IInv /\ WorkersReturn => IInv'
<1> SUFFICES ASSUME IInv, WorkersReturn PROVE IInv'
  OBVIOUS
<1>1. TypeOK' /\ Bounded'
  BY ReturnType DEF IInv
<1>2. UNCHANGED <<shard, data, folder, tracker, step, launch, astray>>
      /\ phase = "workers" /\ phase' \in {"workers", "data"}
  BY DEF WorkersReturn, disk
<1>3. part \in Parts /\ step \in Int /\ step \in Steps
  BY <1>2, Counters, InRange DEF IInv, Running
<1>4. TrackedIsWhole' /\ FailsOnlyOnTornTracker' /\ Ahead'
  BY <1>2
  DEF IInv, TrackedIsWhole, FailsOnlyOnTornTracker, Whole, Ahead, Running
<1>5. step \in folder /\ \A r \in Ranks : shard[step][part][r] = launch
  <2>1. \A r \in Ranks : pc[r] = "written"
    BY DEF WorkersReturn, AllWritten
  <2> QED BY <1>2, <2>1, RanksAssumption DEF IInv, Progress
<1>6. Progress'
  <2>1. CASE part = "actor" /\ UseCritic
    BY <1>2, <1>5, <2>1 DEF WorkersReturn, Progress, Driving, Saved, Parts
  <2>2. CASE ~(part = "actor" /\ UseCritic)
    <3>1. \A p \in Saved, r \in Ranks : shard[step][p][r] = launch
      BY <1>2, <1>5, <2>2 DEF IInv, Progress, Saved, Parts
    <3> QED BY <1>2, <1>5, <2>2, <3>1 DEF WorkersReturn, Progress, Driving
  <2> QED BY <2>1, <2>2
<1>7. Remembered'
  <2> SUFFICES ASSUME NEW p \in Parts, NEW r \in Ranks,
                      NEW i \in DOMAIN prev'[p][r]
               PROVE  /\ prev'[p][r][i] <= step
                      /\ i < Len(prev'[p][r]) => prev'[p][r][i] < step
                      /\ Early(p)' => prev'[p][r][i] < step
                      /\ Early(p)' /\ i < Len(prev'[p][r]) =>
                           prev'[p][r][i] # tracker
    BY <1>2 DEF Remembered
  <2>1. Running
    BY <1>2 DEF Running
  <2>2. CASE p = part
    <3> DEFINE q == prev[part][r]
    <3>1. q \in Seq(Steps) /\ Len(q) \in Nat /\ DOMAIN q = 1 .. Len(q)
      BY <1>3 DEF IInv, TypeOK, WorkersOK
    <3>2. prev'[p][r] = Append(q, step)
      BY <1>3, <2>2 DEF WorkersReturn, IInv, TypeOK, WorkersOK
    <3>3. ~Early(p)'
      BY <1>2, <2>2 DEF WorkersReturn, Early, Pending
    <3>4. \A k \in DOMAIN q : q[k] < step
      BY <1>2, <1>3, <2>1 DEF IInv, Remembered, Early, Pending
    <3> HIDE DEF q
    <3>5. i \in Int /\ Len(prev'[p][r]) = Len(q) + 1
          /\ (i \in DOMAIN q \/ i = Len(q) + 1)
      BY <1>3, <3>1, <3>2
    <3>6. CASE i \in DOMAIN q
      <4>1. prev'[p][r][i] = q[i] /\ q[i] \in Int
        BY <1>3, <3>1, <3>2, <3>6, Numbers
      <4> QED BY <1>3, <3>3, <3>4, <3>6, <4>1
    <3>7. CASE i = Len(q) + 1
      <4>1. prev'[p][r][i] = step
        BY <1>3, <3>1, <3>2, <3>7
      <4> QED BY <1>3, <3>1, <3>3, <3>5, <3>7, <4>1
    <3> QED BY <3>5, <3>6, <3>7
  <2>3. CASE p # part
    <3>1. prev'[p][r] = prev[p][r]
      BY <1>3, <2>3 DEF WorkersReturn, IInv, TypeOK, WorkersOK
    <3>2. Early(p)' => Early(p)
      BY <1>2, <2>3 DEF WorkersReturn, Early, Pending, Parts
    <3> QED BY <2>1, <3>1, <3>2 DEF IInv, Remembered
  <2> QED BY <2>2, <2>3
<1> QED BY <1>1, <1>4, <1>6, <1>7 DEF IInv

LEMMA DataInv == IInv /\ (OpenData \/ WriteData) => IInv'
<1> SUFFICES ASSUME IInv, OpenData \/ WriteData PROVE IInv'
  OBVIOUS
<1>1. TypeOK' /\ Bounded'
  BY DriverType DEF IInv
<1>2. UNCHANGED <<shard, folder, tracker, step, part, prev, launch, astray>>
      /\ phase \in {"data", "data open"} /\ phase' \in {"data open", "tracker"}
  BY DEF OpenData, WriteData
<1>3. step \in Steps /\ step \in Int /\ tracker \in Int
  BY <1>2, Counters, InRange DEF IInv, Running
<1>4. \A s \in Steps \ {step} : data'[s] = data[s]
  BY <1>3 DEF OpenData, WriteData, IInv, TypeOK, DiskOK
<1>5. TrackedIsWhole'
  <2>1. ~astray => tracker < step
    BY <1>2 DEF IInv, Ahead, Running
  <2>2. ~astray => tracker # step
    BY <1>3, <2>1
  <2> QED BY <1>2, <1>4, <2>2 DEF IInv, TrackedIsWhole, Whole
<1>6. FailsOnlyOnTornTracker' /\ Ahead' /\ Remembered'
  BY <1>2
  DEF IInv, FailsOnlyOnTornTracker, Ahead, Remembered, Running, Early, Pending
<1>7. phase' = "tracker" => data'[step].by = launch
  <2> SUFFICES ASSUME phase' = "tracker" PROVE data'[step].by = launch
    OBVIOUS
  <2>1. data' = [data EXCEPT ![step] = [by |-> launch, at |-> pos]]
    BY DEF OpenData, WriteData
  <2> QED BY <1>3, <2>1 DEF IInv, TypeOK, DiskOK
<1>8. Progress'
  BY <1>2, <1>7 DEF IInv, Progress, Driving
<1> QED BY <1>1, <1>5, <1>6, <1>8 DEF IInv

LEMMA TrackerInv == IInv /\ (OpenTracker \/ WriteTracker) => IInv'
<1> SUFFICES ASSUME IInv, OpenTracker \/ WriteTracker PROVE IInv'
  OBVIOUS
<1>1. TypeOK' /\ Bounded'
  BY DriverType DEF IInv
<1>2. UNCHANGED <<shard, data, folder, part, prev, launch, astray>>
      /\ phase \in {"tracker", "tracker open"}
  BY DEF OpenTracker, WriteTracker
<1>a. Running
  BY <1>2 DEF Running
<1>3. step \in Steps /\ step \in Int /\ 1 <= step /\ launch \in Launches
      /\ Running
  <2>1. step \in Steps /\ launch \in Launches
    BY <1>a, InRange DEF IInv
  <2> QED BY <1>a, <2>1, Numbers
<1>4. CASE OpenTracker
  <2>1. tracker' = Torn /\ phase' = "tracker open" /\ step' = step
    BY <1>4 DEF OpenTracker
  <2>2. TrackedIsWhole' /\ FailsOnlyOnTornTracker'
    BY <2>1, Numbers DEF TrackedIsWhole, FailsOnlyOnTornTracker
  <2>3. Ahead'
    <3>1. tracker' < step'
      <4>1. Torn < step
        BY <1>3, Numbers
      <4> QED BY <2>1, <4>1
    <3> QED BY <3>1 DEF Ahead
  <2>4. Remembered'
    BY <1>2, <1>3, <2>1 DEF IInv, Remembered, Early, Pending
  <2>5. Progress'
    BY <1>2, <2>1 DEF IInv, Progress, Driving
  <2> QED BY <1>1, <2>2, <2>3, <2>4, <2>5 DEF IInv
<1>5. CASE WriteTracker
  <2>1. tracker' = step /\ step' = step + 1 /\ phase' \in {"over", "train"}
    BY <1>5 DEF WriteTracker, EndStep
  <2>2. Whole(step)
    BY <1>2, <1>3 DEF IInv, Progress, Driving, Whole
  <2>3. TrackedIsWhole'
    BY <1>2, <2>1, <2>2 DEF TrackedIsWhole, Whole
  <2>4. FailsOnlyOnTornTracker' /\ Progress'
    BY <2>1 DEF FailsOnlyOnTornTracker, Progress, Driving
  <2>5. Ahead'
    BY <1>3, <2>1 DEF Ahead
  <2>6. Remembered'
    <3> SUFFICES ASSUME NEW p \in Parts, NEW r \in Ranks,
                        NEW i \in DOMAIN prev[p][r]
                 PROVE  /\ prev[p][r][i] <= step + 1
                        /\ prev[p][r][i] < step + 1
                        /\ i < Len(prev[p][r]) => prev[p][r][i] # step
      BY <1>2, <2>1 DEF Remembered
    <3>1. prev[p][r] \in Seq(Steps)
      BY DEF IInv, TypeOK, WorkersOK
    <3>2. prev[p][r][i] \in Int
      BY <3>1, Numbers
    <3>3. prev[p][r][i] <= step
          /\ (i < Len(prev[p][r]) => prev[p][r][i] < step)
      BY <1>3 DEF IInv, Remembered
    <3> QED BY <1>3, <3>2, <3>3
  <2> QED BY <1>1, <2>3, <2>4, <2>5, <2>6 DEF IInv
<1> QED BY <1>4, <1>5

LEMMA CrashInv == IInv /\ Crash => IInv'
<1> SUFFICES ASSUME IInv, Crash PROVE IInv'
  OBVIOUS
<1>1. TypeOK' /\ Bounded'
  BY CrashType DEF IInv
<1>2. UNCHANGED <<shard, data, folder, tracker, astray>> /\ phase' = "down"
  BY DEF Crash, disk
<1> QED
  BY <1>1, <1>2
  DEF IInv, Ahead, Remembered, Running, Progress, Driving, TrackedIsWhole,
      Whole, FailsOnlyOnTornTracker

LEMMA StutterInv == IInv /\ UNCHANGED vars => IInv'
<1> SUFFICES ASSUME IInv, UNCHANGED vars PROVE IInv'
  OBVIOUS
<1>1. TypeOK' /\ Bounded'
  BY StutterType DEF IInv
<1> QED
  BY <1>1
  DEF vars, IInv, Ahead, Remembered, Running, Early, Pending, Progress,
      Driving, TrackedIsWhole, Whole, FailsOnlyOnTornTracker

LEMMA InitInv == Init => IInv
<1> SUFFICES ASSUME Init PROVE IInv
  OBVIOUS
<1>1. phase = "down" /\ tracker = Absent
  BY DEF Init
<1> QED
  BY <1>1, TypeInit, Numbers
  DEF IInv, Ahead, Remembered, Running, Progress, Driving, TrackedIsWhole,
      FailsOnlyOnTornTracker

LEMMA NextInv == KeepsOlder /\ IInv /\ [Next]_vars => IInv'
  BY LaunchInv, TrainInv, EpochInv, RotateInv, ShardInv, ReturnInv, DataInv,
     TrackerInv, CrashInv, StutterInv
  DEF Next, Driver, Worker, Rest

\* KeepsOlder says something of the configuration alone.
LEMMA Inductive == ASSUME KeepsOlder PROVE Spec => []IInv
<1>1. IInv /\ [Next]_vars => IInv'
  BY NextInv
<1> QED BY InitInv, <1>1, PTL DEF Spec

\* Wherever the crashes fall, the tracker names a checkpoint all of whose
\* files are there and were written by one launch, provided rotation is off
\* or keeps at least two.
THEOREM TrackerIsSafe == ASSUME KeepsOlder PROVE Spec => []TrackedIsWhole
<1>1. IInv => TrackedIsWhole
  BY DEF IInv
<1> QED BY Inductive, <1>1, PTL

\* Under the same proviso the one thing that can keep a launch from resuming
\* is a tracker truncated and not yet written.
THEOREM ResumeIsSafe == ASSUME KeepsOlder PROVE Spec => []FailsOnlyOnTornTracker
<1>1. IInv => FailsOnlyOnTornTracker
  BY DEF IInv
<1> QED BY Inductive, <1>1, PTL

-----------------------------------------------------------------------------
(* Rotation keeps what one launch wrote within the limit.                  *)

Remembers(p, r) == {prev[p][r][i] : i \in DOMAIN prev[p][r]}

\* The group is writing at this step: all its ranks have rotated.
Writing(p) == phase = "workers" /\ p = part /\ AllRotated

\* Rank r has made room for one more path.
MadeRoom(p, r) == phase = "workers" /\ p = part /\ pc[r] # "rotate"

\* No file is of a later launch.
OfThePast == \A s \in Steps, p \in Parts, r \in Ranks : shard[s][p][r] <= launch

\* Between the barriers and nowhere else is a file being written.
Barriers ==
  /\ \A r \in Ranks : pc[r] \in {"writing", "written"} => AllRotated
  /\ phase # "workers" => \A r \in Ranks : pc[r] = "idle"

\* Every rank remembers each step that any rank of its group has written.
OwnRemembered ==
  phase \notin {"down", "failed"} =>
    \A p \in Parts, r, u \in Ranks : \A s \in Steps :
      shard[s][p][u] = launch => s \in Remembers(p, r) \/ (Writing(p) /\ s = step)

\* What a rank remembers fits the limit, with room for the one it writes.
FewRemembered ==
  \A p \in Parts, r \in Ranks :
    Keep[p] > 0 =>
      /\ Len(prev[p][r]) <= Keep[p]
      /\ MadeRoom(p, r) => Len(prev[p][r]) < Keep[p]

LimitInv ==
  TypeOK /\ Bounded /\ OfThePast /\ Barriers /\ OwnRemembered /\ FewRemembered

LEMMA LimitInit == Init => LimitInv
<1> SUFFICES ASSUME Init PROVE LimitInv
  OBVIOUS
<1>1. TypeOK /\ Bounded
  BY TypeInit
<1>2. phase = "down" /\ launch = 0 /\ prev = NothingSaved /\ pc = Idle
  BY DEF Init
<1>3. OfThePast
  BY Numbers DEF Init, OfThePast
<1>4. Barriers /\ OwnRemembered
  BY <1>2 DEF Barriers, OwnRemembered, Idle
<1>5. FewRemembered
  <2> SUFFICES ASSUME NEW p \in Parts, NEW r \in Ranks, Keep[p] > 0
               PROVE  Len(prev[p][r]) < Keep[p] /\ Len(prev[p][r]) <= Keep[p]
    BY DEF FewRemembered
  <2>1. prev[p][r] = <<>>
    BY <1>2 DEF NothingSaved
  <2>2. Len(prev[p][r]) = 0 /\ Keep[p] \in Nat
    BY <2>1, ConfigAssumption
  <2> QED BY <2>2
<1> QED BY <1>1, <1>3, <1>4, <1>5 DEF LimitInv

\* A launch finds no file of its own and remembers none.
LEMMA LimitLaunch == LimitInv /\ Launch => LimitInv'
<1> SUFFICES ASSUME LimitInv, Launch PROVE LimitInv'
  OBVIOUS
<1>1. TypeOK' /\ Bounded'
  BY LaunchType DEF LimitInv
<1>2. shard' = shard /\ prev' = NothingSaved /\ pc' = Idle /\ launch' = launch + 1
      /\ phase' # "workers"
  BY DEF Launch, disk, StartAfter
<1>3. launch \in Int
  BY Counters DEF LimitInv
<1>4. ASSUME NEW s \in Steps, NEW p \in Parts, NEW r \in Ranks
      PROVE  shard'[s][p][r] < launch'
  <2>1. shard[s][p][r] \in Int
    BY Numbers DEF LimitInv, TypeOK, DiskOK
  <2>2. shard[s][p][r] <= launch
    BY DEF LimitInv, OfThePast
  <2> QED BY <1>2, <1>3, <2>1, <2>2
<1>a. ASSUME NEW s \in Steps, NEW p \in Parts, NEW r \in Ranks
      PROVE  shard'[s][p][r] <= launch' /\ shard'[s][p][r] # launch'
  <2>1. shard'[s][p][r] \in Int /\ launch' \in Int
    BY <1>2, <1>3, Numbers DEF LimitInv, TypeOK, DiskOK
  <2> QED BY <1>4, <2>1
<1>5. OfThePast' /\ OwnRemembered'
  BY <1>a DEF OfThePast, OwnRemembered
<1>6. Barriers'
  BY <1>2 DEF Barriers, Idle
<1>7. FewRemembered'
  <2> SUFFICES ASSUME NEW p \in Parts, NEW r \in Ranks, Keep[p] > 0
               PROVE  Len(prev'[p][r]) < Keep[p] /\ Len(prev'[p][r]) <= Keep[p]
    BY DEF FewRemembered
  <2>1. prev'[p][r] = <<>>
    BY <1>2 DEF NothingSaved
  <2>2. Len(prev'[p][r]) = 0 /\ Keep[p] \in Nat
    BY <2>1, ConfigAssumption
  <2> QED BY <2>2
<1> QED BY <1>1, <1>5, <1>6, <1>7 DEF LimitInv

\* Steps outside a save.
LEMMA LimitDriver ==
  ASSUME LimitInv,
         TrainBatch \/ NextEpoch \/ OpenData \/ WriteData \/ OpenTracker \/ WriteTracker
  PROVE  LimitInv'
<1>1. TypeOK' /\ Bounded'
  BY TrainType, EpochType, DriverType DEF LimitInv
<1>2. UNCHANGED <<shard, prev, launch>> /\ phase \notin {"down", "failed", "workers"}
  BY DEF TrainBatch, NextEpoch, OpenData, WriteData, OpenTracker, WriteTracker, disk
<1>3. \/ phase' # "workers" /\ pc' = pc
      \/ phase' = "workers" /\ pc' = [r \in Ranks |-> "rotate"]
  BY <1>2 DEF TrainBatch, NextEpoch, OpenData, WriteData, OpenTracker, WriteTracker, EndStep
<1>4. OfThePast'
  BY <1>2 DEF LimitInv, OfThePast
<1>5. \A r \in Ranks : pc[r] = "idle"
  BY <1>2 DEF LimitInv, Barriers
<1>6. Barriers'
  BY <1>3, <1>5 DEF Barriers
<1>7. OwnRemembered'
  BY <1>2 DEF LimitInv, OwnRemembered, Remembers, Writing
<1>8. FewRemembered'
  BY <1>2, <1>3 DEF LimitInv, FewRemembered, MadeRoom
<1> QED BY <1>1, <1>4, <1>6, <1>7, <1>8 DEF LimitInv

LEMMA RoomMade ==
  ASSUME NEW n \in Nat, NEW k \in Nat, k > 0
  PROVE  LET e == IF k > 0 /\ n >= k THEN n - k + 1 ELSE 0
         IN  e \in Nat /\ e <= n /\ n - e < k
  OBVIOUS

\* Every path that rotation leaves is one it has kept.
LEMMA KeptByDrop ==
  ASSUME NEW S, NEW q \in Seq(S), NEW e \in Nat, e <= Len(q),
         NEW i \in DOMAIN q, i \notin 1 .. e
  PROVE  LET d == SubSeq(q, e + 1, Len(q))
         IN  i - e \in DOMAIN d /\ d[i - e] = q[i]
<1> DEFINE d == SubSeq(q, e + 1, Len(q))
<1>1. Len(q) \in Nat /\ DOMAIN q = 1 .. Len(q)
  OBVIOUS
<1>2. DOMAIN d = 1 .. Len(q) - e /\ \A j \in DOMAIN d : d[j] = q[j + e]
  BY DropFirst
<1> HIDE DEF d
<1>3. i \in Int /\ e < i /\ i <= Len(q)
  BY <1>1
<1>4. i - e \in DOMAIN d /\ (i - e) + e = i
  BY <1>1, <1>2, <1>3
<1>5. d[i - e] = q[(i - e) + e]
  BY <1>2, <1>4
<1> QED BY <1>4, <1>5 DEF d

LEMMA LimitRotate ==
  ASSUME LimitInv, NEW r \in Ranks, Rotate(r)
  PROVE  LimitInv'
<1>1. TypeOK' /\ Bounded'
  BY WorkerType DEF LimitInv, Worker
<1>2. UNCHANGED <<phase, step, part, launch>> /\ phase = "workers" /\ pc[r] = "rotate"
      /\ pc' = [pc EXCEPT ![r] = "barrier"]
  BY DEF Rotate
<1>3. part \in Parts /\ launch \in Launches
  BY <1>2, Counters, InRange DEF LimitInv, Running
<1>4. launch # Absent /\ 0 <= launch
  BY <1>3, Numbers
<1> DEFINE q == prev[part][r]
           e == Excess(part, r)
<1>5. q \in Seq(Steps) /\ Len(q) \in Nat /\ Keep[part] \in Nat
  BY <1>3, ConfigAssumption DEF LimitInv, TypeOK, WorkersOK
<1>6. e \in Nat /\ e <= Len(q) /\ (Keep[part] > 0 => Len(q) - e < Keep[part])
  <2>1. e = IF Keep[part] > 0 /\ Len(q) >= Keep[part] THEN Len(q) - Keep[part] + 1 ELSE 0
    BY DEF Excess
  <2> HIDE DEF q, e
  <2>2. CASE Keep[part] > 0
    BY <1>5, <2>1, <2>2, RoomMade
  <2>3. CASE ~(Keep[part] > 0)
    BY <1>5, <2>1, <2>3
  <2> QED BY <2>2, <2>3
<1>7. /\ prev'[part][r] = SubSeq(q, e + 1, Len(q))
      /\ \A p \in Parts, u \in Ranks :
           ~(p = part /\ u = r) => prev'[p][u] = prev[p][u]
  BY <1>3 DEF Rotate, LimitInv, TypeOK, WorkersOK
<1>8. \A s \in Steps, p \in Parts, u \in Ranks :
        \/ shard'[s][p][u] = shard[s][p][u] /\ (p = part => s \notin Removed(part, r))
        \/ shard'[s][p][u] = shard[s][p][u] /\ p # part
        \/ shard'[s][p][u] = Absent
  <2> SUFFICES ASSUME NEW s \in Steps, NEW p \in Parts, NEW u \in Ranks
               PROVE  \/ shard'[s][p][u] = shard[s][p][u]
                           /\ (p = part => s \notin Removed(part, r))
                      \/ shard'[s][p][u] = shard[s][p][u] /\ p # part
                      \/ shard'[s][p][u] = Absent
    OBVIOUS
  <2>1. shard'[s] = IF s \in Removed(part, r)
                    THEN [shard[s] EXCEPT ![part] = [v \in Ranks |-> Absent]]
                    ELSE shard[s]
    BY DEF Rotate
  <2>2. shard[s] \in [Parts -> [Ranks -> Launches \union {Absent, Torn}]]
    BY DEF LimitInv, TypeOK, DiskOK
  <2>3. CASE s \in Removed(part, r) /\ p = part
    BY <1>3, <2>1, <2>2, <2>3
  <2>4. CASE s \in Removed(part, r) /\ p # part
    BY <1>3, <2>1, <2>2, <2>4
  <2>5. CASE s \notin Removed(part, r)
    BY <2>1, <2>5
  <2> QED BY <2>3, <2>4, <2>5
<1>9. OfThePast'
  BY <1>2, <1>4, <1>8, Numbers DEF LimitInv, OfThePast
<1>10. ~AllRotated
  BY <1>2 DEF AllRotated
<1>11. Barriers'
  <2>1. \A u \in Ranks : pc[u] \notin {"writing", "written"}
    BY <1>10 DEF LimitInv, Barriers
  <2>2. \A u \in Ranks : pc'[u] \notin {"writing", "written"}
    BY <1>2, <2>1 DEF LimitInv, TypeOK, WorkersOK
  <2> QED BY <1>2, <2>2 DEF Barriers
<1>12. OwnRemembered'
  <2> SUFFICES ASSUME NEW p \in Parts, NEW v \in Ranks, NEW u \in Ranks, NEW s \in Steps,
                      shard'[s][p][u] = launch
               PROVE  s \in Remembers(p, v)'
    BY <1>2 DEF OwnRemembered
  <2>1. shard[s][p][u] = launch /\ (p = part => s \notin Removed(part, r))
    BY <1>4, <1>8
  <2>2. s \in Remembers(p, v)
    BY <1>2, <1>10, <2>1 DEF LimitInv, OwnRemembered, Writing
  <2>3. CASE ~(p = part /\ v = r)
    BY <1>7, <2>2, <2>3 DEF Remembers
  <2>4. CASE p = part /\ v = r
    <3>1. PICK i \in DOMAIN q : s = q[i]
      BY <2>2, <2>4 DEF Remembers
    <3>2. i \notin 1 .. e
      BY <2>1, <2>4, <3>1 DEF Removed
    <3> HIDE DEF q, e
    <3>3. i - e \in DOMAIN SubSeq(q, e + 1, Len(q)) /\ SubSeq(q, e + 1, Len(q))[i - e] = s
      BY <1>5, <1>6, <3>1, <3>2, KeptByDrop
    <3> QED BY <1>7, <2>4, <3>3 DEF Remembers
  <2> QED BY <2>3, <2>4
<1>13. FewRemembered'
  <2> SUFFICES ASSUME NEW p \in Parts, NEW u \in Ranks, Keep[p] > 0
               PROVE  /\ Len(prev'[p][u]) <= Keep[p]
                      /\ MadeRoom(p, u)' => Len(prev'[p][u]) < Keep[p]
    BY DEF FewRemembered
  <2>1. CASE p = part /\ u = r
    <3> HIDE DEF q, e
    <3>1. Len(prev'[p][u]) = Len(q) - e
      BY <1>5, <1>6, <1>7, <2>1, DropFirst
    <3> QED BY <1>5, <1>6, <2>1, <3>1
  <2>2. CASE ~(p = part /\ u = r)
    <3>1. prev'[p][u] = prev[p][u]
      BY <1>7, <2>2
    <3>2. MadeRoom(p, u)' => MadeRoom(p, u)
      BY <1>2, <2>2 DEF MadeRoom, LimitInv, TypeOK, WorkersOK
    <3> QED BY <3>1, <3>2 DEF LimitInv, FewRemembered
  <2> QED BY <2>1, <2>2
<1> QED BY <1>1, <1>9, <1>11, <1>12, <1>13 DEF LimitInv

LEMMA LimitShard ==
  ASSUME LimitInv, NEW r \in Ranks, OpenShard(r) \/ WriteShard(r)
  PROVE  LimitInv'
<1>1. TypeOK' /\ Bounded'
  BY WorkerType DEF LimitInv, Worker
<1>2. UNCHANGED <<phase, step, part, prev, launch>> /\ phase = "workers"
      /\ pc[r] # "rotate" /\ pc' \in {[pc EXCEPT ![r] = "writing"], [pc EXCEPT ![r] = "written"]}
  BY DEF OpenShard, WriteShard
<1>3. AllRotated
  BY DEF OpenShard, WriteShard, LimitInv, Barriers
<1>4. step \in Steps /\ part \in Parts /\ launch \in Launches
  BY <1>2, Counters, InRange DEF LimitInv, Running
<1>5. AllRotated'
  BY <1>2, <1>3 DEF AllRotated, LimitInv, TypeOK, WorkersOK
<1>6. ASSUME NEW s \in Steps, NEW p \in Parts, NEW u \in Ranks
      PROVE  \/ shard'[s][p][u] = shard[s][p][u]
             \/ s = step /\ p = part /\ shard'[s][p][u] \in {Torn, launch}
  <2>1. shard' \in {[shard EXCEPT ![step][part][r] = Torn],
                    [shard EXCEPT ![step][part][r] = launch]}
    BY DEF OpenShard, WriteShard
  <2>2. shard \in [Steps -> [Parts -> [Ranks -> Launches \union {Absent, Torn}]]]
    BY DEF LimitInv, TypeOK, DiskOK
  <2>3. CASE shard' = [shard EXCEPT ![step][part][r] = Torn]
    BY <1>4, <2>2, <2>3
  <2>4. CASE shard' = [shard EXCEPT ![step][part][r] = launch]
    BY <1>4, <2>2, <2>4
  <2> QED BY <2>1, <2>3, <2>4
<1>7. OfThePast'
  <2>1. Torn <= launch /\ launch <= launch
    BY <1>4, Numbers
  <2> QED BY <1>2, <1>6, <2>1 DEF LimitInv, OfThePast
<1>8. Barriers'
  BY <1>2, <1>5 DEF Barriers
<1>9. OwnRemembered'
  BY <1>2, <1>3, <1>5, <1>6 DEF LimitInv, OwnRemembered, Remembers, Writing
<1>10. FewRemembered'
  <2>1. \A u \in Ranks : pc[u] # "rotate"
    BY <1>3 DEF AllRotated
  <2> QED BY <1>2, <2>1 DEF LimitInv, FewRemembered, MadeRoom
<1> QED BY <1>1, <1>7, <1>8, <1>9, <1>10 DEF LimitInv

LEMMA LimitReturn == LimitInv /\ WorkersReturn => LimitInv'
<1> SUFFICES ASSUME LimitInv, WorkersReturn PROVE LimitInv'
  OBVIOUS
<1>1. TypeOK' /\ Bounded'
  BY ReturnType DEF LimitInv
<1>2. UNCHANGED <<shard, step, launch>> /\ phase = "workers"
      /\ phase' \in {"workers", "data"}
  BY DEF WorkersReturn, disk
<1>3. AllRotated /\ \A r \in Ranks : pc[r] = "written"
  BY DEF WorkersReturn, AllWritten, AllRotated
<1>4. part \in Parts /\ step \in Steps
  BY <1>2, Counters, InRange DEF LimitInv, Running
<1>5. \A r \in Ranks : prev'[part][r] = Append(prev[part][r], step)
  BY <1>4 DEF WorkersReturn, LimitInv, TypeOK, WorkersOK
<1>6. \A p \in Parts \ {part}, r \in Ranks : prev'[p][r] = prev[p][r]
  BY <1>4 DEF WorkersReturn, LimitInv, TypeOK, WorkersOK
<1>7. OfThePast'
  BY <1>2 DEF LimitInv, OfThePast
<1>8. Barriers'
  BY <1>2 DEF WorkersReturn, Barriers, Idle
<1>9. \A p \in Parts, r \in Ranks :
        Remembers(p, r)' = IF p = part THEN Remembers(p, r) \cup {step} ELSE Remembers(p, r)
  <2> SUFFICES ASSUME NEW p \in Parts, NEW r \in Ranks
               PROVE  Remembers(p, r)' = IF p = part THEN Remembers(p, r) \cup {step}
                                         ELSE Remembers(p, r)
    OBVIOUS
  <2>1. CASE p = part
    <3> DEFINE q == prev[part][r]
               a == Append(q, step)
    <3>1. q \in Seq(Steps) /\ Len(q) \in Nat /\ DOMAIN q = 1 .. Len(q)
      BY <1>4 DEF LimitInv, TypeOK, WorkersOK
    <3>2. Remembers(p, r)' = {a[i] : i \in DOMAIN a}
      BY <1>5, <2>1 DEF Remembers
    <3>3. Remembers(p, r) = {q[i] : i \in DOMAIN q}
      BY <2>1 DEF Remembers
    <3> HIDE DEF q
    <3>4. DOMAIN a = 1 .. Len(q) + 1 /\ a[Len(q) + 1] = step
          /\ \A i \in 1 .. Len(q) : a[i] = q[i]
      BY <1>4, <3>1
    <3> HIDE DEF a
    <3>5. 1 .. Len(q) + 1 = (1 .. Len(q)) \cup {Len(q) + 1}
      BY <3>1
    <3>6. {a[i] : i \in DOMAIN a} = {q[i] : i \in DOMAIN q} \cup {step}
      BY <3>1, <3>4, <3>5
    <3> QED BY <2>1, <3>2, <3>3, <3>6
  <2>2. CASE p # part
    BY <1>6, <2>2 DEF Remembers
  <2> QED BY <2>1, <2>2
<1>10. OwnRemembered'
  <2> SUFFICES ASSUME NEW p \in Parts, NEW v \in Ranks, NEW u \in Ranks, NEW s \in Steps,
                      shard[s][p][u] = launch
               PROVE  s \in Remembers(p, v)'
    BY <1>2 DEF OwnRemembered
  <2>1. s \in Remembers(p, v) \/ (p = part /\ s = step)
    BY <1>2 DEF LimitInv, OwnRemembered, Writing
  <2> QED BY <1>9, <2>1
<1>11. FewRemembered'
  <2> SUFFICES ASSUME NEW p \in Parts, NEW r \in Ranks, Keep[p] > 0
               PROVE  /\ Len(prev'[p][r]) <= Keep[p]
                      /\ MadeRoom(p, r)' => Len(prev'[p][r]) < Keep[p]
    BY DEF FewRemembered
  <2>1. ~MadeRoom(p, r)'
    BY <1>2 DEF WorkersReturn, MadeRoom
  <2>2. CASE p = part
    <3>1. Len(prev[p][r]) < Keep[p]
      BY <1>2, <1>3, <2>2 DEF LimitInv, FewRemembered, MadeRoom
    <3>2. Len(prev'[p][r]) = Len(prev[p][r]) + 1 /\ Len(prev[p][r]) \in Nat
      BY <1>4, <1>5, <2>2 DEF LimitInv, TypeOK, WorkersOK
    <3>3. Keep[p] \in Nat
      BY ConfigAssumption
    <3> QED BY <2>1, <3>1, <3>2, <3>3
  <2>3. CASE p # part
    BY <1>6, <2>1, <2>3 DEF LimitInv, FewRemembered
  <2> QED BY <2>2, <2>3
<1> QED BY <1>1, <1>7, <1>8, <1>10, <1>11 DEF LimitInv

LEMMA LimitCrash == LimitInv /\ Crash => LimitInv'
<1> SUFFICES ASSUME LimitInv, Crash PROVE LimitInv'
  OBVIOUS
<1>1. TypeOK' /\ Bounded'
  BY CrashType DEF LimitInv
<1>2. shard' = shard /\ launch' = launch /\ prev' = NothingSaved /\ pc' = Idle
      /\ phase' = "down"
  BY DEF Crash, disk
<1>3. OfThePast' /\ OwnRemembered' /\ Barriers'
  BY <1>2 DEF LimitInv, OfThePast, OwnRemembered, Barriers, Idle
<1>4. FewRemembered'
  <2> SUFFICES ASSUME NEW p \in Parts, NEW r \in Ranks, Keep[p] > 0
               PROVE  Len(prev'[p][r]) < Keep[p] /\ Len(prev'[p][r]) <= Keep[p]
    BY DEF FewRemembered
  <2>1. prev'[p][r] = <<>>
    BY <1>2 DEF NothingSaved
  <2>2. Len(prev'[p][r]) = 0 /\ Keep[p] \in Nat
    BY <2>1, ConfigAssumption
  <2> QED BY <2>2
<1> QED BY <1>1, <1>3, <1>4 DEF LimitInv

LEMMA LimitStutter == LimitInv /\ UNCHANGED vars => LimitInv'
<1> SUFFICES ASSUME LimitInv, UNCHANGED vars PROVE LimitInv'
  OBVIOUS
<1>1. TypeOK' /\ Bounded'
  BY StutterType DEF LimitInv
<1> QED
  BY <1>1
  DEF vars, LimitInv, OfThePast, OwnRemembered, Barriers, FewRemembered,
      Remembers, Writing, MadeRoom, AllRotated

LEMMA LimitNext == LimitInv /\ [Next]_vars => LimitInv'
  BY LimitLaunch, LimitDriver, LimitRotate, LimitShard, LimitReturn, LimitCrash,
     LimitStutter
  DEF Next, Driver, Worker, Rest

\* A sequence has no more elements than places.
LEMMA ElementsOfSeq ==
  ASSUME NEW S, NEW q \in Seq(S)
  PROVE  LET T == {q[i] : i \in DOMAIN q}
         IN  IsFiniteSet(T) /\ Cardinality(T) <= Len(q)
<1> DEFINE T == {q[i] : i \in DOMAIN q}
<1>1. Len(q) \in Nat /\ DOMAIN q = 1 .. Len(q) /\ q = [i \in DOMAIN q |-> q[i]]
  OBVIOUS
<1>2. q \in Surjection(DOMAIN q, T)
  <2>1. q \in [DOMAIN q -> T]
    BY <1>1
  <2>2. \A t \in T : \E i \in DOMAIN q : q[i] = t
    OBVIOUS
  <2> QED BY <2>1, <2>2 DEF Surjection
<1>3. IsFiniteSet(1 .. Len(q)) /\ Cardinality(1 .. Len(q)) = Len(q)
  <2>1. 1 \in Int /\ Len(q) \in Int
    BY <1>1
  <2>2. IsFiniteSet(1 .. Len(q))
        /\ Cardinality(1 .. Len(q)) = IF 1 > Len(q) THEN 0 ELSE Len(q) - 1 + 1
    BY <2>1, FS_Interval
  <2> QED BY <1>1, <2>2
<1> HIDE DEF T
<1>4. IsFiniteSet(T) /\ Cardinality(T) <= Cardinality(DOMAIN q)
  <2>1. IsFiniteSet(DOMAIN q)
    BY <1>1, <1>3
  <2> QED BY <1>2, <2>1, FS_Surjection
<1> QED BY <1>3, <1>4 DEF T

\* One launch has never more checkpoints of its own on disk than it was told
\* to keep, the one being written included; however the ranks interleave, and
\* whatever earlier launches have left.
THEOREM LimitIsKept == Spec => []KeptWithinLimit
<1>1. LimitInv => KeptWithinLimit
  <2> SUFFICES ASSUME LimitInv, NEW p \in Saved, phase \notin {"down", "failed"}, Keep[p] > 0
               PROVE  Cardinality({s \in Steps : \E r \in Ranks :
                         \/ shard[s][p][r] = launch
                         \/ s = step /\ p = part /\ pc[r] = "writing"}) <= Keep[p]
    BY DEF KeptWithinLimit
  <2> DEFINE K == {s \in Steps : \E r \in Ranks :
                         \/ shard[s][p][r] = launch
                         \/ s = step /\ p = part /\ pc[r] = "writing"}
  <2>1. p \in Parts /\ Keep[p] \in Nat
    BY ConfigAssumption DEF Saved, Parts
  <2>2. PICK r \in Ranks : TRUE
    BY RanksAssumption
  <2> DEFINE q == prev[p][r]
             T == {q[i] : i \in DOMAIN q}
  <2>3. q \in Seq(Steps) /\ Len(q) \in Nat
    BY <2>1, <2>2 DEF LimitInv, TypeOK, WorkersOK
  <2>4. IsFiniteSet(T) /\ Cardinality(T) <= Len(q)
    BY <2>3, ElementsOfSeq
  <2>5. Cardinality(T) \in Nat
    BY <2>4, FS_CardinalityType
  <2>6. \A s \in K : s \in T \/ (Writing(p) /\ s = step)
    <3> SUFFICES ASSUME NEW s \in K, s \notin T PROVE Writing(p) /\ s = step
      OBVIOUS
    <3>1. PICK u \in Ranks : \/ shard[s][p][u] = launch
                             \/ s = step /\ p = part /\ pc[u] = "writing"
      OBVIOUS
    <3>2. CASE shard[s][p][u] = launch
      BY <2>1, <2>2, <3>2 DEF LimitInv, OwnRemembered, Remembers
    <3>3. CASE s = step /\ p = part /\ pc[u] = "writing"
      BY <3>3 DEF LimitInv, Barriers, Writing
    <3> QED BY <3>1, <3>2, <3>3
  <2> HIDE DEF K, T, q
  <2>7. CASE Writing(p)
    <3>1. Len(q) < Keep[p]
      BY <2>1, <2>2, <2>7 DEF q, LimitInv, FewRemembered, MadeRoom, Writing, AllRotated
    <3>2. IsFiniteSet(T \cup {step}) /\ Cardinality(T \cup {step}) <= Cardinality(T) + 1
      <4>1. IsFiniteSet(T \cup {step})
            /\ Cardinality(T \cup {step}) = IF step \in T THEN Cardinality(T) ELSE Cardinality(T) + 1
        BY <2>4, FS_AddElement
      <4> QED BY <2>5, <4>1
    <3>3. K \in SUBSET (T \cup {step})
      BY <2>6
    <3>4. IsFiniteSet(K) /\ Cardinality(K) <= Cardinality(T \cup {step})
      BY <3>2, <3>3, FS_Subset
    <3>5. Cardinality(K) \in Nat /\ Cardinality(T \cup {step}) \in Nat
      BY <3>2, <3>4, FS_CardinalityType
    <3>6. Cardinality(K) <= Keep[p]
      BY <2>1, <2>3, <2>4, <2>5, <3>1, <3>2, <3>4, <3>5
    <3> QED BY <3>6 DEF K
  <2>8. CASE ~Writing(p)
    <3>1. Len(q) <= Keep[p]
      BY <2>1, <2>2 DEF q, LimitInv, FewRemembered
    <3>2. K \in SUBSET T
      BY <2>6, <2>8
    <3>3. IsFiniteSet(K) /\ Cardinality(K) <= Cardinality(T)
      BY <2>4, <3>2, FS_Subset
    <3>4. Cardinality(K) \in Nat
      BY <3>3, FS_CardinalityType
    <3>5. Cardinality(K) <= Keep[p]
      BY <2>1, <2>3, <2>4, <2>5, <3>1, <3>3, <3>4
    <3> QED BY <3>5 DEF K
  <2> QED BY <2>7, <2>8
<1> QED BY LimitInit, LimitNext, <1>1, PTL DEF Spec

-----------------------------------------------------------------------------
(* The weight of an epoch, for every configuration and falling curve.      *)

LEMMA FloorKeepsOrder ==
  ASSUME NEW v \in 0 .. Unit, NEW w \in 0 .. Unit, v <= w
  PROVE  AtLeast(v) \in MinWeight .. Unit /\ AtLeast(v) <= AtLeast(w)
  BY ScheduleAssumption DEF AtLeast

LEMMA RateFactor ==
  ASSUME NEW r \in Rates \cup {NoRate}
  PROVE  ByRate(r) \in MinWeight .. Unit
<1>1. CASE Adaptive /\ r # NoRate
  <2>1. r \in Rates /\ Factor[r] \in 0 .. Unit
    BY <1>1, ScheduleAssumption
  <2> QED BY <1>1, <2>1, FloorKeepsOrder DEF ByRate
<1>2. CASE ~(Adaptive /\ r # NoRate)
  BY <1>2, ScheduleAssumption DEF ByRate
<1> QED BY <1>1, <1>2

LEMMA RateFactorFalls ==
  ASSUME NEW r \in Rates \cup {NoRate}, NEW s \in Rates \cup {NoRate}, NotBetter(r, s)
  PROVE  ByRate(s) <= ByRate(r)
<1>0. CASE r = s
  BY <1>0, RateFactor, ScheduleAssumption
<1> SUFFICES ASSUME r \in Rates, s \in Rates, r <= s PROVE ByRate(s) <= ByRate(r)
  BY <1>0 DEF NotBetter
<1>1. Factor[s] \in 0 .. Unit /\ Factor[r] \in 0 .. Unit /\ Factor[s] <= Factor[r]
  BY ScheduleAssumption
<1>2. AtLeast(Factor[s]) <= AtLeast(Factor[r])
  BY <1>1, FloorKeepsOrder
<1>3. r # NoRate /\ s # NoRate
  BY ScheduleAssumption
<1> QED BY <1>2, <1>3, ScheduleAssumption DEF ByRate

LEMMA CurveFalls ==
  ASSUME NEW d \in Nat, NEW e \in Nat, DecayStart <= d, d <= e
  PROVE  /\ AtLeast(Curve[Elapsed(e)]) \in MinWeight .. Unit
         /\ AtLeast(Curve[Elapsed(e)]) <= AtLeast(Curve[Elapsed(d)])
<1>1. /\ Elapsed(d) \in 0 .. DecayEpochs /\ Elapsed(e) \in 0 .. DecayEpochs
      /\ Elapsed(d) <= Elapsed(e)
  BY ScheduleAssumption DEF Elapsed
<1>2. /\ Curve[Elapsed(e)] \in 0 .. Unit /\ Curve[Elapsed(d)] \in 0 .. Unit
      /\ Curve[Elapsed(e)] <= Curve[Elapsed(d)]
  BY <1>1, ScheduleAssumption
<1> QED BY <1>2, FloorKeepsOrder

LEMMA DecayedInRange ==
  ASSUME NEW e \in Nat, NEW r \in Rates \cup {NoRate}
  PROVE  Decayed(e, r) \in MinWeight .. Unit /\ Decayed(e, r) \in 0 .. Unit
<1> SUFFICES Decayed(e, r) \in MinWeight .. Unit
  BY ScheduleAssumption
<1>1. CASE e <= DecayStart
  BY <1>1, RateFactor DEF Decayed
<1>2. CASE ~(e <= DecayStart)
  <2>1. AtLeast(Curve[Elapsed(e)]) \in MinWeight .. Unit
    BY <1>2, CurveFalls, ScheduleAssumption
  <2> QED BY <1>2, <2>1, RateFactor DEF Decayed
<1> QED BY <1>1, <1>2

\* Past the warm-up the weight is never below the configured minimum nor above 1.
THEOREM WeightKeepsRange == WeightInRange
<1> SUFFICES ASSUME NEW e \in Nat, NEW r \in Rates \cup {NoRate}, e >= Warmup
             PROVE  Weight(e, r) \in MinWeight .. Unit
  BY DEF WeightInRange
<1>1. Decayed(e, r) \in 0 .. Unit
  BY DecayedInRange
<1>2. AtLeast(Decayed(e, r)) \in MinWeight .. Unit
  BY <1>1, FloorKeepsOrder
<1> QED BY <1>2, ScheduleAssumption DEF Weight

\* Past the warm-up beliefs never come to count more.
THEOREM WeightNeverRises == WeightFalls
<1> SUFFICES ASSUME NEW d \in Nat, NEW e \in Nat, NEW r \in Rates \cup {NoRate}, NEW s \in Rates \cup {NoRate},
                    Warmup <= d, d <= e, NotBetter(r, s)
             PROVE  Weight(e, s) <= Weight(d, r)
  BY DEF WeightFalls
<1>1. ByRate(s) <= ByRate(r) /\ ByRate(r) \in 0 .. Unit /\ ByRate(s) \in 0 .. Unit
  BY RateFactor, RateFactorFalls, ScheduleAssumption
<1>2. Decayed(e, s) \in 0 .. Unit /\ Decayed(d, r) \in 0 .. Unit
  BY DecayedInRange
<1>3. Decayed(e, s) <= Decayed(d, r)
  <2>1. CASE e <= DecayStart
    BY <1>1, <2>1, ScheduleAssumption DEF Decayed
  <2>2. CASE d <= DecayStart /\ DecayStart < e
    <3>1. Decayed(e, s) <= ByRate(s)
      <4>1. AtLeast(Curve[Elapsed(e)]) \in 0 .. Unit
        BY <2>2, CurveFalls, ScheduleAssumption
      <4> QED BY <1>1, <2>2, <4>1, ScheduleAssumption DEF Decayed
    <3> QED BY <1>1, <1>2, <2>2, <3>1 DEF Decayed
  <2>3. CASE DecayStart < d
    <3> DEFINE c == AtLeast(Curve[Elapsed(d)])
               k == AtLeast(Curve[Elapsed(e)])
    <3>1. c \in 0 .. Unit /\ k \in 0 .. Unit /\ k <= c
      BY <2>3, CurveFalls, ScheduleAssumption
    <3>2. /\ Decayed(d, r) = IF c < ByRate(r) THEN c ELSE ByRate(r)
          /\ Decayed(e, s) = IF k < ByRate(s) THEN k ELSE ByRate(s)
      BY <2>3, ScheduleAssumption DEF Decayed
    <3> HIDE DEF c, k
    <3> QED BY <1>1, <3>1, <3>2, ScheduleAssumption
  <2> QED BY <2>1, <2>2, <2>3, ScheduleAssumption
<1>4. AtLeast(Decayed(e, s)) <= AtLeast(Decayed(d, r))
  BY <1>2, <1>3, FloorKeepsOrder
<1> QED BY <1>4, ScheduleAssumption DEF Weight

-----------------------------------------------------------------------------
(* The schedule of a run.                                                  *)

\* k whole passes and "at" batches of the next one.
Batches(k, at) == k * EpochLen + at

\* The checkpoint the tracker names was taken after as many batches as its
\* step says.
SavedInPlace ==
  ~astray /\ tracker \in Steps => \E k \in Nat : tracker = Batches(k, data[tracker].at)

\* The running launch is as far in the schedule as its step says; its own
\* count of the passes may be behind.
Taken == IF phase = "train" THEN step - 1 ELSE step
RunsInPlace ==
  ~astray /\ Running =>
    \E k \in Nat : /\ Taken = Batches(k, pos)
                   /\ epoch <= k
                   /\ launch = 1 => epoch = k

\* Training goes beyond the last step only in a launch that resumed there.
PastTheEnd == ~astray /\ phase = "train" /\ step > TotalSteps => tracker >= TotalSteps

DataInPlace ==
  phase \in {"tracker", "tracker open"} /\ step \in Steps => data[step].at = pos

FirstLaunch == launch = 0 => tracker = Absent

SInv == /\ SavedInPlace /\ RunsInPlace /\ PastTheEnd /\ FinishedIsSaved
        /\ DataInPlace /\ FirstLaunch

\* The epochs hold the steps: total_training_steps is not configured beyond
\* total_epochs * len(train_dataloader).
EnoughEpochs == TotalSteps <= TotalEpochs * EpochLen

-----------------------------------------------------------------------------
LEMMA NextPass ==
  ASSUME NEW k \in Int PROVE (k + 1) * EpochLen = k * EpochLen + EpochLen
  BY ConfigAssumption

LEMMA MorePasses ==
  ASSUME NEW j \in Int, NEW k \in Int, j <= k PROVE j * EpochLen <= k * EpochLen
  BY ConfigAssumption

LEMMA PassAndRest ==
  ASSUME NEW k \in Nat, NEW at \in 0 .. EpochLen
  PROVE  /\ Batches(k, at) % EpochLen = at % EpochLen
         /\ at < EpochLen => Batches(k, at) \div EpochLen = k
<1>1. EpochLen \in Nat \ {0}
  BY ConfigAssumption
<1>2. CASE at < EpochLen
  <2>1. (k * EpochLen + at) % EpochLen = at /\ (0 * EpochLen + at) % EpochLen = at
    BY <1>1, <1>2
  <2>2. (k * EpochLen + at) \div EpochLen = k
    BY <1>1, <1>2
  <2> QED BY <1>1, <2>1, <2>2 DEF Batches
<1>3. CASE at = EpochLen
  <2>1. ((k + 1) * EpochLen + 0) % EpochLen = 0 /\ (1 * EpochLen + 0) % EpochLen = 0
    BY <1>1
  <2>2. Batches(k, at) = (k + 1) * EpochLen + 0 /\ at = 1 * EpochLen + 0
    BY <1>1, <1>3, NextPass DEF Batches
  <2> QED BY <1>3, <2>1, <2>2
<1> QED BY <1>2, <1>3, <1>1

LEMMA SInit == Init => SInv
<1> SUFFICES ASSUME Init PROVE SInv
  OBVIOUS
<1>1. phase = "down" /\ tracker = Absent /\ Absent \notin Steps
  BY Numbers DEF Init
<1> QED
  BY <1>1
  DEF SInv, SavedInPlace, RunsInPlace, Running, PastTheEnd, FinishedIsSaved,
      DataInPlace, FirstLaunch

LEMMA SLaunch == IInv /\ SInv /\ Launch => SInv'
<1> SUFFICES ASSUME IInv, SInv, Launch PROVE SInv'
  OBVIOUS
<1>1. UNCHANGED <<shard, data, folder, tracker>> /\ launch' = launch + 1
      /\ phase' \in {"train", "failed"}
  BY DEF Launch, disk, StartAfter
<1>2. PICK mode \in ResumeModes : \E s \in Targets(mode) :
        /\ astray' = (astray \/ s # Latest)
        /\ IF Fails(mode, s)
           THEN phase' = "failed" /\ UNCHANGED <<step, epoch, pos>>
           ELSE StartAfter(s)
  BY DEF Launch
<1>3. PICK s \in Targets(mode) :
        /\ astray' = (astray \/ s # Latest)
        /\ IF Fails(mode, s)
           THEN phase' = "failed" /\ UNCHANGED <<step, epoch, pos>>
           ELSE StartAfter(s)
  BY <1>2
<1>4. launch \in Nat /\ launch' # 0
  BY <1>1, Counters DEF IInv
<1>5. ASSUME ~astray', phase' = "train"
      PROVE  /\ ~astray /\ s = Latest /\ step' = s + 1 /\ epoch' = 0
             /\ pos' = IF s = Absent \/ data[s].by = Absent THEN 0 ELSE data[s].at
  BY <1>3, <1>5 DEF StartAfter
<1>6. ASSUME ~astray', phase' = "train", tracker \in Steps
      PROVE  s = tracker /\ s # Absent /\ pos' = data[s].at
  <2>1. Whole(tracker) /\ s = tracker
    BY <1>5, <1>6 DEF IInv, TrackedIsWhole, Latest, Whole
  <2> QED BY <1>5, <1>6, <2>1, Numbers DEF Whole
<1>7. ASSUME ~astray', phase' = "train", tracker \notin Steps
      PROVE  s = 0 /\ pos' = 0
  BY <1>5, <1>7, Numbers DEF IInv, TypeOK, DiskOK, Latest
<1>8. SavedInPlace'
  BY <1>1, <1>3 DEF SInv, SavedInPlace
<1>9. RunsInPlace'
  <2> SUFFICES ASSUME ~astray', phase' = "train"
               PROVE  \E k \in Nat : /\ step' - 1 = Batches(k, pos')
                                     /\ epoch' <= k
                                     /\ launch' = 1 => epoch' = k
    BY <1>1 DEF RunsInPlace, Running, Taken
  <2>1. CASE tracker \in Steps
    <3>1. PICK k \in Nat : tracker = Batches(k, data[tracker].at)
      BY <1>5, <2>1 DEF SInv, SavedInPlace
    <3>2. launch # 0
      BY <2>1, Numbers DEF SInv, FirstLaunch
    <3>3. step' - 1 = Batches(k, pos')
      BY <1>5, <1>6, <2>1, <3>1, Numbers
    <3> QED BY <1>1, <1>4, <1>5, <3>2, <3>3
  <2>2. CASE tracker \notin Steps
    <3>1. step' - 1 = Batches(0, pos')
      BY <1>5, <1>7, <2>2, Numbers DEF Batches
    <3> QED BY <1>5, <3>1
  <2> QED BY <2>1, <2>2
<1>10. PastTheEnd'
  <2> SUFFICES ASSUME ~astray', phase' = "train", step' > TotalSteps
               PROVE  tracker >= TotalSteps
    BY <1>1 DEF PastTheEnd
  <2>1. step' = s + 1
    BY <1>5
  <2>2. tracker \in Steps
    BY <1>7, <2>1, Numbers
  <2> QED BY <1>6, <2>1, <2>2, Numbers
<1> QED
  BY <1>1, <1>4, <1>8, <1>9, <1>10
  DEF SInv, FinishedIsSaved, DataInPlace, FirstLaunch

LEMMA STrain == IInv /\ SInv /\ TrainBatch => SInv'
<1> SUFFICES ASSUME IInv, SInv, TrainBatch PROVE SInv'
  OBVIOUS
<1>1. UNCHANGED <<data, tracker, epoch, launch, astray>>
      /\ phase = "train" /\ pos' = pos + 1
  BY DEF TrainBatch, disk
<1>2. \/ phase' = "workers" /\ step' = step
      \/ phase' = "train" /\ step' = step + 1 /\ step < TotalSteps
  BY Counters, Numbers DEF IInv, TrainBatch, EndStep, SaveIsDue, IsLastStep
<1>3. step \in Int /\ pos \in Int /\ TotalSteps \in Int
  BY Counters, Numbers DEF IInv
<1>4. RunsInPlace'
  <2> SUFFICES ASSUME ~astray
               PROVE  \E k \in Nat : /\ Taken' = Batches(k, pos')
                                     /\ epoch <= k
                                     /\ launch = 1 => epoch = k
    BY <1>1 DEF RunsInPlace
  <2>1. PICK k \in Nat : /\ step - 1 = Batches(k, pos)
                         /\ epoch <= k
                         /\ launch = 1 => epoch = k
    BY <1>1 DEF SInv, RunsInPlace, Running, Taken
  <2>2. Taken' = step
    BY <1>2, <1>3 DEF Taken
  <2>3. k * EpochLen \in Int
    BY Numbers
  <2>4. step = Batches(k, pos + 1)
    BY <1>3, <2>1, <2>3 DEF Batches
  <2> QED BY <1>1, <2>1, <2>2, <2>4
<1>5. PastTheEnd'
  BY <1>1, <1>2, <1>3 DEF SInv, PastTheEnd
<1> QED
  BY <1>1, <1>2, <1>4, <1>5
  DEF SInv, SavedInPlace, FinishedIsSaved, DataInPlace, FirstLaunch

LEMMA SEpoch == EnoughEpochs /\ IInv /\ SInv /\ NextEpoch => SInv'
<1> SUFFICES ASSUME EnoughEpochs, IInv, SInv, NextEpoch PROVE SInv'
  OBVIOUS
<1>1. UNCHANGED <<data, tracker, step, launch, astray>>
      /\ phase = "train" /\ pos = EpochLen
  BY DEF NextEpoch, disk
<1>2. /\ step \in Int /\ epoch \in Int /\ 0 <= epoch
      /\ EpochLen \in Int /\ TotalSteps \in Int /\ TotalEpochs \in Int
  BY Counters, Numbers DEF IInv
<1>3. ASSUME ~astray
      PROVE  \E k \in Nat : /\ step - 1 = Batches(k, EpochLen)
                            /\ epoch <= k
                            /\ launch = 1 => epoch = k
  BY <1>1, <1>3 DEF SInv, RunsInPlace, Running, Taken
<1>4. CASE epoch + 1 < TotalEpochs
  <2>1. epoch' = epoch + 1 /\ pos' = 0 /\ phase' = "train"
    BY <1>1, <1>4 DEF NextEpoch
  <2>2. RunsInPlace'
    <3> SUFFICES ASSUME ~astray
                 PROVE  \E k \in Nat : /\ step - 1 = Batches(k, 0)
                                       /\ epoch + 1 <= k
                                       /\ launch = 1 => epoch + 1 = k
      BY <1>1, <2>1 DEF RunsInPlace, Taken
    <3>1. PICK k \in Nat : /\ step - 1 = Batches(k, EpochLen)
                           /\ epoch <= k
                           /\ launch = 1 => epoch = k
      BY <1>3
    <3>2. Batches(k, EpochLen) = Batches(k + 1, 0)
      <4>1. k * EpochLen \in Int /\ (k + 1) * EpochLen = k * EpochLen + EpochLen
        BY <1>2, NextPass
      <4> QED BY <1>2, <4>1 DEF Batches
    <3>3. step - 1 = Batches(k + 1, 0) /\ epoch + 1 <= k + 1
          /\ (launch = 1 => epoch + 1 = k + 1) /\ k + 1 \in Nat
      BY <1>2, <3>1, <3>2
    <3> QED BY <3>3
  <2> QED
    BY <1>1, <2>1, <2>2
    DEF SInv, SavedInPlace, PastTheEnd, FinishedIsSaved, DataInPlace, FirstLaunch
<1>5. CASE ~(epoch + 1 < TotalEpochs)
  <2>1. phase' = "over" /\ UNCHANGED <<epoch, pos>>
    BY <1>1, <1>5 DEF NextEpoch
  <2>2. FinishedIsSaved'
    <3> SUFFICES ASSUME ~astray PROVE tracker >= TotalSteps
      BY <1>1 DEF FinishedIsSaved
    <3>1. PICK k \in Nat : step - 1 = Batches(k, EpochLen) /\ epoch <= k
      BY <1>3
    <3>2. TotalEpochs <= k + 1
      BY <1>2, <1>5, <3>1
    <3>3. TotalEpochs * EpochLen <= (k + 1) * EpochLen
      BY <1>2, <3>2, MorePasses
    <3>4. step - 1 = (k + 1) * EpochLen
      <4>1. k * EpochLen \in Int /\ (k + 1) * EpochLen = k * EpochLen + EpochLen
        BY <1>2, NextPass
      <4> QED BY <3>1, <4>1 DEF Batches
    <3>5. step > TotalSteps
      <4>1. TotalEpochs * EpochLen \in Int /\ (k + 1) * EpochLen \in Int
        BY <1>2
      <4> QED BY <1>2, <3>3, <3>4, <4>1 DEF EnoughEpochs
    <3> QED BY <1>1, <3>5 DEF SInv, PastTheEnd
  <2> QED
    BY <1>1, <2>1, <2>2
    DEF SInv, SavedInPlace, RunsInPlace, Running, PastTheEnd, DataInPlace, FirstLaunch
<1> QED BY <1>4, <1>5

\* The ranks change nothing the schedule reads.
LEMMA SWorkers ==
  ASSUME IInv, SInv, UNCHANGED <<data, tracker, step, epoch, pos, launch, astray>>,
         phase = "workers", phase' \in {"workers", "data"}
  PROVE  SInv'
<1>1. Taken' = Taken /\ Running
  BY DEF Taken, Running
<1> QED
  BY <1>1
  DEF SInv, SavedInPlace, RunsInPlace, PastTheEnd, FinishedIsSaved,
      DataInPlace, FirstLaunch

LEMMA SData == IInv /\ SInv /\ (OpenData \/ WriteData) => SInv'
<1> SUFFICES ASSUME IInv, SInv, OpenData \/ WriteData PROVE SInv'
  OBVIOUS
<1>1. UNCHANGED <<tracker, step, epoch, pos, launch, astray>>
      /\ phase \in {"data", "data open"} /\ phase' \in {"data open", "tracker"}
      /\ (phase' = "tracker" => data' = [data EXCEPT ![step] = [by |-> launch, at |-> pos]])
  BY DEF OpenData, WriteData
<1>2. step \in Steps /\ step \in Int /\ tracker \in Int
  BY <1>1, Counters, InRange DEF IInv, Running
<1>3. \A s \in Steps \ {step} : data'[s] = data[s]
  BY <1>2 DEF OpenData, WriteData, IInv, TypeOK, DiskOK
<1>4. SavedInPlace'
  <2>1. ~astray => tracker < step
    BY <1>1 DEF IInv, Ahead, Running
  <2>2. ~astray => tracker # step
    BY <1>2, <2>1
  <2> QED BY <1>1, <1>3, <2>2 DEF SInv, SavedInPlace
<1>5. RunsInPlace'
  BY <1>1 DEF SInv, RunsInPlace, Running, Taken
<1>6. DataInPlace'
  <2>1. data \in [Steps -> [by : Launches \union {Absent, Torn}, at : 0 .. EpochLen]]
    BY DEF IInv, TypeOK, DiskOK
  <2>2. CASE phase' = "tracker"
    <3>1. data'[step] = [by |-> launch, at |-> pos]
      BY <1>1, <1>2, <2>1, <2>2
    <3>2. data'[step].at = pos
      BY <3>1
    <3> QED BY <1>1, <3>2 DEF DataInPlace
  <2>3. CASE phase' = "data open"
    BY <2>3 DEF DataInPlace
  <2> QED BY <1>1, <2>2, <2>3
<1> QED
  BY <1>1, <1>4, <1>5, <1>6 DEF SInv, PastTheEnd, FinishedIsSaved, FirstLaunch

LEMMA STracker == IInv /\ SInv /\ (OpenTracker \/ WriteTracker) => SInv'
<1> SUFFICES ASSUME IInv, SInv, OpenTracker \/ WriteTracker PROVE SInv'
  OBVIOUS
<1>1. UNCHANGED <<data, epoch, pos, launch, astray>>
      /\ phase \in {"tracker", "tracker open"} /\ Running
  BY DEF OpenTracker, WriteTracker, Running
<1>2. step \in Steps /\ step \in Int /\ launch # 0
  <2>1. step \in Steps /\ launch \in Launches
    BY <1>1, InRange DEF IInv
  <2> QED BY <2>1, Numbers
<1>3. ASSUME ~astray
      PROVE  \E k \in Nat : /\ step = Batches(k, pos)
                            /\ epoch <= k
                            /\ launch = 1 => epoch = k
  BY <1>1, <1>3 DEF SInv, RunsInPlace, Taken
<1>4. CASE OpenTracker
  <2>1. tracker' = Torn /\ phase' = "tracker open" /\ step' = step
    BY <1>4 DEF OpenTracker
  <2>2. SavedInPlace' /\ FirstLaunch'
    BY <1>1, <1>2, <2>1, Numbers DEF SavedInPlace, FirstLaunch
  <2>3. RunsInPlace'
    BY <1>1, <1>3, <2>1 DEF RunsInPlace, Taken
  <2> QED
    BY <1>1, <2>1, <2>2, <2>3
    DEF SInv, PastTheEnd, FinishedIsSaved, DataInPlace
<1>5. CASE WriteTracker
  <2>1. /\ tracker' = step /\ step' = step + 1
        /\ phase' = IF step >= TotalSteps THEN "over" ELSE "train"
    BY <1>5 DEF WriteTracker, EndStep, IsLastStep
  <2>2. SavedInPlace'
    BY <1>1, <1>2, <1>3, <2>1 DEF SInv, SavedInPlace, DataInPlace
  <2>3. RunsInPlace'
    <3>1. step' - 1 = step
      BY <1>2, <2>1
    <3> QED BY <1>1, <1>3, <2>1, <3>1 DEF RunsInPlace, Running, Taken
  <2>4. PastTheEnd' /\ FinishedIsSaved'
    BY <1>2, <2>1, Numbers DEF PastTheEnd, FinishedIsSaved
  <2> QED BY <1>1, <1>2, <2>1, <2>2, <2>3, <2>4 DEF SInv, DataInPlace, FirstLaunch
<1> QED BY <1>4, <1>5

LEMMA SCrash == SInv /\ Crash => SInv'
<1> SUFFICES ASSUME SInv, Crash PROVE SInv'
  OBVIOUS
<1>1. UNCHANGED <<data, tracker, launch, astray>> /\ phase' = "down"
  BY DEF Crash, disk
<1> QED
  BY <1>1
  DEF SInv, SavedInPlace, RunsInPlace, Running, PastTheEnd, FinishedIsSaved,
      DataInPlace, FirstLaunch

LEMMA SStutter == SInv /\ UNCHANGED vars => SInv'
<1> SUFFICES ASSUME SInv, UNCHANGED vars PROVE SInv'
  OBVIOUS
<1>1. UNCHANGED <<data, tracker, phase, step, epoch, pos, launch, astray>>
  BY DEF vars
<1>2. SavedInPlace' /\ PastTheEnd' /\ FinishedIsSaved' /\ DataInPlace' /\ FirstLaunch'
  BY <1>1 DEF SInv, SavedInPlace, PastTheEnd, FinishedIsSaved, DataInPlace, FirstLaunch
<1>3. RunsInPlace'
  BY <1>1 DEF SInv, RunsInPlace, Running, Taken
<1> QED BY <1>2, <1>3 DEF SInv

LEMMA SNext == EnoughEpochs /\ IInv /\ SInv /\ [Next]_vars => SInv'
<1> SUFFICES ASSUME EnoughEpochs, IInv, SInv, [Next]_vars PROVE SInv'
  OBVIOUS
<1>1. ASSUME NEW r \in Ranks, Worker(r) PROVE SInv'
  <2>1. UNCHANGED <<data, tracker, step, epoch, pos, launch, astray, phase>>
        /\ phase = "workers"
    BY <1>1 DEF Worker, Rotate, OpenShard, WriteShard
  <2> QED BY <2>1, SWorkers
<1>2. CASE WorkersReturn
  <2>1. UNCHANGED <<data, tracker, step, epoch, pos, launch, astray>>
        /\ phase = "workers" /\ phase' \in {"workers", "data"}
    BY <1>2 DEF WorkersReturn, disk
  <2> QED BY <2>1, SWorkers
<1> QED
  BY <1>1, <1>2, SLaunch, STrain, SEpoch, SData, STracker, SCrash, SStutter
  DEF Next, Driver, Rest

\* However often the run is killed and resumed, the batches come in order,
\* a run that ends has saved its last step, and the weights of the belief
\* rewards come late, never early.
THEOREM ScheduleIsKept ==
  ASSUME KeepsOlder, EnoughEpochs PROVE Spec => []ScheduleSurvives
<1>1. Spec => []SInv
  <2>1. EnoughEpochs /\ IInv /\ SInv /\ [Next]_vars => SInv'
    BY SNext
  <2>2. Init => SInv
    BY SInit
  <2>3. Spec => []IInv
    BY Inductive
  <2>4. IInv /\ SInv /\ [Next]_vars => SInv'
    BY <2>1
  <2> QED BY <2>2, <2>3, <2>4, PTL DEF Spec
<1>2. ASSUME IInv, SInv, ~astray, phase = "train" PROVE pos % EpochLen = (step - 1) % EpochLen
  <2>1. PICK k \in Nat : step - 1 = Batches(k, pos)
    BY <1>2 DEF SInv, RunsInPlace, Running, Taken
  <2>2. pos \in 0 .. EpochLen
    BY <1>2 DEF IInv, TypeOK, CountersOK
  <2> QED BY <2>1, <2>2, PassAndRest
<1>3. ASSUME IInv, SInv, ~astray, phase = "train", pos < EpochLen
      PROVE  LET due == (step - 1) \div EpochLen
             IN  /\ epoch <= due
                 /\ launch = 1 => epoch = due
                 /\ epoch >= Warmup => \A rate \in Rates \cup {NoRate} :
                                         Weight(due, rate) <= Weight(epoch, rate)
  <2>1. PICK k \in Nat : /\ step - 1 = Batches(k, pos) /\ epoch <= k
                         /\ launch = 1 => epoch = k
    BY <1>3 DEF SInv, RunsInPlace, Running, Taken
  <2>2. pos \in 0 .. EpochLen /\ epoch \in Nat
    BY <1>3, Numbers DEF IInv, TypeOK, CountersOK
  <2>3. (step - 1) \div EpochLen = k
    BY <1>3, <2>1, <2>2, PassAndRest
  <2>4. ASSUME epoch >= Warmup, NEW rate \in Rates \cup {NoRate}
        PROVE  Weight(k, rate) <= Weight(epoch, rate)
    <3>1. Warmup <= epoch
      BY <2>2, <2>4, ScheduleAssumption
    <3>2. NotBetter(rate, rate)
      BY DEF NotBetter
    <3>3. epoch \in Nat /\ k \in Nat /\ epoch <= k
      BY <2>1, <2>2
    <3>4. \A d, e \in Nat : Warmup <= d /\ d <= e => Weight(e, rate) <= Weight(d, rate)
      BY <2>4, <3>2, WeightNeverRises DEF WeightFalls
    <3> QED BY <3>1, <3>3, <3>4
  <2> QED BY <2>1, <2>3, <2>4
<1>4. IInv /\ SInv => ScheduleSurvives
  BY <1>2, <1>3 DEF SInv, ScheduleSurvives, BatchesInOrder, WeightsLag
<1>5. Spec => []IInv
  BY Inductive
<1> QED BY <1>1, <1>4, <1>5, PTL
=============================================================================
