# A TLA+ model of the training-framework comparison

The repository runs one grid of experiments: a training *method* (pretraining,
SFT, DPO, online DPO, GRPO, PPO) crossed with a *framework* (TRL, Unsloth, verl,
slime, Megatron-LM, torchtitan).  A cell of the grid is a YAML config, a
trainer module that builds a command line for the framework, and a SkyPilot
task that runs it on one or several machines.  Little of the code computes
anything.  What can go wrong is coordination: which node does what and when,
what a job finds that an earlier job left, which weights a training run really
starts from, and what happens when one of the parts dies.  These modules model
that.

Paths below are relative to `src/`; `pkg/` stands for
`src/training_framework_comparison_tutorial/`.

## 1. Inventory

| Component | State it keeps | Operations | Correct when |
|---|---|---|---|
| `sky/ray_bootstrap.sh` | ray daemons, a marker file per node, membership of the ray cluster | check, start head, join, write marker, poll, exec driver, PREPARE | a driver only sees raylets of its own job and environment, on prepared nodes; nobody waits for ever |
| `sky/_netenv.sh` | exported NCCL/Gloo variables | detect the interface of the node | the nodes of a job agree |
| `sky/hf_torchrun_launch.sh` | none | choose single process, standalone or static rendezvous | all provisioned nodes train together |
| `pkg/run.py` | the registry; `os.environ` | gates, W&B environment, `train()`; `--prepare-only` | no cell starts in a world it is not wired for |
| `pkg/trainers/_dist.py` | none (reads `SKYPILOT_*`) | `resolve`, `guard_wired`, `torchrun_args` | declared and provisioned nodes agree, or the job dies |
| `pkg/trainers/*.py` (17 cells) | files under `output.local_dir`: converted seed, checkpoint, export | guards, convert, ray start, train, export or save | the weights trained are those the config names, and what is exported is whole |
| `pkg/pipeline.py` | a workspace with a directory per stage | plan, dispatch of the stages in one process | each stage continues what the previous one trained |
| `pkg/trainers/_wandb.py` | `WANDB_*` of the process | derive, `setdefault` | a run can be told from others afterwards; values given at launch win |
| `pkg/config.py` | none | `extends` merge, derived names | child over parent, no sharing |
| `pkg/trainers/_preflight.py`, `sky/preflight.sky.yaml` | none | is this GPU covered by torch's architecture list | refused before it trains, whatever was believed of the image |
| `pkg/trainers/_megatron_bridge_entry.py` | none | convert, finetune, export under torchrun | the source of the weights is the config's |
| `pkg/adapters/` (sources, formats, chat template, rewards) | registries | row conversions; scoring | every framework sees the same data and reward |
| `pkg/torchtitan_rl/`, `pkg/megatron_rl/` | position and order of a resumable stream | `next`, `state_dict`, `load_state_dict`; single-turn environments | a restored stream goes on where it was |
| `pkg/model_sizes.py` | a table | look-up | -- |
| `sky/snsg_sweep.sh`, `sky/snsg_full_sweep.sh` | results per cell, a cluster at a time | preflight of the images, gates, launch, record, tear down | a PASS was earned; no machine for a known wall or a dead image; no cluster stays up |
| `sky/*.yaml`, `docker/`, `Dockerfile` | -- | declarations | -- |

How they interact.  SkyPilot runs a task's `run:` block on every node of a job.
For a *ray* cell the block is `ray_bootstrap.sh`, which forms a cluster and runs
`tfct-run` on the head only; for a *hf* cell it is `hf_torchrun_launch.sh`,
which wraps `tfct-run` in a torchrun on every node; for the others it is
`tfct-run` itself, on every node, whose trainer starts torchrun.  `tfct-run`
loads a config and calls `dispatch`; `tfct-pipeline` plans a list of configs
and calls the same `dispatch` for one after the other in one process.  The
trainers communicate through files only: a path put into `model.name`, a
directory that exists or not, a checkpoint a framework finds where it saves.

What is hard: copies of one script that run on several nodes with nothing but
a `sleep` between them; daemons, marker files, seeds and checkpoints that
outlive the job that made them; jobs killed between two steps; timeouts after
which the program goes on regardless; two counts of nodes, declared and
provisioned; one process environment shared by the stages of a pipeline.
`PROJECT.json` lists the hazards with their lines.

## 2. Modules

| Module | Models | Proofs |
|---|---|---|
| `RayBootstrap` | `sky/ray_bootstrap.sh` over several jobs of a kept cluster | `RayBootstrapProofs` |
| `Cells` | the registry, the wired cells, `resolve` and `guard_wired`, and each `train()` as a program of steps | `CellProofs` |
| `Pipeline` (extends `Cells`) | `pipeline.py`, `dispatch`, `_wandb.py`, several runs in one workspace | `PipelineProofs` |
| `Vertical` | what a vertical pipeline promises; `Pipeline` implements it | `PipelineProofs` |
| `Launch` (extends `Cells`) | one experiment launched on several machines: rendezvous, conversions, shards, export | `LaunchProofs` |
| `Preflight` | `trainers/_preflight.py`: the architecture test, the gate, the preflight task's exit code | (in `SweepProofs`) |
| `Sweep` (extends `Cells`, `Preflight`) | `snsg_full_sweep.sh` and `snsg_sweep.sh` over the clusters they launch | `SweepProofs` |
| `Rewards` | `adapters/rewards.py`: how an answer is found, normalised and scored, and by whom | `Gsm8kTaskProofs` |
| `Gsm8kStream` | `torchtitan_rl/gsm8k/data.py`: the shuffled stream and its checkpoints | `Gsm8kStreamProofs` |
| `Gsm8kTask` (extends `Gsm8kStream`, `Rewards`) | the gsm8k task of the RL cells: rows, what each framework is handed, rollouts, scores | `Gsm8kTaskProofs` |
| `MCRayBootstrap`, `MCPipeline`, `MCLaunch`, `MCTaskSweep` | instances for TLC | -- |

### RayBootstrap

`pc[n]` is where node n's copy of the script is; `reuse_ray` and `tries` are
its shell variables; `marker[n]` is the file `/tmp/tfct_ray_env.6385`;
`rayEnv[n]` and `rayJob[n]` are the environment of, and the job that started,
the raylet alive on n; `members` is what `ray status` lists; `prepared[n]` is
the last job whose PREPARE succeeded there.  `job` holds the variables SkyPilot
and the user set.

| Action | Lines |
|---|---|
| `ExecSingle` | 31-34 |
| `CheckRay(n)` | 75-100: nothing alive, reuse, or exit 1 |
| `StartHead`, `WriteMarker(Head)`, `PollJoined`, `DriverExits` | 102-114 |
| `Prepare(n)`, `PrepareFails(n)`, `Join(n)`, `WriteMarker(n)` | 115-130 |
| `Submit`, `JobOver`, `Cancel`, `DownAndLaunch` | SkyPilot and the user (external) |
| `RayDies`, `RayletDies(n)` | ray (external) |

`ray start` and the write of the marker are two actions because a job may be
killed between them.  Sleeps are not modelled: the delay of 15 s orders nothing
that a slow head could not undo.  Ray is modelled by what the script relies on:
`ray status` succeeds while the head's control plane lives, `ray start` fails
where a ray already runs, raylets die with their control plane.

### Cells

A trainer is a record.  `steps` is the order of its guards and effects, `reads`
the config key its weights come from, `resumes` whether the framework loads the
checkpoint directory it saves to, `labels` the W&B fields it passes on the
command line.  The steps are explained at the head of the module.  The
framework written `megatron` is `megatron-lm`.  `resolve(c, actual, ips)` keeps
the two checks of `_dist.resolve` in their order; its third argument is the
number of lines of `SKYPILOT_NODE_IPS`.

### Pipeline

One process runs a list of configs.  Weights are abstracted to a lineage, the
`<<run, stage>>` pairs that trained them, and two flags: a full model or an
adapter, whole files or half-written ones.  `disk` maps a path (stage,
method, framework, part) to weights; the parts are the stage directory as an HF
model (`dir`), its export (`hf`), the converted seed and the checkpoint.
`environ` is `os.environ` for the four `WANDB_*` variables; `board` is what
`wandb.init` recorded.  `ChainOf` reads the chain of stages off a lineage, for the
refinement.

| Action | Code |
|---|---|
| `Launch`, `Plan` | `pipeline.main`, `plan_pipeline` (all stages are planned before the first runs) |
| `Dispatch` | `run.dispatch`: registry, `guard_wired`, `apply_env`, `train()` |
| `Guard` | the guards at the head of a `train()`, and `resolve` |
| `Convert`, `ConvertSkipped` | HF weights to a Megatron seed; skipped by `convert_once` cells if the directory is there, or if the config names a seed converted beforehand (`mcore_checkpoint`) |
| `Fit` | the framework's run: resumes its checkpoint, or starts from the seed (its own, or the one converted beforehand), or from the model named |
| `SaveModel` | `export`, `save_model` |
| `NoInput` | a `model.name` that names nothing on the disk |
| `StageReturns` | the loop of `run_pipeline` |
| `Crash`, `CrashWriting` | an error or a kill, before a step and in the middle of one |

### Launch

One config and its relaunches on a set of machines.  `Submit` picks the nodes
provisioned, the config's `nodes` is what it declares, and the two may differ;
the config may have been edited since the last launch, its cell and its
working directory are the same.  Every node goes through its trainer's program;
a training run (`FitStarts`, `FitEnds`) takes the nodes that `Gathers` allows:
those declared for torchrun (`torchrun_args`), those provisioned for the HF
launcher, those of the driver's ray cluster for ray.  `fits` are the groups that
started a run, `seed` the converted seed of each working directory, `shards`
who wrote which part of the checkpoint there, `exported` what an export read.
A group that starts is not empty.
On a ray cell's workers the block is the bootstrap, which `RayBootstrap` models in
full; here it is one action, `Joins(n)`.  The head waits for the workers for a while
only (run `ray_wait`), so a job begins with the head alone in its cluster, and a
worker joins at any time, or fails first.  `Cluster` is what has joined or, once the
driver has started a ray head of its own (`own_head`), the head alone; a training run
starts when it holds the nodes asked for.

### Sweep and Preflight

`script`, `stage`, `item` are where a shell is; `waiting` is what its `sky launch`
has come to; `imgState` and `results` are `IMG_STATE` and `RESULTS`;
`clusters[name]` is the machine of that name: its image, the torch that the
image turned out to hold, its GPU, the sweep that launched its last job, and that job.

| Action | Code |
|---|---|
| `Start` | the arguments and tables at the head of either script |
| `PassOver` | the two gates of stage 2 |
| `LaunchJob`, `LaunchFails` | `sky launch`: it comes to a job, or to nothing |
| `LaunchReturns(fails)` | `run1` after the launch, the `sky down` that may fail, the verdict |
| `JobReports` | the preflight task: `report()` |
| `JobStarts`, `JobEnds` | `dispatch` with its gates, among them `check_gpu_arch` |
| `KillScript`, `Preempt`, `Autodown` | the user, the cloud, SkyPilot (external) |

What a torch can run is chosen anew for each machine, since `:latest` moves and the
preflight task exists because nobody knows.  Assumed of SkyPilot: a launch on a
cluster of that name with another image or GPU is refused; a launch whose task
file is missing has no job (a row whose config is missing does rent a machine, where its
job fails in `JobStarts`); the automatic take-down does not overtake the return
of the launch that waits for the job.  The plain sweep has no images in its rows,
they come from the task files; both scripts are given one table here.  Its verdict
is recorded before `sky down`, that of the staged sweep after it; both are in one step.

### Rewards, Gsm8kStream, Gsm8kTask

A text is a sequence of tokens (words, blanks, line breaks, the marker `####`,
numbers in one of five forms, boxes with tokens inside), which is what the three
regular expressions of `rewards.py` tell apart.  `_HASHED` keeps its trap: the
blanks after the marker may be line breaks.  A search is a set of places
(`At`, `Digits`) and its least element.  A torn text, such as a box that is
never closed, is left out.

The stream keeps the generator's state as the number of shuffles done, `Perm` being
what a seed makes of each.  `state_dict` hands out the live order list, so a
checkpoint in memory (`snap`) has no order of its own: `Persist` writes the order of
that moment.  A checkpoint written after the next shuffle is torn; `exact` is the
history variable that tells runs that never resumed from one.

`Gsm8kTask` is the rollout of torchtitan: `Begin` (a row, `Gsm8kEnv.init`),
`Answer` (`Gsm8kEnv.step`: done after one turn), `ScoreRollout` (the rubric), with
`Checkpoint` and `TaskResume` between rollouts or at any time.  Beside its reward
stand `trl_score`, `verl_score`, `slime_score` and `megatron_score`: the same row
and completion on the other frameworks' ways to the scorer.  `Tokens` are what a text
is made of; `Solved` is the form of a GSM8K answer: it ends with the marker and a
number, which `_extract_gsm8k_gold` takes for granted too.

## 3. Runs

`NoEnv`, `Nodes` and the rest are model values; no symmetry is used, because
most runs check a temporal or action property and the head is not like the
workers.

| Run | Instance | Checks | Shows |
|---|---|---|---|
| `ray_fresh` | 3 nodes, 2 jobs, 2 polls, reuse off, all faults | `TypeOK`, `IInv`, `NoStaleEnv`, `MembersPrepared` | with the default (reuse off) a driver never sees a raylet of another job, of another environment or of an unprepared worker |
| `ray_reuse` | 2 nodes with their own interface, 3 jobs, reuse on and off | `MarkerHonest`, `ReuseKeepsEnv`, `MarkerInv`, `BootEnds` | a marker next to a live raylet is true unless a script died between start and write; a head that reuses does so in its environment; a boot always ends |
| `pipeline` | 18 specs, 3 user environments, 2 runs | `TypeOK`, `InputReady`, `Delivered`, `NeverFromTorn`, `HandoffKept`, `HonestLabels`, `IsVertical` | see below |
| `launch` | 3 machines, shared file system, 26 configs, 2 launches | `TypeOK`, `ResolvedWorld`, `SeedWhole`, `ExportComplete`, `JobEnds`, `RayJobEnds` | see below |
| `task_sweep` | 2 rows, 3 epochs, 30 answers; 5 rows, 2 sweeps, 3 torches, 2 GPUs, 2 faults | `StreamTypeOK`, `ReplaysSame`, `EpochOnce`, `TaskTypeOK`, `ScoresAgree`, `ObedienceCounts`; `SweepTypeOK`, `PassEarned`, `GateRespected`, `NoDeadTraining`, `SerialLaunches`, `AllDown` | see below |
| `ray_alarm` | 2 nodes, 1 job, no fault | `AlarmOnOldRay` **violated** | a worker mistakes its own job's ray for an earlier job's |
| `ray_wait` | 2 nodes, 1 job, no fault | `DriverWaitsForAll` **violated** | the driver starts on an incomplete cluster after the last poll |
| `ray_reuse_join` | 2 nodes, 2 jobs, ray may die | `ReuseMeansJoined` **violated** | a marker that outlives its raylet keeps a worker out of the cluster |
| `pipeline_stale` | SFT then Megatron GRPO, 2 runs | `HandoffFresh` **violated** | the second run trains from the first run's seed |
| `pipeline_labels` | a measurement, then a smoke stage | `SmokeApart` **violated** | a smoke stage is recorded in a measurement project |
| `launch_world` | a TRL cell, 2 nodes | `WorldAsDeclared` **violated** | a wired cell that does not resolve its topology trains in another world than declared |
| `launch_ray` | the slime cells, 2 nodes | `RayReaches` **violated** | slime PPO asks a ray head of its own, with one node, for the two that have joined the bootstrap's cluster |

`pipeline`: the weights a stage is pointed at are whole, full and what the stage
before it ended with in this very run, whatever crashed before in the workspace
(`InputReady`, for stages that deliver HF weights); a pipeline that ends well has its last model where the plan
says (`Delivered`); no cell but those that convert once trains from half-written
files (`NeverFromTorn`); what a stage trained continues, by one training run, what the
stage before it left in this run, except in the cells that convert once and those
that pretrain (`HandoffKept`); a label given at launch wins for every stage, and the
first stage is labelled as its config says (`HonestLabels`).  `IsVertical` is
the refinement: `Pipeline` implements `Vertical`, with the chain of stages that
the current weights went through.  A run that resumes a checkpoint may repeat a
stage or find nothing left to do in it; the chain drops such repetitions and does
not ask which run a stage was trained in.  `HandoffKept` asks that, and so does
`HandoffFresh` of all cells, as the docstring of `pipeline.py` does: what the
previous stage left must be a prefix of the lineage of the weights now trained.
The cells that convert once break it, by the seed that an earlier run left.  A seed
converted beforehand, which is taken to be a conversion of the base model, is in the
instances where it belongs, in a first stage; in a later one it would break
`HandoffFresh` too, in one run (a hazard at `megatron_lm_grpo.py:171`).

`launch`: a cell that resolves its topology trains on all the nodes
provisioned, as many as declared, and on nothing else (`ResolvedWorld`); no
cell that always converts trains while its seed is torn, by a kill or by
another node that converts in the same directory (`SeedWhole`); what the head
exports is a checkpoint with a shard of this job from every node
(`ExportComplete`, for a shared file system, which a comment of the code asks
for); no direct or HF job waits for ever (`JobEnds`), and no ray job either, however
late its workers join, if it has the nodes declared and starts no ray head of its own
on several of them (`RayJobEnds`).  `RayReaches` asks of all ray cells that a driver
reach the nodes that have joined, and slime PPO breaks it.

`task_sweep` explores two components that share no state, side by side: a
behaviour runs one of them, so that their states add up.  The gsm8k task: a run
that resumes draws what the run before it drew, or would have, also in the epochs
after (`ReplaysSame`), and no epoch has a row twice (`EpochOnce`), unless a torn
checkpoint was loaded; all five ways to a score agree (`ScoresAgree`); an answer
as the system prompt asks for it is scored by its value alone, whatever numbers
come before it (`ObedienceCounts`).  The sweeps: a PASS is a job of this sweep,
on the row's own image (`PassEarned`), although clusters are left over under the
same names and all images are tested under one; no machine is launched for a
known wall or an image not found good (`GateRespected`); nothing trains where torch
sees a GPU it has no kernel for, however stale `IMG_STATE` is (`NoDeadTraining`, measured
against CUDA's rule and not against the code's own); launches are serial but for
what faults leave (`SerialLaunches`); in the end no machine is up (`AllDown`).

The violated statements are those of a comment, a docstring or a test; each is
a finding in `PROJECT.json` with the line quoted.  Some are known limits seen
from a new side (the marker is believed after its raylet died), some plain
contradictions between two files (slime PPO against slime GRPO).

### Bounds

- `MaxTries` stands for the 30 polls of the wait loop.  Two are enough: one
  poll that finds too few members and goes on, and the last one.
- `MaxJobs` (2 or 3 in RayBootstrap, 2 in Launch): everything that outlives a
  job is left by one job and found by the next.  Three are used with reuse on,
  where a marker may be left by one job, its raylet replaced in a second and
  the pair met in a third.
- `MaxRuns = 2`: likewise for the workspace of a pipeline.
- Three nodes where the order of two workers matters, two otherwise.
- Specs of the pipeline: refused and accepted ones, of one to three stages; one
  at least for each guard, each output rule and each way to deliver; among them
  the repository's own `pipelines/qwen3-4b.yaml`.
- Launch: one cell of each mechanism and launcher, declared for one to three
  nodes.  Cells of one mechanism with the same program differ in data only.
  One config has a seed converted beforehand.
- Stream: two rows, three shuffles (`MaxShuffles`), the third not like the second:
  a checkpoint of the second epoch resumed, and the epoch after it.
- Texts: 15 answers that obey the prompt, the dataset's own, and 13 that do not, one
  for each branch of the search.
- Sweep: a row for each outcome of the gates, one of them without files, one
  without its config only; a torch with older PTX, one with newer only, one that sees
  no GPU; `MaxSweeps = 2`, what a sweep leaves being found by the next; `MaxFaults = 2`.

Deadlock checking is off: a cluster on which no job is submitted any more stops.

### Fairness

`RayBootstrap!Fairness`: a shell that is not killed goes on (weak fairness of
the head's and of each worker's steps), and SkyPilot cleans up a job that has
ended.  `Launch!Fairness`: the same for each node's process; a rendezvous whose
nodes have all come succeeds, and a training run comes to its last step (they
are bounded by epochs or `max_steps`); SkyPilot cleans up.  `SweepFairness`: a shell that is not killed goes on, jobs end, and an
idle cluster takes itself down (`-i IDLE --down` on every launch).  No fairness is
assumed of users, faults or the ray driver of `RayBootstrap`.  Nothing in this
repository bounds how long ray waits for resources, so a ray job that asks for nodes it
does not get waits for ever, and `JobEnds` leaves the ray cells out.  `RayJobEnds`
states when they do get them: as many nodes provisioned as declared, which `guard_wired`
does not check; no head of the driver's own; and a worker that joins or fails in the
end, which is the fairness of its process.  That its bootstrap may take the reuse path
and not join is left to `RayBootstrap` (run `ray_reuse_join`).

## 4. Proofs

`RayBootstrapProofs` proves, for every set of nodes, environments, environment
maps, reuse flags, faults and every bound:

| Theorem | States |
|---|---|
| `Inductive` | `Spec => []IInv` |
| `TypeCorrect` | `Spec => []TypeOK` |
| `FreshDriver` | `Spec => []NoStaleEnv` |
| `WorkersPrepared` | `Spec => []MembersPrepared` |
| `MarkersTrue` | `"killed_in_start" \notin Faults` implies `Spec => []MarkerInv /\ []MarkerHonest` |
| `ReuseIsSafe` | the same assumption implies `Spec => []ReuseKeepsEnv` |

The first four rest on the named assumptions of `RayBootstrap` only (the head is a node,
`NoEnv` is no environment, bounds are numbers, faults are of the four kinds).

The argument.  `NoStaleEnv` speaks of the members of the cluster when the driver
runs, and is not inductive: it does not say why no old raylet can be among them.
`IInv` adds, in named parts: `ClusterShape`, no raylet outlives the control plane
and every member is as young as the control plane that registered it;
`OwnRaylets`, a raylet of this job has its environment and a prepared node, and
a worker about to join stands on a prepared node; `HeadIsFresh`, with reuse off a
head past its check has a control plane of its own job; `LoopBound`, so that the
poll counter has its type.  Then a member is at least as young as the head's
raylet, which is of this job, hence of this job itself.  The guard of `CheckRay`
is needed once, for `HeadIsFresh`; the order of PREPARE and the join once, for
`OwnRaylets`.

With reuse on, what matters is the marker.  `MarkerHonest` says nothing of a
script that has started its raylet and not yet written the marker, so `MarkerInv`
adds that the raylet next to such a script has the environment it will write; and
that a head past its check has a control plane of its own environment, which is
where the marker is believed.  A script killed between the two steps breaks it,
so the two theorems assume that this fault is not injected.  The assumption is needed
(the hazard at `ray_bootstrap.sh:104`): a marker may be of a first job whose raylet died,
the raylet next to it of a second, killed in its start, and a third that reuses would
believe the one and run on the other.  The theorems for reuse off hold all the same, since a job that does not ask for reuse never
looks at a marker.

`Gsm8kStreamProofs` proves, for every dataset, seed and number of epochs, under
`StreamAssumption` (a shuffle is a permutation):

| Theorem | States |
|---|---|
| `StreamFollows` | `StreamSpec => []StreamInv` |
| `StreamTyped` | `StreamSpec => []StreamTypeOK` |
| `StreamReplays` | `StreamSpec => []ReplaysSame` |
| `StreamEpochs` | `StreamSpec => []EpochOnce` |

The argument.  There is one table of orders, one for each epoch, that every run
follows; the k-th order is the k-th shuffle of the one before.  The table is no
state, and a recursive definition of it could not be used by the prover, so `Tabled` says that there is one
up to the last epoch reached (`Table`), which the order of an exact run, the whole
checkpoints and the rows drawn agree with (`Follows`); the first draw of a new epoch makes it
longer (`Longer`).  `Placed` ties the history of places to generator and position.

`SweepProofs` proves, for any rows, images, torches, GPUs and faults, under
`SweepAssumption` (rows have different names, none that of the preflight cluster;
architectures and devices are numbers) and `BoundAssumption`:

| Theorem | States |
|---|---|
| `SweepInductive` | `SweepSpec => []SweepInv` |
| `SweepTyped` | `SweepSpec => []SweepTypeOK` |
| `PassesEarned` | `SweepSpec => []PassEarned` |
| `GatesHold` | `SweepSpec => []GateRespected` |
| `NoneTrainsDead` | `SweepSpec => []NoDeadTraining` |
| `LaunchesSerial` | `SweepSpec => []SerialLaunches` |

The argument.  None of them is inductive alone: a PASS is given for the job the
script waits for, so `Owned` says that this job is of this sweep and on the item's
image, and that what a job of this sweep ended with is on record; a cluster of
an earlier sweep has an earlier number.  `Counted` bounds the clusters that no
script waits for by the leftovers, which a failed `sky down` and a kill raise
by one each; the one waited for makes `SerialLaunches` of it.

`CellProofs` holds only lemmas, which the next two modules use: what is known of the
registry, row by row.  Every program is `Shaped` (guards and conversions, one
training run, then at most one export or save), and a cell that converts each time,
or exports, resolves its topology (`Grid`, `TrainerShape`, `Resolving`).

`LaunchProofs` proves, for any finite set of machines, any configs, a shared file
system or none, and any number of launches:

| Theorem | States |
|---|---|
| `LaunchInductive` | `Spec => []LaunchInv` |
| `LaunchTyped` | `Spec => []TypeOK` |
| `WorldsAgree` | `Spec => []ResolvedWorld` |
| `SeedsWhole` | `Spec => []SeedWhole` |
| `ExportsComplete` | `Spec => []ExportComplete` |

The argument.  `Gated`: a node under way has passed the gates of `dispatch` and, past
its `resolve` step, the check of `resolve`.  With the rendezvous of `torchrun_args`,
which gathers as many nodes as declared, the group that starts is all of the team
(`WholeTeam`; here the machines must be finite).  So the training run of a cell that
resolves is a barrier (`Barrier`): nobody converts or exports meanwhile.  That gives
the seed: a node past its conversion has a whole one, unless another is writing it
anew or was killed doing so (`Converted`), and at the barrier nobody is; and the
export: past the barrier every shard is of this job (`Sharded`).

`PipelineProofs` proves, for any specs, environments given at launch and number of
runs in one workspace:

| Theorem | States |
|---|---|
| `PipelineInductive` | `Spec => []PipelineInv` |
| `PipelineTyped` | `Spec => []TypeOK` |
| `InputsReady` | `Spec => []InputReady` |
| `ModelsDelivered` | `Spec => []Delivered` |
| `StartsWhole` | `Spec => []NeverFromTorn` |
| `LabelsHonest` | `Spec => []HonestLabels` |
| `HandoffsKept` | `Spec => []HandoffKept` |
| `Implements` | `FreshFirst` implies `Spec => IsVertical` |

The argument.  A path carries the number, the method and the framework of its stage,
and a stage writes only under its own; so what the plan hands on is written by nobody
but the stage that delivers, between its training run and its return.  `Saves`
says that from there on the path holds the model trained, `Full` that this is no
adapter, and `Seeded` and `Disk` what seeds and checkpoints of any age may be: whole,
but for the cells that convert once.  `Boarded` ties the W&B runs to the place in the
program, `Environ` the environment to the first stage.  `SeedFresh`, for
`HandoffsKept`: what a cell that always converts finds in its seed is what this
stage is pointed at.

For the refinement, `Lineages` says of all weights on the disk and of the model held
that their lineage goes through the stages in order, each at least once.  It needs
that only first stages start from a model of their own (`FreshFirst`): a pretraining
starts from `model.init_from`, and a stage with a seed converted beforehand from that,
whatever they are handed.  `plan_pipeline` refuses neither later in the list, where the
chain is then cut (hazards at `pipeline.py:92` and `megatron_lm_grpo.py:171`).  No spec of the repository does it, and none of the
run `pipeline`; the other theorems do not assume it.

`Gsm8kTaskProofs` proves, for any tokens, completions and dataset, under
`TaskAssumption` (rows are texts of tokens that end with their answer) and
`StreamAssumption`:

| Theorem | States |
|---|---|
| `TaskDraws` | `TaskSpec => StreamSpec` |
| `RolloutsKept` | `TaskSpec => []RolloutInv` |
| `TaskTyped` | `TaskSpec => []TaskTypeOK` |
| `RewardsAgree` | `TaskSpec => []ScoresAgree` |
| `ObedienceRewarded` | `TaskSpec => []ObedienceCounts` |

The argument.  The task leaves the stream to its own steps, so that it implements
`StreamSpec` and everything proved of the stream holds of the rows it trains on.
`RolloutInv`: the sample stays what `from_gsm8k` made of the row, there is one turn at
most, and the reward is the rubric's.  The gold answers that the frameworks are
handed differ in commas at most, and `_norm_number` takes those out (`GoldNumber`);
from there all ways meet in one scorer (`RoutesMeet`).  An obedient answer has one
marker and no box, so the search ends in its number (`ObedienceRewarded`).

Only model-checked: `BootEnds`, `JobEnds`, `RayJobEnds` and `AllDown`.  They are liveness, which with
its `ENABLED` is beyond the prover.  Every other property of a passing run is stated
by a theorem.

## 5. What is not modelled

- Data: the sft and dpo row adapters, chat templates, tokenizers, hyperparameters,
  batch-size scales, logging.
- The frameworks, ray and SkyPilot, but for what the code relies on.
- `_netenv.sh`'s detection: its outcomes are `EnvMaps`.
- The config merge of `config.py`: data, loaded before any state changes.
- `config_registry.py` and `rollouter.py` of the torchtitan task: hyperparameters
  handed to the framework; the Megatron agent's prompt.
- The bridge's finetune stage, which no registered cell calls.
- Task files, images, model sizes: declarations.

## 6. Plan

1. (done) `RayBootstrap` with its proofs; `Cells`; `Pipeline` against
   `Vertical`; `Launch`.
2. (done) `MarkerHonest` and `ReuseKeepsEnv` proved, where no script is killed in
   its start.
3. (done) `Launch`: `TypeOK` and all its safety properties proved.
4. (done) `Pipeline`: `TypeOK`, all its safety properties, and that it implements
   `Vertical`, proved.
5. (done) `Gsm8kStream`, `Rewards`, `Gsm8kTask`; `Preflight`, `Sweep`; the proofs of
   the stream, of the task and of the sweep.
6. `RayBootstrap` with reuse on and a script killed in its start, as a statement of
   its own: an older marker that matches a later job is then believed.
7. `Launch` without a shared file system, for the exports that a comment says
   are skipped; pipelines whose pretraining stage is not the first.
