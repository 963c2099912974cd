------------------------------- MODULE Pipeline -------------------------------
(***************************************************************************)
(* The vertical pipeline of pipeline.py over the dispatch of run.py: one   *)
(* process plans a list of stages, then dispatches them in order; the only *)
(* thing handed from stage to stage is a path, written into the next       *)
(* config's model.name.  A pipeline of one stage is tfct-run's standalone  *)
(* run, but for its output directory.                                      *)
(*                                                                         *)
(* The workspace outlives the process: the user may run the same or        *)
(* another spec there again, after a success or after a crash.  A model is *)
(* abstracted to its lineage, the <<run, stage>> pairs it was trained by.  *)
(***************************************************************************)
EXTENDS Cells, FiniteSets

CONSTANTS
  Specs,        \* the pipeline specs a user may run: sequences of configs
  UserEnvs,     \* the W&B fields a user may set at launch (sets of Labels)
  MaxRuns       \* bound: pipelines run in the workspace

Labels == {"project", "name", "group", "tags"}

\* What the model tells apart in a config.  init_from, mcore_checkpoint and smoke
\* say whether model.init_from and megatron.mcore_checkpoint are given and whether
\* the config is a smoke run.
Config(method, framework, tuning, nodes, init_from, mcore_checkpoint, smoke) ==
  [method |-> method, framework |-> framework, tuning |-> tuning, nodes |-> nodes,
   init_from |-> init_from, mcore_checkpoint |-> mcore_checkpoint, smoke |-> smoke]

ASSUME SpecsAssumption ==
  \A s \in Specs :
    s \in Seq([method : STRING, framework : STRING, tuning : STRING, nodes : Nat,
              init_from : BOOLEAN, mcore_checkpoint : BOOLEAN, smoke : BOOLEAN])
ASSUME UserEnvsAssumption == UserEnvs \subseteq SUBSET Labels
ASSUME MaxRunsAssumption  == MaxRuns \in Nat

VARIABLES
  spec,         \* the stages of the pipeline being run
  run,          \* its number
  pc,           \* "off", "plan", "dispatch", "train", "done" or "failed"
  i,            \* the stage being run
  k,            \* the step of its trainer to be done next
  given,        \* the WANDB_* variables the user set at launch
  environ,      \* os.environ: WANDB_* variable -> value, those that are set
  model,        \* the weights the last fit of this run produced
  disk,         \* the workspace: path -> weights, for the paths that exist
  board         \* the W&B runs created by this pipeline

control == <<spec, run, given>>
vars == <<spec, run, pc, i, k, given, environ, model, disk, board>>

-----------------------------------------------------------------------------
(* Weights and paths *)

Hub == [trail |-> <<>>, full |-> TRUE, whole |-> TRUE]      \* the base model
Torn(weights) == [weights EXCEPT !.whole = FALSE]           \* half-written files

\* stage{i}_{method}_{framework}, and what a trainer keeps in it: "dir" is the
\* directory as an HF model, "hf" its export, "seed" and "ckpt" the working files.
Path(s, j, part) == <<j, s[j].method, s[j].framework, part>>

\* _stage_output_model knows where these frameworks leave an HF model.
HasOutputRule(c) == c.method = "pretrain" \/ c.framework \in {"trl", "unsloth", "megatron"}
\* Mutant: every framework leaves its model in <dir>/hf.
OutputPartExport(c) == "hf"

OutputPart(c) == IF c.method # "pretrain" /\ c.framework \in {"trl", "unsloth"} THEN "dir" ELSE "hf"
StageOutput(s, j) == Path(s, j, OutputPart(s[j]))

\* plan_pipeline raises for a consumed LoRA stage and for a stage, the last one
\* included, without an output rule.
\* Mutant: consumed stages may be LoRA.
HandsOffAdapterNever(s, j) == FALSE

HandsOffAdapter(s, j) == j < Len(s) /\ s[j].method # "pretrain" /\ s[j].tuning = "lora"
\* Mutant: an empty list of stages is planned.
PlannableEmpty(s) == \A j \in DOMAIN s : ~HandsOffAdapter(s, j) /\ HasOutputRule(s[j])

Plannable(s) ==
  /\ s # <<>>
  /\ \A j \in DOMAIN s : ~HandsOffAdapter(s, j) /\ HasOutputRule(s[j])

-----------------------------------------------------------------------------
(* W&B identity *)

project(c) == IF c.smoke THEN <<"tfct-smoke">> ELSE <<"tfct", c.method>>
run_name(c, name) == <<c.method, name, c.framework, c.tuning>>
tags(c) == <<c.method, c.framework, c.tuning, c.smoke>>

\* The value plan_pipeline puts in model.name: 0 for the config's own.
ModelName(j) == j - 1

env(c, j) ==
  [project |-> project(c), name |-> run_name(c, ModelName(j)),
   group |-> <<c.framework>>, tags |-> tags(c)]

UserValue == <<"user">>

\* Mutant: os.environ.update.
apply_env_update(c, j) == env(c, j)

\* os.environ.setdefault, key by key.
apply_env(c, j) ==
  [l \in Labels |-> IF l \in DOMAIN environ THEN environ[l] ELSE env(c, j)[l]]

\* What wandb.init sees: the command line first, then the environment.
Recorded(c, j) ==
  [ l \in Labels |->
      IF l \notin TrainerOf(c).labels THEN environ[l]
      ELSE IF l = "group" THEN env(c, j).name ELSE env(c, j)[l] ]

-----------------------------------------------------------------------------
Init ==
  /\ spec = <<>> /\ run = 0 /\ pc = "off" /\ i = 1 /\ k = 1
  /\ given = {} /\ environ = <<>> /\ model = Hub /\ disk = <<>> /\ board = {}

\* tfct-pipeline --pipeline spec, in a new process.
Launch ==
  /\ pc \in {"off", "done", "failed"}
  /\ run < MaxRuns
  /\ spec' \in Specs
  /\ given' \in UserEnvs /\ environ' = [l \in given' |-> UserValue]
  /\ run' = run + 1 /\ pc' = "plan" /\ i' = 1 /\ k' = 1
  /\ model' = Hub /\ board' = {}
  /\ UNCHANGED disk

\* plan_pipeline plans every stage before the first one is dispatched.
Plan ==
  /\ pc = "plan"
  /\ pc' = IF Plannable(spec) THEN "dispatch" ELSE "failed"
  /\ UNCHANGED <<control, i, k, environ, model, disk, board>>

\* dispatch(): registry, guard_wired, W&B environment, then train().
Dispatch ==
  /\ pc = "dispatch"
  /\ IF DispatchOK(spec[i])
     THEN pc' = "train" /\ k' = 1 /\ environ' = apply_env(spec[i], i)
     ELSE pc' = "failed" /\ UNCHANGED <<k, environ>>
  /\ UNCHANGED <<control, i, model, disk, board>>

-----------------------------------------------------------------------------
(* train(), step by step *)

stage == spec[i]
AtStep(steps) ==
  /\ pc = "train"
  /\ k \in DOMAIN TrainerOf(stage).steps
  /\ TrainerOf(stage).steps[k] \in steps

\* The guards of the trainers.  The pipeline's process runs on one node.
StepOK == StepPasses(stage, TrainerOf(stage).steps[k], 1, 1)

Guard ==
  /\ AtStep({"full_only", "full_or_lora", "init_from", "resolve", "ray_head", "ray_unless"})
  /\ IF StepOK THEN k' = k + 1 /\ UNCHANGED pc ELSE pc' = "failed" /\ UNCHANGED k
  /\ UNCHANGED <<control, i, environ, model, disk, board>>

\* Mutant: model.name is not overridden by the plan.
FromHubAlways == TRUE

\* The weights the config points the trainer at.
FromHub == i = 1 \/ TrainerOf(stage).reads = "init_from"
InputExists == IF FromHub THEN TRUE ELSE StageOutput(spec, i - 1) \in DOMAIN disk
Input == IF FromHub THEN Hub ELSE disk[StageOutput(spec, i - 1)]

Mine(part) == Path(spec, i, part)
Store(path, weights) ==
  disk' = [p \in DOMAIN disk \cup {path} |-> IF p = path THEN weights ELSE disk[p]]

\* A cell that converts once takes a seed converted beforehand, or looks only for
\* its directory.
SeedFound == Preconverted(stage) \/ Mine("seed") \in DOMAIN disk

Convert ==
  /\ AtStep({"convert"}) \/ (AtStep({"convert_once"}) /\ ~SeedFound)
  /\ InputExists
  /\ Store(Mine("seed"), Input)
  /\ k' = k + 1
  /\ UNCHANGED <<control, pc, i, environ, model, board>>

\* Mutant: every conversion is skipped when its directory exists.
ConvertSkippedAlways ==
  /\ AtStep({"convert", "convert_once"})
  /\ InputExists
  /\ Mine("seed") \in DOMAIN disk
  /\ k' = k + 1
  /\ UNCHANGED <<control, pc, i, environ, model, disk, board>>

ConvertSkipped ==
  /\ AtStep({"convert_once"})
  /\ InputExists
  /\ SeedFound
  /\ k' = k + 1
  /\ UNCHANGED <<control, pc, i, environ, model, disk, board>>

\* The weights training starts from: its own checkpoint, if it resumes, then
\* the seed converted beforehand, from the base model, or the one converted here,
\* then the model named by the config.
Converts == Does(stage, "convert") \/ Does(stage, "convert_once")
Resumes == TrainerOf(stage).resumes /\ Mine("ckpt") \in DOMAIN disk
Source ==
  IF Resumes THEN disk[Mine("ckpt")] ELSE IF Preconverted(stage) THEN Hub
  ELSE IF Converts THEN disk[Mine("seed")] ELSE Input

Trained ==
  [trail |-> Append(Source.trail, <<run, i>>),
   full |-> stage.method = "pretrain" \/ stage.tuning # "lora",
   whole |-> Source.whole]

\* A run that resumes may find that its last step has been done already.
Outcomes == {Trained} \cup (IF Resumes THEN {Source} ELSE {})

Fit ==
  /\ AtStep({"fit"})
  /\ InputExists
  /\ model' \in Outcomes
  /\ IF TrainerOf(stage).resumes THEN Store(Mine("ckpt"), model') ELSE UNCHANGED disk
  /\ board' = board \cup {[stage |-> i, as |-> Recorded(stage, i)]}
  /\ k' = k + 1
  /\ UNCHANGED <<control, pc, i, environ>>

\* A model.name that names nothing on this disk is a loud failure: every trainer
\* takes at least its tokenizer from there.
NoInput ==
  /\ AtStep({"fit", "convert", "convert_once"})
  /\ ~InputExists
  /\ pc' = "failed"
  /\ UNCHANGED <<control, i, k, environ, model, disk, board>>

\* export and save leave HF weights where the trainer puts them; a trainer that
\* does neither leaves a checkpoint of its framework.
Delivers(c) == Does(c, "export") \/ Does(c, "save")
Saved == Mine(IF Does(stage, "export") THEN "hf" ELSE "dir")
SaveModel ==
  /\ AtStep({"export", "save"})
  /\ Store(Saved, model)
  /\ k' = k + 1
  /\ UNCHANGED <<control, pc, i, environ, model, board>>

\* train() returns: the loop of run_pipeline takes the next stage.
StageReturns ==
  /\ pc = "train"
  /\ k > Len(TrainerOf(stage).steps)
  /\ IF i < Len(spec) THEN pc' = "dispatch" /\ i' = i + 1 ELSE pc' = "done" /\ UNCHANGED i
  /\ UNCHANGED <<control, k, environ, model, disk, board>>

\* Any exception or failing subprocess (check=True) ends the whole pipeline; so
\* do a GPU the image cannot drive, a preempted machine and a user's ctrl-C.
Crash ==
  /\ pc \in {"plan", "dispatch", "train"}
  /\ pc' = "failed"
  /\ UNCHANGED <<control, i, k, environ, model, disk, board>>

\* What a step leaves when it is killed half-way: a directory of half-written
\* files or, in a training run, the checkpoint it saved last.
CrashWriting ==
  /\ pc = "train"
  /\ \/ /\ AtStep({"convert"}) \/ (AtStep({"convert_once"}) /\ ~SeedFound)
        /\ InputExists
        /\ Store(Mine("seed"), Torn(Input))
     \/ AtStep({"export", "save"}) /\ Store(Saved, Torn(model))
     \/ AtStep({"fit"}) /\ InputExists /\ TrainerOf(stage).resumes /\ Store(Mine("ckpt"), Trained)
  /\ pc' = "failed"
  /\ UNCHANGED <<control, i, k, environ, model, board>>

Next ==
  \/ Launch \/ Plan \/ Dispatch \/ Crash \/ CrashWriting
  \/ Guard \/ Convert \/ ConvertSkipped \/ Fit \/ NoInput \/ SaveModel
  \/ StageReturns

Spec == Init /\ [][Next]_vars

-----------------------------------------------------------------------------
(* Properties *)

Weights == [trail : Seq((1..MaxRuns) \X Nat), full : BOOLEAN, whole : BOOLEAN]

TypeOK ==
  /\ spec \in Specs \cup {<<>>}
  /\ run \in 0..MaxRuns
  /\ pc \in {"off", "plan", "dispatch", "train", "done", "failed"}
  /\ pc \in {"dispatch", "train", "done"} => i \in DOMAIN spec
  /\ k \in Nat
  /\ given \subseteq Labels /\ DOMAIN environ \in {given, Labels}
  /\ model \in Weights
  /\ \A p \in DOMAIN disk : disk[p] \in Weights
  /\ \A e \in board : e.stage \in DOMAIN spec

\* After a stage that delivers HF weights, the weights the next one is pointed at
\* are there, complete, no adapter, and those the stage trained in this very run
\* ended with: whatever earlier runs and crashes left in the workspace.
Fitted == \E e \in board : e.stage = i
InputReady ==
  pc \in {"dispatch", "train"} /\ i > 1 /\ Delivers(spec[i - 1]) =>
    LET out == StageOutput(spec, i - 1) IN
      /\ out \in DOMAIN disk
      /\ disk[out].whole /\ disk[out].full
      /\ ~Fitted => disk[out] = model

\* A pipeline that ends well leaves, where its plan says, the model its last
\* stage trained, if that stage delivers.
Delivered ==
  pc = "done" /\ Delivers(spec[Len(spec)]) =>
    LET out == StageOutput(spec, Len(spec)) IN out \in DOMAIN disk /\ disk[out] = model

\* But for the cells that convert once, no training run starts from half-written
\* weights, whatever was killed in the middle of a conversion or an export.
NeverFromTorn == Fitted /\ ~Does(stage, "convert_once") => model.whole

\* But for the cells that convert once, and those that start from init_from, what
\* a stage trained is what the stage before it left there in this run, and nothing
\* else: no seed or checkpoint of an earlier run comes in between.
HandoffKept ==
  i > 1 /\ Fitted /\ ~Does(stage, "convert_once") /\ stage.method # "pretrain" =>
    LET out == StageOutput(spec, i - 1) IN
      out \in DOMAIN disk /\ model.trail = Append(disk[out].trail, <<run, i>>)

\* A field the user gave at launch is what W&B records for every stage, and the
\* first stage, so every standalone run, is recorded as its config says; but for
\* the fields a trainer passes itself (_wandb.py, lines 17-27 and 97-98).
HonestLabels ==
  \A e \in board : \A l \in Labels \ TrainerOf(spec[e.stage]).labels :
    /\ l \in given => e.as[l] = UserValue
    /\ l \notin given /\ e.stage = 1 => e.as[l] = env(spec[1], 1)[l]

\* The places of a lineage where another stage takes over from the one before,
\* and the stages that it went through, repetitions by resumed runs dropped.
Firsts(t) == {j \in DOMAIN t : j = 1 \/ t[j][2] # t[j - 1][2]}
Nth(t, m) == CHOOSE j \in Firsts(t) : Cardinality({x \in Firsts(t) : x <= j}) = m
ChainOf(t) == [m \in 1..Cardinality(Firsts(t)) |-> t[Nth(t, m)][2]]

\* The weights of this run, those of the hub until its first stage trains.
V == INSTANCE Vertical WITH
       chain <- ChainOf(model.trail), length <- Len(spec),
       status <- IF pc \in {"plan", "dispatch", "train"} THEN "running" ELSE pc

\* The pipeline is a vertical one: each stage continues what the previous one
\* trained, and it is done when all have (pipeline.py, lines 1-12).
IsVertical == V!Spec

(* Statements of docs and tests *)

\* pipeline.py lines 5-7: what a stage trains continues the weights that the
\* stage before it left in this run (half-written seeds apart).
HandoffFresh ==
  i > 1 /\ Fitted /\ model.whole /\ StageOutput(spec, i - 1) \in DOMAIN disk =>
    LET given_to == disk[StageOutput(spec, i - 1)].trail IN
      /\ Len(given_to) <= Len(model.trail)
      /\ SubSeq(model.trail, 1, Len(given_to)) = given_to

\* tests/test_wandb_env.py: a smoke run never mixes with the measurement
\* projects, and a measurement goes to its method's project.
SmokeApart ==
  \A e \in board : "project" \notin given => e.as.project = project(spec[e.stage])
=============================================================================
