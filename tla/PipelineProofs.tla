---------------------------- MODULE PipelineProofs ----------------------------
(***************************************************************************)
(* Proofs about Pipeline, for any specs, W&B environments and number of    *)
(* runs in one workspace.                                                  *)
(*                                                                         *)
(* The argument: a path carries the number, method and framework of its    *)
(* stage, and a stage writes only under its own.  Whatever earlier runs    *)
(* left there, the path that the plan hands on is written by nobody but    *)
(* the stage that delivers, after its training run and before it returns.  *)
(***************************************************************************)
EXTENDS Pipeline, CellProofs, FunctionTheorems, FiniteSetTheorems

program == TrainerOf(stage).steps

\* A step of these has been done in this stage.
Past(steps) == \E j \in DOMAIN program : program[j] \in steps /\ j < k

Control ==
  /\ pc # "off" => run \in 1..MaxRuns
  /\ pc \in {"plan", "dispatch", "train", "done"} => i \in Nat
  /\ pc = "plan" => i = 1
  /\ pc \in {"dispatch", "train", "done"} => i \in DOMAIN spec /\ Plannable(spec)
  /\ pc \in {"train", "done"} => Registered(stage)
  /\ pc = "train" => k \in 1..(Len(program) + 1)
  /\ pc = "done" => i = Len(spec)

\* The W&B runs created are those of the stages that have trained.
Boarded ==
  /\ \A e \in board : i \in DOMAIN spec /\ e.stage \in 1..i
  /\ pc \in {"plan", "dispatch"} => ~Fitted
  /\ pc = "train" => (Fitted <=> k > FitAt(stage))

\* The environment is the user's, then also the first stage's for good.
Environ ==
  /\ DOMAIN environ \in {given, Labels}
  /\ pc = "train" \/ (pc = "dispatch" /\ i > 1) => DOMAIN environ = Labels
  /\ \A l \in DOMAIN environ :
       environ[l] = IF l \in given THEN UserValue ELSE env(spec[1], 1)[l]

\* A stage that has converted has a seed; a whole one, but for convert_once.  A
\* seed converted beforehand lies elsewhere.
Seeded ==
  pc = "train" /\ Past(Conversions) =>
    /\ Preconverted(stage) \/ Mine("seed") \in DOMAIN disk
    /\ Does(stage, "convert") => disk[Mine("seed")].whole

\* What has been delivered is the model that was trained.
Saves ==
  pc \in {"train", "done"} /\ Delivers(stage) /\ (pc = "train" => k > FitAt(stage) + 1) =>
    /\ StageOutput(spec, i) \in DOMAIN disk
    /\ disk[StageOutput(spec, i)] = model

\* A model to be handed on is no adapter.
Full == Fitted /\ Delivers(stage) /\ (stage.method = "pretrain" \/ stage.tuning # "lora") => model.full

\* HF weights are left by the cells that deliver; a pretraining never writes a
\* torn checkpoint.
CellAt(p) == [method |-> p[2], framework |-> p[3]]
Disk ==
  \A p \in DOMAIN disk :
    /\ p[4] \in {"hf", "dir"} => Delivers(CellAt(p))
    /\ p[4] = "ckpt" /\ p[2] = "pretrain" => disk[p].whole /\ disk[p].full

PipelineInv ==
  /\ TypeOK /\ Control /\ Boarded /\ Environ /\ Seeded /\ Saves /\ Full /\ Disk
  /\ InputReady /\ Delivered /\ NeverFromTorn /\ HonestLabels

-------------------------------------------------------------------------------
(* The lineages, when only first stages bring weights of their own *)

\* plan_pipeline does not ask for it; a later pretraining starts anew from its
\* own model.init_from, and a later stage with a seed converted beforehand from
\* that: both drop what they are handed.
FreshFirst ==
  \A s \in Specs : \A j \in DOMAIN s :
    j > 1 => s[j].method # "pretrain" /\ ~Preconverted(s[j])

\* A lineage through the stages 1..n in order, each at least once.
Through(t, n) ==
  /\ \A a \in DOMAIN t : t[a][2] \in 1..n
  /\ \A a, b \in DOMAIN t : a <= b => t[a][2] <= t[b][2]
  /\ \A m \in 1..n : \E a \in Firsts(t) : t[a][2] = m

Kept ==
  \A p \in DOMAIN disk :
    p[1] \in Nat \ {0} /\ Through(disk[p].trail, IF p[4] = "seed" THEN p[1] - 1 ELSE p[1])

Held ==
  /\ pc \in {"plan", "dispatch"} => Through(model.trail, i - 1)
  /\ pc = "train" => Through(model.trail, IF Fitted THEN i ELSE i - 1)
  /\ pc = "done" => Through(model.trail, i)

Lineages == Kept /\ Held

-------------------------------------------------------------------------------
(* What the cells do, by row *)

\* A registered cell: where its weights come from, where it leaves its model,
\* and what its conversion and its checkpoint may be.
LEMMA CellFacts ==
  ASSUME NEW c, Registered(c)
  PROVE  /\ TrainerOf(c).reads = "init_from" <=> c.method = "pretrain"
         /\ Does(c, "export") => OutputPart(c) = "hf"
         /\ Does(c, "save") => OutputPart(c) = "dir" /\ ~Does(c, "export")
         /\ Does(c, "convert_once") =>
              ~Delivers(c) /\ c.method # "pretrain" /\ ~Does(c, "convert")
         /\ Preconverted(c) => Does(c, "convert_once")
         /\ TrainerOf(c).resumes /\ ~Does(c, "convert_once") => c.method = "pretrain"
BY Grid DEF Entry, Does, Delivers, OutputPart, Preconverted, Trainer, torchtitan_pretrain,
  megatron_lm_pretrain, trl_sft, unsloth_sft, verl_sft, megatron_lm_sft, trl_dpo, unsloth_dpo,
  trl_online_dpo, trl_grpo, unsloth_grpo, verl_grpo, slime_grpo, megatron_lm_grpo, torchtitan_grpo,
  verl_ppo, slime_ppo

\* The step that delivers is the last one.
LEMMA DeliversLast ==
  ASSUME NEW c, Registered(c), Delivers(c)
  PROVE  FitAt(c) + 1 = Len(TrainerOf(c).steps)
<1> DEFINE P == TrainerOf(c).steps
<1>1. Shaped(P, FitAt(c)) BY TrainerShape
<1>2. DOMAIN P = 1..Len(P) /\ Len(P) \in Nat BY <1>1 DEF Shaped
<1>3. PICK j \in 1..Len(P) : P[j] \in After BY <1>2 DEF Delivers, Does, After
<1>4. j = FitAt(c) + 1 BY <1>1, <1>3 DEF Shaped, Before, After
<1>5. Len(P) \in 1..Len(P) /\ ~(Len(P) < FitAt(c)) /\ Len(P) # FitAt(c)
  BY <1>1, <1>2, <1>3, <1>4 DEF Shaped
<1> QED BY <1>1, <1>2, <1>5 DEF Shaped

\* A cell is its method and its framework.
LEMMA SameCell ==
  ASSUME NEW c, NEW d, c.method = d.method, c.framework = d.framework
  PROVE  TrainerOf(c) = TrainerOf(d) /\ Delivers(c) = Delivers(d)
<1>1. TrainerOf(c) = TrainerOf(d) BY DEF TrainerOf
<1> QED BY <1>1 DEF Delivers, Does

-------------------------------------------------------------------------------
(* Facts that the steps share *)

LEMMA SpecShape ==
  ASSUME PipelineInv
  PROVE  DOMAIN spec = 1..Len(spec) /\ Len(spec) \in Nat
<1>1. CASE spec = <<>> BY <1>1
<1>2. CASE spec \in Specs BY <1>2, SpecsAssumption
<1> QED BY <1>1, <1>2 DEF PipelineInv, TypeOK

\* A stage that trains.
LEMMA Training ==
  ASSUME PipelineInv, pc = "train"
  PROVE  /\ Registered(stage) /\ Shaped(program, FitAt(stage))
         /\ DOMAIN program = 1..Len(program) /\ Len(program) \in Nat
         /\ FitAt(stage) \in 1..Len(program) /\ k \in 1..(Len(program) + 1)
         /\ i \in Nat \ {0} /\ i \in 1..Len(spec) /\ run \in 1..MaxRuns /\ DOMAIN environ = Labels
         /\ Fitted <=> k > FitAt(stage)
<1>1. Registered(stage) /\ k \in 1..(Len(program) + 1) /\ i \in DOMAIN spec /\ run \in 1..MaxRuns
  BY DEF PipelineInv, Control
<1>2. Shaped(program, FitAt(stage)) BY <1>1, TrainerShape DEF program
<1>3. DOMAIN program = 1..Len(program) /\ Len(program) \in Nat BY <1>2 DEF Shaped
<1>4. DOMAIN environ = Labels /\ (Fitted <=> k > FitAt(stage))
  BY DEF PipelineInv, Environ, Boarded
<1> QED BY <1>1, <1>2, <1>3, <1>4, SpecShape DEF Shaped

\* What depends on the stage alone does not change while it runs.
LEMMA SameStage ==
  ASSUME spec' = spec, i' = i
  PROVE  /\ stage' = stage /\ program' = program
         /\ \A part : Mine(part)' = Mine(part)
         /\ FitAt(stage)' = FitAt(stage)
         /\ Delivers(stage)' = Delivers(stage)
         /\ StageOutput(spec, i)' = StageOutput(spec, i)
BY DEF stage, program, Mine, Path, StageOutput

\* A write is in the directory of its stage.
LEMMA Stored ==
  ASSUME NEW part, NEW w, Store(Mine(part), w)
  PROVE  /\ DOMAIN disk' = DOMAIN disk \cup {Mine(part)} /\ disk'[Mine(part)] = w
         /\ Mine(part)[1] = i /\ Mine(part)[4] = part
         /\ \A q \in DOMAIN disk : q # Mine(part) => disk'[q] = disk[q]
BY DEF Store, Mine, Path

\* So is the output that the plan names.
LEMMA OutputPath ==
  ASSUME NEW j
  PROVE  StageOutput(spec, j)[1] = j /\ StageOutput(spec, j)[4] \in {"hf", "dir"}
BY DEF StageOutput, Path, OutputPart

\* And it is where the trainer saves.
LEMMA SavedThere ==
  ASSUME Registered(stage), Delivers(stage)
  PROVE  Saved = StageOutput(spec, i)
BY CellFacts DEF Delivers, Saved, StageOutput, Mine, stage

\* Weights and their fields.
LEMMA WeightFields ==
  ASSUME NEW w \in Weights
  PROVE  /\ w.trail \in Seq((1..MaxRuns) \X Nat) /\ w.full \in BOOLEAN /\ w.whole \in BOOLEAN
         /\ Torn(w) \in Weights /\ Torn(w).trail = w.trail /\ Torn(w).full = w.full
BY DEF Weights, Torn

LEMMA HubWeights == Hub \in Weights /\ Hub.full /\ Hub.whole /\ Hub.trail = <<>>
BY DEF Hub, Weights

\* The weights a stage is pointed at, if they are there: typed, and whole unless
\* they are what a resuming cell converted once.
LEMMA InputSound ==
  ASSUME PipelineInv, pc = "train", InputExists
  PROVE  /\ Input \in Weights /\ Input.whole
         /\ ~FromHub => /\ i > 1 /\ StageOutput(spec, i - 1) \in DOMAIN disk
                        /\ Input = disk[StageOutput(spec, i - 1)]
<1>1. CASE FromHub BY <1>1, HubWeights DEF Input
<1>2. CASE ~FromHub
  <2> DEFINE out == StageOutput(spec, i - 1)
  <2>1. i > 1 /\ out \in DOMAIN disk /\ Input = disk[out]
    BY <1>2, Training DEF FromHub, Input, InputExists
  <2>2. out[4] \in {"hf", "dir"} /\ out[2] = spec[i - 1].method /\ out[3] = spec[i - 1].framework
    BY DEF StageOutput, Path, OutputPart
  <2>3. Delivers(CellAt(out)) BY <2>1, <2>2 DEF PipelineInv, Disk
  <2>4. Delivers(spec[i - 1]) BY <2>2, <2>3, SameCell DEF CellAt
  <2>5. disk[out].whole BY <2>1, <2>4 DEF PipelineInv, InputReady
  <2>6. disk[out] \in Weights BY <2>1 DEF PipelineInv, TypeOK
  <2> QED BY <1>2, <2>1, <2>5, <2>6
<1> QED BY <1>1, <1>2

\* What training starts from: typed; whole, but for the cells that convert once;
\* and when a cell that delivers resumes, no adapter.
LEMMA SourceSound ==
  ASSUME PipelineInv, AtStep({"fit"}), InputExists
  PROVE  /\ k = FitAt(stage) /\ Source \in Weights /\ (Converts => Past(Conversions))
         /\ ~Does(stage, "convert_once") => Source.whole
         /\ Resumes /\ ~Does(stage, "convert_once") => Source.full
         /\ ~Resumes => IF Preconverted(stage) THEN Source = Hub
                        ELSE IF Converts THEN /\ Mine("seed") \in DOMAIN disk
                                              /\ Source = disk[Mine("seed")]
                        ELSE Source = Input
<1>1. /\ pc = "train" /\ k \in 1..Len(program) /\ program[k] = "fit"
      /\ Shaped(program, FitAt(stage)) /\ Registered(stage) /\ DOMAIN program = 1..Len(program)
  BY Training DEF AtStep, program
<1>2. k = FitAt(stage) BY <1>1 DEF Shaped
<1>3. Converts => Past(Conversions)
  <2>1. SUFFICES ASSUME NEW j \in DOMAIN program, program[j] \in Conversions
                 PROVE  j < k
    BY DEF Converts, Does, Past, Conversions, program
  <2>2. program[j] \notin After /\ program[j] # "fit" BY <2>1 DEF Conversions, After
  <2> QED BY <1>1, <1>2, <2>1, <2>2 DEF Shaped
<1>4. \A p \in DOMAIN disk : disk[p] \in Weights BY DEF PipelineInv, TypeOK
<1>5. CASE Resumes
  <2>1. Mine("ckpt") \in DOMAIN disk /\ Source = disk[Mine("ckpt")] /\ TrainerOf(stage).resumes
    BY <1>5 DEF Resumes, Source
  <2>2. ~Does(stage, "convert_once") => stage.method = "pretrain"
    BY <1>1, <2>1, CellFacts
  <2>3. Mine("ckpt")[4] = "ckpt" /\ Mine("ckpt")[2] = stage.method BY DEF Mine, Path, stage
  <2>4. ~Does(stage, "convert_once") => disk[Mine("ckpt")].whole /\ disk[Mine("ckpt")].full
    BY <2>1, <2>2, <2>3 DEF PipelineInv, Disk
  <2> QED BY <1>2, <1>3, <1>4, <1>5, <2>1, <2>4
<1>6. CASE ~Resumes /\ ~Preconverted(stage) /\ Converts
  <2>1. Source = disk[Mine("seed")] BY <1>6 DEF Source
  <2>2. /\ Mine("seed") \in DOMAIN disk
        /\ Does(stage, "convert") => disk[Mine("seed")].whole
    BY <1>1, <1>3, <1>6 DEF PipelineInv, Seeded
  <2> QED BY <1>2, <1>3, <1>4, <1>6, <2>1, <2>2 DEF Converts
<1>7. CASE ~Resumes /\ ~Preconverted(stage) /\ ~Converts
  <2>1. Source = Input BY <1>7 DEF Source
  <2> QED BY <1>1, <1>2, <1>7, <2>1, InputSound
<1>8. CASE ~Resumes /\ Preconverted(stage)
  <2>1. Source = Hub BY <1>8 DEF Source
  <2> QED BY <1>2, <1>3, <1>8, <2>1, HubWeights DEF Hub
<1> QED BY <1>5, <1>6, <1>7, <1>8

\* What training makes of it.
LEMMA TrainedSound ==
  ASSUME PipelineInv, AtStep({"fit"}), InputExists
  PROVE  /\ Trained \in Weights /\ Trained.whole = Source.whole
         /\ Trained.full = (stage.method = "pretrain" \/ stage.tuning # "lora")
<1>1. Source \in Weights /\ run \in 1..MaxRuns /\ i \in Nat
  BY SourceSound, Training DEF AtStep
<1>2. Append(Source.trail, <<run, i>>) \in Seq((1..MaxRuns) \X Nat) BY <1>1, WeightFields
<1> QED BY <1>1, <1>2, WeightFields DEF Trained, Weights

-------------------------------------------------------------------------------
(* Frames: what holds of a step whatever it does to the disk *)

DiskTyped == \A p \in DOMAIN disk : disk[p] \in Weights

\* A run fails: what the next one finds is the disk.
LEMMA Fails ==
  ASSUME PipelineInv, pc # "off", pc' = "failed", Disk', DiskTyped',
         UNCHANGED <<control, i, k, environ, model, board>>
  PROVE  PipelineInv'
<1>1. UNCHANGED <<spec, run, given, i, k, environ, model, board>> BY DEF control
<1>2. stage' = stage /\ program' = program /\ (Fitted' <=> Fitted) BY <1>1, SameStage DEF Fitted
<1>3. TypeOK' BY <1>1 DEF PipelineInv, TypeOK, DiskTyped
<1>4. Control' BY <1>1 DEF PipelineInv, Control
<1>5. Boarded' BY <1>1 DEF PipelineInv, Boarded
<1>6. Environ' BY <1>1 DEF PipelineInv, Environ, env
<1>7. Seeded' /\ Saves' /\ InputReady' /\ Delivered'
  BY DEF Seeded, Saves, InputReady, Delivered
<1>8. Full' BY <1>1, <1>2, SameStage DEF PipelineInv, Full
<1>9. NeverFromTorn' BY <1>1, <1>2 DEF PipelineInv, NeverFromTorn, Does
<1>10. HonestLabels' BY <1>1 DEF PipelineInv, HonestLabels, env
<1> QED BY <1>3, <1>4, <1>5, <1>6, <1>7, <1>8, <1>9, <1>10 DEF PipelineInv

\* A trainer goes on to its next step, having written in its own directory only.
LEMMA StepOn ==
  ASSUME PipelineInv, pc = "train", k \in DOMAIN program, program[k] # "fit", k' = k + 1,
         UNCHANGED <<control, pc, i, environ, model, board>>,
         Disk', DiskTyped', Seeded', Saves',
         \A q \in DOMAIN disk : q[1] # i => q \in DOMAIN disk' /\ disk'[q] = disk[q]
  PROVE  PipelineInv'
<1>1. UNCHANGED <<spec, run, given, pc, i, environ, model, board>> BY DEF control
<1>2. /\ stage' = stage /\ program' = program /\ (Fitted' <=> Fitted)
      /\ FitAt(stage)' = FitAt(stage)
  BY <1>1, SameStage DEF Fitted
<1>3. /\ Shaped(program, FitAt(stage)) /\ k \in 1..Len(program) /\ Len(program) \in Nat
      /\ FitAt(stage) \in 1..Len(program) /\ k # FitAt(stage)
      /\ Fitted <=> k > FitAt(stage)
  BY Training DEF Shaped
<1>4. TypeOK' BY <1>1, <1>3 DEF PipelineInv, TypeOK, DiskTyped
<1>5. Control' BY <1>1, <1>2, <1>3 DEF PipelineInv, Control
<1>6. Boarded'
  <2>1. k + 1 > FitAt(stage) <=> k > FitAt(stage) BY <1>3
  <2> QED BY <1>1, <1>2, <1>3, <2>1 DEF PipelineInv, Boarded
<1>7. Environ' BY <1>1 DEF PipelineInv, Environ, env
<1>8. Full' BY <1>1, <1>2, SameStage DEF PipelineInv, Full
<1>9. NeverFromTorn' BY <1>1, <1>2 DEF PipelineInv, NeverFromTorn, Does
<1>10. HonestLabels' BY <1>1 DEF PipelineInv, HonestLabels, env
<1>11. InputReady'
  <2>1. SUFFICES ASSUME i > 1, Delivers(spec[i - 1])
                 PROVE  LET out == StageOutput(spec, i - 1) IN
                          /\ out \in DOMAIN disk' /\ disk'[out].whole /\ disk'[out].full
                          /\ ~Fitted => disk'[out] = model
    BY <1>1, <1>2 DEF InputReady, StageOutput, Path, Delivers, Does
  <2> DEFINE out == StageOutput(spec, i - 1)
  <2>2. /\ out \in DOMAIN disk /\ disk[out].whole /\ disk[out].full
        /\ ~Fitted => disk[out] = model
    BY <2>1 DEF PipelineInv, InputReady
  <2>3. out[1] # i BY OutputPath, Training
  <2> QED BY <2>2, <2>3
<1>12. Delivered' BY <1>1 DEF Delivered
<1> QED BY <1>4, <1>5, <1>6, <1>7, <1>8, <1>9, <1>10, <1>11, <1>12 DEF PipelineInv

\* Before the training run nothing has been delivered.
LEMMA NotYetSaved ==
  ASSUME PipelineInv, pc = "train", k \in DOMAIN program, program[k] \in Before,
         k' = k + 1, UNCHANGED <<spec, i, pc>>
  PROVE  Saves'
<1>1. k < FitAt(stage) /\ FitAt(stage) \in Nat /\ k \in Nat
  BY Training DEF Shaped, Before, After
<1>2. FitAt(stage)' = FitAt(stage) BY SameStage
<1>3. pc' = "train" /\ ~(k' > FitAt(stage)' + 1) BY <1>1, <1>2
<1> QED BY <1>3 DEF Saves

\* A step that is no conversion leaves no more to ask of the seed.
LEMMA SeedStays ==
  ASSUME PipelineInv, pc = "train", k \in DOMAIN program, program[k] \notin Conversions,
         k' = k + 1, UNCHANGED <<spec, i>>,
         \A q \in DOMAIN disk : q[4] = "seed" => q \in DOMAIN disk' /\ disk'[q] = disk[q]
  PROVE  Seeded'
<1>1. Past(Conversions)' => Past(Conversions)
  <2>1. program' = program BY SameStage
  <2>2. ASSUME NEW j \in DOMAIN program, program[j] \in Conversions, j < k + 1 PROVE j < k
    BY <2>2, Training
  <2> QED BY <2>1, <2>2 DEF Past
<1>2. Mine("seed")[4] = "seed" BY DEF Mine, Path
<1>3. Preconverted(stage)' <=> Preconverted(stage) BY SameStage
<1>4. SUFFICES ASSUME pc = "train", Past(Conversions)
               PROVE  /\ Preconverted(stage) \/ Mine("seed") \in DOMAIN disk'
                      /\ Does(stage, "convert") => disk'[Mine("seed")].whole
  BY <1>1, <1>3, SameStage DEF Seeded, Does
<1>5. CASE Preconverted(stage)
  <2>1. ~Does(stage, "convert") BY <1>5, Training, CellFacts
  <2> QED BY <1>5, <2>1
<1>6. CASE ~Preconverted(stage)
  BY <1>2, <1>4, <1>6 DEF PipelineInv, Seeded
<1> QED BY <1>5, <1>6

LEMMA DiskStays ==
  ASSUME PipelineInv, disk' = disk
  PROVE  Disk' /\ DiskTyped'
BY DEF PipelineInv, Disk, TypeOK, DiskTyped

\* What a write must be for the disk to be sound.
LEMMA DiskWritten ==
  ASSUME PipelineInv, NEW part, NEW w \in Weights, Store(Mine(part), w),
         part \in {"hf", "dir"} => Delivers(stage),
         part = "ckpt" /\ stage.method = "pretrain" => w.whole /\ w.full
  PROVE  Disk' /\ DiskTyped'
<1>1. /\ Mine(part)[2] = stage.method /\ Mine(part)[3] = stage.framework /\ Mine(part)[4] = part
  BY DEF Mine, Path, stage
<1>2. Delivers(CellAt(Mine(part))) = Delivers(stage) BY <1>1, SameCell DEF CellAt
<1>3. /\ DOMAIN disk' = DOMAIN disk \cup {Mine(part)} /\ disk'[Mine(part)] = w
      /\ \A q \in DOMAIN disk : q # Mine(part) => disk'[q] = disk[q]
  BY Stored
<1>4. DiskTyped' BY <1>3 DEF DiskTyped, PipelineInv, TypeOK
<1>5. ASSUME NEW p \in DOMAIN disk'
      PROVE  /\ p[4] \in {"hf", "dir"} => Delivers(CellAt(p))
             /\ p[4] = "ckpt" /\ p[2] = "pretrain" => disk'[p].whole /\ disk'[p].full
  <2>1. CASE p = Mine(part) BY <1>1, <1>2, <1>3, <2>1
  <2>2. CASE p # Mine(part)
    <3>1. p \in DOMAIN disk /\ disk'[p] = disk[p] BY <1>3, <2>2
    <3> QED BY <3>1 DEF PipelineInv, Disk
  <2> QED BY <2>1, <2>2
<1>6. Disk' BY <1>5 DEF Disk, CellAt, Delivers, Does
<1> QED BY <1>4, <1>6

-------------------------------------------------------------------------------
(* The steps *)

LEMMA InitInv == Init => PipelineInv
<1> SUFFICES ASSUME Init PROVE PipelineInv OBVIOUS
<1>1. /\ spec = <<>> /\ run = 0 /\ pc = "off" /\ i = 1 /\ k = 1
      /\ given = {} /\ environ = <<>> /\ model = Hub /\ disk = <<>> /\ board = {}
  BY DEF Init
<1>2. DOMAIN environ = {} /\ DOMAIN disk = {} BY <1>1
<1>3. TypeOK BY <1>1, <1>2, HubWeights, MaxRunsAssumption DEF TypeOK
<1>4. Control /\ Boarded BY <1>1 DEF Control, Boarded
<1>5. Environ BY <1>1, <1>2 DEF Environ
<1>6. Seeded /\ Saves /\ InputReady /\ Delivered /\ HonestLabels
  BY <1>1 DEF Seeded, Saves, InputReady, Delivered, HonestLabels
<1>7. Full /\ NeverFromTorn BY <1>1 DEF Full, NeverFromTorn, Fitted
<1>8. Disk BY <1>2 DEF Disk
<1> QED BY <1>3, <1>4, <1>5, <1>6, <1>7, <1>8 DEF PipelineInv

LEMMA LaunchInv == ASSUME PipelineInv, Launch PROVE PipelineInv'
<1>1. /\ run < MaxRuns /\ spec' \in Specs /\ given' \in UserEnvs
      /\ environ' = [l \in given' |-> UserValue] /\ run' = run + 1 /\ pc' = "plan" /\ i' = 1
      /\ k' = 1 /\ model' = Hub /\ board' = {} /\ disk' = disk
  BY DEF Launch
<1>2. run \in 0..MaxRuns /\ run' \in 1..MaxRuns /\ given' \subseteq Labels
  BY <1>1, UserEnvsAssumption, MaxRunsAssumption DEF PipelineInv, TypeOK
<1>3. Disk' /\ DiskTyped' BY <1>1, DiskStays
<1>4. TypeOK' BY <1>1, <1>2, <1>3, HubWeights, MaxRunsAssumption DEF TypeOK, DiskTyped
<1>5. Control' BY <1>1, <1>2 DEF Control
<1>6. ~Fitted' BY <1>1 DEF Fitted
<1>7. Boarded' BY <1>1, <1>6 DEF Boarded
<1>8. Environ' BY <1>1 DEF Environ
<1>9. Seeded' /\ Saves' /\ InputReady' /\ Delivered' /\ HonestLabels'
  BY <1>1 DEF Seeded, Saves, InputReady, Delivered, HonestLabels
<1>10. Full' /\ NeverFromTorn' BY <1>6 DEF Full, NeverFromTorn
<1> QED BY <1>3, <1>4, <1>5, <1>7, <1>8, <1>9, <1>10 DEF PipelineInv

LEMMA PlanInv == ASSUME PipelineInv, Plan PROVE PipelineInv'
<1>1. pc = "plan" /\ UNCHANGED <<control, i, k, environ, model, disk, board>> BY DEF Plan
<1>2. CASE ~Plannable(spec) BY <1>1, <1>2, Fails, DiskStays DEF Plan
<1>3. CASE Plannable(spec)
  <2>1. pc' = "dispatch" /\ UNCHANGED <<spec, run, given, i, k, environ, model, disk, board>>
    BY <1>1, <1>3 DEF Plan, control
  <2>2. i = 1 /\ run \in 1..MaxRuns /\ ~Fitted BY <1>1 DEF PipelineInv, Control, Boarded
  <2>3. i \in DOMAIN spec
    <3>1. spec # <<>> /\ spec \in Specs BY <1>3 DEF Plannable, PipelineInv, TypeOK
    <3>2. Len(spec) # 0 BY <3>1, SpecsAssumption
    <3> QED BY <2>2, <3>2, SpecShape
  <2>4. Disk' /\ DiskTyped' BY <2>1, DiskStays
  <2>5. TypeOK' BY <2>1, <2>3 DEF PipelineInv, TypeOK
  <2>6. Control' BY <1>3, <2>1, <2>2, <2>3 DEF Control
  <2>7. ~Fitted' BY <2>1, <2>2 DEF Fitted
  <2>8. Boarded' BY <2>1, <2>7 DEF PipelineInv, Boarded
  <2>9. Environ' BY <2>1, <2>2 DEF PipelineInv, Environ, env
  <2>10. Seeded' /\ Saves' /\ InputReady' /\ Delivered'
    BY <2>1, <2>2 DEF Seeded, Saves, InputReady, Delivered
  <2>11. Full' /\ NeverFromTorn' BY <2>7 DEF Full, NeverFromTorn
  <2>12. HonestLabels' BY <2>1 DEF PipelineInv, HonestLabels, env
  <2> QED BY <2>4, <2>5, <2>6, <2>8, <2>9, <2>10, <2>11, <2>12 DEF PipelineInv
<1> QED BY <1>2, <1>3

LEMMA DispatchInv == ASSUME PipelineInv, Dispatch PROVE PipelineInv'
<1>1. pc = "dispatch" /\ UNCHANGED <<control, i, model, disk, board>> BY DEF Dispatch
<1>2. CASE ~DispatchOK(spec[i]) BY <1>1, <1>2, Fails, DiskStays DEF Dispatch
<1>3. CASE DispatchOK(spec[i])
  <2>1. /\ pc' = "train" /\ k' = 1
        /\ environ' = [l \in Labels |-> IF l \in DOMAIN environ THEN environ[l] ELSE env(spec[i], i)[l]]
        /\ UNCHANGED <<spec, run, given, i, model, disk, board>>
    BY <1>1, <1>3 DEF Dispatch, control, apply_env
  <2>2. /\ Registered(stage) /\ run \in 1..MaxRuns /\ i \in Nat /\ i \in DOMAIN spec
        /\ Plannable(spec) /\ ~Fitted
    BY <1>1, <1>3 DEF DispatchOK, PipelineInv, Control, Boarded, stage
  <2>3. stage' = stage /\ program' = program /\ FitAt(stage)' = FitAt(stage) /\ (Fitted' <=> Fitted)
    BY <2>1, SameStage DEF Fitted
  <2>4. /\ Shaped(program, FitAt(stage)) /\ FitAt(stage) \in 1..Len(program)
        /\ Len(program) \in Nat /\ DOMAIN program = 1..Len(program)
    BY <2>2, TrainerShape DEF Shaped, program
  <2>5. Disk' /\ DiskTyped' BY <2>1, DiskStays
  <2>6. TypeOK' BY <2>1, <2>2 DEF PipelineInv, TypeOK
  <2>7. Control' BY <2>1, <2>2, <2>3, <2>4 DEF Control
  <2>8. Boarded' BY <2>1, <2>2, <2>3, <2>4 DEF PipelineInv, Boarded
  <2>9. Environ'
    <3>1. ASSUME NEW l \in Labels
          PROVE  environ'[l] = IF l \in given THEN UserValue ELSE env(spec[1], 1)[l]
      <4>1. CASE l \in DOMAIN environ BY <2>1, <4>1 DEF PipelineInv, Environ
      <4>2. CASE l \notin DOMAIN environ
        <5>1. DOMAIN environ = given /\ l \notin given
          BY <4>2 DEF PipelineInv, Environ
        <5>2. i = 1 BY <1>1, <2>2, <4>2, SpecShape DEF PipelineInv, Environ
        <5> QED BY <2>1, <4>2, <5>1, <5>2
      <4> QED BY <4>1, <4>2
    <3>2. DOMAIN environ' = Labels BY <2>1
    <3> QED BY <2>1, <3>1, <3>2 DEF Environ, env
  <2>10. Seeded'
    <3>1. ~Past(Conversions)' BY <2>1, <2>3, <2>4 DEF Past
    <3> QED BY <3>1 DEF Seeded
  <2>11. Saves' BY <2>1, <2>3, <2>4 DEF Saves
  <2>12. Full' /\ NeverFromTorn' BY <2>2, <2>3 DEF Full, NeverFromTorn
  <2>13. InputReady' BY <1>1, <2>1, <2>3
    DEF PipelineInv, InputReady, StageOutput, Path, Delivers, Does
  <2>14. Delivered' BY <2>1 DEF Delivered
  <2>15. HonestLabels' BY <2>1 DEF PipelineInv, HonestLabels, env
  <2> QED BY <2>5, <2>6, <2>7, <2>8, <2>9, <2>10, <2>11, <2>12, <2>13, <2>14, <2>15
    DEF PipelineInv
<1> QED BY <1>2, <1>3

LEMMA GuardInv == ASSUME PipelineInv, Guard PROVE PipelineInv'
<1>1. /\ pc = "train" /\ k \in DOMAIN program
      /\ program[k] \in {"full_only", "full_or_lora", "init_from", "resolve", "ray_head", "ray_unless"}
      /\ UNCHANGED <<control, i, environ, model, disk, board>>
  BY DEF Guard, AtStep, program
<1>2. Disk' /\ DiskTyped' BY <1>1, DiskStays
<1>3. CASE StepOK
  <2>1. k' = k + 1 /\ pc' = pc /\ UNCHANGED <<spec, i>> BY <1>1, <1>3 DEF Guard, control
  <2>2. Saves' BY <1>1, <2>1, NotYetSaved DEF Before
  <2>3. Seeded' BY <1>1, <2>1, SeedStays DEF Conversions
  <2> QED BY <1>1, <1>2, <2>1, <2>2, <2>3, StepOn
<1>4. CASE ~StepOK BY <1>1, <1>2, <1>4, Fails DEF Guard
<1> QED BY <1>3, <1>4

\* After a conversion: the seed is what was converted, or was found.
LEMMA ConvertInv == ASSUME PipelineInv, Convert PROVE PipelineInv'
<1>1. /\ pc = "train" /\ k \in DOMAIN program /\ program[k] \in Conversions
      /\ InputExists /\ Store(Mine("seed"), Input) /\ k' = k + 1
      /\ UNCHANGED <<control, pc, i, environ, model, board>> /\ UNCHANGED <<spec, i>>
  BY DEF Convert, AtStep, program, Conversions, control
<1>2. Input \in Weights /\ Input.whole BY <1>1, InputSound
<1>3. /\ DOMAIN disk' = DOMAIN disk \cup {Mine("seed")} /\ disk'[Mine("seed")] = Input
      /\ Mine("seed")[1] = i
      /\ \A q \in DOMAIN disk : q # Mine("seed") => disk'[q] = disk[q]
  BY <1>1, Stored
<1>4. Disk' /\ DiskTyped' BY <1>1, <1>2, DiskWritten
<1>5. Saves' BY <1>1, NotYetSaved DEF Before, Conversions
<1>6. Seeded' BY <1>1, <1>2, <1>3, SameStage DEF Seeded
<1>7. \A q \in DOMAIN disk : q[1] # i => q \in DOMAIN disk' /\ disk'[q] = disk[q] BY <1>3
<1> QED BY <1>1, <1>4, <1>5, <1>6, <1>7, StepOn DEF Conversions

LEMMA ConvertSkippedInv == ASSUME PipelineInv, ConvertSkipped PROVE PipelineInv'
<1>1. /\ pc = "train" /\ k \in DOMAIN program /\ program[k] = "convert_once"
      /\ Preconverted(stage) \/ Mine("seed") \in DOMAIN disk
      /\ k' = k + 1
      /\ UNCHANGED <<control, pc, i, environ, model, disk, board>> /\ UNCHANGED <<spec, i>>
  BY DEF ConvertSkipped, SeedFound, AtStep, program, control
<1>2. Disk' /\ DiskTyped' BY <1>1, DiskStays
<1>3. Saves' BY <1>1, NotYetSaved DEF Before
<1>4. ~Does(stage, "convert")
  <2>1. SUFFICES ASSUME NEW j \in DOMAIN program, program[j] = "convert" PROVE FALSE
    BY DEF Does, program
  <2> QED BY <1>1, <2>1, Training DEF Shaped, Conversions
<1>5. Seeded' BY <1>1, <1>4, SameStage DEF Seeded, Does
<1> QED BY <1>1, <1>2, <1>3, <1>5, StepOn

\* After the training run: the model is trained from what was handed on.
LEMMA FitInv == ASSUME PipelineInv, Fit PROVE PipelineInv'
<1>1. /\ AtStep({"fit"}) /\ InputExists /\ model' \in Outcomes
      /\ board' = board \cup {[stage |-> i, as |-> Recorded(stage, i)]} /\ k' = k + 1
      /\ UNCHANGED <<spec, run, given, pc, i, environ>> /\ pc = "train"
  BY DEF Fit, control, AtStep
<1>2. /\ k = FitAt(stage) /\ Source \in Weights /\ Trained \in Weights
      /\ Trained.whole = Source.whole
      /\ Trained.full = (stage.method = "pretrain" \/ stage.tuning # "lora")
      /\ ~Does(stage, "convert_once") => Source.whole
      /\ Resumes /\ ~Does(stage, "convert_once") => Source.full
  BY <1>1, SourceSound, TrainedSound
<1>3. /\ Registered(stage) /\ Shaped(program, FitAt(stage)) /\ k \in 1..Len(program)
      /\ Len(program) \in Nat /\ DOMAIN program = 1..Len(program)
      /\ i \in Nat \ {0} /\ i \in DOMAIN spec /\ DOMAIN environ = Labels
  BY <1>1, <1>2, Training, SpecShape
<1>4. stage' = stage /\ program' = program /\ FitAt(stage)' = FitAt(stage)
  BY <1>1, SameStage
<1>5. Fitted'
  <2>1. [stage |-> i, as |-> Recorded(stage, i)].stage = i OBVIOUS
  <2> QED BY <1>1, <2>1 DEF Fitted
<1>6. model' \in Weights /\ (~Does(stage, "convert_once") => model'.whole)
      /\ (Delivers(stage) /\ (stage.method = "pretrain" \/ stage.tuning # "lora") => model'.full)
  <2>1. CASE model' = Trained BY <1>2, <2>1
  <2>2. CASE Resumes /\ model' = Source BY <1>2, <1>3, <2>2, CellFacts
  <2> QED BY <1>1, <2>1, <2>2 DEF Outcomes
<1>7. /\ Disk' /\ DiskTyped'
      /\ \A q \in DOMAIN disk : q[1] # i \/ q[4] # "ckpt" => q \in DOMAIN disk' /\ disk'[q] = disk[q]
  <2>1. CASE TrainerOf(stage).resumes
    <3>1. Store(Mine("ckpt"), model') BY <2>1 DEF Fit
    <3>2. stage.method = "pretrain" => model'.whole /\ model'.full
      <4>1. SUFFICES ASSUME stage.method = "pretrain" PROVE model'.whole /\ model'.full
        OBVIOUS
      <4>2. ~Does(stage, "convert_once") BY <1>3, <4>1, CellFacts
      <4>3. CASE model' = Trained BY <1>2, <4>1, <4>2, <4>3
      <4>4. CASE Resumes /\ model' = Source BY <1>2, <4>2, <4>4
      <4> QED BY <1>1, <4>3, <4>4 DEF Outcomes
    <3>3. Disk' /\ DiskTyped' BY <1>6, <3>1, <3>2, DiskWritten
    <3>4. Mine("ckpt")[1] = i /\ Mine("ckpt")[4] = "ckpt" BY DEF Mine, Path
    <3>5. DOMAIN disk' = DOMAIN disk \cup {Mine("ckpt")} BY <3>1, Stored
    <3>6. \A q \in DOMAIN disk : q # Mine("ckpt") => disk'[q] = disk[q] BY <3>1, Stored
    <3> QED BY <3>3, <3>4, <3>5, <3>6
  <2>2. CASE ~TrainerOf(stage).resumes
    <3>1. disk' = disk BY <2>2 DEF Fit
    <3> QED BY <3>1, DiskStays
  <2> QED BY <2>1, <2>2
<1>8. TypeOK' BY <1>1, <1>3, <1>6, <1>7 DEF PipelineInv, TypeOK, DiskTyped
<1>9. Control' BY <1>1, <1>3, <1>4 DEF PipelineInv, Control
<1>10. Boarded'
  <2>1. k' > FitAt(stage) /\ i \in 1..i BY <1>1, <1>2, <1>3
  <2> QED BY <1>1, <1>3, <1>4, <1>5, <2>1 DEF PipelineInv, Boarded
<1>11. Environ' BY <1>1 DEF PipelineInv, Environ, env
<1>12. Seeded' BY <1>1, <1>2, <1>3, <1>7, SeedStays DEF Shaped, Conversions
<1>13. Saves'
  <2>1. ~(k' > FitAt(stage)' + 1) BY <1>1, <1>2, <1>3, <1>4
  <2> QED BY <1>1, <2>1 DEF Saves
<1>14. Full' BY <1>4, <1>6 DEF Full, Delivers, Does
<1>15. NeverFromTorn' BY <1>4, <1>6 DEF NeverFromTorn, Does
<1>16. InputReady'
  <2>1. SUFFICES ASSUME i > 1, Delivers(spec[i - 1])
                 PROVE  LET out == StageOutput(spec, i - 1) IN
                          out \in DOMAIN disk' /\ disk'[out].whole /\ disk'[out].full
    BY <1>1, <1>5 DEF InputReady, StageOutput, Path, Delivers, Does
  <2> DEFINE out == StageOutput(spec, i - 1)
  <2>2. out \in DOMAIN disk /\ disk[out].whole /\ disk[out].full
    BY <1>1, <2>1 DEF PipelineInv, InputReady
  <2>3. out[1] # i BY <1>3, OutputPath
  <2> QED BY <1>7, <2>2, <2>3
<1>17. Delivered' BY <1>1 DEF Delivered
<1>18. HonestLabels'
  <2>1. SUFFICES ASSUME NEW e \in board', NEW l \in Labels \ TrainerOf(spec[e.stage]).labels
                 PROVE  /\ l \in given => e.as[l] = UserValue
                        /\ l \notin given /\ e.stage = 1 => e.as[l] = env(spec[1], 1)[l]
    BY <1>1 DEF HonestLabels, env
  <2>2. CASE e \in board BY <2>1, <2>2 DEF PipelineInv, HonestLabels
  <2>3. CASE e = [stage |-> i, as |-> Recorded(stage, i)]
    <3>1. e.as[l] = environ[l] BY <2>1, <2>3 DEF Recorded, stage
    <3> QED BY <1>3, <3>1 DEF PipelineInv, Environ
  <2> QED BY <1>1, <2>2, <2>3
<1> QED BY <1>7, <1>8, <1>9, <1>10, <1>11, <1>12, <1>13, <1>14, <1>15, <1>16, <1>17, <1>18
  DEF PipelineInv

LEMMA NoInputInv == ASSUME PipelineInv, NoInput PROVE PipelineInv'
BY Fails, DiskStays DEF NoInput, AtStep

LEMMA CrashInv == ASSUME PipelineInv, Crash PROVE PipelineInv'
BY Fails, DiskStays DEF Crash

\* The model is delivered after its training run, where the plan says.
LEMMA SaveModelInv == ASSUME PipelineInv, SaveModel PROVE PipelineInv'
<1>1. /\ pc = "train" /\ k \in DOMAIN program /\ program[k] \in After
      /\ Store(Saved, model) /\ k' = k + 1
      /\ UNCHANGED <<control, pc, i, environ, model, board>> /\ UNCHANGED <<spec, i>>
  BY DEF SaveModel, AtStep, program, After, control
<1>2. Registered(stage) /\ Delivers(stage)
  BY <1>1, Training DEF Delivers, Does, After, program
<1>3. PICK part \in {"hf", "dir"} : Saved = Mine(part) BY DEF Saved
<1>4. model \in Weights BY DEF PipelineInv, TypeOK
<1>5. Disk' /\ DiskTyped' BY <1>1, <1>2, <1>3, <1>4, DiskWritten
<1>6. /\ DOMAIN disk' = DOMAIN disk \cup {Saved} /\ disk'[Saved] = model
      /\ Saved[1] = i /\ Saved[4] = part
      /\ \A q \in DOMAIN disk : q # Saved => disk'[q] = disk[q]
  <2>1. Store(Mine(part), model) BY <1>1, <1>3
  <2>2. /\ DOMAIN disk' = DOMAIN disk \cup {Mine(part)} /\ disk'[Mine(part)] = model
        /\ Mine(part)[1] = i /\ Mine(part)[4] = part
        /\ \A q \in DOMAIN disk : q # Mine(part) => disk'[q] = disk[q]
    BY <2>1, Stored
  <2> QED BY <1>3, <2>2
<1>7. Saves'
  <2>1. Saved = StageOutput(spec, i) BY <1>2, SavedThere
  <2> QED BY <1>1, <1>6, <2>1, SameStage DEF Saves
<1>8. Seeded' BY <1>1, <1>3, <1>6, SeedStays DEF After, Conversions
<1> QED BY <1>1, <1>5, <1>6, <1>7, <1>8, StepOn DEF After

\* What a killed step leaves is torn or is a checkpoint of this stage.
LEMMA CrashWritingInv == ASSUME PipelineInv, CrashWriting PROVE PipelineInv'
<1>1. /\ pc = "train" /\ pc' = "failed"
      /\ UNCHANGED <<control, i, k, environ, model, board>>
  BY DEF CrashWriting
<1>2. CASE InputExists /\ Store(Mine("seed"), Torn(Input))
  <2>1. Torn(Input) \in Weights BY <1>1, <1>2, InputSound, WeightFields
  <2>2. Disk' /\ DiskTyped' BY <1>2, <2>1, DiskWritten
  <2> QED BY <1>1, <2>2, Fails
<1>3. CASE AtStep({"export", "save"}) /\ Store(Saved, Torn(model))
  <2>1. Delivers(stage) BY <1>3 DEF AtStep, Delivers, Does
  <2>2. PICK part \in {"hf", "dir"} : Saved = Mine(part) BY DEF Saved
  <2>3. Torn(model) \in Weights BY WeightFields DEF PipelineInv, TypeOK
  <2>4. Disk' /\ DiskTyped' BY <1>3, <2>1, <2>2, <2>3, DiskWritten
  <2> QED BY <1>1, <2>4, Fails
<1>4. CASE AtStep({"fit"}) /\ InputExists /\ TrainerOf(stage).resumes /\ Store(Mine("ckpt"), Trained)
  <2>1. Registered(stage) BY <1>1, Training
  <2>2. stage.method = "pretrain" => ~Does(stage, "convert_once") BY <2>1, CellFacts
  <2>3. /\ Trained \in Weights /\ Trained.whole = Source.whole
        /\ Trained.full = (stage.method = "pretrain" \/ stage.tuning # "lora")
        /\ ~Does(stage, "convert_once") => Source.whole
    BY <1>4, TrainedSound, SourceSound
  <2>4. Disk' /\ DiskTyped' BY <1>4, <2>2, <2>3, DiskWritten
  <2> QED BY <1>1, <2>4, Fails
<1> QED BY <1>2, <1>3, <1>4 DEF CrashWriting

\* A stage hands on what it delivered, or the pipeline is done.
LEMMA StageReturnsInv == ASSUME PipelineInv, StageReturns PROVE PipelineInv'
<1>1. /\ pc = "train" /\ k > Len(program)
      /\ UNCHANGED <<spec, run, given, k, environ, model, disk, board>>
  BY DEF StageReturns, control, program
<1>2. /\ Registered(stage) /\ k \in 1..(Len(program) + 1) /\ Len(program) \in Nat
      /\ FitAt(stage) \in 1..Len(program) /\ i \in Nat \ {0} /\ i \in 1..Len(spec)
      /\ DOMAIN environ = Labels /\ run \in 1..MaxRuns
  BY <1>1, Training
<1>3. Fitted /\ Plannable(spec) /\ DOMAIN spec = 1..Len(spec) /\ Len(spec) \in Nat
  BY <1>1, <1>2, Training, SpecShape DEF PipelineInv, Control
<1>4. Delivers(stage) => /\ StageOutput(spec, i) \in DOMAIN disk
                         /\ disk[StageOutput(spec, i)] = model
  <2>1. Delivers(stage) => k > FitAt(stage) + 1
    BY <1>1, <1>2, DeliversLast DEF program
  <2> QED BY <1>1, <2>1 DEF PipelineInv, Saves
<1>5. Delivers(stage) => model.whole BY <1>2, <1>3, CellFacts DEF PipelineInv, NeverFromTorn
<1>6. Disk' /\ DiskTyped' BY <1>1, DiskStays
<1>7. CASE i < Len(spec)
  <2>1. pc' = "dispatch" /\ i' = i + 1 BY <1>7 DEF StageReturns
  <2>2. Delivers(stage) => model.full
    <3>1. ~HandsOffAdapter(spec, i) BY <1>2, <1>3 DEF Plannable
    <3>2. stage.method = "pretrain" \/ stage.tuning # "lora"
      BY <1>7, <3>1 DEF HandsOffAdapter, stage
    <3> QED BY <1>3, <3>2 DEF PipelineInv, Full
  <2>3. TypeOK' BY <1>1, <1>2, <1>3, <1>7, <2>1 DEF PipelineInv, TypeOK
  <2>4. Control' BY <1>1, <1>2, <1>3, <1>7, <2>1 DEF Control
  <2>5. \A e \in board : e.stage \in 1..i BY DEF PipelineInv, Boarded
  <2>6. ~Fitted' BY <1>1, <1>2, <2>1, <2>5 DEF Fitted
  <2>7. Boarded' BY <1>1, <1>2, <1>3, <1>7, <2>1, <2>5, <2>6 DEF Boarded
  <2>8. Environ' BY <1>1, <1>2, <2>1 DEF PipelineInv, Environ, env
  <2>9. Seeded' /\ Saves' /\ Delivered' BY <2>1 DEF Seeded, Saves, Delivered
  <2>10. Full' /\ NeverFromTorn' BY <2>6 DEF Full, NeverFromTorn
  <2>11. InputReady'
    <3>1. i' - 1 = i BY <1>2, <2>1
    <3>2. StageOutput(spec', i' - 1) = StageOutput(spec, i) BY <1>1, <3>1 DEF StageOutput, Path
    <3>3. Delivers(spec'[i' - 1]) <=> Delivers(stage) BY <1>1, <3>1 DEF Delivers, Does, stage
    <3> QED BY <1>1, <1>4, <1>5, <2>2, <3>1, <3>2, <3>3
      DEF InputReady, StageOutput, Path, Delivers, Does, stage
  <2>12. HonestLabels' BY <1>1 DEF PipelineInv, HonestLabels, env
  <2> QED BY <1>6, <2>3, <2>4, <2>7, <2>8, <2>9, <2>10, <2>11, <2>12 DEF PipelineInv
<1>8. CASE ~(i < Len(spec))
  <2>1. pc' = "done" /\ i' = i /\ i = Len(spec) BY <1>2, <1>8 DEF StageReturns
  <2>2. stage' = stage /\ (Fitted' <=> Fitted) BY <1>1, <2>1, SameStage DEF Fitted
  <2>3. TypeOK' BY <1>1, <1>2, <1>3, <2>1 DEF PipelineInv, TypeOK
  <2>4. Control' BY <1>1, <1>2, <1>3, <2>1, <2>2 DEF Control
  <2>5. Boarded' BY <1>1, <2>1 DEF PipelineInv, Boarded
  <2>6. Environ' BY <1>1, <1>2, <2>1 DEF PipelineInv, Environ, env
  <2>7. Seeded' /\ InputReady' BY <2>1 DEF Seeded, InputReady
  <2>8. Saves' BY <1>1, <1>4, <2>1, SameStage DEF Saves
  <2>9. Delivered'
    BY <1>1, <1>4, <2>1 DEF Delivered, StageOutput, Path, Delivers, Does, stage
  <2>10. Full' /\ NeverFromTorn'
    BY <1>1, <2>1, <2>2, SameStage DEF PipelineInv, Full, NeverFromTorn, Does
  <2>11. HonestLabels' BY <1>1 DEF PipelineInv, HonestLabels, env
  <2> QED BY <1>6, <2>3, <2>4, <2>5, <2>6, <2>7, <2>8, <2>9, <2>10, <2>11 DEF PipelineInv
<1> QED BY <1>7, <1>8

LEMMA StutterInv == ASSUME PipelineInv, UNCHANGED vars PROVE PipelineInv'
<1>1. UNCHANGED <<spec, run, pc, i, k, given, environ, model, disk, board>> BY DEF vars
<1>2. /\ stage' = stage /\ program' = program /\ (Fitted' <=> Fitted)
      /\ FitAt(stage)' = FitAt(stage)
  BY <1>1, SameStage DEF Fitted
<1>3. Disk' BY <1>1, DiskStays
<1>4. TypeOK' BY <1>1 DEF PipelineInv, TypeOK
<1>5. Control' /\ Boarded' BY <1>1, <1>2 DEF PipelineInv, Control, Boarded
<1>6. Environ' BY <1>1 DEF PipelineInv, Environ, env
<1>7. Seeded' BY <1>1, <1>2, SameStage DEF PipelineInv, Seeded, Past, Does
<1>8. Saves' BY <1>1, <1>2, SameStage DEF PipelineInv, Saves
<1>9. Full' /\ NeverFromTorn' BY <1>1, <1>2, SameStage DEF PipelineInv, Full, NeverFromTorn, Does
<1>10. InputReady' BY <1>1, <1>2
  DEF PipelineInv, InputReady, StageOutput, Path, Delivers, Does
<1>11. Delivered' BY <1>1 DEF PipelineInv, Delivered, StageOutput, Path, Delivers, Does
<1>12. HonestLabels' BY <1>1 DEF PipelineInv, HonestLabels, env
<1> QED BY <1>3, <1>4, <1>5, <1>6, <1>7, <1>8, <1>9, <1>10, <1>11, <1>12 DEF PipelineInv

LEMMA NextInv == PipelineInv /\ [Next]_vars => PipelineInv'
BY LaunchInv, PlanInv, DispatchInv, GuardInv, ConvertInv, ConvertSkippedInv, FitInv, NoInputInv,
  SaveModelInv, StageReturnsInv, CrashInv, CrashWritingInv, StutterInv DEF Next

-------------------------------------------------------------------------------
(* The theorems *)

\* PipelineInv holds of every workspace: whatever specs are run there, in any
\* order, after successes and after crashes at any point.
THEOREM PipelineInductive == Spec => []PipelineInv
BY InitInv, NextInv, PTL DEF Spec

\* The types of the pipeline's state; a stage that is dispatched exists.
THEOREM PipelineTyped == Spec => []TypeOK
<1>1. PipelineInv => TypeOK BY DEF PipelineInv
<1> QED BY <1>1, PipelineInductive, PTL

\* A stage after one that delivers is pointed at weights that are there, whole,
\* no adapter, and trained in this very run.
THEOREM InputsReady == Spec => []InputReady
<1>1. PipelineInv => InputReady BY DEF PipelineInv
<1> QED BY <1>1, PipelineInductive, PTL

\* A pipeline that ends well leaves the model it trained where its plan says.
THEOREM ModelsDelivered == Spec => []Delivered
<1>1. PipelineInv => Delivered BY DEF PipelineInv
<1> QED BY <1>1, PipelineInductive, PTL

\* No training run starts from half-written weights, but in the cells that
\* convert once.
THEOREM StartsWhole == Spec => []NeverFromTorn
<1>1. PipelineInv => NeverFromTorn BY DEF PipelineInv
<1> QED BY <1>1, PipelineInductive, PTL

\* W&B records what the user gave at launch, and the first stage as its config
\* says, but for the fields that a trainer passes itself.
THEOREM LabelsHonest == Spec => []HonestLabels
<1>1. PipelineInv => HonestLabels BY DEF PipelineInv
<1> QED BY <1>1, PipelineInductive, PTL

-------------------------------------------------------------------------------
(* Lineages *)

Trails == Seq((1..MaxRuns) \X Nat)

LEMMA AppendTrail ==
  ASSUME NEW t \in Trails, NEW n \in Nat, run \in 1..MaxRuns
  PROVE  LET u == Append(t, <<run, n>>) IN
           /\ DOMAIN t = 1..Len(t) /\ Len(t) \in Nat /\ DOMAIN u = 1..(Len(t) + 1)
           /\ u[Len(t) + 1][2] = n /\ \A a \in DOMAIN t : u[a] = t[a]
           /\ \A a \in DOMAIN t : t[a][2] \in Nat
           /\ Firsts(t) = Firsts(u) \ {Len(t) + 1}
<1> DEFINE u == Append(t, <<run, n>>)
<1>1. t \in Seq((1..MaxRuns) \X Nat) BY DEF Trails
<1>2. /\ DOMAIN t = 1..Len(t) /\ Len(t) \in Nat /\ DOMAIN u = 1..(Len(t) + 1)
      /\ u[Len(t) + 1] = <<run, n>> /\ \A a \in DOMAIN t : u[a] = t[a]
  BY <1>1
<1>3. \A a \in DOMAIN t : t[a][2] \in Nat BY <1>1
<1> HIDE DEF u
<1>4. Firsts(t) = Firsts(u) \ {Len(t) + 1}
  <2>1. \A a \in 1..Len(t) : a # 1 => a - 1 \in 1..Len(t) BY <1>2
  <2>2. \A a \in 1..Len(t) : a # Len(t) + 1 BY <1>2
  <2> QED BY <1>2, <2>1, <2>2 DEF Firsts
<1> QED BY <1>2, <1>3, <1>4 DEF u

LEMMA ThroughNone == Through(<<>>, 0)
BY DEF Through

\* One more training by the last stage, or by the next one.
LEMMA ThroughMore ==
  ASSUME NEW t \in Trails, NEW n \in Nat, NEW l \in Nat \ {0}, run \in 1..MaxRuns,
         Through(t, n), l = n \/ l = n + 1
  PROVE  Through(Append(t, <<run, l>>), l)
<1> DEFINE u == Append(t, <<run, l>>)
<1>1. /\ DOMAIN t = 1..Len(t) /\ Len(t) \in Nat /\ DOMAIN u = 1..(Len(t) + 1)
      /\ u[Len(t) + 1][2] = l /\ \A a \in DOMAIN t : u[a] = t[a]
      /\ \A a \in DOMAIN t : t[a][2] \in Nat
      /\ Firsts(t) = Firsts(u) \ {Len(t) + 1}
  BY AppendTrail
<1> HIDE DEF u
<1>2. \A a \in DOMAIN u : u[a][2] \in 1..l BY <1>1 DEF Through
<1>3. \A a, b \in DOMAIN u : a <= b => u[a][2] <= u[b][2]
  <2>1. SUFFICES ASSUME NEW a \in DOMAIN u, NEW b \in DOMAIN u, a <= b PROVE u[a][2] <= u[b][2]
    OBVIOUS
  <2>2. CASE b = Len(t) + 1 BY <1>1, <1>2, <2>2
  <2>3. CASE b # Len(t) + 1
    <3>1. a \in DOMAIN t /\ b \in DOMAIN t BY <1>1, <2>1, <2>3
    <3> QED BY <1>1, <2>1, <3>1 DEF Through
  <2> QED BY <2>2, <2>3
<1>4. \A m \in 1..l : \E a \in Firsts(u) : u[a][2] = m
  <2>1. SUFFICES ASSUME NEW m \in 1..l PROVE \E a \in Firsts(u) : u[a][2] = m
    OBVIOUS
  <2>2. CASE m \in 1..n
    <3>1. PICK a \in Firsts(t) : t[a][2] = m BY <2>2 DEF Through
    <3>2. a \in Firsts(u) /\ a \in DOMAIN t BY <1>1, <3>1 DEF Firsts
    <3> QED BY <1>1, <3>1, <3>2
  <2>3. CASE m \notin 1..n
    <3>1. l = n + 1 /\ m = l BY <2>1, <2>3
    <3>2. Len(t) # 0 => u[Len(t)][2] # l
      <4>1. Len(t) # 0 => Len(t) \in DOMAIN t BY <1>1
      <4>2. \A a \in DOMAIN t : t[a][2] \in 1..n BY DEF Through
      <4> QED BY <1>1, <3>1, <4>1, <4>2
    <3>3. Len(t) + 1 \in Firsts(u) BY <1>1, <3>2 DEF Firsts
    <3> QED BY <1>1, <3>1, <3>3
  <2> QED BY <2>2, <2>3
<1>5. Through(u, l) BY <1>2, <1>3, <1>4 DEF Through
<1> QED BY <1>5 DEF u

\* Of each stage there is one place where it takes over, and they are in order.
LEMMA FirstsOrdered ==
  ASSUME NEW t \in Trails, NEW n \in Nat, Through(t, n),
         NEW a \in Firsts(t), NEW b \in Firsts(t)
  PROVE  a <= b <=> t[a][2] <= t[b][2]
<1>1. t \in Seq((1..MaxRuns) \X Nat) BY DEF Trails
<1>2. DOMAIN t = 1..Len(t) /\ Len(t) \in Nat /\ a \in 1..Len(t) /\ b \in 1..Len(t)
  <2>1. DOMAIN t = 1..Len(t) /\ Len(t) \in Nat BY <1>1
  <2> QED BY <2>1 DEF Firsts
<1>3. \A x, y \in 1..Len(t) : x <= y => t[x][2] <= t[y][2] BY <1>2 DEF Through
<1>4. \A x \in 1..Len(t) : t[x][2] \in Nat BY <1>2 DEF Through
<1>5. CASE b < a
  <2>1. a - 1 \in 1..Len(t) /\ b <= a - 1 /\ t[a][2] # t[a - 1][2] BY <1>2, <1>5 DEF Firsts
  <2>2. t[b][2] <= t[a - 1][2] /\ t[a - 1][2] <= t[a][2] BY <1>2, <1>3, <2>1
  <2>3. t[b][2] < t[a][2] BY <1>2, <1>4, <2>1, <2>2
  <2> QED BY <1>2, <1>4, <1>5, <2>3
<1>6. CASE a <= b BY <1>2, <1>3, <1>6
<1> QED BY <1>2, <1>5, <1>6

LEMMA FirstsCount ==
  ASSUME NEW t \in Trails, NEW n \in Nat, Through(t, n), NEW m \in 0..n
  PROVE  LET S == {a \in Firsts(t) : t[a][2] <= m} IN IsFiniteSet(S) /\ Cardinality(S) = m
<1> DEFINE S == {a \in Firsts(t) : t[a][2] <= m}
           f == [a \in S |-> t[a][2]]
<1>1. t \in Seq((1..MaxRuns) \X Nat) BY DEF Trails
<1>2. DOMAIN t = 1..Len(t) /\ Len(t) \in Nat BY <1>1
<1>3. Firsts(t) \subseteq 1..Len(t) /\ \A a \in Firsts(t) : t[a][2] \in 1..n
  BY <1>2 DEF Firsts, Through
<1>4. IsFiniteSet(S)
  <2>1. IsFiniteSet(1..Len(t)) BY <1>2, FS_Interval
  <2> QED BY <1>3, <2>1, FS_Subset
<1>5. f \in Bijection(S, 1..m)
  <2>1. f \in [S -> 1..m] BY <1>3
  <2>2. \A a, b \in S : f[a] = f[b] => a = b
    <3>1. SUFFICES ASSUME NEW a \in S, NEW b \in S, t[a][2] = t[b][2] PROVE a = b
      OBVIOUS
    <3>2. a <= b /\ b <= a BY <1>3, <3>1, FirstsOrdered
    <3> QED BY <1>2, <1>3, <3>2
  <2>3. \A y \in 1..m : \E a \in S : f[a] = y
    <3>1. SUFFICES ASSUME NEW y \in 1..m PROVE \E a \in S : f[a] = y
      OBVIOUS
    <3>2. PICK a \in Firsts(t) : t[a][2] = y BY <3>1 DEF Through
    <3> QED BY <3>1, <3>2
  <2> HIDE DEF S, f
  <2> QED BY <2>1, <2>2, <2>3, Fun_IsBij
<1>6. ExistsBijection(S, 1..m) BY <1>5 DEF ExistsBijection
<1>7. Cardinality(1..m) = Cardinality(S) BY <1>4, <1>6, FS_Bijection
<1>8. Cardinality(1..m) = m BY FS_Interval
<1> QED BY <1>4, <1>7, <1>8

\* The chain of a lineage through 1..n.
LEMMA ChainThrough ==
  ASSUME NEW t \in Trails, NEW n \in Nat, Through(t, n)
  PROVE  ChainOf(t) = [m \in 1..n |-> m]
<1>1. \A a \in Firsts(t) : t[a][2] \in 1..n BY DEF Firsts, Through
<1>2. Cardinality(Firsts(t)) = n
  <2>1. Firsts(t) = {a \in Firsts(t) : t[a][2] <= n} BY <1>1
  <2> QED BY <2>1, FirstsCount
<1>3. ASSUME NEW m \in 1..n PROVE t[Nth(t, m)][2] = m
  <2>1. ASSUME NEW j \in Firsts(t)
        PROVE  Cardinality({x \in Firsts(t) : x <= j}) = t[j][2]
    <3>1. {x \in Firsts(t) : x <= j} = {x \in Firsts(t) : t[x][2] <= t[j][2]}
      BY FirstsOrdered
    <3>2. t[j][2] \in 0..n BY <1>1
    <3> QED BY <3>1, <3>2, FirstsCount
  <2>2. PICK j \in Firsts(t) : t[j][2] = m BY <1>3 DEF Through
  <2>3. Nth(t, m) \in Firsts(t) /\ Cardinality({x \in Firsts(t) : x <= Nth(t, m)}) = m
    BY <2>1, <2>2 DEF Nth
  <2> QED BY <2>1, <2>3
<1> QED BY <1>2, <1>3 DEF ChainOf

\* A stage after the first that does not pretrain reads what the plan hands on.
LEMMA HandedOn ==
  ASSUME FreshFirst, PipelineInv, pc = "train", FromHub
  PROVE  i = 1
<1>1. i \in DOMAIN spec /\ i \in Nat \ {0} /\ Registered(stage) BY Training, SpecShape
<1>2. spec \in Specs BY <1>1 DEF PipelineInv, TypeOK
<1>3. i # 1 => stage.method # "pretrain" BY <1>1, <1>2 DEF FreshFirst, stage
<1> QED BY <1>1, <1>3, CellFacts DEF FromHub

LEMMA InputThrough ==
  ASSUME FreshFirst, PipelineInv, Lineages, pc = "train", InputExists
  PROVE  Through(Input.trail, i - 1)
<1>1. CASE FromHub
  <2>1. i = 1 /\ Input = Hub BY <1>1, HandedOn DEF Input
  <2> QED BY <2>1, HubWeights, ThroughNone
<1>2. CASE ~FromHub
  <2>1. /\ StageOutput(spec, i - 1) \in DOMAIN disk
        /\ Input = disk[StageOutput(spec, i - 1)]
    BY <1>2, InputSound
  <2>2. StageOutput(spec, i - 1)[1] = i - 1 /\ StageOutput(spec, i - 1)[4] # "seed"
    BY DEF StageOutput, Path, OutputPart
  <2> QED BY <2>1, <2>2 DEF Lineages, Kept
<1> QED BY <1>1, <1>2

LEMMA SourceThrough ==
  ASSUME FreshFirst, PipelineInv, Lineages, AtStep({"fit"}), InputExists
  PROVE  Through(Source.trail, IF Resumes THEN i ELSE i - 1)
<1>1. pc = "train" BY DEF AtStep
<1>2. CASE Resumes
  <2>1. Source = disk[Mine("ckpt")] /\ Mine("ckpt") \in DOMAIN disk BY <1>2 DEF Source, Resumes
  <2>2. Mine("ckpt")[1] = i /\ Mine("ckpt")[4] # "seed" BY DEF Mine, Path
  <2> QED BY <1>2, <2>1, <2>2 DEF Lineages, Kept
<1>3. CASE ~Resumes /\ ~Preconverted(stage) /\ Converts
  <2>1. Source = disk[Mine("seed")] /\ Mine("seed") \in DOMAIN disk BY <1>3, SourceSound
  <2>2. Mine("seed")[1] = i /\ Mine("seed")[4] = "seed" BY DEF Mine, Path
  <2> QED BY <1>3, <2>1, <2>2 DEF Lineages, Kept
<1>4. CASE ~Resumes /\ ~Preconverted(stage) /\ ~Converts
  <2>1. Source = Input BY <1>4, SourceSound
  <2> QED BY <1>1, <1>4, <2>1, InputThrough
<1>5. CASE ~Resumes /\ Preconverted(stage)
  <2>1. Source = Hub BY <1>5, SourceSound
  <2>2. i \in DOMAIN spec /\ i \in Nat \ {0} /\ spec \in Specs
    BY <1>1, Training, SpecShape DEF PipelineInv, TypeOK
  <2>3. i = 1 BY <1>5, <2>2 DEF FreshFirst, stage
  <2> QED BY <1>5, <2>1, <2>3, HubWeights, ThroughNone
<1> QED BY <1>2, <1>3, <1>4, <1>5

LEMMA TrainedThrough ==
  ASSUME FreshFirst, PipelineInv, Lineages, AtStep({"fit"}), InputExists
  PROVE  Through(Trained.trail, i)
<1>1. i \in Nat \ {0} /\ run \in 1..MaxRuns BY Training DEF AtStep
<1>2. Source.trail \in Trails BY SourceSound, WeightFields DEF Trails
<1>3. Trained.trail = Append(Source.trail, <<run, i>>) BY DEF Trained
<1>4. CASE Resumes BY <1>1, <1>2, <1>3, <1>4, SourceThrough, ThroughMore
<1>5. CASE ~Resumes
  <2>1. Through(Source.trail, i - 1) BY <1>5, SourceThrough
  <2>2. i - 1 \in Nat /\ i = (i - 1) + 1 BY <1>1
  <2> QED BY <1>1, <1>2, <1>3, <2>1, <2>2, ThroughMore
<1> QED BY <1>4, <1>5

LEMMA KeptWritten ==
  ASSUME Kept, NEW part, NEW w, Store(Mine(part), w), i \in Nat \ {0},
         Through(w.trail, IF part = "seed" THEN i - 1 ELSE i)
  PROVE  Kept'
<1>1. /\ DOMAIN disk' = DOMAIN disk \cup {Mine(part)} /\ disk'[Mine(part)] = w
      /\ Mine(part)[1] = i /\ Mine(part)[4] = part
      /\ \A q \in DOMAIN disk : q # Mine(part) => disk'[q] = disk[q]
  BY Stored
<1>2. ASSUME NEW p \in DOMAIN disk'
      PROVE  p[1] \in Nat \ {0}
             /\ Through(disk'[p].trail, IF p[4] = "seed" THEN p[1] - 1 ELSE p[1])
  <2>1. CASE p = Mine(part) BY <1>1, <2>1
  <2>2. CASE p # Mine(part)
    <3>1. p \in DOMAIN disk /\ disk'[p] = disk[p] BY <1>1, <2>2
    <3> QED BY <3>1 DEF Kept
  <2> QED BY <2>1, <2>2
<1> QED BY <1>2 DEF Kept

\* Each write keeps the lineage of its stage.
LEMMA NextKept ==
  ASSUME FreshFirst, PipelineInv, Lineages, [Next]_vars
  PROVE  Kept'
<1>1. CASE disk' = disk BY <1>1 DEF Lineages, Kept
<1>2. CASE Convert
  <2>1. pc = "train" /\ InputExists /\ Store(Mine("seed"), Input) BY <1>2 DEF Convert, AtStep
  <2>2. Through(Input.trail, i - 1) BY <2>1, InputThrough
  <2> QED BY <2>1, <2>2, KeptWritten, Training DEF Lineages
<1>3. CASE Fit /\ TrainerOf(stage).resumes
  <2>1. AtStep({"fit"}) /\ InputExists /\ model' \in Outcomes /\ Store(Mine("ckpt"), model')
    BY <1>3 DEF Fit
  <2>2. Through(model'.trail, i)
    <3>1. CASE model' = Trained BY <2>1, <3>1, TrainedThrough
    <3>2. CASE Resumes /\ model' = Source BY <2>1, <3>2, SourceThrough
    <3> QED BY <2>1, <3>1, <3>2 DEF Outcomes
  <2>3. i \in Nat \ {0} BY <2>1, Training DEF AtStep
  <2> QED BY <2>1, <2>2, <2>3, KeptWritten DEF Lineages
<1>4. CASE SaveModel
  <2>1. /\ pc = "train" /\ Store(Saved, model) /\ k \in DOMAIN program /\ program[k] \in After
    BY <1>4 DEF SaveModel, AtStep, program, After
  <2>2. Fitted /\ i \in Nat \ {0} BY <2>1, Training DEF Shaped, Before, After
  <2>3. Through(model.trail, i) BY <2>1, <2>2 DEF Lineages, Held
  <2>4. PICK part \in {"hf", "dir"} : Saved = Mine(part) BY DEF Saved
  <2>5. Store(Mine(part), model) BY <2>1, <2>4
  <2> QED BY <2>2, <2>3, <2>5, KeptWritten DEF Lineages
<1>5. CASE CrashWriting
  <2>1. pc = "train" /\ i \in Nat \ {0} BY <1>5, Training DEF CrashWriting
  <2>2. CASE InputExists /\ Store(Mine("seed"), Torn(Input))
    <3>1. Through(Torn(Input).trail, i - 1) BY <2>1, <2>2, InputThrough, InputSound, WeightFields
    <3> QED BY <2>1, <2>2, <3>1, KeptWritten DEF Lineages
  <2>3. CASE AtStep({"export", "save"}) /\ Store(Saved, Torn(model))
    <3>1. k \in DOMAIN program /\ program[k] \in After BY <2>3 DEF AtStep, program, After
    <3>2. Fitted BY <2>1, <3>1, Training DEF Shaped, Before, After
    <3>3. model \in Weights BY DEF PipelineInv, TypeOK
    <3>4. Through(Torn(model).trail, i) BY <2>1, <3>2, <3>3, WeightFields DEF Lineages, Held
    <3>5. PICK part \in {"hf", "dir"} : Saved = Mine(part) BY DEF Saved
    <3>6. Store(Mine(part), Torn(model)) BY <2>3, <3>5
    <3> QED BY <2>1, <3>4, <3>6, KeptWritten DEF Lineages
  <2>4. CASE /\ AtStep({"fit"}) /\ InputExists /\ TrainerOf(stage).resumes
             /\ Store(Mine("ckpt"), Trained)
    <3>1. Through(Trained.trail, i) BY <2>4, TrainedThrough
    <3> QED BY <2>1, <2>4, <3>1, KeptWritten DEF Lineages
  <2> QED BY <1>5, <2>2, <2>3, <2>4 DEF CrashWriting
<1> QED BY <1>1, <1>2, <1>3, <1>4, <1>5 DEF Next, vars, Launch, Plan, Dispatch, Crash, Guard,
  ConvertSkipped, Fit, NoInput, StageReturns

\* The model of this run goes on from stage to stage.
LEMMA NextHeld ==
  ASSUME FreshFirst, PipelineInv, Lineages, [Next]_vars
  PROVE  Held'
<1>1. CASE Launch
  <2>1. pc' = "plan" /\ i' = 1 /\ model' = Hub BY <1>1 DEF Launch
  <2> QED BY <2>1, HubWeights, ThroughNone DEF Held
<1>2. CASE pc' = "failed" BY <1>2 DEF Held
<1>3. CASE Plan /\ pc' # "failed"
  <2>1. pc = "plan" /\ pc' = "dispatch" /\ i' = i /\ model' = model BY <1>3 DEF Plan
  <2> QED BY <2>1 DEF Lineages, Held
<1>4. CASE Dispatch /\ pc' # "failed"
  <2>1. pc = "dispatch" /\ pc' = "train" /\ i' = i /\ model' = model /\ board' = board
    BY <1>4 DEF Dispatch
  <2>2. ~Fitted' BY <2>1 DEF PipelineInv, Boarded, Fitted
  <2> QED BY <2>1, <2>2 DEF Lineages, Held
<1>5. CASE UNCHANGED <<pc, i, model, board>>
  <2>1. Fitted' <=> Fitted BY <1>5 DEF Fitted
  <2> QED BY <1>5, <2>1 DEF Lineages, Held
<1>6. CASE Fit
  <2>1. /\ AtStep({"fit"}) /\ InputExists /\ model' \in Outcomes /\ UNCHANGED <<pc, i>>
        /\ pc = "train" /\ board' = board \cup {[stage |-> i, as |-> Recorded(stage, i)]}
    BY <1>6 DEF Fit, AtStep
  <2>2. Through(model'.trail, i)
    <3>1. CASE model' = Trained BY <2>1, <3>1, TrainedThrough
    <3>2. CASE Resumes /\ model' = Source BY <2>1, <3>2, SourceThrough
    <3> QED BY <2>1, <3>1, <3>2 DEF Outcomes
  <2>3. Fitted'
    <3>1. [stage |-> i, as |-> Recorded(stage, i)].stage = i OBVIOUS
    <3> QED BY <2>1, <3>1 DEF Fitted
  <2> QED BY <2>1, <2>2, <2>3 DEF Held
<1>7. CASE StageReturns
  <2>1. pc = "train" /\ k > Len(program) /\ model' = model /\ i \in Nat \ {0}
    BY <1>7, Training DEF StageReturns, program
  <2>2. Through(model.trail, i) BY <2>1, Training DEF Lineages, Held
  <2>3. \/ pc' = "dispatch" /\ i' = i + 1
        \/ pc' = "done" /\ i' = i
    BY <1>7 DEF StageReturns
  <2>4. i' = i + 1 => i' - 1 = i BY <2>1
  <2> QED BY <2>1, <2>2, <2>3, <2>4 DEF Held
<1> QED BY <1>1, <1>2, <1>3, <1>4, <1>5, <1>6, <1>7 DEF Next, vars, Crash, CrashWriting, Guard,
  Convert, ConvertSkipped, NoInput, SaveModel

LEMMA InitLineages == Init => Lineages
<1> SUFFICES ASSUME Init PROVE Lineages OBVIOUS
<1>1. pc = "off" /\ DOMAIN disk = {} BY DEF Init
<1> QED BY <1>1 DEF Lineages, Kept, Held

-------------------------------------------------------------------------------
(* Pipeline implements Vertical *)

status == IF pc \in {"plan", "dispatch", "train"} THEN "running" ELSE pc
chain == ChainOf(model.trail)

LEMMA ModelChain ==
  ASSUME PipelineInv, NEW n \in Nat, Through(model.trail, n)
  PROVE  chain = [m \in 1..n |-> m]
<1>1. model.trail \in Trails BY WeightFields DEF PipelineInv, TypeOK, Trails
<1> QED BY <1>1, ChainThrough DEF chain

LEMMA Steps ==
  ASSUME NEW n \in Nat \ {0}
  PROVE  LET before == [m \in 1..(n - 1) |-> m] IN
           Len(before) = n - 1 /\ [m \in 1..n |-> m] = Append(before, Len(before) + 1)
<1> DEFINE before == [m \in 1..(n - 1) |-> m]
<1>1. n - 1 \in Nat /\ before \in Seq(Nat) /\ Len(before) = n - 1 OBVIOUS
<1>2. Append(before, n) = [m \in 1..n |-> m] BY <1>1
<1> QED BY <1>1, <1>2

LEMMA InitRefines == Init => V!Init
<1> SUFFICES ASSUME Init PROVE V!Init OBVIOUS
<1>1. PipelineInv /\ pc = "off" /\ spec = <<>> /\ model.trail = <<>>
  BY InitInv, HubWeights DEF Init
<1>2. chain = [m \in 1..0 |-> m] BY <1>1, ModelChain, ThroughNone
<1>3. chain = <<>> BY <1>2
<1> QED BY <1>1, <1>3 DEF V!Init, chain

\* The trainings that change the chain lengthen it; the others repeat its last.
LEMMA FitRefines ==
  ASSUME PipelineInv, PipelineInv', Lineages, Lineages', Fit
  PROVE  V!Continue
<1>1. /\ pc = "train" /\ AtStep({"fit"}) /\ InputExists /\ UNCHANGED <<spec, i, pc>> /\ k' = k + 1
  BY DEF Fit, AtStep, control
<1>2. /\ i \in Nat \ {0} /\ i \in 1..Len(spec) /\ k = FitAt(stage) /\ k \in Nat
      /\ Len(spec) \in Nat
  BY <1>1, Training, SourceSound, SpecShape DEF PipelineInv, TypeOK
<1>3. ~Fitted BY <1>1, <1>2, Training
<1>4. Fitted' BY <1>1, <1>2, SameStage DEF PipelineInv, Boarded
<1>5. chain = [m \in 1..(i - 1) |-> m] BY <1>1, <1>2, <1>3, ModelChain DEF Lineages, Held
<1>6. chain' = [m \in 1..i |-> m]
  <2>1. model'.trail \in Trails BY WeightFields DEF PipelineInv, TypeOK, Trails, Weights
  <2>2. Through(model'.trail, i) BY <1>1, <1>4 DEF Lineages, Held
  <2> QED BY <1>2, <2>1, <2>2, ChainThrough DEF chain
<1>7. Len(chain) = i - 1 /\ chain' = Append(chain, Len(chain) + 1) BY <1>2, <1>5, <1>6, Steps
<1> QED BY <1>1, <1>2, <1>7 DEF V!Continue, chain

LEMMA NextRefines ==
  ASSUME PipelineInv, PipelineInv', Lineages, Lineages', [Next]_vars
  PROVE  [V!Next]_(V!vars)
<1>1. CASE Launch
  <2>1. /\ pc \in {"off", "done", "failed"} /\ spec' \in Specs /\ pc' = "plan"
        /\ model'.trail = <<>>
    BY <1>1, HubWeights DEF Launch
  <2>2. Len(spec') \in Nat BY <2>1, SpecsAssumption
  <2>3. chain' = <<>>
    <3>1. <<>> \in Trails BY DEF Trails
    <3>2. ChainOf(<<>>) = [m \in 1..0 |-> m] BY <3>1, ThroughNone, ChainThrough
    <3> QED BY <2>1, <3>2 DEF chain
  <2>4. V!Start BY <2>1, <2>2, <2>3 DEF V!Start, chain
  <2> QED BY <2>4 DEF V!Next
<1>2. CASE Fit BY <1>2, FitRefines DEF V!Next
<1>3. CASE StageReturns /\ pc' = "done"
  <2>1. /\ pc = "train" /\ UNCHANGED <<spec, model>> /\ i \in Nat \ {0} /\ k > Len(program)
        /\ i' = i
    BY <1>3, Training DEF StageReturns, control, program
  <2>2. i = Len(spec) BY <1>3, <2>1 DEF PipelineInv, Control
  <2>3. Through(model.trail, i) BY <2>1, Training DEF Lineages, Held
  <2>4. Len(chain) = i
    <3>1. chain = [m \in 1..i |-> m] BY <2>1, <2>3, ModelChain
    <3> QED BY <2>1, <3>1
  <2>5. V!Complete BY <1>3, <2>1, <2>2, <2>4 DEF V!Complete, chain
  <2> QED BY <2>5 DEF V!Next
<1>4. CASE pc' = "failed" /\ pc \in {"plan", "dispatch", "train"} /\ UNCHANGED <<spec, model>>
  <2>1. V!Fail BY <1>4 DEF V!Fail
  <2> QED BY <2>1 DEF V!Next
<1>5. CASE UNCHANGED <<spec, model>> /\ status' = status BY <1>5 DEF V!vars, status
<1> QED BY <1>1, <1>2, <1>3, <1>4, <1>5 DEF Next, vars, Plan, Dispatch, Crash, CrashWriting,
  Guard, Convert, ConvertSkipped, NoInput, SaveModel, StageReturns, AtStep, control, status

\* When no stage after the first pretrains or brings a seed converted beforehand,
\* Pipeline implements Vertical: the stages train one model, in order, and the
\* pipeline is done when all have.
THEOREM Implements == ASSUME FreshFirst PROVE Spec => IsVertical
<1>1. PipelineInv /\ Lineages /\ [Next]_vars => Lineages'
  BY NextKept, NextHeld DEF Lineages
<1>2. Spec => []Lineages BY <1>1, InitLineages, PipelineInductive, PTL DEF Spec
<1>3. PipelineInv /\ PipelineInv' /\ Lineages /\ Lineages' /\ [Next]_vars => [V!Next]_(V!vars)
  BY NextRefines
<1> QED BY <1>2, <1>3, InitRefines, PipelineInductive, PTL DEF Spec, IsVertical, V!Spec

-------------------------------------------------------------------------------
(* What is handed on *)

\* The seed of a cell that always converts is what this stage was pointed at.
SeedFresh ==
  pc = "train" /\ Does(stage, "convert") /\ Past(Conversions) =>
    InputExists /\ disk[Mine("seed")] = Input

Handed == SeedFresh /\ HandoffKept

\* Only the directory of the stage under way is written to.
MineOnly == \A q \in DOMAIN disk : q[1] # i => q \in DOMAIN disk' /\ disk'[q] = disk[q]

LEMMA StoreMine ==
  ASSUME NEW part, NEW w, Store(Mine(part), w) PROVE MineOnly
BY Stored DEF MineOnly

LEMMA StoreAside ==
  ASSUME NEW part, NEW other, part # other, NEW w, Store(Mine(part), w),
         Mine(other) \in DOMAIN disk
  PROVE  disk'[Mine(other)] = disk[Mine(other)]
<1>1. Mine(other)[4] = other /\ Mine(part)[4] = part BY DEF Mine, Path
<1>2. \A q \in DOMAIN disk : q # Mine(part) => disk'[q] = disk[q] BY Stored
<1> QED BY <1>1, <1>2

\* The weights the stage is pointed at are not its own to write.
LEMMA InputStays ==
  ASSUME spec' = spec, i' = i, i \in Nat, MineOnly, InputExists
  PROVE  InputExists' /\ Input' = Input
<1> DEFINE out == StageOutput(spec, i - 1)
<1>1. out' = out /\ FromHub' = FromHub BY DEF StageOutput, Path, FromHub, stage
<1>2. out[1] # i BY OutputPath
<1> QED BY <1>1, <1>2 DEF MineOnly, InputExists, Input

\* Nor is what it was handed, once it has trained.
LEMMA HandoffStays ==
  ASSUME HandoffKept, UNCHANGED <<spec, run, i, model, board>>,
         UNCHANGED disk \/ (i \in Nat /\ MineOnly)
  PROVE  HandoffKept'
<1> DEFINE out == StageOutput(spec, i - 1)
<1>1. out' = out /\ (Fitted' <=> Fitted) /\ stage' = stage
  BY DEF StageOutput, Path, Fitted, stage
<1>2. i \in Nat => out[1] # i BY OutputPath
<1> QED BY <1>1, <1>2 DEF HandoffKept, MineOnly, Does

\* A step after which no trainer is at work.
LEMMA Stops ==
  ASSUME HandoffKept, pc' # "train", UNCHANGED <<control, i, model, board>>,
         UNCHANGED disk \/ (i \in Nat /\ MineOnly)
  PROVE  Handed'
<1>1. UNCHANGED <<spec, run>> BY DEF control
<1> QED BY <1>1, HandoffStays DEF Handed, SeedFresh

\* A step of a trainer that does not convert.
LEMMA SeedKept ==
  ASSUME PipelineInv, SeedFresh, pc = "train", k \in DOMAIN program, k' = k + 1,
         UNCHANGED <<spec, i>>, MineOnly,
         Does(stage, "convert") => program[k] \notin Conversions,
         Mine("seed") \in DOMAIN disk => disk'[Mine("seed")] = disk[Mine("seed")]
  PROVE  SeedFresh'
<1>1. stage' = stage /\ program' = program /\ Mine("seed")' = Mine("seed") BY SameStage
<1>2. k \in Nat /\ i \in Nat /\ DOMAIN program = 1..Len(program) BY Training
<1>3. SUFFICES ASSUME Does(stage, "convert"), Past(Conversions)'
               PROVE  InputExists' /\ disk'[Mine("seed")] = Input'
  BY <1>1 DEF SeedFresh, Does
<1>4. Past(Conversions) BY <1>1, <1>2, <1>3 DEF Past
<1>5. InputExists /\ disk[Mine("seed")] = Input BY <1>3, <1>4 DEF SeedFresh
<1>6. Mine("seed") \in DOMAIN disk
  <2>1. ~Preconverted(stage) BY <1>3, Training, CellFacts
  <2> QED BY <1>4, <2>1 DEF PipelineInv, Seeded
<1> QED BY <1>2, <1>5, <1>6, InputStays

LEMMA GuardHands == ASSUME PipelineInv, Handed, Guard PROVE Handed'
<1>1. /\ pc = "train" /\ k \in DOMAIN program /\ program[k] \notin Conversions
      /\ UNCHANGED <<control, spec, run, i, model, disk, board>>
  BY DEF Guard, AtStep, program, Conversions, control
<1>2. MineOnly BY <1>1 DEF MineOnly
<1>3. CASE StepOK
  BY <1>1, <1>2, <1>3, SeedKept, HandoffStays DEF Guard, Handed
<1>4. CASE ~StepOK BY <1>1, <1>4, Stops DEF Guard, Handed
<1> QED BY <1>3, <1>4

LEMMA ConvertHands == ASSUME PipelineInv, Handed, Convert PROVE Handed'
<1>1. /\ pc = "train" /\ InputExists /\ Store(Mine("seed"), Input)
      /\ UNCHANGED <<spec, run, i, model, board>>
  BY DEF Convert, AtStep, control
<1>2. i \in Nat /\ MineOnly BY <1>1, Training, StoreMine
<1>3. InputExists' /\ Input' = Input BY <1>1, <1>2, InputStays
<1>4. Mine("seed")' = Mine("seed") BY <1>1, SameStage
<1>5. disk'[Mine("seed")] = Input BY <1>1, Stored
<1>6. SeedFresh' BY <1>3, <1>4, <1>5 DEF SeedFresh
<1> QED BY <1>1, <1>2, <1>6, HandoffStays DEF Handed

LEMMA ConvertSkippedHands == ASSUME PipelineInv, Handed, ConvertSkipped PROVE Handed'
<1>1. /\ pc = "train" /\ k \in DOMAIN program /\ program[k] = "convert_once" /\ k' = k + 1
      /\ UNCHANGED <<spec, run, i, model, disk, board>>
  BY DEF ConvertSkipped, AtStep, program, control
<1>2. ~Does(stage, "convert") BY <1>1, Training, CellFacts DEF Does, program
<1>3. MineOnly BY <1>1 DEF MineOnly
<1> QED BY <1>1, <1>2, <1>3, SeedKept, HandoffStays DEF Handed

LEMMA FitHands == ASSUME PipelineInv, Handed, Fit PROVE Handed'
<1>1. /\ AtStep({"fit"}) /\ pc = "train" /\ k \in DOMAIN program /\ program[k] = "fit"
      /\ InputExists /\ model' \in Outcomes /\ k' = k + 1
      /\ IF TrainerOf(stage).resumes THEN Store(Mine("ckpt"), model') ELSE UNCHANGED disk
      /\ UNCHANGED <<spec, run, i>>
  BY DEF Fit, AtStep, program, control
<1>2. i \in Nat /\ Registered(stage) BY <1>1, Training
<1>3. MineOnly
  <2>1. CASE TrainerOf(stage).resumes BY <1>1, <2>1, StoreMine
  <2>2. CASE ~TrainerOf(stage).resumes BY <1>1, <2>2 DEF MineOnly
  <2> QED BY <2>1, <2>2
<1>4. SeedFresh'
  <2>1. Mine("seed") \in DOMAIN disk => disk'[Mine("seed")] = disk[Mine("seed")]
    <3>1. CASE TrainerOf(stage).resumes
      <4>1. Store(Mine("ckpt"), model') BY <1>1, <3>1
      <4> QED BY <4>1, StoreAside
    <3>2. CASE ~TrainerOf(stage).resumes BY <1>1, <3>2
    <3> QED BY <3>1, <3>2
  <2> QED BY <1>1, <1>3, <2>1, SeedKept DEF Handed, Conversions
<1>5. HandoffKept'
  <2> DEFINE out == StageOutput(spec, i - 1)
  <2>1. stage' = stage /\ out' = out BY <1>1 DEF stage, StageOutput, Path
  <2>2. SUFFICES ASSUME i > 1, ~Does(stage, "convert_once"), stage.method # "pretrain"
                 PROVE  out \in DOMAIN disk' /\ model'.trail = Append(disk'[out].trail, <<run, i>>)
    BY <1>1, <2>1 DEF HandoffKept, Does
  <2>3. ~Resumes BY <1>2, <2>2, CellFacts DEF Resumes
  <2>4. ~FromHub BY <1>2, <2>2, CellFacts DEF FromHub
  <2>5. out \in DOMAIN disk /\ Input = disk[out] BY <1>1, <2>4, InputSound
  <2>6. Source = Input
    <3>1. ~Preconverted(stage) BY <1>2, <2>2, CellFacts
    <3>2. CASE Converts
      BY <1>1, <2>2, <2>3, <3>1, <3>2, SourceSound DEF Handed, SeedFresh, Converts
    <3>3. CASE ~Converts BY <1>1, <2>3, <3>1, <3>3, SourceSound
    <3> QED BY <3>2, <3>3
  <2>7. model'.trail = Append(disk[out].trail, <<run, i>>)
    BY <1>1, <2>3, <2>5, <2>6 DEF Outcomes, Trained
  <2>8. out[1] # i BY <1>2, OutputPath
  <2> QED BY <1>3, <2>5, <2>7, <2>8 DEF MineOnly
<1> QED BY <1>4, <1>5 DEF Handed

LEMMA SaveModelHands == ASSUME PipelineInv, Handed, SaveModel PROVE Handed'
<1>1. /\ pc = "train" /\ k \in DOMAIN program /\ program[k] \notin Conversions
      /\ Store(Saved, model) /\ k' = k + 1 /\ UNCHANGED <<spec, run, i, model, board>>
  BY DEF SaveModel, AtStep, program, Conversions, control
<1>2. PICK part \in {"hf", "dir"} : Saved = Mine(part) BY DEF Saved
<1>3. i \in Nat /\ MineOnly BY <1>1, <1>2, StoreMine, Training
<1>4. Store(Mine(part), model) BY <1>1, <1>2
<1>5. Mine("seed") \in DOMAIN disk => disk'[Mine("seed")] = disk[Mine("seed")]
  BY <1>2, <1>4, StoreAside
<1> QED BY <1>1, <1>3, <1>5, SeedKept, HandoffStays DEF Handed

LEMMA StageReturnsHands == ASSUME PipelineInv, Handed, StageReturns PROVE Handed'
<1>1. pc = "train" /\ UNCHANGED <<control, spec, run, model, disk, board>>
  BY DEF StageReturns, control
<1>2. CASE i < Len(spec)
  <2>1. pc' = "dispatch" /\ i' = i + 1 BY <1>2 DEF StageReturns
  <2>2. ~Fitted' BY <1>1, <2>1, Training DEF Fitted, PipelineInv, Boarded
  <2> QED BY <2>1, <2>2 DEF Handed, SeedFresh, HandoffKept
<1>3. CASE ~(i < Len(spec)) BY <1>1, <1>3, Stops DEF StageReturns, Handed
<1> QED BY <1>2, <1>3

LEMMA CrashWritingHands == ASSUME PipelineInv, Handed, CrashWriting PROVE Handed'
<1>1. pc = "train" /\ pc' = "failed" /\ UNCHANGED <<control, i, model, board>>
  BY DEF CrashWriting
<1>2. \E part \in {"seed", "hf", "dir", "ckpt"}, w \in {Torn(Input), Torn(model), Trained} :
        Store(Mine(part), w)
  BY DEF CrashWriting, Saved
<1> QED BY <1>1, <1>2, StoreMine, Training, Stops DEF Handed

LEMMA DispatchHands == ASSUME PipelineInv, Handed, Dispatch PROVE Handed'
<1>1. UNCHANGED <<control, spec, run, i, model, disk, board>> BY DEF Dispatch, control
<1>2. CASE DispatchOK(stage)
  <2>1. k' = 1 /\ stage' = stage /\ program' = program
    BY <1>1, <1>2 DEF Dispatch, stage, program
  <2>2. DOMAIN program = 1..Len(program) /\ Len(program) \in Nat
    BY <1>2, TrainerShape DEF DispatchOK, Shaped, program
  <2>3. ~Past(Conversions)' BY <2>1, <2>2 DEF Past
  <2> QED BY <1>1, <2>3, HandoffStays DEF Handed, SeedFresh
<1>3. CASE ~DispatchOK(stage) BY <1>1, <1>3, Stops DEF Dispatch, stage, Handed
<1> QED BY <1>2, <1>3

LEMMA NextHanded == PipelineInv /\ Handed /\ [Next]_vars => Handed'
<1> SUFFICES ASSUME PipelineInv, Handed, [Next]_vars PROVE Handed' OBVIOUS
<1>1. ASSUME Launch PROVE Handed'
  BY <1>1 DEF Launch, Handed, SeedFresh, HandoffKept, Fitted
<1>2. ASSUME Plan \/ Crash \/ NoInput PROVE Handed'
  BY <1>2, Stops DEF Plan, Crash, NoInput, Handed
<1>3. ASSUME UNCHANGED vars PROVE Handed'
  <2>1. UNCHANGED <<spec, run, pc, i, k, model, disk, board>> BY <1>3 DEF vars, control
  <2>2. HandoffKept' BY <2>1, HandoffStays DEF Handed
  <2>3. SeedFresh'
    BY <2>1, SameStage DEF Handed, SeedFresh, Past, Does, InputExists, Input, FromHub,
       StageOutput, Path
  <2> QED BY <2>2, <2>3 DEF Handed
<1> QED BY <1>1, <1>2, <1>3, GuardHands, ConvertHands, ConvertSkippedHands, FitHands,
      SaveModelHands, StageReturnsHands, CrashWritingHands, DispatchHands DEF Next

\* A stage trains what the stage before it left in this run and nothing else, in
\* every cell that neither converts once nor starts from init_from.
THEOREM HandoffsKept == Spec => []HandoffKept
<1>1. Init => Handed BY DEF Init, Handed, SeedFresh, HandoffKept, Fitted
<1>2. Spec => []Handed BY <1>1, NextHanded, PipelineInductive, PTL DEF Spec
<1>3. Handed => HandoffKept BY DEF Handed
<1> QED BY <1>2, <1>3, PTL
=============================================================================
