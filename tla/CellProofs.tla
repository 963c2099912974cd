------------------------------ MODULE CellProofs ------------------------------
(***************************************************************************)
(* What the proofs about Pipeline and Launch use of the grid: a cell that  *)
(* is registered has one of seventeen trainers, and what those seventeen   *)
(* programs have in common.                                                *)
(***************************************************************************)
EXTENDS Cells, TLAPS

\* The cell (m, f) has the trainer t.
Entry(c, m, f, t) == c.method = m /\ c.framework = f /\ TrainerOf(c) = t

\* The table of run.py, read by row.
LEMMA Grid ==
  ASSUME NEW c, Registered(c)
  PROVE  \/ Entry(c, "pretrain", "torchtitan", torchtitan_pretrain)
         \/ Entry(c, "pretrain", "megatron", megatron_lm_pretrain)
         \/ Entry(c, "sft", "trl", trl_sft)
         \/ Entry(c, "sft", "unsloth", unsloth_sft)
         \/ Entry(c, "sft", "verl", verl_sft)
         \/ Entry(c, "sft", "megatron", megatron_lm_sft)
         \/ Entry(c, "dpo", "trl", trl_dpo)
         \/ Entry(c, "dpo", "unsloth", unsloth_dpo)
         \/ Entry(c, "online_dpo", "trl", trl_online_dpo)
         \/ Entry(c, "grpo", "trl", trl_grpo)
         \/ Entry(c, "grpo", "unsloth", unsloth_grpo)
         \/ Entry(c, "grpo", "verl", verl_grpo)
         \/ Entry(c, "grpo", "slime", slime_grpo)
         \/ Entry(c, "grpo", "megatron", megatron_lm_grpo)
         \/ Entry(c, "grpo", "torchtitan", torchtitan_grpo)
         \/ Entry(c, "ppo", "verl", verl_ppo)
         \/ Entry(c, "ppo", "slime", slime_ppo)
<1>1. c.method \in {"pretrain", "sft", "dpo", "online_dpo", "grpo", "ppo"}
  BY DEF Registered, TRAINERS
<1>2. CASE c.method = "pretrain"
  <2>1. c.framework \in {"torchtitan", "megatron"} BY <1>2 DEF Registered, TRAINERS
  <2> QED BY <1>2, <2>1 DEF Entry, TrainerOf, TRAINERS
<1>3. CASE c.method = "sft"
  <2>1. c.framework \in {"trl", "unsloth", "verl", "megatron"} BY <1>3 DEF Registered, TRAINERS
  <2> QED BY <1>3, <2>1 DEF Entry, TrainerOf, TRAINERS
<1>4. CASE c.method \in {"dpo", "online_dpo"}
  <2>1. c.framework \in {"trl", "unsloth"} BY <1>4 DEF Registered, TRAINERS
  <2>2. c.method = "online_dpo" => c.framework = "trl" BY DEF Registered, TRAINERS
  <2> QED BY <1>4, <2>1, <2>2 DEF Entry, TrainerOf, TRAINERS
<1>5. CASE c.method = "grpo"
  <2>1. c.framework \in {"trl", "unsloth", "verl", "slime", "megatron", "torchtitan"}
    BY <1>5 DEF Registered, TRAINERS
  <2> QED BY <1>5, <2>1 DEF Entry, TrainerOf, TRAINERS
<1>6. CASE c.method = "ppo"
  <2>1. c.framework \in {"verl", "slime"} BY <1>6 DEF Registered, TRAINERS
  <2> QED BY <1>6, <2>1 DEF Entry, TrainerOf, TRAINERS
<1> QED BY <1>1, <1>2, <1>3, <1>4, <1>5, <1>6

-------------------------------------------------------------------------------
(* The shape that the programs have in common *)

\* What comes before the training run and what comes after it.
Before == {"full_only", "full_or_lora", "init_from", "resolve", "convert", "convert_once",
           "ray_head", "ray_unless"}
After == {"export", "save"}
Conversions == {"convert", "convert_once"}

\* One training run, at f; at most one conversion before it; at most one step
\* after it, which leaves the model.
Shaped(P, f) ==
  /\ P \in Seq(Before \cup {"fit"} \cup After)
  /\ f \in 1..Len(P) /\ \A j \in 1..Len(P) : P[j] = "fit" <=> j = f
  /\ \A j \in 1..Len(P) : j < f => P[j] \in Before
  /\ \A j \in 1..Len(P) : j > f => P[j] \in After /\ j = f + 1
  /\ \A j, l \in 1..Len(P) : P[j] \in Conversions /\ P[l] \in Conversions => j = l

FitAt(c) == CHOOSE f \in DOMAIN TrainerOf(c).steps : TrainerOf(c).steps[f] = "fit"

Programs ==
  { <<"init_from", "resolve", "fit", "export">>,
    <<"init_from", "resolve", "convert", "fit", "export">>,
    <<"fit", "save">>, <<"full_or_lora", "fit", "save">>, <<"resolve", "fit">>,
    <<"full_only", "resolve", "convert", "fit", "export">>, <<"fit">>,
    <<"full_only", "convert_once", "ray_unless", "fit">>,
    <<"full_only", "resolve", "convert_once", "fit">>, <<"full_only", "fit">>,
    <<"full_only", "convert_once", "ray_head", "fit">> }

LEMMA ProgramOf ==
  ASSUME NEW c, Registered(c)
  PROVE  TrainerOf(c).steps \in Programs
BY Grid DEF Entry, Trainer, Programs, torchtitan_pretrain, megatron_lm_pretrain, trl_sft, unsloth_sft,
  verl_sft, megatron_lm_sft, trl_dpo, unsloth_dpo, trl_online_dpo, trl_grpo, unsloth_grpo,
  verl_grpo, slime_grpo, megatron_lm_grpo, torchtitan_grpo, verl_ppo, slime_ppo

LEMMA ProgramShape ==
  ASSUME NEW P \in Programs
  PROVE  \E f \in 1..Len(P) : Shaped(P, f)
<1>1. CASE P = <<"init_from", "resolve", "fit", "export">>
  BY <1>1 DEF Shaped, Before, After, Conversions
<1>2. CASE P = <<"init_from", "resolve", "convert", "fit", "export">>
  BY <1>2 DEF Shaped, Before, After, Conversions
<1>3. CASE P = <<"fit", "save">>
  BY <1>3 DEF Shaped, Before, After, Conversions
<1>4. CASE P = <<"full_or_lora", "fit", "save">>
  BY <1>4 DEF Shaped, Before, After, Conversions
<1>5. CASE P = <<"resolve", "fit">>
  BY <1>5 DEF Shaped, Before, After, Conversions
<1>6. CASE P = <<"full_only", "resolve", "convert", "fit", "export">>
  BY <1>6 DEF Shaped, Before, After, Conversions
<1>7. CASE P = <<"fit">>
  BY <1>7 DEF Shaped, Before, After, Conversions
<1>8. CASE P = <<"full_only", "convert_once", "ray_unless", "fit">>
  BY <1>8 DEF Shaped, Before, After, Conversions
<1>9. CASE P = <<"full_only", "resolve", "convert_once", "fit">>
  BY <1>9 DEF Shaped, Before, After, Conversions
<1>10. CASE P = <<"full_only", "fit">>
  BY <1>10 DEF Shaped, Before, After, Conversions
<1>11. CASE P = <<"full_only", "convert_once", "ray_head", "fit">>
  BY <1>11 DEF Shaped, Before, After, Conversions
<1> QED BY <1>1, <1>2, <1>3, <1>4, <1>5, <1>6, <1>7, <1>8, <1>9, <1>10, <1>11 DEF Programs

LEMMA TrainerShape ==
  ASSUME NEW c, Registered(c)
  PROVE  Shaped(TrainerOf(c).steps, FitAt(c))
<1> DEFINE P == TrainerOf(c).steps
<1>1. PICK f \in 1..Len(P) : Shaped(P, f) BY ProgramOf, ProgramShape
<1>2. DOMAIN P = 1..Len(P) BY <1>1 DEF Shaped
<1>3. FitAt(c) \in DOMAIN P /\ P[FitAt(c)] = "fit" BY <1>1, <1>2 DEF Shaped, FitAt
<1>4. FitAt(c) = f BY <1>1, <1>2, <1>3 DEF Shaped
<1> QED BY <1>1, <1>4

-------------------------------------------------------------------------------
(* What the cells do, by row *)

\* The cells that resolve their topology, and the only ones that convert each
\* time or export.
LEMMA Resolving ==
  ASSUME NEW c, Registered(c)
  PROVE  /\ Does(c, "resolve") => <<c.method, c.framework>> \in
              {<<"pretrain", "torchtitan">>, <<"pretrain", "megatron">>, <<"sft", "verl">>,
               <<"sft", "megatron">>, <<"grpo", "megatron">>}
         /\ Does(c, "convert") \/ Does(c, "export") => Does(c, "resolve")
BY Grid DEF Entry, Does, Trainer, torchtitan_pretrain, megatron_lm_pretrain, trl_sft, unsloth_sft,
  verl_sft, megatron_lm_sft, trl_dpo, unsloth_dpo, trl_online_dpo, trl_grpo, unsloth_grpo,
  verl_grpo, slime_grpo, megatron_lm_grpo, torchtitan_grpo, verl_ppo, slime_ppo

\* None of them is started by ray or by the HF launcher.
LEMMA ResolvingAlone ==
  ASSUME NEW c, Registered(c), Does(c, "resolve")
  PROVE  ~Uses(c, "ray") /\ ~Uses(c, "hf")
BY Resolving DEF Uses, MULTINODE_MECHANISM
=============================================================================
