-------------------------------- MODULE Cells --------------------------------
(***************************************************************************)
(* The cells of the comparison grid: (method, framework), the trainer each *)
(* is dispatched to, and what that trainer's train() does, as a program.   *)
(*                                                                         *)
(* A trainer builds a long command line and runs a framework.  What the    *)
(* rest of the project tells apart is the order of its guards and effects: *)
(*   full_only     tuning # "full" is an error                             *)
(*   full_or_lora  any other tuning is an error                            *)
(*   init_from     a model without a seed is an error                      *)
(*   resolve       config and provisioned nodes must agree                 *)
(*   convert       HF weights -> Megatron seed, in the working directory   *)
(*   convert_once  the same, unless the seed's directory exists or the     *)
(*                 config names a seed converted beforehand                *)
(*   ray_head      ray start --head, for this node alone                   *)
(*   ray_unless    the same, unless RAY_ADDRESS names a cluster            *)
(*   fit           the training run                                        *)
(*   export        checkpoint -> HF weights in <dir>/hf, on the head only  *)
(*   save          HF weights (or the LoRA adapter) in <dir>               *)
(* Data preparation, hyperparameters and logging flags are left out.       *)
(***************************************************************************)
EXTENDS Integers, Sequences

\* reads: the config key the weights come from.  resumes: the framework loads
\* the checkpoint directory it saves to, if there is one.  labels: the W&B
\* fields passed on the command line, which win over the environment.
Trainer(steps, reads, resumes, labels) ==
  [steps |-> steps, reads |-> reads, resumes |-> resumes, labels |-> labels]

torchtitan_pretrain == Trainer(<<"init_from", "resolve", "fit", "export">>, "init_from", TRUE, {})
megatron_lm_pretrain == Trainer(<<"init_from", "resolve", "convert", "fit", "export">>,
                                "init_from", TRUE, {"project", "name"})
trl_sft == Trainer(<<"fit", "save">>, "name", FALSE, {"name"})
unsloth_sft == Trainer(<<"full_or_lora", "fit", "save">>, "name", FALSE, {"name"})
verl_sft == Trainer(<<"resolve", "fit">>, "name", FALSE, {"project", "name"})
megatron_lm_sft == Trainer(<<"full_only", "resolve", "convert", "fit", "export">>,
                           "name", FALSE, {})
trl_dpo == Trainer(<<"fit", "save">>, "name", FALSE, {"name"})
unsloth_dpo == Trainer(<<"full_or_lora", "fit", "save">>, "name", FALSE, {"name"})
trl_online_dpo == Trainer(<<"fit", "save">>, "name", FALSE, {"name"})
trl_grpo == Trainer(<<"fit", "save">>, "name", FALSE, {"name"})
unsloth_grpo == Trainer(<<"full_or_lora", "fit", "save">>, "name", FALSE, {"name"})
verl_grpo == Trainer(<<"fit">>, "name", FALSE, {"project", "name"})
slime_grpo == Trainer(<<"full_only", "convert_once", "ray_unless", "fit">>,
                      "name", TRUE, {"project", "name", "group"})
megatron_lm_grpo == Trainer(<<"full_only", "resolve", "convert_once", "fit">>,
                            "name", TRUE, {"project", "name"})
torchtitan_grpo == Trainer(<<"full_only", "fit">>, "name", FALSE, {})
verl_ppo == Trainer(<<"fit">>, "name", FALSE, {"project", "name"})
slime_ppo == Trainer(<<"full_only", "convert_once", "ray_head", "fit">>,
                     "name", TRUE, {"project", "name", "group"})

\* The registry of run.py, and the grid's cells as <<method, framework>>.
TRAINERS ==
  [ pretrain   |-> [torchtitan |-> torchtitan_pretrain, megatron |-> megatron_lm_pretrain],
    sft        |-> [trl |-> trl_sft, unsloth |-> unsloth_sft, verl |-> verl_sft,
                    megatron |-> megatron_lm_sft],
    dpo        |-> [trl |-> trl_dpo, unsloth |-> unsloth_dpo],
    online_dpo |-> [trl |-> trl_online_dpo],
    grpo       |-> [trl |-> trl_grpo, unsloth |-> unsloth_grpo, verl |-> verl_grpo,
                    slime |-> slime_grpo, megatron |-> megatron_lm_grpo,
                    torchtitan |-> torchtitan_grpo],
    ppo        |-> [verl |-> verl_ppo, slime |-> slime_ppo] ]

Registered(c) == c.method \in DOMAIN TRAINERS /\ c.framework \in DOMAIN TRAINERS[c.method]
TrainerOf(c) == TRAINERS[c.method][c.framework]
Does(c, step) == \E k \in DOMAIN TrainerOf(c).steps : TrainerOf(c).steps[k] = step

\* megatron.mcore_checkpoint names a seed converted beforehand, for the one
\* trainer that looks at it.
Preconverted(c) == c.mcore_checkpoint /\ c.method = "grpo" /\ c.framework = "megatron"

\* The cells wired for several nodes, by mechanism.
MULTINODE_MECHANISM ==
  [ torchrun |-> {<<"pretrain", "torchtitan">>, <<"sft", "verl">>},
    ray      |-> {<<"grpo", "verl">>, <<"ppo", "verl">>,
                  <<"grpo", "slime">>, <<"ppo", "slime">>},
    hf       |-> {<<"sft", "trl">>, <<"dpo", "trl">>,
                  <<"grpo", "trl">>, <<"online_dpo", "trl">>},
    megatron |-> {<<"pretrain", "megatron">>, <<"sft", "megatron">>, <<"grpo", "megatron">>} ]

Uses(c, mechanism) == <<c.method, c.framework>> \in MULTINODE_MECHANISM[mechanism]

\* A cell that is not wired takes one node only.
guard_wired(c) == c.nodes > 1 => \E m \in DOMAIN MULTINODE_MECHANISM : Uses(c, m)

\* The gates of dispatch() that depend on the config alone.
DispatchOK(c) == Registered(c) /\ guard_wired(c)

\* Mutants: nodes beyond those declared are not noticed; nodes never provisioned
\* are not noticed.
resolve_extra(c, actual, ips) == c.nodes # 1 => actual # 0 /\ ips = c.nodes
resolve_absent(c, actual, ips) == actual # 0 => actual = c.nodes

\* resolve(): nodes declared against nodes provisioned (0 when SkyPilot's
\* environment is absent) and addresses listed.
resolve(c, actual, ips) ==
  /\ actual # 0 => actual = c.nodes
  /\ c.nodes # 1 => actual # 0 /\ ips = c.nodes

\* The guards among a trainer's steps.
StepPasses(c, step, actual, ips) ==
  /\ step = "full_only"    => c.tuning = "full"
  /\ step = "full_or_lora" => c.tuning \in {"full", "lora"}
  /\ step = "init_from"    => c.init_from
  /\ step = "resolve"      => resolve(c, actual, ips)
=============================================================================
