----------------------------- MODULE MCPipeline -----------------------------
(* Pipelines for model checking. *)
EXTENDS Pipeline

full(m, f)  == Config(m, f, "full", 1, TRUE, FALSE, FALSE)
lora(m, f)  == Config(m, f, "lora", 1, TRUE, FALSE, FALSE)
smoke(m, f) == Config(m, f, "full", 1, TRUE, FALSE, TRUE)
converted(m, f) == Config(m, f, "full", 1, TRUE, TRUE, FALSE)

\* Accepted and refused, long and short; among them pipelines/qwen3-4b.yaml (the
\* first), cells the registry does not have or that are not wired for two nodes,
\* a pretraining without a seed, a seed converted beforehand, and trainers that
\* refuse their config.
SoundSpecs ==
  { << full("pretrain", "torchtitan"), full("sft", "trl"), full("grpo", "trl") >>,
    << full("pretrain", "torchtitan"), lora("sft", "trl"), full("grpo", "trl") >>,
    << full("pretrain", "megatron"), full("sft", "megatron"), lora("dpo", "unsloth") >>,
    << full("sft", "unsloth"), lora("dpo", "megatron") >>,
    << full("sft", "trl"), lora("sft", "megatron") >>,
    << lora("pretrain", "torchtitan"), full("dpo", "trl") >>,
    << full("sft", "trl"), full("grpo", "megatron") >>,
    << full("grpo", "megatron") >>,
    << full("grpo", "megatron"), full("dpo", "trl") >>,
    << converted("grpo", "megatron"), full("dpo", "trl") >>,
    << lora("sft", "trl") >>,
    << smoke("sft", "unsloth"), smoke("dpo", "trl") >>,
    << full("pretrain", "torchtitan"), full("sft", "verl") >>,
    << Config("sft", "unsloth", "full", 2, TRUE, FALSE, FALSE) >>,
    << Config("sft", "megatron", "full", 2, TRUE, FALSE, FALSE) >>,
    << Config("sft", "unsloth", "qlora", 1, TRUE, FALSE, FALSE) >>,
    << Config("pretrain", "megatron", "full", 1, FALSE, FALSE, FALSE) >>,
    << >> }

\* One seed converted by a cell that converts once.
CachedSpecs == { << full("sft", "trl"), full("grpo", "megatron") >> }

\* A measurement followed by a smoke run.
MixedSpecs == { << full("sft", "trl"), smoke("dpo", "trl") >> }

SomeEnvs == { {}, {"project"}, {"name", "tags"} }
NoUserEnv == { {} }
=============================================================================
