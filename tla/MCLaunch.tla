------------------------------ MODULE MCLaunch ------------------------------
(* Launches for model checking. *)
EXTENDS Launch

CONSTANTS h, w1, w2

TwoNodes   == {h, w1}
ThreeNodes == {h, w1, w2}

Config(m, f, tuning, n) ==
  [method |-> m, framework |-> f, tuning |-> tuning, nodes |-> n, init_from |-> TRUE,
   mcore_checkpoint |-> FALSE]

Converted(c) == [c EXCEPT !.mcore_checkpoint = TRUE]

\* One cell of each mechanism and launcher, declared for one node to three, and one
\* with a seed converted beforehand.
Cell(m, f) == { Config(m, f, "full", n) : n \in 1..3 }
GridConfigs ==
  Cell("pretrain", "megatron") \cup Cell("sft", "verl") \cup Cell("grpo", "megatron")
  \cup Cell("sft", "trl") \cup Cell("sft", "unsloth") \cup Cell("grpo", "verl")
  \cup Cell("grpo", "slime") \cup Cell("ppo", "slime") \cup { Config("sft", "megatron", "lora", 1) }
  \cup { Converted(Config("grpo", "megatron", "full", 2)) }

\* A cell of hf_torchrun_launch.sh.
HFConfigs == Cell("sft", "trl")

\* The two slime cells.
SlimeConfigs == Cell("grpo", "slime") \cup Cell("ppo", "slime")
=============================================================================
