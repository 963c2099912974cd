------------------------------- MODULE Gsm8kTask -------------------------------
(***************************************************************************)
(* The gsm8k task of the RL cells: rows of the dataset, what each framework*)
(* is handed of a row, and how each comes to a score.                      *)
(*                                                                         *)
(* The state machine is the rollout of torchtitan (torchtitan_rl/gsm8k):   *)
(* a row of the stream, the prompt of its environment, one completion, the *)
(* score of the rubric.  What the other frameworks would have scored for   *)
(* the same row and completion is computed beside it.  Their rollouts, and *)
(* the model, are external: a completion is any of Completions.            *)
(***************************************************************************)
EXTENDS Gsm8kStream, Rewards

CONSTANTS
  Tokens,       \* what texts are made of
  Data,         \* the dataset: a sequence of N rows [question, answer]
  Completions   \* what the model may answer

\* A row of gsm8k ends with the marker and the number, which no row writes as 18.00.
Solved(answer) ==
  LET n == Len(answer)
  IN /\ n >= 2 /\ answer[n - 1].kind = "hash"
     /\ answer[n].kind = "num" /\ answer[n].form # "dot00"

ASSUME TaskAssumption ==
  /\ Completions \subseteq Seq(Tokens)
  /\ Data \in Seq([question : STRING, answer : Seq(Tokens)]) /\ Len(Data) = N
  /\ \A k \in DOMAIN Data : Solved(Data[k].answer)

VARIABLE rollout   \* [sample, turns, reward]: the rollout under way, or none: a set

taskVars == <<streamVars, rollout>>

-------------------------------------------------------------------------------
\* sources.py: what follows the last ####, without commas.
_extract_gsm8k_gold(answer) ==
  LET gold == SubSeq(answer, Max(At("hash", answer) \cup {0}) + 1, Len(answer))
  IN [i \in DOMAIN gold |->
        IF gold[i].kind = "num" /\ gold[i].form = "comma"
        THEN [kind |-> "num", value |-> gold[i].value, form |-> "plain"] ELSE gold[i]]

from_gsm8k(row) == [prompt |-> row.question, answer |-> _extract_gsm8k_gold(row.answer)]

\* formats.py, and the routing key that the trainers of verl and slime add.
to_trl_grpo(ex) == [prompt |-> ex.prompt, answer |-> ex.answer]
to_verl_grpo(ex) == [prompt |-> ex.prompt, reward_model |-> [ground_truth |-> ex.answer]]
to_slime_grpo(ex) == [prompt |-> ex.prompt, label |-> ex.answer]
data_source == "gsm8k"

Says(text) == [role |-> "assistant", content |-> text]

\* TRL calls every function of the set with a group and the column of its rows,
\* and adds up.
trl_score(row, text) ==
  LET ex == to_trl_grpo(from_gsm8k(row))
      group == <<<<Says(text)>>>>
  IN gsm8k_correctness_reward(group, <<ex.answer>>)[1] + gsm8k_format_reward(group)[1]

verl_score(row, text) ==
  compute_score(data_source, text, to_verl_grpo(from_gsm8k(row)).reward_model.ground_truth)

slime_score(row, text) ==
  slime_rm([response |-> text, label |-> to_slime_grpo(from_gsm8k(row)).label,
            metadata |-> [data_source |-> data_source]])

\* The agent's parent takes what follows #### in the row.
megatron_score(row, text) ==
  LET golden == [numeric_answer |-> SubSeq(row.answer, Len(row.answer), Len(row.answer))]
  IN gsm8k_score(text, golden.numeric_answer)

\* The rubric: the last turn, or no text at all.
RewardGsm8k(turns, sample) ==
  gsm8k_score(IF turns = <<>> THEN <<>> ELSE Last(turns).content, sample.answer)

-------------------------------------------------------------------------------
NoReward == -2

_to_sample(row) == [prompt_messages |-> from_gsm8k(row).prompt, answer |-> from_gsm8k(row).answer]

TaskInit == StreamInit /\ rollout = {}

\* The stream gives a row, the environment its prompt.
Begin ==
  /\ \A r \in rollout : r.reward # NoReward
  /\ Draw
  /\ rollout' = {[row |-> order'[pos'], sample |-> _to_sample(Data[order'[pos']]), turns |-> <<>>,
                  reward |-> NoReward]}

\* Mutant: step() never says done.
DoneNever(r) == FALSE

\* Gsm8kEnv.step: done after the first answer.
Done(r) == r.turns # <<>>

\* The model answers, unless the environment is done.
Answer(text) ==
  /\ \E r \in rollout :
       /\ r.reward = NoReward /\ ~Done(r)
       /\ rollout' = {[r EXCEPT !.turns = Append(r.turns, Says(text))]}
  /\ UNCHANGED streamVars

\* The rubric scores the rollout, complete or (a failed generation) empty.
ScoreRollout ==
  /\ \E r \in rollout :
       /\ r.reward = NoReward
       /\ rollout' = {[r EXCEPT !.reward = RewardGsm8k(r.turns, r.sample)]}
  /\ UNCHANGED streamVars

\* The trainer checkpoints between two rollouts; it may die at any time.
Checkpoint ==
  /\ \A r \in rollout : r.reward # NoReward
  /\ state_dict \/ Persist
  /\ rollout' = {}

TaskResume == Resume /\ rollout' = {}

TaskNext ==
  \/ Begin \/ ScoreRollout \/ Checkpoint \/ TaskResume
  \/ \E text \in Completions : Answer(text)

TaskSpec == TaskInit /\ [][TaskNext]_taskVars

-------------------------------------------------------------------------------
\* At most one turn per rollout, and a score that the scale knows.
TaskTypeOK ==
  \A r \in rollout :
    /\ Len(r.turns) <= 1 /\ \A k \in DOMAIN r.turns : r.turns[k].content \in Completions
    /\ r.reward \in {NoReward, 0, 1, 10, 11}

\* What a framework would score for the row of a rollout.
TextOf(r) == IF r.turns = <<>> THEN <<>> ELSE r.turns[1].content

\* The reward is a controlled variable: for one row and one completion, every
\* framework comes to the same score, whichever way the gold answer and the
\* completion reach its scorer.
ScoresAgree ==
  \A r \in rollout : r.reward # NoReward =>
    \A score \in {trl_score(Data[r.row], TextOf(r)), verl_score(Data[r.row], TextOf(r)),
                  slime_score(Data[r.row], TextOf(r)), megatron_score(Data[r.row], TextOf(r))} :
      score = r.reward

\* An answer as the system prompt asks for it: one marker, on the last line, and
\* the number, in any form that is normalised.
Obeys(text) ==
  LET n == Len(text)
  IN /\ n >= 2 /\ At("boxed", text) = {} /\ At("hash", text) = {n - 1}
     /\ n = 2 \/ text[n - 2].kind = "nl"
     /\ text[n].kind = "num" /\ text[n].form # "dot00"

\* Such an answer has the full score if it is right, and the format bonus alone
\* if it is wrong, whatever numbers the reasoning before it mentions.
ObedienceCounts ==
  \A r \in rollout : r.reward # NoReward /\ Obeys(TextOf(r)) =>
    r.reward = (IF Last(TextOf(r)).value = Last(Data[r.row].answer).value THEN 11 ELSE 1)
=============================================================================
