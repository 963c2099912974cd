---------------------------- MODULE Gsm8kTaskProofs ----------------------------
(***************************************************************************)
(* Proofs about Gsm8kTask, for any dataset whose rows end with their       *)
(* answer, and whatever the model says.                                    *)
(*                                                                         *)
(* The argument: the rollout takes rows from the stream and does nothing   *)
(* else to it; the sample of a row stays what from_gsm8k made of it; and   *)
(* the five ways to the scorer hand it gold answers that differ in commas  *)
(* at most, which it takes out anyway.                                     *)
(***************************************************************************)
EXTENDS Gsm8kTask, Gsm8kStreamProofs

Scores == {0, 1, 10, 11}
Turns == {<<>>} \cup {<<Says(text)>> : text \in Completions}

\* A rollout is of one row, has at most one turn, and its score is the rubric's.
RolloutInv ==
  /\ rollout \in SUBSET [row : Samples, sample : {_to_sample(Data[j]) : j \in Samples},
                         turns : Turns, reward : {NoReward} \cup Scores]
  /\ \A r \in rollout :
       /\ r.sample = _to_sample(Data[r.row])
       /\ r.reward # NoReward => r.reward = RewardGsm8k(r.turns, r.sample)

-------------------------------------------------------------------------------
(* The scorer *)

LEMMA LeastOfOne == ASSUME NEW x \in Int PROVE Min({x}) = x
BY DEF Min

\* The scale.
LEMMA ScoreRange == ASSUME NEW text, NEW gold PROVE gsm8k_score(text, gold) \in Scores
BY DEF gsm8k_score, Scores

\* A text of one token, a number, is that number.
LEMMA OneNumber ==
  ASSUME NEW s, DOMAIN s = {1}, s[1].kind = "num" PROVE _norm_number(s) = Normal(s[1])
<1>1. At("num", s) = {1} BY DEF At
<1>2. At("boxed", s) = {} BY DEF At
<1>3. Digits(s) = {1} BY <1>1, <1>2 DEF Digits
<1>4. Min(Digits(s)) = 1 BY <1>3, LeastOfOne
<1>5. FirstNumber(s) = s[1] BY <1>4 DEF FirstNumber
<1> QED BY <1>3, <1>5 DEF _norm_number

\* The empty text has no number.
LEMMA NoNumber == _norm_number(<<>>) = None
<1>1. At("num", <<>>) = {} /\ At("boxed", <<>>) = {} BY DEF At
<1>2. Digits(<<>>) = {} BY <1>1 DEF Digits
<1> QED BY <1>2 DEF _norm_number

\* The gold answer of a row, with or without its commas.
LEMMA GoldNumber ==
  ASSUME NEW answer \in Seq(Tokens), Solved(answer)
  PROVE  /\ _norm_number(_extract_gsm8k_gold(answer)) = Normal(Last(answer))
         /\ _norm_number(SubSeq(answer, Len(answer), Len(answer))) = Normal(Last(answer))
         /\ Normal(Last(answer)) = [kind |-> "norm", value |-> Last(answer).value, tail |-> "none"]
<1> DEFINE n == Len(answer)
<1> DEFINE marks == At("hash", answer)
<1> DEFINE gold == SubSeq(answer, n, n)
<1>1. /\ n \in Nat /\ n >= 2 /\ DOMAIN answer = 1..n
      /\ answer[n - 1].kind = "hash" /\ answer[n].kind = "num" /\ answer[n].form # "dot00"
  BY DEF Solved
<1>2. Last(answer) = answer[n] BY DEF Last
<1>3. DOMAIN gold = {1} /\ gold[1] = answer[n]
  <2>1. gold = [j \in 1..(n - n + 1) |-> answer[n + j - 1]] BY <1>1 DEF SubSeq
  <2>2. 1..(n - n + 1) = {1} BY <1>1
  <2> QED BY <1>1, <2>1, <2>2
<1>4. Max(marks \cup {0}) = n - 1
  <2>1. n - 1 \in marks \cup {0} BY <1>1 DEF At
  <2>2. n \notin marks BY <1>1 DEF At
  <2>3. marks \subseteq 1..n BY <1>1 DEF At
  <2>4. \A y \in marks \cup {0} : y \in Int /\ n - 1 >= y BY <1>1, <2>2, <2>3
  <2>5. \A x \in marks \cup {0} : (\A y \in marks \cup {0} : x >= y) => x = n - 1
    BY <1>1, <2>1, <2>4
  <2> QED BY <2>1, <2>4, <2>5 DEF Max
<1>5. (n - 1) + 1 = n BY <1>1
<1> DEFINE made == _extract_gsm8k_gold(answer)
<1>6. made = [j \in DOMAIN gold |-> IF gold[j].kind = "num" /\ gold[j].form = "comma"
                THEN [kind |-> "num", value |-> gold[j].value, form |-> "plain"] ELSE gold[j]]
  BY <1>4, <1>5 DEF _extract_gsm8k_gold
<1>7. DOMAIN made = {1} /\ made[1].kind = "num" /\ Normal(made[1]) = Normal(answer[n])
  <2>1. DOMAIN made = {1} BY <1>3, <1>6
  <2>2. made[1] = IF answer[n].form = "comma"
          THEN [kind |-> "num", value |-> answer[n].value, form |-> "plain"] ELSE answer[n]
    BY <1>1, <1>3, <1>6
  <2> QED BY <1>1, <2>1, <2>2 DEF Normal
<1>8. _norm_number(made) = Normal(made[1]) BY <1>7, OneNumber
<1>9. _norm_number(gold) = Normal(gold[1]) BY <1>1, <1>3, OneNumber
<1> QED BY <1>1, <1>2, <1>3, <1>7, <1>8, <1>9 DEF Normal

\* What a scorer is handed as gold matters by its number alone.
LEMMA SameGold ==
  ASSUME NEW text, NEW g, NEW h, _norm_number(g) = _norm_number(h)
  PROVE  gsm8k_score(text, g) = gsm8k_score(text, h)
BY DEF gsm8k_score, Correct

\* The ways of TRL, verl and slime lead to the scalar scorer with the same gold.
LEMMA RoutesMeet ==
  ASSUME NEW row, NEW text
  PROVE  LET score == gsm8k_score(text, _extract_gsm8k_gold(row.answer))
         IN /\ trl_score(row, text) = score
            /\ verl_score(row, text) = score
            /\ slime_score(row, text) = score
<1> DEFINE gold == _extract_gsm8k_gold(row.answer)
<1>1. trl_score(row, text) = gsm8k_score(text, gold)
  <2> DEFINE group == <<<<Says(text)>>>>
  <2>1. to_trl_grpo(from_gsm8k(row)).answer = gold BY DEF to_trl_grpo, from_gsm8k
  <2>2. _completion_text(group[1]) = text BY DEF _completion_text, Last, Says
  <2>3. DOMAIN group = {1} BY SMT
  <2>4. gsm8k_correctness_reward(group, <<gold>>)[1] = IF Correct(text, gold) THEN 10 ELSE 0
    BY <2>2, <2>3 DEF gsm8k_correctness_reward
  <2>5. gsm8k_format_reward(group)[1] = IF has_format(text) THEN 1 ELSE 0
    BY <2>2, <2>3 DEF gsm8k_format_reward
  <2> QED BY <2>1, <2>4, <2>5 DEF trl_score, gsm8k_score
<1>2. verl_score(row, text) = gsm8k_score(text, gold)
  BY DEF verl_score, compute_score, to_verl_grpo, from_gsm8k, data_source, _SCALAR_SCORERS
<1>3. slime_score(row, text) = gsm8k_score(text, gold)
  BY DEF slime_score, slime_rm, compute_score, to_slime_grpo, from_gsm8k, data_source,
         _SCALAR_SCORERS
<1> QED BY <1>1, <1>2, <1>3

\* An obedient answer: no box, one marker, and after it one number, which is
\* what _predicted_answer returns.
LEMMA ObeyedNumber ==
  ASSUME NEW text \in Seq(Tokens), Obeys(text)
  PROVE  /\ _predicted_answer(text)
              = [kind |-> "norm", value |-> Last(text).value, tail |-> "none"]
         /\ has_format(text)
<1> DEFINE n == Len(text)
<1>1. /\ n \in Nat /\ n >= 2 /\ DOMAIN text = 1..n
      /\ At("boxed", text) = {} /\ At("hash", text) = {n - 1}
      /\ text[n].kind = "num" /\ text[n].form # "dot00"
  BY DEF Obeys
<1>2. _norm_number(_BOXED(text).group) = None BY <1>1, NoNumber DEF _BOXED, NoMatch
<1> DEFINE after == {j \in DOMAIN text : j > n - 1 /\ ~Blank(text[j])}
<1> DEFINE ends == {j \in Breaks(text) : j > n} \cup {n + 1}
<1>3. Min({n - 1}) = n - 1 /\ Min({n}) = n /\ Min({n + 1}) = n + 1 BY <1>1, LeastOfOne
<1>4. after = {n} BY <1>1 DEF Blank
<1>5. ends = {n + 1} BY <1>1 DEF Breaks, At
<1> DEFINE group == SubSeq(text, n, n)
<1>6. _HASHED(text) = Match(group)
  <2>1. (n + 1) - 1 = n BY <1>1
  <2> HIDE DEF after, ends
  <2>2. Min(At("hash", text)) = n - 1 BY <1>1, <1>3
  <2>3. Min(after) = n /\ after # {} BY <1>3, <1>4
  <2>4. Min(ends) = n + 1 BY <1>3, <1>5
  <2>5. At("hash", text) # {} BY <1>1
  <2> USE DEF after, ends
  <2> QED BY <2>1, <2>2, <2>3, <2>4, <2>5 DEF _HASHED
<1>7. DOMAIN group = {1} /\ group[1] = text[n]
  <2>1. group = [j \in 1..(n - n + 1) |-> text[n + j - 1]] BY <1>1 DEF SubSeq
  <2>2. 1..(n - n + 1) = {1} BY <1>1
  <2> QED BY <1>1, <2>1, <2>2
<1>8. _norm_number(_HASHED(text).group) = Normal(text[n])
  <2>1. _HASHED(text).group = group BY <1>6 DEF Match
  <2>2. _norm_number(group) = Normal(group[1]) BY <1>1, <1>7, OneNumber
  <2> QED BY <1>7, <2>1, <2>2
<1>9. Normal(text[n]) = [kind |-> "norm", value |-> Last(text).value, tail |-> "none"]
  BY <1>1 DEF Normal, Last
<1>10. Normal(text[n]) # None BY DEF Normal, None
<1>11. _predicted_answer(text) = Normal(text[n])
  BY <1>2, <1>8, <1>10 DEF _predicted_answer, Or
<1>12. has_format(text) BY <1>6 DEF has_format, Match
<1> QED BY <1>9, <1>11, <1>12

-------------------------------------------------------------------------------
(* The rollout *)

\* A row of the dataset.
LEMMA RowOf ==
  ASSUME NEW j \in Samples
  PROVE  Data[j].answer \in Seq(Tokens) /\ Solved(Data[j].answer)
<1> DEFINE R == [question : STRING, answer : Seq(Tokens)]
<1>1. Data \in Seq(R) /\ Len(Data) = N BY TaskAssumption
<1>2. j \in DOMAIN Data BY <1>1, StreamAssumption DEF Samples
<1>3. Data[j] \in R
  <2> HIDE DEF R
  <2> QED BY <1>1, <1>2
<1> QED BY <1>2, <1>3, TaskAssumption

\* What was said is a text of tokens.
LEMMA TextsSaid ==
  ASSUME NEW r, r.turns \in Turns
  PROVE  /\ TextOf(r) \in Seq(Tokens)
         /\ TextOf(r) = IF r.turns = <<>> THEN <<>> ELSE Last(r.turns).content
<1>1. CASE r.turns = <<>> BY <1>1 DEF TextOf
<1>2. CASE r.turns # <<>>
  <2>1. PICK text \in Completions : r.turns = <<Says(text)>> BY <1>2 DEF Turns
  <2>2. Last(r.turns).content = text /\ r.turns[1].content = text BY <2>1 DEF Last, Says
  <2> QED BY <1>2, <2>2, TaskAssumption DEF TextOf
<1> QED BY <1>1, <1>2

LEMMA RolloutInit == TaskInit => RolloutInv
BY DEF TaskInit, RolloutInv

\* A row is drawn: the sample is made of it, nothing is said yet.
LEMMA BeginInv == ASSUME StreamTypeOK, StreamTypeOK', Begin PROVE RolloutInv'
<1> DEFINE j == order'[pos']
<1> DEFINE new == [row |-> j, sample |-> _to_sample(Data[j]), turns |-> <<>>, reward |-> NoReward]
<1>1. pos' \in Samples
  BY StreamAssumption DEF Begin, Draw, EpochOver, StreamTypeOK, Samples
<1>2. j \in Samples BY <1>1 DEF StreamTypeOK, Orders
<1>3. rollout' = {new} BY DEF Begin
<1>4. new \in [row : Samples, sample : {_to_sample(Data[q]) : q \in Samples},
               turns : Turns, reward : {NoReward} \cup Scores]
  BY <1>2 DEF Turns
<1> QED BY <1>3, <1>4 DEF RolloutInv

\* The environment takes one turn and is done.
LEMMA AnswerInv == ASSUME RolloutInv, NEW text \in Completions, Answer(text) PROVE RolloutInv'
<1>1. PICK r \in rollout :
        /\ r.reward = NoReward /\ r.turns = <<>>
        /\ rollout' = {[r EXCEPT !.turns = Append(r.turns, Says(text))]}
  BY DEF Answer, Done
<1> DEFINE new == [r EXCEPT !.turns = Append(r.turns, Says(text))]
<1>2. Append(r.turns, Says(text)) \in Turns
  <2>1. Append(<<>>, Says(text)) = <<Says(text)>> OBVIOUS
  <2> QED BY <1>1, <2>1 DEF Turns
<1>3. r \in [row : Samples, sample : {_to_sample(Data[q]) : q \in Samples},
             turns : Turns, reward : {NoReward} \cup Scores]
  BY <1>1 DEF RolloutInv
<1>4. /\ new \in [row : Samples, sample : {_to_sample(Data[q]) : q \in Samples},
                  turns : Turns, reward : {NoReward} \cup Scores]
      /\ new.row = r.row /\ new.sample = r.sample /\ new.reward = NoReward
  BY <1>1, <1>2, <1>3
<1>5. r.sample = _to_sample(Data[r.row]) BY DEF RolloutInv
<1> QED BY <1>1, <1>4, <1>5 DEF RolloutInv

\* The rubric scores what was said.
LEMMA ScoreInv == ASSUME RolloutInv, ScoreRollout PROVE RolloutInv'
<1>1. PICK r \in rollout : rollout' = {[r EXCEPT !.reward = RewardGsm8k(r.turns, r.sample)]}
  BY DEF ScoreRollout
<1> DEFINE new == [r EXCEPT !.reward = RewardGsm8k(r.turns, r.sample)]
<1>2. RewardGsm8k(r.turns, r.sample) \in Scores BY ScoreRange DEF RewardGsm8k
<1>3. r \in [row : Samples, sample : {_to_sample(Data[q]) : q \in Samples},
             turns : Turns, reward : {NoReward} \cup Scores]
  BY <1>1 DEF RolloutInv
<1>4. /\ new \in [row : Samples, sample : {_to_sample(Data[q]) : q \in Samples},
                  turns : Turns, reward : {NoReward} \cup Scores]
      /\ new.row = r.row /\ new.sample = r.sample /\ new.turns = r.turns
      /\ new.reward = RewardGsm8k(r.turns, r.sample)
  BY <1>1, <1>2, <1>3
<1>5. r.sample = _to_sample(Data[r.row]) BY DEF RolloutInv
<1> QED BY <1>1, <1>4, <1>5 DEF RolloutInv

\* RolloutInv is inductive, given the types of the stream.
LEMMA RolloutNext ==
  RolloutInv /\ StreamTypeOK /\ StreamTypeOK' /\ [TaskNext]_taskVars => RolloutInv'
<1> SUFFICES ASSUME RolloutInv, StreamTypeOK, StreamTypeOK', [TaskNext]_taskVars
             PROVE  RolloutInv'
  OBVIOUS
<1>1. CASE Begin BY <1>1, BeginInv
<1>2. CASE \E text \in Completions : Answer(text) BY <1>2, AnswerInv
<1>3. CASE ScoreRollout BY <1>3, ScoreInv
<1>4. CASE rollout' = {} BY <1>4 DEF RolloutInv
<1>5. CASE rollout' = rollout BY <1>5 DEF RolloutInv
<1> QED BY <1>1, <1>2, <1>3, <1>4, <1>5 DEF TaskNext, taskVars, Checkpoint, TaskResume

-------------------------------------------------------------------------------
(* The theorems *)

\* The task draws from the stream, checkpoints and resumes it, and does nothing
\* else to it: what is proved of Gsm8kStream holds of the rows that are trained on.
THEOREM TaskDraws == TaskSpec => StreamSpec
<1>1. TaskInit => StreamInit BY DEF TaskInit
<1>2. [TaskNext]_taskVars => [StreamNext]_streamVars
  BY DEF TaskNext, taskVars, StreamNext, Begin, Answer, ScoreRollout, Checkpoint, TaskResume
<1> QED BY <1>1, <1>2, PTL DEF TaskSpec, StreamSpec

\* Every rollout is of a row of the dataset, in one turn, and scored by the rubric.
THEOREM RolloutsKept == TaskSpec => []RolloutInv
BY TaskDraws, StreamTyped, RolloutInit, RolloutNext, PTL DEF TaskSpec

\* Gsm8kEnv.step is done after one turn; the scores are those of the scale.
THEOREM TaskTyped == TaskSpec => []TaskTypeOK
<1>1. RolloutInv => TaskTypeOK
  <2> SUFFICES ASSUME RolloutInv, NEW r \in rollout
               PROVE  /\ Len(r.turns) <= 1
                      /\ \A q \in DOMAIN r.turns : r.turns[q].content \in Completions
                      /\ r.reward \in {NoReward, 0, 1, 10, 11}
    BY DEF TaskTypeOK
  <2>1. r.turns \in Turns /\ r.reward \in {NoReward} \cup Scores BY DEF RolloutInv
  <2>2. CASE r.turns = <<>> BY <2>1, <2>2 DEF Scores
  <2>3. CASE r.turns # <<>>
    <3>1. PICK text \in Completions : r.turns = <<Says(text)>> BY <2>1, <2>3 DEF Turns
    <3>2. Len(r.turns) = 1 /\ DOMAIN r.turns = {1} /\ r.turns[1].content = text
      BY <3>1 DEF Says
    <3> QED BY <2>1, <3>2 DEF Scores
  <2> QED BY <2>2, <2>3
<1> QED BY <1>1, RolloutsKept, PTL

\* The reward as a controlled variable: the rubric of torchtitan, TRL's reward set,
\* verl, slime and the agent of Megatron score a completion alike.
THEOREM RewardsAgree == TaskSpec => []ScoresAgree
<1>1. RolloutInv => ScoresAgree
  <2> SUFFICES ASSUME RolloutInv, NEW r \in rollout, r.reward # NoReward
               PROVE  /\ trl_score(Data[r.row], TextOf(r)) = r.reward
                      /\ verl_score(Data[r.row], TextOf(r)) = r.reward
                      /\ slime_score(Data[r.row], TextOf(r)) = r.reward
                      /\ megatron_score(Data[r.row], TextOf(r)) = r.reward
    BY DEF ScoresAgree
  <2> DEFINE answer == Data[r.row].answer
  <2>1. /\ r.row \in Samples /\ r.turns \in Turns /\ r.sample = _to_sample(Data[r.row])
        /\ r.reward = RewardGsm8k(r.turns, r.sample)
    BY DEF RolloutInv
  <2>2. r.sample.answer = _extract_gsm8k_gold(answer) BY <2>1 DEF _to_sample, from_gsm8k
  <2>3. r.reward = gsm8k_score(TextOf(r), _extract_gsm8k_gold(answer))
    BY <2>1, <2>2, TextsSaid DEF RewardGsm8k
  <2>4. answer \in Seq(Tokens) /\ Solved(answer) BY <2>1, RowOf
  <2>5. megatron_score(Data[r.row], TextOf(r))
          = gsm8k_score(TextOf(r), SubSeq(answer, Len(answer), Len(answer)))
    BY DEF megatron_score
  <2>6. megatron_score(Data[r.row], TextOf(r)) = r.reward
    BY <2>3, <2>4, <2>5, GoldNumber, SameGold
  <2> QED BY <2>3, <2>6, RoutesMeet
<1> QED BY <1>1, RolloutsKept, PTL

\* _predicted_answer: an answer as GSM8K_SYSTEM asks for it is worth its number
\* alone, with the format bonus, whatever the reasoning before it mentions.
THEOREM ObedienceRewarded == TaskSpec => []ObedienceCounts
<1>1. RolloutInv => ObedienceCounts
  <2> SUFFICES ASSUME RolloutInv, NEW r \in rollout, r.reward # NoReward, Obeys(TextOf(r))
               PROVE  r.reward = (IF Last(TextOf(r)).value = Last(Data[r.row].answer).value
                                  THEN 11 ELSE 1)
    BY DEF ObedienceCounts
  <2> DEFINE answer == Data[r.row].answer
  <2> DEFINE gold == _extract_gsm8k_gold(answer)
  <2>1. /\ r.row \in Samples /\ r.turns \in Turns /\ r.sample = _to_sample(Data[r.row])
        /\ r.reward = RewardGsm8k(r.turns, r.sample)
    BY DEF RolloutInv
  <2>2. r.sample.answer = gold BY <2>1 DEF _to_sample, from_gsm8k
  <2>3. r.reward = gsm8k_score(TextOf(r), gold) BY <2>1, <2>2, TextsSaid DEF RewardGsm8k
  <2>4. answer \in Seq(Tokens) /\ Solved(answer) BY <2>1, RowOf
  <2>5. _norm_number(gold) = [kind |-> "norm", value |-> Last(answer).value, tail |-> "none"]
    BY <2>4, GoldNumber
  <2>6. TextOf(r) \in Seq(Tokens) BY <2>1, TextsSaid
  <2>7. /\ _predicted_answer(TextOf(r))
             = [kind |-> "norm", value |-> Last(TextOf(r)).value, tail |-> "none"]
        /\ has_format(TextOf(r))
    BY <2>6, ObeyedNumber
  <2>8. Correct(TextOf(r), gold) <=> Last(TextOf(r)).value = Last(answer).value
    BY <2>5, <2>7 DEF Correct, None
  <2> QED BY <2>3, <2>7, <2>8 DEF gsm8k_score
<1> QED BY <1>1, RolloutsKept, PTL
=============================================================================
