-------------------------------- MODULE Rewards --------------------------------
(***************************************************************************)
(* adapters/rewards.py: the scorer of gsm8k completions, and the ways in   *)
(* which the frameworks call it.                                           *)
(*                                                                         *)
(* A text is a sequence of tokens, records with a field kind:              *)
(*   "word", "nl" (a line break), "sp" (other blanks), "hash" (the marker  *)
(*   ####), "num" with a value and the form it is written in, and "boxed"  *)
(*   (\boxed{...}) with the tokens inside.                                 *)
(* Between two tokens of a line there may be blanks that do not matter.    *)
(* The form of a number is "plain" (1800), "comma" (1,800), "dot" (1800.), *)
(* "dot0" (1800.0) or "dot00" (1800.00).  Scores are in tenths.            *)
(***************************************************************************)
EXTENDS Integers, Sequences, SequencesExt, FiniteSetsExt

None == [kind |-> "none"]

\* Where the tokens of a kind are in a text.
At(k, text) == {i \in DOMAIN text : text[i].kind = k}

\* What a search for digits finds first: a number, or one inside a box.
Digits(text) ==
  At("num", text) \cup {i \in At("boxed", text) : At("num", text[i].inside) # {}}
FirstNumber(text) ==
  LET tok == text[Min(Digits(text))]
  IN IF tok.kind = "num" THEN tok ELSE tok.inside[Min(At("num", tok.inside))]

\* Commas go, a final dot and a final .0 go; .00 stays.
Normal(num) == [kind |-> "norm", value |-> num.value, tail |-> IF num.form = "dot00" THEN ".00" ELSE "none"]

\* The first number of a text, or None.
_norm_number(text) == IF Digits(text) = {} THEN None ELSE Normal(FirstNumber(text))

\* Searches: whether there is a match, and the group it captures.
Match(group) == [found |-> TRUE, group |-> group]
NoMatch == [found |-> FALSE, group |-> <<>>]

_BOXED(text) ==
  LET boxes == At("boxed", text) IN IF boxes = {} THEN NoMatch ELSE Match(text[Min(boxes)].inside)

Blank(tok) == tok.kind \in {"nl", "sp"}
Breaks(text) == At("nl", text)

\* #### and what follows it on its line; if that is blank, the blanks may be
\* line breaks too, and the next line that is not empty is captured.
_HASHED(text) ==
  LET marks == At("hash", text)
      after == {i \in DOMAIN text : i > Min(marks) /\ ~Blank(text[i])}
      ends  == {i \in Breaks(text) : i > Min(after)} \cup {Len(text) + 1}
  IN CASE marks = {} -> NoMatch
       [] marks # {} /\ after # {} -> Match(SubSeq(text, Min(after), Min(ends) - 1))
       [] OTHER -> IF \E i \in DOMAIN text : i > Min(marks) /\ text[i].kind = "sp"
                   THEN Match(<<>>) ELSE NoMatch

\* text.split("\n")[-1]: empty for a text that ends with a line break.
LastLine(text) == SubSeq(text, Max(Breaks(text) \cup {0}) + 1, Len(text))

\* x, or y if there is no x.
Or(x, y) == IF x = None THEN y ELSE x

\* Mutant: the first number of the text comes before what follows ####.
_predicted_answer_first(text) == Or(_norm_number(_BOXED(text).group), _norm_number(text))

_predicted_answer(text) ==
  LET boxed == _norm_number(_BOXED(text).group)
      hashed == _norm_number(_HASHED(text).group)
  IN Or(boxed, Or(hashed, Or(_norm_number(LastLine(text)), _norm_number(text))))

Correct(text, gold) ==
  LET pred == _predicted_answer(text) IN pred # None /\ pred = _norm_number(gold)

has_format(text) == _BOXED(text).found \/ _HASHED(text).found

-------------------------------------------------------------------------------
\* The reward set of TRL: lists over a group of completions, which are texts or
\* conversations, and the answer column of their rows.
_completion_text(completion) == Last(completion).content

gsm8k_correctness_reward(completions, answer) ==
  [i \in DOMAIN completions |-> IF Correct(_completion_text(completions[i]), answer[i]) THEN 10 ELSE 0]

gsm8k_format_reward(completions) ==
  [i \in DOMAIN completions |-> IF has_format(_completion_text(completions[i])) THEN 1 ELSE 0]

\* Mutant: the format bonus is forgotten in the scalar scorer.
gsm8k_score_correct(solution, ground_truth) == IF Correct(solution, ground_truth) THEN 10 ELSE 0

\* The scalar scorer.
gsm8k_score(solution, ground_truth) ==
  (IF Correct(solution, ground_truth) THEN 10 ELSE 0) + (IF has_format(solution) THEN 1 ELSE 0)

_SCALAR_SCORERS == {"gsm8k"}

\* No score: the entry point raises, for a task it has no scorer for.
Raises == -1

compute_score(data_source, solution, ground_truth) ==
  IF data_source \in _SCALAR_SCORERS THEN gsm8k_score(solution, ground_truth) ELSE Raises

slime_rm(sample) == compute_score(sample.metadata.data_source, sample.response, sample.label)
=============================================================================
