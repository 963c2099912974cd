----------------------------- MODULE MCTaskSweep -----------------------------
(***************************************************************************)
(* Instances of Gsm8kTask and of Sweep.  The two have no state in common   *)
(* and are explored side by side: a behaviour runs one of them, so that    *)
(* their states add up instead of multiplying.                             *)
(***************************************************************************)
EXTENDS Gsm8kTask, Sweep

\* Two rows and three epochs; the third shuffle is not the second one again.
Shuffles == <<<<1, 2>>, <<2, 1>>, <<1, 2>>>>

Word == [kind |-> "word"]
NL == [kind |-> "nl"]
SP == [kind |-> "sp"]
Hash == [kind |-> "hash"]
Num(v, f) == [kind |-> "num", value |-> v, form |-> f]
Boxed(s) == [kind |-> "boxed", inside |-> s]

\* The answers of two rows, as gsm8k writes them: the solution, then ####.
Dataset ==
  << [question |-> "q1", answer |-> <<Word, Num(7, "plain"), NL, Hash, Num(18, "plain")>>],
     [question |-> "q2", answer |-> <<Num(18, "plain"), Word, NL, Hash, Num(1800, "comma")>>] >>

Bodies == { <<>>, <<Num(18, "plain"), NL>>, <<Word, Num(1800, "comma"), Word, NL, Word, NL>> }
Numbers == {Num(18, "plain"), Num(18, "dot"), Num(18, "dot0"), Num(1800, "comma"), Num(-5, "plain")}
Obedient == {body \o <<Hash, num>> : body \in Bodies, num \in Numbers}
Answers == {Dataset[k].answer : k \in DOMAIN Dataset}

\* Boxes, empty or not, next to the other marker; a marker with its number on a
\* later line, or with none; several markers; no marker; a last line without a
\* number, a text that ends with a line break; a form that is not normalised.
Unruly ==
  { <<Boxed(<<Num(18, "plain")>>)>>,
    <<Boxed(<<>>), NL, Hash, Num(18, "plain")>>,
    <<Boxed(<<Word>>), NL, Num(7, "plain")>>,
    <<Boxed(<<Num(7, "plain")>>), NL, Hash, Num(18, "plain")>>,
    <<Hash, NL, NL, Num(18, "plain"), Word>>,
    <<Word, Hash>>,
    <<Num(18, "plain"), NL, Hash, SP>>,
    <<Hash, Word, NL, Num(18, "plain")>>,
    <<Hash, Num(7, "plain"), NL, Hash, Num(18, "plain")>>,
    <<Num(7, "plain"), Word, Num(18, "plain")>>,
    <<Num(18, "plain"), NL, Word>>,
    <<Num(7, "plain"), NL, Num(18, "plain"), NL>>,
    <<Hash, Num(18, "dot00")>> }

Texts == Obedient \cup Answers \cup Unruly

Glyphs == UNION {Range(text) : text \in Texts}

-------------------------------------------------------------------------------
\* One row of each kind: an image known to be good, one known to be dead, one
\* that is tested, a known wall; one without its files, one without its config.
Smoke(m, f, i, task, config) ==
  [method |-> m, framework |-> f, image |-> i, nodes |-> 1, task |-> task, config |-> config]
SmokeRows ==
  << Smoke("sft", "trl", "trl", TRUE, TRUE),
     Smoke("sft", "torchtitan", "torchtitan", FALSE, FALSE),
     Smoke("sft", "unsloth", "unsloth", TRUE, TRUE), Smoke("dpo", "trl", "trl", TRUE, FALSE),
     Smoke("grpo", "verl", "verl", TRUE, TRUE) >>
Walls == {<<"grpo", "verl">>}
ImageStates == [trl |-> "OK", verl |-> "OK", torchtitan |-> "NG", slime |-> "", unsloth |-> ""]
Untested == <<"slime", "unsloth">>

Sees(cuda, archs) == [imports |-> TRUE, cuda |-> cuda, archs |-> archs]
Arch(k, n) == [kind |-> k, num |-> n]

\* PTX for older devices, native and PTX for the newest only, and a machine
\* whose GPU is not seen.
SomeTorches ==
  { Sees(TRUE, {Arch("sm", 80), Arch("compute", 90)}),
    Sees(TRUE, {Arch("sm", 120), Arch("compute", 120)}),
    Sees(FALSE, {Arch("sm", 90)}) }
SomeDevices == {90, 120}

-------------------------------------------------------------------------------
vars == <<taskVars, sweepVars>>

Init == TaskInit /\ SweepInit

Next ==
  \/ TaskNext /\ sweeps = 0 /\ UNCHANGED sweepVars
  \/ SweepNext /\ TaskInit /\ UNCHANGED taskVars

Spec == Init /\ [][Next]_vars /\ SweepFairness
=============================================================================
