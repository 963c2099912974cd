------------------------------ MODULE Gsm8kStream ------------------------------
(***************************************************************************)
(* torchtitan_rl/gsm8k/data.py: the endless stream of rows that the RL     *)
(* trainer of torchtitan draws from, shuffled anew for each epoch, with    *)
(* checkpoints to resume from.                                             *)
(*                                                                         *)
(* state_dict hands out the live order list, not a copy.  A checkpoint     *)
(* taken and not yet written to the disk (snap) therefore has no order of  *)
(* its own: what is written is the order the list has by then.             *)
(***************************************************************************)
EXTENDS Integers, Sequences, FiniteSets

CONSTANTS
  N,            \* rows of the dataset
  MaxShuffles,  \* bound: shuffles, hence epochs
  Perm          \* Perm[k]: how the seeded generator permutes at its k-th shuffle

Samples == 1..N

\* A shuffle moves every row to a place of its own.
ASSUME StreamAssumption ==
  /\ N \in Nat \ {0} /\ MaxShuffles \in Nat \ {0}
  /\ Perm \in [1..MaxShuffles -> [Samples -> Samples]]
  /\ \A k \in 1..MaxShuffles : \A i, j \in Samples : Perm[k][i] = Perm[k][j] => i = j

VARIABLES
  rng,      \* the state of the generator: shuffles done
  order,    \* the order list
  pos,      \* rows of this epoch handed out
  snap,     \* a state_dict in memory, or no one: a set of at most one
  disk,     \* the checkpoint to resume from: a set of at most one
  at,       \* history: <<epoch, place>> of the last row drawn by this lineage
  drawn,    \* history: <<epoch, place, row>> drawn by a run that never resumed from
            \* a torn checkpoint
  exact     \* history: this run is such a run

streamVars == <<rng, order, pos, snap, disk, at, drawn, exact>>

shuffle(list, k) == [i \in Samples |-> list[Perm[k][i]]]
Identity == [i \in Samples |-> i]

\* __init__: a new generator, shuffled once.
Fresh == [rng |-> 1, pos |-> 0, order |-> shuffle(Identity, 1), at |-> <<1, 0>>, whole |-> TRUE]

StreamInit ==
  /\ rng = Fresh.rng /\ order = Fresh.order /\ pos = Fresh.pos
  /\ at = Fresh.at /\ exact = TRUE /\ drawn = {}
  /\ snap = {} /\ disk = {}

Later == IF at[2] = N THEN <<at[1] + 1, 1>> ELSE <<at[1], at[2] + 1>>

EpochOver == pos >= N

\* __next__: at the end of an epoch, shuffle in place and begin again.
Draw ==
  /\ EpochOver => rng < MaxShuffles
  /\ rng' = (IF EpochOver THEN rng + 1 ELSE rng)
  /\ order' = (IF EpochOver THEN shuffle(order, rng + 1) ELSE order)
  /\ pos' = (IF EpochOver THEN 1 ELSE pos + 1)
  /\ at' = Later
  /\ drawn' = (IF exact THEN drawn \cup {<<Later[1], Later[2], order'[pos']>>} ELSE drawn)
  /\ UNCHANGED <<snap, disk, exact>>

\* Mutant: a state_dict that is one row ahead.
state_dict_ahead ==
  /\ snap' = {[rng |-> rng, pos |-> pos + 1, at |-> at]}
  /\ UNCHANGED <<rng, order, pos, disk, at, drawn, exact>>

state_dict ==
  /\ snap' = {[rng |-> rng, pos |-> pos, at |-> at]}
  /\ UNCHANGED <<rng, order, pos, disk, at, drawn, exact>>

\* The trainer writes the state_dict it took, at once or later.  It is torn if
\* the order was shuffled in between.
Persist ==
  /\ \E s \in snap :
       disk' = {[rng |-> s.rng, pos |-> s.pos, order |-> order, at |-> s.at,
                 whole |-> exact /\ s.rng = rng]}
  /\ snap' = {}
  /\ UNCHANGED <<rng, order, pos, at, drawn, exact>>

\* Mutants: the generator, or the order, is left as the constructor made it.
load_state_dict_order(s) == rng' = Fresh.rng /\ pos' = s.pos /\ order' = s.order
load_state_dict_rng(s) == rng' = s.rng /\ pos' = s.pos /\ order' = Fresh.order

load_state_dict(s) == rng' = s.rng /\ pos' = s.pos /\ order' = s.order

\* The run dies; another one constructs the stream and loads the checkpoint, if
\* there is one.
Resume ==
  /\ \E s \in (IF disk = {} THEN {Fresh} ELSE disk) :
       load_state_dict(s) /\ at' = s.at /\ exact' = s.whole
  /\ snap' = {}
  /\ UNCHANGED <<disk, drawn>>

StreamNext == Draw \/ state_dict \/ Persist \/ Resume

StreamSpec == StreamInit /\ [][StreamNext]_streamVars

-------------------------------------------------------------------------------
Orders == [Samples -> Samples]
Places == (1..MaxShuffles) \X (0..N)

StreamTypeOK ==
  /\ rng \in 1..MaxShuffles /\ order \in Orders /\ pos \in 0..N
  /\ at \in Places /\ exact \in BOOLEAN
  /\ snap \in SUBSET [rng : 1..MaxShuffles, pos : 0..N, at : Places]
  /\ disk \in SUBSET [rng : 1..MaxShuffles, pos : 0..N, order : Orders, at : Places,
                      whole : BOOLEAN]
  /\ drawn \in SUBSET ((1..MaxShuffles) \X Samples \X Samples)

\* A run that resumes from a checkpoint draws the rows that the run it goes on
\* from drew, or would have drawn, at the same places.
ReplaysSame == \A a, b \in drawn : a[1] = b[1] /\ a[2] = b[2] => a[3] = b[3]

\* No row is drawn at two places of an epoch, over all runs: an epoch of N
\* draws has every row once, crashes or not.
EpochOnce == \A a, b \in drawn : a[1] = b[1] /\ a[3] = b[3] => a[2] = b[2]
=============================================================================
