--------------------------- MODULE Gsm8kStreamProofs ---------------------------
(***************************************************************************)
(* Proofs about Gsm8kStream, for datasets, seeds, checkpoints and crashes  *)
(* of any number.                                                          *)
(*                                                                         *)
(* The argument: there is one table of orders, the same for all runs, that *)
(* a run which never resumed from a torn checkpoint follows.  The k-th     *)
(* order is the shuffle of the one before it, so the table is known up to  *)
(* the last epoch that was reached; a draw at the end of that epoch makes  *)
(* it longer by one.  As the table is not in the state, the invariant says *)
(* that there is one.                                                      *)
(***************************************************************************)
EXTENDS Gsm8kStream, TLAPS

Injective(f) == \A i, j \in Samples : f[i] = f[j] => i = j

\* The orders of the epochs 1..m.
Table(O, m) ==
  /\ O \in [1..m -> Orders]
  /\ O[1] = Fresh.order
  /\ \A k \in 1..m : Injective(O[k])
  /\ \A k \in 1..m : k + 1 <= m => O[k + 1] = shuffle(O[k], k + 1)

\* The state follows the table.
Follows(O, m) ==
  /\ exact => rng <= m /\ order = O[rng]
  /\ \A s \in disk : s.whole => s.rng <= m /\ s.order = O[s.rng]
  /\ \A d \in drawn : d[1] <= m /\ d[3] = O[d[1]][d[2]]

\* Where a run is, is what its generator and its position say.
Placed ==
  /\ at = <<rng, pos>>
  /\ \A s \in snap : s.at = <<s.rng, s.pos>>
  /\ \A s \in disk : s.at = <<s.rng, s.pos>>

Tabled == \E m \in 1..MaxShuffles : \E O : Table(O, m) /\ Follows(O, m)

StreamInv == StreamTypeOK /\ Placed /\ Tabled

-------------------------------------------------------------------------------
\* A shuffle of an order is an order, and loses no row.
LEMMA ShuffleOrder ==
  ASSUME NEW f \in Orders, NEW k \in 1..MaxShuffles
  PROVE  /\ shuffle(f, k) \in Orders
         /\ Injective(f) => Injective(shuffle(f, k))
<1>1. Perm[k] \in [Samples -> Samples] BY StreamAssumption
<1>2. \A i, j \in Samples : Perm[k][i] = Perm[k][j] => i = j BY StreamAssumption
<1>3. shuffle(f, k) \in Orders BY <1>1 DEF shuffle, Orders
<1>4. ASSUME Injective(f) PROVE Injective(shuffle(f, k))
  BY <1>1, <1>2, <1>4 DEF shuffle, Injective
<1> QED BY <1>3, <1>4

\* The constructor's stream has an order that loses no row.
LEMMA FreshOrder ==
  /\ Fresh.order \in Orders /\ Injective(Fresh.order)
  /\ Fresh.rng = 1 /\ Fresh.pos = 0 /\ Fresh.at = <<1, 0>> /\ Fresh.whole
<1>1. 1 \in 1..MaxShuffles BY StreamAssumption
<1>2. Identity \in Orders /\ Injective(Identity) BY DEF Identity, Orders, Injective
<1>3. Fresh.order = shuffle(Identity, 1) BY DEF Fresh
<1> QED BY <1>1, <1>2, <1>3, ShuffleOrder DEF Fresh

\* A table has a longer one.
LEMMA Longer ==
  ASSUME NEW m \in 1..MaxShuffles, m + 1 <= MaxShuffles, NEW O, Table(O, m)
  PROVE  \E Q : /\ Table(Q, m + 1) /\ \A k \in 1..m : Q[k] = O[k]
                /\ Q[m + 1] = shuffle(O[m], m + 1)
<1> DEFINE Q == [k \in 1..(m + 1) |-> IF k = m + 1 THEN shuffle(O[m], m + 1) ELSE O[k]]
<1>0. m \in Nat /\ m >= 1 /\ m + 1 \in 1..MaxShuffles BY StreamAssumption
<1>1. O[m] \in Orders /\ Injective(O[m]) BY <1>0 DEF Table
<1>2. shuffle(O[m], m + 1) \in Orders /\ Injective(shuffle(O[m], m + 1))
  BY <1>0, <1>1, ShuffleOrder
<1>3. Q[m + 1] = shuffle(O[m], m + 1) BY <1>0
<1>4. \A k \in 1..m : Q[k] = O[k] BY <1>0
<1>5. \A k \in 1..(m + 1) : k \in 1..m \/ k = m + 1 BY <1>0
<1>6. \A k \in 1..(m + 1) : Q[k] \in Orders /\ Injective(Q[k])
  BY <1>2, <1>3, <1>4, <1>5 DEF Table
<1>7. Q \in [1..(m + 1) -> Orders] BY <1>6
<1>8. Q[1] = Fresh.order BY <1>0, <1>4 DEF Table
<1>9. ASSUME NEW k \in 1..(m + 1), k + 1 <= m + 1 PROVE Q[k + 1] = shuffle(Q[k], k + 1)
  <2>1. k \in 1..m /\ Q[k] = O[k] BY <1>0, <1>4, <1>9
  <2>2. CASE k = m BY <2>1, <2>2, <1>3
  <2>3. CASE k # m
    <3>1. k + 1 \in 1..m BY <1>0, <2>1, <2>3
    <3>2. Q[k + 1] = O[k + 1] BY <3>1, <1>4
    <3> QED BY <2>1, <3>1, <3>2 DEF Table
  <2> QED BY <2>2, <2>3
<1> HIDE DEF Q
<1>10. Table(Q, m + 1) BY <1>6, <1>7, <1>8, <1>9 DEF Table
<1> QED BY <1>3, <1>4, <1>10

-------------------------------------------------------------------------------
\* The invariant holds of a stream that was just made.
LEMMA StreamInvInit == StreamInit => StreamInv
<1> SUFFICES ASSUME StreamInit PROVE StreamInv OBVIOUS
<1> USE DEF StreamInit
<1>0. 1 \in 1..MaxShuffles /\ N \in Nat BY StreamAssumption
<1>1. StreamTypeOK BY <1>0, FreshOrder DEF StreamTypeOK, Places
<1>2. Placed BY FreshOrder DEF Placed
<1>3. Tabled
  <2> DEFINE O == [k \in 1..1 |-> Fresh.order]
  <2>1. O[1] = Fresh.order OBVIOUS
  <2>2. Table(O, 1) BY FreshOrder DEF Table
  <2>3. Follows(O, 1) BY FreshOrder, <2>1 DEF Follows
  <2> QED BY <1>0, <2>2, <2>3 DEF Tabled
<1> QED BY <1>1, <1>2, <1>3 DEF StreamInv

\* A draw keeps the types and the place.
LEMMA DrawTyped == StreamTypeOK /\ Placed /\ Draw => StreamTypeOK' /\ Placed'
<1> SUFFICES ASSUME StreamTypeOK, Placed, Draw PROVE StreamTypeOK' /\ Placed' OBVIOUS
<1>0. N \in Nat /\ N >= 1 /\ MaxShuffles \in Nat BY StreamAssumption
<1>1. rng \in 1..MaxShuffles /\ pos \in 0..N /\ order \in Orders BY DEF StreamTypeOK
<1>2. rng' \in 1..MaxShuffles BY <1>0, <1>1 DEF Draw, EpochOver
<1>3. pos' \in Samples /\ pos' \in 0..N BY <1>0, <1>1 DEF Draw, EpochOver, Samples
<1>4. order' \in Orders
  <2>1. CASE EpochOver
    <3>1. rng + 1 \in 1..MaxShuffles BY <1>0, <1>1, <2>1 DEF Draw
    <3> QED BY <1>1, <2>1, <3>1, ShuffleOrder DEF Draw
  <2>2. CASE ~EpochOver BY <1>1, <2>2 DEF Draw
  <2> QED BY <2>1, <2>2
<1>5. Later = <<rng', pos'>> BY <1>0, <1>1 DEF Draw, Later, Placed, EpochOver
<1>6. at' = <<rng', pos'>> BY <1>5 DEF Draw
<1>7. order'[pos'] \in Samples BY <1>3, <1>4 DEF Orders
<1>8. drawn' \in SUBSET ((1..MaxShuffles) \X Samples \X Samples)
  <2>1. drawn \in SUBSET ((1..MaxShuffles) \X Samples \X Samples) BY DEF StreamTypeOK
  <2>2. <<Later[1], Later[2], order'[pos']>> \in (1..MaxShuffles) \X Samples \X Samples
    BY <1>2, <1>3, <1>5, <1>7
  <2> QED BY <2>1, <2>2 DEF Draw
<1>9. StreamTypeOK'
  BY <1>2, <1>3, <1>4, <1>6, <1>8 DEF Draw, StreamTypeOK, Places
<1>10. Placed' BY <1>6 DEF Draw, Placed
<1> QED BY <1>9, <1>10

\* A draw in an epoch that the table has, and the first draw of the next.
LEMMA DrawTabled == StreamInv /\ Draw => Tabled'
<1> SUFFICES ASSUME StreamInv, Draw PROVE Tabled' OBVIOUS
<1>0. N \in Nat /\ N >= 1 /\ MaxShuffles \in Nat BY StreamAssumption
<1>1. rng \in 1..MaxShuffles /\ pos \in 0..N /\ order \in Orders /\ exact \in BOOLEAN
  BY DEF StreamInv, StreamTypeOK
<1>2. \A d \in drawn : d[1] \in 1..MaxShuffles /\ d[2] \in Samples /\ d[3] \in Samples
  BY DEF StreamInv, StreamTypeOK
<1>3. \A s \in disk : s.rng \in 1..MaxShuffles /\ s.whole \in BOOLEAN
  BY DEF StreamInv, StreamTypeOK
<1>4. PICK m, O : m \in 1..MaxShuffles /\ Table(O, m) /\ Follows(O, m) BY DEF StreamInv, Tabled
<1>5. Later = <<rng', pos'>>
  BY <1>0, <1>1 DEF Draw, Later, StreamInv, Placed, EpochOver
<1>6. UNCHANGED <<disk, exact>> BY DEF Draw
<1>7. exact => drawn' = drawn \cup {<<rng', pos', order'[pos']>>} BY <1>5 DEF Draw
<1>8. ~exact => drawn' = drawn BY DEF Draw
<1>9. CASE ~exact
  <2>1. Follows(O, m)' BY <1>4, <1>6, <1>8, <1>9 DEF Follows
  <2> QED BY <1>4, <2>1 DEF Tabled, Table
<1>10. CASE exact /\ ~EpochOver
  <2>1. rng' = rng /\ order' = order BY <1>10 DEF Draw
  <2>2. rng <= m /\ order = O[rng] BY <1>4, <1>10 DEF Follows
  <2>3. \A d \in drawn' : d[1] <= m /\ d[3] = O[d[1]][d[2]]
    BY <1>4, <1>7, <1>10, <2>1, <2>2 DEF Follows
  <2>4. Follows(O, m)' BY <1>4, <1>6, <2>1, <2>2, <2>3 DEF Follows
  <2> QED BY <1>4, <2>4 DEF Tabled, Table
<1>11. CASE exact /\ EpochOver
  <2>1. rng' = rng + 1 /\ order' = shuffle(order, rng + 1) /\ rng + 1 <= MaxShuffles
    BY <1>0, <1>1, <1>11 DEF Draw
  <2>2. rng <= m /\ order = O[rng] BY <1>4, <1>11 DEF Follows
  <2>3. CASE rng < m
    <3>1. rng + 1 <= m /\ rng \in 1..m BY <1>1, <1>4, <2>3
    <3>2. order' = O[rng'] BY <1>4, <2>1, <2>2, <3>1 DEF Table
    <3>3. \A d \in drawn' : d[1] <= m /\ d[3] = O[d[1]][d[2]]
      BY <1>4, <1>7, <1>11, <2>1, <3>1, <3>2 DEF Follows
    <3>4. Follows(O, m)' BY <1>4, <1>6, <2>1, <3>1, <3>2, <3>3 DEF Follows
    <3> QED BY <1>4, <3>4 DEF Tabled, Table
  <2>4. CASE rng = m
    <3>1. m + 1 \in 1..MaxShuffles BY <1>0, <1>1, <2>1, <2>4
    <3>2. PICK Q : /\ Table(Q, m + 1) /\ \A k \in 1..m : Q[k] = O[k]
                   /\ Q[m + 1] = shuffle(O[m], m + 1)
      BY <1>4, <2>1, <2>4, Longer
    <3>3. rng' = m + 1 /\ order' = Q[rng'] BY <2>1, <2>2, <2>4, <3>2
    <3>4. \A d \in drawn : d[1] <= m + 1 /\ d[3] = Q[d[1]][d[2]]
      <4> SUFFICES ASSUME NEW d \in drawn PROVE d[1] <= m + 1 /\ d[3] = Q[d[1]][d[2]] OBVIOUS
      <4>1. d[1] \in 1..m /\ d[3] = O[d[1]][d[2]] BY <1>2, <1>4 DEF Follows
      <4> QED BY <1>4, <3>2, <4>1
    <3>5. \A d \in drawn' : d[1] <= m + 1 /\ d[3] = Q[d[1]][d[2]]
      BY <1>7, <1>11, <3>3, <3>4, <3>1
    <3>6. \A s \in disk : s.whole => s.rng <= m + 1 /\ s.order = Q[s.rng]
      <4> SUFFICES ASSUME NEW s \in disk, s.whole PROVE s.rng <= m + 1 /\ s.order = Q[s.rng] OBVIOUS
      <4>1. s.rng \in 1..m /\ s.order = O[s.rng] BY <1>3, <1>4 DEF Follows
      <4> QED BY <1>4, <3>2, <4>1
    <3>7. Follows(Q, m + 1)' BY <1>6, <3>1, <3>3, <3>5, <3>6 DEF Follows
    <3> QED BY <3>1, <3>2, <3>7 DEF Tabled, Table
  <2> QED BY <1>1, <1>4, <2>2, <2>3, <2>4
<1> QED BY <1>1, <1>9, <1>10, <1>11

\* Taking a checkpoint, writing it, and resuming follow the same table.
LEMMA CheckpointInv == StreamInv /\ (state_dict \/ Persist \/ Resume) => StreamInv'
<1> SUFFICES ASSUME StreamInv, state_dict \/ Persist \/ Resume PROVE StreamInv' OBVIOUS
<1>0. N \in Nat /\ N >= 1 /\ 1 \in 1..MaxShuffles BY StreamAssumption
<1>1. PICK m, O : m \in 1..MaxShuffles /\ Table(O, m) /\ Follows(O, m) BY DEF StreamInv, Tabled
<1>2. CASE state_dict
  <2>1. StreamTypeOK' BY <1>2 DEF state_dict, StreamInv, StreamTypeOK, Placed
  <2>2. Placed' BY <1>2 DEF state_dict, StreamInv, Placed
  <2>3. Follows(O, m)' BY <1>1, <1>2 DEF state_dict, Follows
  <2> QED BY <1>1, <2>1, <2>2, <2>3 DEF StreamInv, Tabled, Table
<1>3. CASE Persist
  <2>1. PICK s \in snap :
          disk' = {[rng |-> s.rng, pos |-> s.pos, order |-> order, at |-> s.at,
                    whole |-> exact /\ s.rng = rng]}
    BY <1>3 DEF Persist
  <2>2. s \in [rng : 1..MaxShuffles, pos : 0..N, at : Places] BY DEF StreamInv, StreamTypeOK
  <2>3. order \in Orders BY DEF StreamInv, StreamTypeOK
  <2>4. (exact /\ s.rng = rng) \in BOOLEAN OBVIOUS
  <2>5. disk' \in SUBSET [rng : 1..MaxShuffles, pos : 0..N, order : Orders, at : Places,
                          whole : BOOLEAN]
    BY <2>1, <2>2, <2>3, <2>4
  <2>6. StreamTypeOK' BY <1>3, <2>5 DEF Persist, StreamInv, StreamTypeOK
  <2>7. Placed' BY <1>3, <2>1 DEF Persist, StreamInv, Placed
  <2>8. \A c \in disk' : c.whole => c.rng <= m /\ c.order = O[c.rng]
    <3>1. exact /\ s.rng = rng => s.rng <= m /\ order = O[s.rng] BY <1>1 DEF Follows
    <3>2. SUFFICES ASSUME NEW c \in disk', c.whole PROVE c.rng <= m /\ c.order = O[c.rng] OBVIOUS
    <3>3. c.rng = s.rng /\ c.order = order /\ c.whole = (exact /\ s.rng = rng) BY <2>1
    <3>4. exact /\ s.rng = rng BY <3>2, <3>3, Zenon
    <3> QED BY <3>1, <3>3, <3>4
  <2>9. Follows(O, m)' BY <1>1, <1>3, <2>8 DEF Persist, Follows
  <2> QED BY <1>1, <2>6, <2>7, <2>9 DEF StreamInv, Tabled, Table
<1>4. CASE Resume
  <2>1. PICK s \in (IF disk = {} THEN {Fresh} ELSE disk) :
          rng' = s.rng /\ pos' = s.pos /\ order' = s.order /\ at' = s.at /\ exact' = s.whole
    BY <1>4 DEF Resume, load_state_dict
  <2>2. UNCHANGED <<disk, drawn>> /\ snap' = {} BY <1>4 DEF Resume
  <2>3. CASE disk = {}
    <3>1. rng' = 1 /\ pos' = 0 /\ order' = Fresh.order /\ at' = <<1, 0>> /\ exact'
      BY <2>1, <2>3, FreshOrder
    <3>2. StreamTypeOK'
      BY <1>0, <2>1, <2>2, <2>3, <3>1, FreshOrder DEF StreamInv, StreamTypeOK, Places, Fresh
    <3>3. Placed' BY <2>2, <2>3, <3>1 DEF Placed
    <3>4. Follows(O, m)' BY <1>1, <2>2, <2>3, <3>1 DEF Follows, Table
    <3> QED BY <1>1, <3>2, <3>3, <3>4 DEF StreamInv, Tabled, Table
  <2>4. CASE disk # {}
    <3>1. s \in disk BY <2>4
    <3>2. s \in [rng : 1..MaxShuffles, pos : 0..N, order : Orders, at : Places, whole : BOOLEAN]
      BY <3>1 DEF StreamInv, StreamTypeOK
    <3>3. StreamTypeOK' BY <2>1, <2>2, <3>2 DEF StreamInv, StreamTypeOK
    <3>4. Placed' BY <2>1, <2>2, <3>1 DEF StreamInv, Placed
    <3>5. Follows(O, m)' BY <1>1, <2>1, <2>2, <3>1 DEF Follows
    <3> QED BY <1>1, <3>3, <3>4, <3>5 DEF StreamInv, Tabled, Table
  <2> QED BY <2>3, <2>4
<1> QED BY <1>2, <1>3, <1>4

-------------------------------------------------------------------------------
\* StreamInv is inductive.
LEMMA StreamInvNext == StreamInv /\ [StreamNext]_streamVars => StreamInv'
<1> SUFFICES ASSUME StreamInv, [StreamNext]_streamVars PROVE StreamInv' OBVIOUS
<1>1. CASE Draw BY <1>1, DrawTyped, DrawTabled DEF StreamInv
<1>2. CASE state_dict \/ Persist \/ Resume BY <1>2, CheckpointInv
<1>3. CASE UNCHANGED streamVars
  BY <1>3 DEF streamVars, StreamInv, StreamTypeOK, Placed, Tabled, Table, Follows
<1> QED BY <1>1, <1>2, <1>3 DEF StreamNext

\* At every time the run, its checkpoints and what was drawn follow one table of
\* orders: Gsm8kDataset as a whole, over any crashes.
THEOREM StreamFollows == StreamSpec => []StreamInv
BY StreamInvInit, StreamInvNext, PTL DEF StreamSpec

\* The types, and the position within the epoch: __next__ never reads past the
\* order list, after load_state_dict either.
THEOREM StreamTyped == StreamSpec => []StreamTypeOK
<1>1. StreamInv => StreamTypeOK BY DEF StreamInv
<1> QED BY <1>1, StreamFollows, PTL

\* state_dict and load_state_dict: a run that resumes draws what the run it goes
\* on from drew, or would have drawn.
THEOREM StreamReplays == StreamSpec => []ReplaysSame
<1>1. StreamInv => ReplaysSame BY DEF StreamInv, Tabled, Follows, ReplaysSame
<1> QED BY <1>1, StreamFollows, PTL

\* The shuffles of __next__: no row comes twice in an epoch, over all runs.
THEOREM StreamEpochs == StreamSpec => []EpochOnce
<1>1. StreamInv => EpochOnce
  <2> SUFFICES ASSUME StreamInv, NEW a \in drawn, NEW b \in drawn, a[1] = b[1], a[3] = b[3]
               PROVE  a[2] = b[2]
    BY DEF EpochOnce
  <2>1. PICK m, O : m \in 1..MaxShuffles /\ Table(O, m) /\ Follows(O, m) BY DEF StreamInv, Tabled
  <2>2. /\ a[1] \in 1..MaxShuffles /\ a[2] \in Samples /\ b[2] \in Samples
        /\ MaxShuffles \in Nat
    BY StreamAssumption DEF StreamInv, StreamTypeOK
  <2>3. a[1] <= m /\ a[3] = O[a[1]][a[2]] /\ b[3] = O[b[1]][b[2]] BY <2>1 DEF Follows
  <2>4. Injective(O[a[1]]) BY <2>1, <2>2, <2>3 DEF Table
  <2> QED BY <2>2, <2>3, <2>4 DEF Injective
<1> QED BY <1>1, StreamFollows, PTL
=============================================================================
