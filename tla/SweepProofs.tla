------------------------------ MODULE SweepProofs ------------------------------
(***************************************************************************)
(* Proofs about Sweep, for any rows, images, GPUs and number of faults.    *)
(*                                                                         *)
(* The argument: a cluster knows the sweep that launched its job, so what  *)
(* an earlier sweep has left behind is told apart from what this one did,  *)
(* and while sky launch waits for a job, the cluster of that name, if it   *)
(* is still up, runs that job on the image of the item (Owned).            *)
(***************************************************************************)
EXTENDS Sweep, FiniteSetTheorems, TLAPS

Shape ==
  /\ script \in {"none", "staged", "plain"} /\ sweeps \in 0..MaxSweeps /\ device \in Devices
  /\ script # "none" => sweeps >= 1
  /\ stage \in {"preflight", "rows"} /\ item \in 1..(Len(List) + 1)
  /\ waiting \in {"no", "job", "nothing"} /\ (waiting # "no" => AtItem)
  /\ imgState \in [Images -> {"OK", "NG", ""}]
  /\ results \in Seq(Verdicts)
  /\ Len(results) = (IF stage = "rows" THEN item - 1 ELSE 0)
  /\ clusters \in [Names -> Cluster \cup {NoCluster}]
  /\ faults \in 0..MaxFaults /\ leftovers \in 0..faults

\* What this sweep's jobs stand for.
Owned ==
  /\ \A n \in Names : Up(n) => clusters[n].sweep <= sweeps
  /\ \A n \in Names : Up(n) /\ clusters[n].sweep = sweeps /\ clusters[n].job = "ok"
                        => <<n, clusters[n].image>> \in exits
  /\ waiting = "job" /\ Up(Name) => clusters[Name].sweep = sweeps /\ clusters[Name].image = Image
  /\ \A i \in Images : imgState[i] = "OK" => KnownState[i] = "OK" \/ <<PF, i>> \in exits

\* The clusters that no script waits for.
Others == {n \in Names : Up(n) /\ ~(waiting = "job" /\ n = Name)}
Counted == Cardinality(Others) <= leftovers

SweepInv == Shape /\ Owned /\ PassEarned /\ GateRespected /\ NoDeadTraining /\ Counted

-------------------------------------------------------------------------------
\* An item has a cluster name and an image; two items of the rows share neither.
LEMMA Item ==
  ASSUME Shape, AtItem
  PROVE  /\ Name \in Names /\ Image \in Images
         /\ stage = "rows" => Row \in Rows /\ Name = NameOf(Row) /\ Image = Row.image
         /\ stage = "preflight" => Name = PF
         /\ item \in Nat /\ item + 1 \in 1..(Len(List) + 1)
<1>1. SMOKES \in Seq(Rows) /\ PREFLIGHT_IMAGES \in Seq(Images) BY SweepAssumption
<1>2. stage \in {"preflight", "rows"} BY DEF Shape
<1>3. CASE stage = "rows"
  <2>1. item \in DOMAIN SMOKES /\ item \in 1..Len(SMOKES) BY <1>1, <1>3 DEF AtItem, List
  <2>2. Row \in Rows BY <1>1, <2>1 DEF Row
  <2>3. Name = NameOf(Row) /\ Image = Row.image BY <1>3 DEF Name, Image
  <2>4. Name \in Names BY <2>2, <2>3 DEF Names
  <2>5. Image \in Images BY <2>2, <2>3, SweepAssumption
  <2>6. item \in Nat /\ item + 1 \in 1..(Len(List) + 1) BY <1>1, <1>3, <2>1 DEF List
  <2> QED BY <1>3, <2>2, <2>3, <2>4, <2>5, <2>6
<1>4. CASE stage = "preflight"
  <2>1. item \in DOMAIN PREFLIGHT_IMAGES /\ item \in 1..Len(PREFLIGHT_IMAGES)
    BY <1>1, <1>4 DEF AtItem, List
  <2>2. Name = PF /\ Image \in Images BY <1>1, <1>4, <2>1 DEF Name, Image
  <2>3. Name \in Names BY <2>2 DEF Names
  <2>4. item \in Nat /\ item + 1 \in 1..(Len(List) + 1) BY <1>1, <1>4, <2>1 DEF List
  <2> QED BY <1>4, <2>2, <2>3, <2>4
<1> QED BY <1>2, <1>3, <1>4

\* The names of the rows are names, none of them the preflight's.
LEMMA RowNames == PF \in Names /\ \A row \in Rows : NameOf(row) \in Names /\ NameOf(row) # PF
BY SweepAssumption DEF Names

LEMMA LeftoversNat == Shape => leftovers \in Nat /\ faults \in Nat
<1>1. MaxFaults \in Nat BY BoundAssumption
<1>2. Shape => faults \in 0..MaxFaults /\ leftovers \in 0..faults BY DEF Shape
<1> QED BY <1>1, <1>2

\* If the clusters nobody waits for only become fewer, their number is counted.
LEMMA Fewer ==
  ASSUME Shape, Counted, Others' \subseteq Others, leftovers' \in Nat, leftovers' >= leftovers
  PROVE  Counted'
<1>1. IsFiniteSet(Others) /\ Others \subseteq Names BY SweepAssumption, FS_Subset DEF Others
<1>2. Cardinality(Others) \in Nat BY <1>1, FS_CardinalityType
<1>3. IsFiniteSet(Others') /\ Cardinality(Others') <= Cardinality(Others) BY <1>1, FS_Subset
<1>4. Cardinality(Others') \in Nat BY <1>3, FS_CardinalityType
<1>5. leftovers \in Nat BY LeftoversNat
<1> QED BY <1>2, <1>3, <1>4, <1>5 DEF Counted

\* One more is counted by one more.
LEMMA OneMore ==
  ASSUME Shape, Counted, NEW n, Others' \subseteq Others \cup {n}, leftovers' = leftovers + 1
  PROVE  Counted'
<1>1. IsFiniteSet(Others) /\ Others \subseteq Names BY SweepAssumption, FS_Subset DEF Others
<1>2. Cardinality(Others) \in Nat BY <1>1, FS_CardinalityType
<1>3. IsFiniteSet(Others \cup {n}) /\ Cardinality(Others \cup {n}) <= Cardinality(Others) + 1
  BY <1>1, <1>2, FS_AddElement
<1>4. IsFiniteSet(Others') /\ Cardinality(Others') <= Cardinality(Others \cup {n})
  BY <1>3, FS_Subset
<1>5. Cardinality(Others') \in Nat /\ Cardinality(Others \cup {n}) \in Nat
  BY <1>3, <1>4, FS_CardinalityType
<1>6. leftovers \in Nat BY LeftoversNat
<1> QED BY <1>2, <1>3, <1>4, <1>5, <1>6 DEF Counted

-------------------------------------------------------------------------------
\* Nothing is up, nothing has a verdict.
LEMMA SweepInvInit == SweepInit => SweepInv
<1> SUFFICES ASSUME SweepInit PROVE SweepInv OBVIOUS
<1>0. /\ script = "none" /\ sweeps = 0 /\ stage = "rows" /\ item = 1 /\ waiting = "no"
      /\ device = CHOOSE d \in Devices : TRUE
      /\ imgState = KnownState /\ results = <<>>
      /\ clusters = [n \in Names |-> NoCluster]
      /\ exits = {} /\ leftovers = 0 /\ faults = 0
  BY DEF SweepInit
<1>1. \A n \in Names : ~Up(n) BY <1>0 DEF Up
<1>2. Shape
  <2>1. device \in Devices BY <1>0, SweepAssumption
  <2>2. Len(List) \in Nat /\ item \in 1..(Len(List) + 1)
    <3>1. List = SMOKES /\ SMOKES \in Seq(Rows) BY <1>0, SweepAssumption DEF List
    <3>2. Len(List) \in Nat BY <3>1
    <3> QED BY <1>0, <3>2
  <2>3. clusters \in [Names -> Cluster \cup {NoCluster}] BY <1>0
  <2>4. sweeps \in 0..MaxSweeps /\ faults \in 0..MaxFaults BY <1>0, BoundAssumption
  <2>5. leftovers \in 0..faults BY <1>0
  <2>6. imgState \in [Images -> {"OK", "NG", ""}] BY <1>0, SweepAssumption
  <2>7. results \in Seq(Verdicts) /\ Len(results) = (IF stage = "rows" THEN item - 1 ELSE 0)
    BY <1>0
  <2>8. /\ script \in {"none", "staged", "plain"} /\ (script # "none" => sweeps >= 1)
        /\ stage \in {"preflight", "rows"}
        /\ waiting \in {"no", "job", "nothing"} /\ (waiting # "no" => AtItem)
    BY <1>0
  <2> QED BY <2>1, <2>2, <2>3, <2>4, <2>5, <2>6, <2>7, <2>8 DEF Shape
<1>3. Owned BY <1>0, <1>1 DEF Owned
<1>4. PassEarned BY <1>0 DEF PassEarned
<1>5. GateRespected BY <1>0 DEF GateRespected
<1>6. NoDeadTraining BY <1>1 DEF NoDeadTraining
<1>7. Counted
  <2>1. Others = {} BY <1>1 DEF Others
  <2> QED BY <1>0, <2>1, FS_EmptySet DEF Counted
<1> QED BY <1>2, <1>3, <1>4, <1>5, <1>6, <1>7 DEF SweepInv

\* A job that comes to something: it trains only if the gate let it.
LEMMA ExitsInv ==
  ASSUME SweepInv, NEW n \in Names, Up(n), NEW job \in JobStates, Exits(n, job),
         job = "trains" => check_gpu_arch(clusters[n].torch, clusters[n].device)
  PROVE  SweepInv'
<1> USE DEF Exits
<1>0. Shape /\ Owned /\ PassEarned /\ GateRespected /\ NoDeadTraining /\ Counted BY DEF SweepInv
<1>1. clusters[n] \in Cluster BY <1>0 DEF Shape, Up
<1>2. /\ clusters'[n] = [clusters[n] EXCEPT !.job = job]
      /\ \A k \in Names : k # n => clusters'[k] = clusters[k]
  BY <1>0 DEF Shape
<1>3. clusters'[n] \in Cluster BY <1>1, <1>2 DEF Cluster
<1>4. clusters' \in [Names -> Cluster \cup {NoCluster}] BY <1>0, <1>1, <1>3 DEF Shape, Cluster
<1>5. /\ clusters'[n].sweep = clusters[n].sweep /\ clusters'[n].image = clusters[n].image
      /\ clusters'[n].torch = clusters[n].torch /\ clusters'[n].device = clusters[n].device
      /\ clusters'[n].job = job
  BY <1>1, <1>2 DEF Cluster
<1>6. exits \subseteq exits' OBVIOUS
<1>7. \A k \in Names : Up(k)' => Up(k) BY <1>2 DEF Up
<1>8. Name' = Name /\ Image' = Image /\ List' = List /\ AtItem' = AtItem
  BY DEF Name, Image, List, AtItem, Row
<1>9. Shape' BY <1>0, <1>4, <1>8 DEF Shape
<1>10. Owned'
  <2>1. \A k \in Names : Up(k)' => clusters'[k].sweep <= sweeps'
    BY <1>0, <1>2, <1>5, <1>7 DEF Owned
  <2>2. \A k \in Names : Up(k)' /\ clusters'[k].sweep = sweeps' /\ clusters'[k].job = "ok"
                           => <<k, clusters'[k].image>> \in exits'
    <3> SUFFICES ASSUME NEW k \in Names, Up(k)', clusters'[k].sweep = sweeps', clusters'[k].job = "ok"
                 PROVE  <<k, clusters'[k].image>> \in exits'
      OBVIOUS
    <3>1. CASE k = n BY <1>5, <3>1
    <3>2. CASE k # n BY <1>0, <1>2, <1>6, <1>7, <3>2 DEF Owned
    <3> QED BY <3>1, <3>2
  <2>3. waiting' = "job" /\ Up(Name)' =>
          clusters'[Name'].sweep = sweeps' /\ clusters'[Name'].image = Image'
    <3>1. waiting = "job" => Name \in Names BY <1>0, Item DEF Shape
    <3>2. Up(Name)' <=> clusters'[Name] # NoCluster BY <1>8 DEF Up
    <3> QED BY <1>0, <1>2, <1>5, <1>7, <1>8, <3>1, <3>2 DEF Owned, Up
  <2>4. \A i \in Images : imgState'[i] = "OK" => KnownState[i] = "OK" \/ <<PF, i>> \in exits'
    BY <1>0, <1>6 DEF Owned
  <2> QED BY <2>1, <2>2, <2>3, <2>4 DEF Owned
<1>11. PassEarned' BY <1>0, <1>6 DEF PassEarned
<1>12. GateRespected'
  <2> SUFFICES ASSUME NEW row \in Rows, script = "staged", Up(NameOf(row))',
                      clusters'[NameOf(row)].sweep = sweeps
               PROVE  /\ NameOf(row) \notin SKIP
                      /\ KnownState[row.image] = "OK" \/ <<PF, row.image>> \in exits'
    BY DEF GateRespected
  <2>1. NameOf(row) \in Names BY RowNames
  <2>2. Up(NameOf(row)) /\ clusters[NameOf(row)].sweep = sweeps BY <1>2, <1>5, <1>7, <2>1
  <2> QED BY <1>0, <1>6, <2>2 DEF GateRespected
<1>13. NoDeadTraining'
  <2> SUFFICES ASSUME NEW k \in Names, Up(k)', clusters'[k].job = "trains",
                      clusters'[k].torch.imports, clusters'[k].torch.cuda
               PROVE  \E e \in clusters'[k].torch.archs : CudaRuns(e, clusters'[k].device)
    BY DEF NoDeadTraining
  <2>1. CASE k # n BY <1>0, <1>2, <1>7, <2>1 DEF NoDeadTraining
  <2>2. CASE k = n
    <3>1. arch_supported(clusters[n].device, clusters[n].torch.archs)
      BY <1>5, <2>2 DEF check_gpu_arch
    <3>2. clusters[n].device \in Nat /\ clusters[n].torch \in Torches
      BY <1>1, SweepAssumption DEF Cluster
    <3>3. \A e \in clusters[n].torch.archs : e.kind \in {"sm", "compute"} /\ e.num \in Nat
      BY <3>2, SweepAssumption
    <3>4. \E e \in clusters[n].torch.archs : CudaRuns(e, clusters[n].device)
      BY <3>1, <3>2, <3>3 DEF arch_supported, CudaRuns
    <3> QED BY <1>5, <2>2, <3>4
  <2> QED BY <2>1, <2>2
<1>14. Counted'
  <2>1. Others' \subseteq Others BY <1>7, <1>8 DEF Others
  <2>2. leftovers \in Nat BY <1>0, LeftoversNat
  <2> QED BY <1>0, <2>1, <2>2, Fewer
<1> QED BY <1>9, <1>10, <1>11, <1>12, <1>13, <1>14 DEF SweepInv

\* Where clusters only go, what they stand for does not change.
LEMMA Dropped ==
  ASSUME SweepInv, \A n \in Names : Up(n)' => Up(n) /\ clusters'[n] = clusters[n],
         sweeps' = sweeps, exits' = exits, script' \in {script, "none"}
  PROVE  /\ GateRespected' /\ NoDeadTraining'
         /\ \A n \in Names : Up(n)' => clusters'[n].sweep <= sweeps'
         /\ \A n \in Names : Up(n)' /\ clusters'[n].sweep = sweeps' /\ clusters'[n].job = "ok"
                               => <<n, clusters'[n].image>> \in exits'
<1>1. GateRespected'
  <2> SUFFICES ASSUME NEW row \in Rows, script' = "staged", Up(NameOf(row))',
                      clusters'[NameOf(row)].sweep = sweeps'
               PROVE  /\ NameOf(row) \notin SKIP
                      /\ KnownState[row.image] = "OK" \/ <<PF, row.image>> \in exits'
    BY DEF GateRespected
  <2>1. NameOf(row) \in Names BY RowNames
  <2>2. script = "staged" OBVIOUS
  <2> QED BY <2>1, <2>2 DEF SweepInv, GateRespected
<1>2. NoDeadTraining'
  <2> SUFFICES ASSUME NEW k \in Names, Up(k)', clusters'[k].job = "trains",
                      clusters'[k].torch.imports, clusters'[k].torch.cuda
               PROVE  \E e \in clusters'[k].torch.archs : CudaRuns(e, clusters'[k].device)
    BY DEF NoDeadTraining
  <2>1. Up(k) /\ clusters'[k] = clusters[k] OBVIOUS
  <2> QED BY <2>1 DEF SweepInv, NoDeadTraining
<1> QED BY <1>1, <1>2 DEF SweepInv, Owned

\* A cluster that no script waits for is taken away.
LEMMA GoneInv ==
  ASSUME SweepInv, NEW n \in Names, clusters' = [clusters EXCEPT ![n] = NoCluster],
         faults' \in {faults, faults + 1}, faults' <= MaxFaults,
         UNCHANGED <<script, sweeps, device, stage, item, waiting, imgState, results, exits,
                     leftovers>>
  PROVE  SweepInv'
<1>0. Shape /\ Owned /\ PassEarned /\ Counted BY DEF SweepInv
<1>1. clusters \in [Names -> Cluster \cup {NoCluster}] BY <1>0 DEF Shape
<1>2. \A k \in Names : Up(k)' => Up(k) /\ clusters'[k] = clusters[k] BY <1>1 DEF Up
<1>3. Name' = Name /\ Image' = Image /\ List' = List /\ AtItem' = AtItem
  BY DEF Name, Image, List, AtItem, Row
<1>4. Shape'
  <2>1. clusters' \in [Names -> Cluster \cup {NoCluster}] BY <1>1
  <2>2. faults' \in 0..MaxFaults /\ leftovers' \in 0..faults'
    <3>1. faults \in 0..MaxFaults /\ leftovers \in 0..faults BY <1>0 DEF Shape
    <3> QED BY <3>1, BoundAssumption
  <2> QED BY <1>0, <1>3, <2>1, <2>2 DEF Shape
<1>5. Owned'
  <2>1. waiting' = "job" /\ Up(Name)' =>
          clusters'[Name'].sweep = sweeps' /\ clusters'[Name'].image = Image'
    <3>1. waiting = "job" => Name \in Names BY <1>0, Item DEF Shape
    <3>2. Up(Name)' <=> clusters'[Name] # NoCluster BY <1>3 DEF Up
    <3> QED BY <1>0, <1>1, <1>2, <1>3, <3>1, <3>2 DEF Owned, Up
  <2> QED BY <1>0, <1>2, <2>1, Dropped DEF Owned
<1>6. PassEarned' BY <1>0 DEF PassEarned
<1>7. Counted'
  <2>1. Others' \subseteq Others BY <1>2, <1>3 DEF Others
  <2> QED BY <1>0, <2>1, LeftoversNat, Fewer
<1> QED BY <1>2, <1>4, <1>5, <1>6, <1>7, Dropped DEF SweepInv

\* A script starts: nothing that is up was launched by it.
LEMMA StartInv ==
  ASSUME SweepInv, NEW s \in {"staged", "plain"}, NEW d \in Devices, Start(s, d)
  PROVE  SweepInv'
<1>0. Shape /\ Owned /\ NoDeadTraining /\ Counted BY DEF SweepInv
<1>1. /\ script = "none" /\ sweeps < MaxSweeps
      /\ script' = s /\ sweeps' = sweeps + 1 /\ device' = d
      /\ stage' \in {"preflight", "rows"}
      /\ item' = 1 /\ waiting' = "no" /\ imgState' = KnownState /\ results' = <<>>
      /\ exits' = {} /\ UNCHANGED <<clusters, leftovers, faults>>
  BY DEF Start
<1>2. sweeps \in 0..MaxSweeps BY <1>0 DEF Shape
<1>3. waiting # "job" BY <1>0, <1>1 DEF Shape, AtItem
<1>4. \A n \in Names : Up(n)' <=> Up(n) BY <1>1 DEF Up
<1>5. \A n \in Names : Up(n) => clusters[n].sweep \in Nat /\ clusters[n].sweep <= sweeps
  <2> SUFFICES ASSUME NEW n \in Names, Up(n)
               PROVE  clusters[n].sweep \in Nat /\ clusters[n].sweep <= sweeps
    OBVIOUS
  <2>1. clusters[n] \in Cluster BY <1>0 DEF Shape, Up
  <2>2. clusters[n].sweep \in 1..MaxSweeps BY <2>1 DEF Cluster
  <2> QED BY <1>0, <2>2, BoundAssumption DEF Owned
<1>6. \A n \in Names : Up(n)' => clusters'[n].sweep < sweeps'
  BY <1>1, <1>2, <1>4, <1>5, BoundAssumption
<1>7. Shape'
  <2>1. sweeps' \in 0..MaxSweeps /\ sweeps' >= 1 BY <1>1, <1>2, BoundAssumption
  <2>2. Len(List') \in Nat /\ item' \in 1..(Len(List') + 1)
    <3>1. SMOKES \in Seq(Rows) /\ PREFLIGHT_IMAGES \in Seq(Images) BY SweepAssumption
    <3>2. Len(SMOKES) \in Nat /\ Len(PREFLIGHT_IMAGES) \in Nat BY <3>1
    <3>3. Len(List') \in Nat BY <3>2 DEF List
    <3> QED BY <1>1, <3>3
  <2>3. imgState' \in [Images -> {"OK", "NG", ""}] BY <1>1, SweepAssumption
  <2>4. results' \in Seq(Verdicts) /\ Len(results') = (IF stage' = "rows" THEN item' - 1 ELSE 0)
    BY <1>1
  <2>5. /\ clusters' \in [Names -> Cluster \cup {NoCluster}]
        /\ faults' \in 0..MaxFaults /\ leftovers' \in 0..faults'
    BY <1>0, <1>1 DEF Shape
  <2> QED BY <1>1, <2>1, <2>2, <2>3, <2>4, <2>5 DEF Shape
<1>8. \A n \in Names : Up(n)' => clusters'[n].sweep <= sweeps' /\ clusters'[n].sweep # sweeps'
  <2>1. sweeps' \in Nat BY <1>1, <1>2
  <2>2. \A n \in Names : Up(n)' => clusters'[n].sweep \in Nat BY <1>1, <1>4, <1>5
  <2> QED BY <1>6, <2>1, <2>2
<1>9. Owned' BY <1>1, <1>8 DEF Owned
<1>10. PassEarned' BY <1>1 DEF PassEarned
<1>11. GateRespected' BY <1>8, RowNames DEF GateRespected
<1>12. NoDeadTraining'
  BY <1>0, <1>1, <1>4 DEF NoDeadTraining
<1>13. Counted'
  <2>1. Others' \subseteq Others BY <1>1, <1>3, <1>4 DEF Others
  <2> QED BY <1>0, <1>1, <2>1, LeftoversNat, Fewer
<1> QED BY <1>7, <1>9, <1>10, <1>11, <1>12, <1>13 DEF SweepInv

\* The script goes on to the next stage, or ends.
LEMMA NextStageInv == SweepInv /\ NextStage => SweepInv'
<1> SUFFICES ASSUME SweepInv, NextStage PROVE SweepInv' OBVIOUS
<1>0. Shape /\ Owned /\ PassEarned /\ Counted BY DEF SweepInv
<1>1. /\ script # "none" /\ item \notin DOMAIN List
      /\ UNCHANGED <<sweeps, device, waiting, imgState, results, clusters, exits, leftovers, faults>>
  BY DEF NextStage
<1>2. waiting = "no" BY <1>0, <1>1 DEF Shape, AtItem
<1>3. \A n \in Names : Up(n)' => Up(n) /\ clusters'[n] = clusters[n] BY <1>1 DEF Up
<1>4. Shape'
  <2>1. CASE stage = "preflight"
    <3>1. stage' = "rows" /\ item' = 1 /\ script' = script BY <2>1 DEF NextStage
    <3>2. SMOKES \in Seq(Rows) BY SweepAssumption
    <3>3. List' = SMOKES /\ Len(SMOKES) \in Nat BY <3>1, <3>2 DEF List
    <3>4. item' \in 1..(Len(List') + 1) BY <3>1, <3>3
    <3>5. Len(results) = 0 BY <1>0, <2>1 DEF Shape
    <3>6. Len(results') = 0 /\ item' - 1 = 0 BY <1>1, <3>1, <3>5
    <3> QED BY <1>0, <1>1, <1>2, <3>1, <3>4, <3>6 DEF Shape
  <2>2. CASE stage # "preflight"
    <3>1. script' = "none" /\ stage' = stage /\ item' = item BY <2>2 DEF NextStage
    <3>2. List' = List BY <3>1 DEF List
    <3> QED BY <1>0, <1>1, <1>2, <3>1, <3>2 DEF Shape
  <2> QED BY <2>1, <2>2
<1>5. script' \in {script, "none"} BY DEF NextStage
<1>6. Owned' BY <1>0, <1>1, <1>2, <1>3, <1>5, Dropped DEF Owned
<1>7. PassEarned' BY <1>0, <1>1 DEF PassEarned
<1>8. Counted'
  <2>1. Others' \subseteq Others BY <1>1, <1>2, <1>3 DEF Others
  <2> QED BY <1>0, <1>1, <2>1, LeftoversNat, Fewer
<1> QED BY <1>1, <1>3, <1>4, <1>5, <1>6, <1>7, <1>8, Dropped DEF SweepInv

\* The verdicts with one more: a PASS has to be earned by the item of the row.
LEMMA OneVerdict ==
  ASSUME Shape, PassEarned, AtItem, stage = "rows", NEW v \in Verdicts,
         results' = Append(results, v), exits' = exits,
         v = "PASS" => <<Name, Image>> \in exits
  PROVE  PassEarned' /\ results' \in Seq(Verdicts) /\ Len(results') = item
<1>1. results \in Seq(Verdicts) /\ Len(results) = item - 1 /\ item \in Nat BY Item DEF Shape
<1>2. /\ Len(results) \in Nat /\ DOMAIN results = 1..Len(results)
      /\ Append(results, v) \in Seq(Verdicts)
      /\ Len(Append(results, v)) = Len(results) + 1
      /\ \A k \in 1..Len(results) : Append(results, v)[k] = results[k]
      /\ Append(results, v)[Len(results) + 1] = v
  BY <1>1
<1>3. Len(results') = item BY <1>1, <1>2
<1>4. DOMAIN results' = 1..item BY <1>2, <1>3
<1>5. ASSUME NEW k \in DOMAIN results', results'[k] = "PASS"
      PROVE  <<NameOf(SMOKES[k]), SMOKES[k].image>> \in exits'
  <2>1. CASE k \in 1..Len(results) BY <1>2, <1>5, <2>1 DEF PassEarned
  <2>2. CASE k = item
    <3>1. v = "PASS" BY <1>1, <1>2, <1>5, <2>2
    <3>2. Name = NameOf(SMOKES[k]) /\ Image = SMOKES[k].image BY <2>2 DEF Name, Image, Row
    <3> QED BY <3>1, <3>2
  <2>3. k \in 1..Len(results) \/ k = item BY <1>1, <1>2, <1>4
  <2> QED BY <2>1, <2>2, <2>3
<1> QED BY <1>2, <1>3, <1>5 DEF PassEarned

\* A row passed over.
LEMMA PassOverInv == SweepInv /\ PassOver => SweepInv'
<1> SUFFICES ASSUME SweepInv, PassOver PROVE SweepInv' OBVIOUS
<1>0. Shape /\ Owned /\ PassEarned /\ Counted BY DEF SweepInv
<1>1. /\ AtItem /\ waiting = "no" /\ stage = "rows" /\ Gate # "go"
      /\ results' = Append(results, Gate) /\ item' = item + 1
      /\ UNCHANGED <<script, sweeps, device, stage, waiting, imgState, clusters, exits, leftovers,
                     faults>>
  BY DEF PassOver, Gated
<1>2. \A n \in Names : Up(n)' => Up(n) /\ clusters'[n] = clusters[n] BY <1>1 DEF Up
<1>3. Gate \in Verdicts /\ Gate # "PASS" BY <1>1 DEF Gate, Verdicts
<1>4. PassEarned' /\ results' \in Seq(Verdicts) /\ Len(results') = item
  BY <1>0, <1>1, <1>3, OneVerdict
<1>5. Shape'
  <2>1. List' = List BY <1>1 DEF List
  <2>2. item' \in 1..(Len(List') + 1) /\ Len(results') = item' - 1
    BY <1>0, <1>1, <1>4, <2>1, Item
  <2> QED BY <1>0, <1>1, <1>4, <2>2 DEF Shape
<1>6. Owned' BY <1>0, <1>1, <1>2, Dropped DEF Owned
<1>7. Counted'
  <2>1. Others' \subseteq Others BY <1>1, <1>2 DEF Others
  <2> QED BY <1>0, <1>1, <2>1, LeftoversNat, Fewer
<1> QED BY <1>1, <1>2, <1>4, <1>5, <1>6, <1>7, Dropped DEF SweepInv

\* A launch that comes to nothing.
LEMMA LaunchFailsInv == SweepInv /\ LaunchFails => SweepInv'
<1> SUFFICES ASSUME SweepInv, LaunchFails PROVE SweepInv' OBVIOUS
<1>0. Shape /\ Owned /\ PassEarned /\ Counted BY DEF SweepInv
<1>1. /\ AtItem /\ waiting = "no" /\ waiting' = "nothing"
      /\ UNCHANGED <<script, sweeps, device, stage, item, imgState, results, clusters, exits,
                     leftovers, faults>>
  BY DEF LaunchFails
<1>2. \A n \in Names : Up(n)' => Up(n) /\ clusters'[n] = clusters[n] BY <1>1 DEF Up
<1>3. List' = List /\ (AtItem' <=> AtItem) BY <1>1 DEF List, AtItem
<1>4. Shape' BY <1>0, <1>1, <1>3 DEF Shape
<1>5. Owned' BY <1>0, <1>1, <1>2, Dropped DEF Owned
<1>6. PassEarned' BY <1>0, <1>1 DEF PassEarned
<1>7. Counted'
  <2>1. Others' \subseteq Others BY <1>1, <1>2 DEF Others
  <2> QED BY <1>0, <1>1, <2>1, LeftoversNat, Fewer
<1> QED BY <1>1, <1>2, <1>4, <1>5, <1>6, <1>7, Dropped DEF SweepInv

\* The script is killed: the cluster it waited for is left over.
LEMMA KillInv == SweepInv /\ KillScript => SweepInv'
<1> SUFFICES ASSUME SweepInv, KillScript PROVE SweepInv' OBVIOUS
<1>0. Shape /\ Owned /\ PassEarned /\ Counted BY DEF SweepInv
<1>1. /\ script' = "none" /\ waiting' = "no" /\ faults < MaxFaults
      /\ faults' = faults + 1 /\ leftovers' = leftovers + 1
      /\ UNCHANGED <<sweeps, device, stage, item, imgState, results, clusters, exits>>
  BY DEF KillScript
<1>2. \A n \in Names : Up(n)' => Up(n) /\ clusters'[n] = clusters[n] BY <1>1 DEF Up
<1>3. Shape'
  <2>1. List' = List BY <1>1 DEF List
  <2>2. faults' \in 0..MaxFaults /\ leftovers' \in 0..faults'
    <3>1. faults \in 0..MaxFaults /\ leftovers \in 0..faults BY <1>0 DEF Shape
    <3> QED BY <1>1, <3>1, BoundAssumption
  <2> QED BY <1>0, <1>1, <2>1, <2>2 DEF Shape
<1>4. Owned' BY <1>0, <1>1, <1>2, Dropped DEF Owned
<1>5. PassEarned' BY <1>0, <1>1 DEF PassEarned
<1>6. Counted'
  <2>1. Others' \subseteq Others \cup {Name} BY <1>1, <1>2 DEF Others
  <2> QED BY <1>0, <1>1, <2>1, OneMore
<1> QED BY <1>1, <1>2, <1>3, <1>4, <1>5, <1>6, Dropped DEF SweepInv

\* sky launch gets as far as a job: the gates have let the row pass.
LEMMA LaunchJobInv == SweepInv /\ LaunchJob => SweepInv'
<1> SUFFICES ASSUME SweepInv, LaunchJob PROVE SweepInv' OBVIOUS
<1>0. Shape /\ Owned /\ PassEarned /\ GateRespected /\ NoDeadTraining /\ Counted BY DEF SweepInv
<1>1. PICK t \in Torches :
        clusters' = [clusters EXCEPT ![Name] =
          [image |-> Image, torch |-> t, device |-> device, sweep |-> sweeps, job |-> "queued"]]
  BY DEF LaunchJob
<1>2. /\ AtItem /\ waiting = "no" /\ ~Gated /\ waiting' = "job"
      /\ UNCHANGED <<script, sweeps, device, stage, item, imgState, results, exits, leftovers,
                     faults>>
  BY DEF LaunchJob
<1>3. Name \in Names /\ Image \in Images BY <1>0, <1>2, Item
<1>4. sweeps \in 1..MaxSweeps /\ device \in Devices
  <2>1. sweeps \in 0..MaxSweeps /\ sweeps >= 1 /\ device \in Devices
    BY <1>0, <1>2 DEF Shape, AtItem
  <2> QED BY <2>1, BoundAssumption
<1>5. clusters \in [Names -> Cluster \cup {NoCluster}] BY <1>0 DEF Shape
<1>6. /\ clusters'[Name] = [image |-> Image, torch |-> t, device |-> device, sweep |-> sweeps,
                            job |-> "queued"]
      /\ \A n \in Names : n # Name => clusters'[n] = clusters[n]
  BY <1>1, <1>3, <1>5
<1>7. clusters'[Name] \in Cluster BY <1>3, <1>4, <1>6 DEF Cluster, JobStates
<1>8. Name' = Name /\ Image' = Image /\ List' = List /\ (AtItem' <=> AtItem)
  BY <1>2 DEF Name, Image, List, AtItem, Row
<1>9. \A n \in Names : n # Name => (Up(n)' <=> Up(n)) BY <1>6 DEF Up
<1>10. Shape'
  <2>1. clusters' \in [Names -> Cluster \cup {NoCluster}]
    <3> DEFINE c == [image |-> Image, torch |-> t, device |-> device, sweep |-> sweeps,
                     job |-> "queued"]
    <3>1. c \in Cluster BY <1>6, <1>7
    <3>2. clusters' = [clusters EXCEPT ![Name] = c] BY <1>1
    <3> HIDE DEF c
    <3> QED BY <1>5, <3>1, <3>2
  <2> QED BY <1>0, <1>2, <1>8, <2>1 DEF Shape
<1>11. Owned'
  <2>1. \A n \in Names : Up(n)' => clusters'[n].sweep <= sweeps'
    <3> SUFFICES ASSUME NEW n \in Names, Up(n)' PROVE clusters'[n].sweep <= sweeps' OBVIOUS
    <3>1. CASE n = Name
      <4>1. clusters'[n].sweep = sweeps' BY <1>2, <1>6, <3>1
      <4> QED BY <1>2, <1>4, <4>1
    <3>2. CASE n # Name BY <1>0, <1>2, <1>6, <1>9, <3>2 DEF Owned
    <3> QED BY <3>1, <3>2
  <2>2. \A n \in Names : Up(n)' /\ clusters'[n].sweep = sweeps' /\ clusters'[n].job = "ok"
                           => <<n, clusters'[n].image>> \in exits'
    BY <1>0, <1>2, <1>6, <1>9 DEF Owned
  <2>3. clusters'[Name'].sweep = sweeps' /\ clusters'[Name'].image = Image'
    BY <1>2, <1>6, <1>8
  <2> QED BY <1>0, <1>2, <2>1, <2>2, <2>3 DEF Owned
<1>12. PassEarned' BY <1>0, <1>2 DEF PassEarned
<1>13. GateRespected'
  <2> SUFFICES ASSUME NEW row \in Rows, script = "staged", Up(NameOf(row))',
                      clusters'[NameOf(row)].sweep = sweeps
               PROVE  /\ NameOf(row) \notin SKIP
                      /\ KnownState[row.image] = "OK" \/ <<PF, row.image>> \in exits
    BY <1>2 DEF GateRespected
  <2>1. NameOf(row) \in Names /\ NameOf(row) # PF BY RowNames
  <2>2. CASE NameOf(row) # Name BY <1>0, <1>6, <1>9, <2>1, <2>2 DEF GateRespected
  <2>3. CASE NameOf(row) = Name
    <3>1. stage = "rows" BY <1>0, <1>2, <2>1, <2>3, Item DEF Shape
    <3>2. Row \in Rows /\ Name = NameOf(Row) BY <1>0, <1>2, <3>1, Item
    <3>3. row = Row BY <2>3, <3>2, SweepAssumption
    <3>4. NameOf(Row) \notin SKIP /\ imgState[Row.image] = "OK" BY <1>2, <3>1 DEF Gated, Gate
    <3>5. Row.image \in Images BY <3>2, SweepAssumption
    <3> QED BY <1>0, <3>3, <3>4, <3>5 DEF Owned
  <2> QED BY <2>2, <2>3
<1>14. NoDeadTraining'
  <2> SUFFICES ASSUME NEW k \in Names, Up(k)', clusters'[k].job = "trains",
                      clusters'[k].torch.imports, clusters'[k].torch.cuda
               PROVE  \E e \in clusters'[k].torch.archs : CudaRuns(e, clusters'[k].device)
    BY DEF NoDeadTraining
  <2>1. k # Name BY <1>6
  <2> QED BY <1>0, <1>6, <1>9, <2>1 DEF NoDeadTraining
<1>15. Counted'
  <2>1. Others' \subseteq Others BY <1>2, <1>8, <1>9 DEF Others
  <2> QED BY <1>0, <1>2, <2>1, LeftoversNat, Fewer
<1> QED BY <1>10, <1>11, <1>12, <1>13, <1>14, <1>15 DEF SweepInv

\* sky launch returns: the verdict is about the job of this item.
LEMMA LaunchReturnsInv ==
  ASSUME SweepInv, NEW fails \in BOOLEAN, LaunchReturns(fails)
  PROVE  SweepInv'
<1>0. Shape /\ Owned /\ PassEarned /\ Counted BY DEF SweepInv
<1>1. /\ AtItem /\ waiting # "no" /\ (fails => faults < MaxFaults)
      /\ clusters' = Down(fails)
      /\ leftovers' = leftovers + (IF fails THEN 1 ELSE 0)
      /\ faults' = faults + (IF fails THEN 1 ELSE 0)
      /\ item' = item + 1 /\ waiting' = "no"
      /\ UNCHANGED <<script, sweeps, device, stage, exits>>
  BY DEF LaunchReturns
<1>2. Name \in Names /\ Image \in Images BY <1>0, <1>1, Item
<1>3. clusters \in [Names -> Cluster \cup {NoCluster}] BY <1>0 DEF Shape
<1>4. clusters' = clusters \/ clusters' = [clusters EXCEPT ![Name] = NoCluster]
  BY <1>1 DEF Down
<1>5. \A n \in Names : Up(n)' => Up(n) /\ clusters'[n] = clusters[n] BY <1>3, <1>4 DEF Up
<1>6. Passed => <<Name, Image>> \in exits BY <1>0, <1>2 DEF Passed, Owned
<1>7. PassEarned' /\ results' \in Seq(Verdicts)
      /\ Len(results') = (IF stage = "rows" THEN item ELSE 0)
  <2>1. CASE stage = "preflight"
    <3>1. results' = results BY <2>1 DEF LaunchReturns
    <3>2. results \in Seq(Verdicts) /\ Len(results) = 0 BY <1>0, <2>1 DEF Shape
    <3> QED BY <1>0, <1>1, <2>1, <3>1, <3>2 DEF PassEarned
  <2>2. CASE stage = "rows"
    <3> DEFINE v == IF Passed THEN "PASS" ELSE "FAIL"
    <3>1. results' = Append(results, v) BY <2>2 DEF LaunchReturns
    <3>2. v \in Verdicts /\ (v = "PASS" => <<Name, Image>> \in exits) BY <1>6 DEF Verdicts
    <3> HIDE DEF v
    <3> QED BY <1>0, <1>1, <2>2, <3>1, <3>2, OneVerdict
  <2> QED BY <1>0, <2>1, <2>2 DEF Shape
<1>8. /\ imgState' \in [Images -> {"OK", "NG", ""}]
      /\ \A i \in Images : imgState'[i] = "OK" => KnownState[i] = "OK" \/ <<PF, i>> \in exits'
  <2>0. imgState \in [Images -> {"OK", "NG", ""}] BY <1>0 DEF Shape
  <2>1. CASE stage = "preflight"
    <3>1. imgState' = [imgState EXCEPT ![Image] = IF Passed THEN "OK" ELSE "NG"]
      BY <2>1 DEF LaunchReturns
    <3>2. Passed => <<PF, Image>> \in exits BY <1>0, <1>1, <1>6, <2>1, Item
    <3>3. \A i \in Images : imgState'[i] = "OK" => KnownState[i] = "OK" \/ <<PF, i>> \in exits
      <4> SUFFICES ASSUME NEW i \in Images, imgState'[i] = "OK"
                   PROVE  KnownState[i] = "OK" \/ <<PF, i>> \in exits
        OBVIOUS
      <4>1. CASE i = Image BY <2>0, <3>1, <3>2, <4>1
      <4>2. CASE i # Image BY <1>0, <2>0, <3>1, <4>2 DEF Owned
      <4> QED BY <4>1, <4>2
    <3> QED BY <1>1, <2>0, <3>1, <3>3
  <2>2. CASE stage = "rows"
    <3>1. imgState' = imgState BY <2>2 DEF LaunchReturns
    <3> QED BY <1>0, <1>1, <2>0, <3>1 DEF Owned
  <2> QED BY <1>0, <2>1, <2>2 DEF Shape
<1>9. Shape'
  <2>1. List' = List BY <1>1 DEF List
  <2>2. item \in Nat /\ item' \in 1..(Len(List') + 1) BY <1>0, <1>1, <2>1, Item
  <2>3. Len(results') = (IF stage' = "rows" THEN item' - 1 ELSE 0) BY <1>1, <1>7, <2>2
  <2>4. clusters' \in [Names -> Cluster \cup {NoCluster}] BY <1>3, <1>4
  <2>5. faults' \in 0..MaxFaults /\ leftovers' \in 0..faults'
    <3>1. faults \in 0..MaxFaults /\ leftovers \in 0..faults BY <1>0 DEF Shape
    <3>2. CASE fails BY <1>1, <3>1, <3>2, BoundAssumption
    <3>3. CASE ~fails BY <1>1, <3>1, <3>3, BoundAssumption
    <3> QED BY <3>2, <3>3
  <2>6. waiting' \in {"no", "job", "nothing"} /\ (waiting' # "no" => AtItem') BY <1>1
  <2> QED BY <1>0, <1>1, <1>7, <1>8, <2>2, <2>3, <2>4, <2>5, <2>6 DEF Shape
<1>10. Owned' BY <1>0, <1>1, <1>5, <1>8, Dropped DEF Owned
<1>11. Counted'
  <2>1. CASE fails
    <3>1. Others' \subseteq Others \cup {Name} BY <1>1, <1>5 DEF Others
    <3>2. leftovers' = leftovers + 1 BY <1>1, <2>1
    <3> QED BY <1>0, <3>1, <3>2, OneMore
  <2>2. CASE ~fails
    <3>1. clusters'[Name] = NoCluster BY <1>1, <1>2, <1>3, <2>2 DEF Down
    <3>2. Others' \subseteq Others BY <1>1, <1>5, <3>1 DEF Others, Up
    <3>3. leftovers \in Nat BY <1>0, LeftoversNat
    <3>4. leftovers' = leftovers BY <1>1, <2>2, <3>3
    <3> QED BY <1>0, <3>2, <3>3, <3>4, Fewer
  <2> QED BY <2>1, <2>2
<1> QED BY <1>1, <1>5, <1>7, <1>9, <1>10, <1>11, Dropped DEF SweepInv

-------------------------------------------------------------------------------
\* SweepInv is inductive.
LEMMA SweepInvNext == SweepInv /\ [SweepNext]_sweepVars => SweepInv'
<1> SUFFICES ASSUME SweepInv, [SweepNext]_sweepVars PROVE SweepInv' OBVIOUS
<1>0. Shape /\ GateRespected BY DEF SweepInv
<1>1. ASSUME NEW s \in {"staged", "plain"}, NEW d \in Devices, Start(s, d) PROVE SweepInv'
  BY <1>1, StartInv
<1>2. CASE ScriptStep
  BY <1>2, NextStageInv, PassOverInv, LaunchFailsInv, LaunchJobInv, LaunchReturnsInv DEF ScriptStep
<1>3. CASE LaunchReturns(TRUE) BY <1>3, LaunchReturnsInv
<1>4. CASE KillScript BY <1>4, KillInv
<1>5. CASE JobReports
  <2>1. Up(PF) /\ PF \in Names BY <1>5, RowNames DEF JobReports
  <2>2. CASE Exits(PF, "failed") BY <2>1, <2>2, ExitsInv DEF JobStates
  <2>3. CASE Exits(PF, "ok") BY <2>1, <2>3, ExitsInv DEF JobStates
  <2> QED BY <1>5, <2>2, <2>3 DEF JobReports
<1>6. ASSUME NEW row \in Rows, JobStarts(row) PROVE SweepInv'
  <2>1. Up(NameOf(row)) /\ NameOf(row) \in Names BY <1>6, RowNames DEF JobStarts
  <2>2. CASE Exits(NameOf(row), "failed") BY <2>1, <2>2, ExitsInv DEF JobStates
  <2>3. CASE /\ check_gpu_arch(clusters[NameOf(row)].torch, clusters[NameOf(row)].device)
             /\ Exits(NameOf(row), "trains")
    BY <2>1, <2>3, ExitsInv DEF JobStates
  <2> QED BY <1>6, <2>2, <2>3 DEF JobStarts
<1>7. ASSUME NEW row \in Rows, JobEnds(row) PROVE SweepInv'
  <2>1. Up(NameOf(row)) /\ NameOf(row) \in Names BY <1>7, RowNames DEF JobEnds
  <2>2. PICK job \in {"ok", "failed"} : Exits(NameOf(row), job) BY <1>7 DEF JobEnds
  <2>3. job \in JobStates /\ job # "trains" BY DEF JobStates
  <2> QED BY <2>1, <2>2, <2>3, ExitsInv
<1>8. ASSUME NEW n \in Names, Preempt(n) PROVE SweepInv'
  <2>1. faults + 1 <= MaxFaults
    <3>1. faults \in 0..MaxFaults /\ faults < MaxFaults BY <1>0, <1>8 DEF Shape, Preempt
    <3> QED BY <3>1, BoundAssumption
  <2> QED BY <1>8, <2>1, GoneInv DEF Preempt
<1>9. ASSUME NEW n \in Names, Autodown(n) PROVE SweepInv'
  <2>1. faults <= MaxFaults
    <3>1. faults \in 0..MaxFaults BY <1>0 DEF Shape
    <3> QED BY <3>1, BoundAssumption
  <2> QED BY <1>9, <2>1, GoneInv DEF Autodown
<1>10. CASE UNCHANGED sweepVars
  <2>1. \A n \in Names : Up(n)' => Up(n) /\ clusters'[n] = clusters[n]
    BY <1>10 DEF sweepVars, Up
  <2>2. Shape' BY <1>0, <1>10 DEF sweepVars, Shape, List, AtItem
  <2>3. Owned'
    BY <1>10 DEF sweepVars, SweepInv, Owned, Up, Name, Image, Row
  <2>4. PassEarned' BY <1>10 DEF sweepVars, SweepInv, PassEarned
  <2>5. Counted' BY <1>10 DEF sweepVars, SweepInv, Counted, Others, Up, Name, Row
  <2>6. GateRespected' /\ NoDeadTraining' BY <1>10, <2>1, Dropped DEF sweepVars
  <2> QED BY <2>2, <2>3, <2>4, <2>5, <2>6 DEF SweepInv
<1>11. CASE JobStep BY <1>5, <1>6, <1>7, <1>11 DEF JobStep
<1> QED BY <1>1, <1>2, <1>3, <1>4, <1>8, <1>9, <1>10, <1>11 DEF SweepNext

\* SweepInv is an invariant of both sweeps.
THEOREM SweepInductive == SweepSpec => []SweepInv
BY SweepInvInit, SweepInvNext, PTL DEF SweepSpec

\* The types; as many verdicts as rows gone through.
THEOREM SweepTyped == SweepSpec => []SweepTypeOK
<1>1. Shape => SweepTypeOK
  <2> SUFFICES ASSUME Shape PROVE SweepTypeOK OBVIOUS
  <2>1. \A n \in Names : Up(n) => clusters[n] \in Cluster BY DEF Shape, Up
  <2>2. leftovers \in 0..MaxFaults
    <3>1. faults \in 0..MaxFaults /\ leftovers \in 0..faults BY DEF Shape
    <3> QED BY <3>1, BoundAssumption
  <2> QED BY <2>1, <2>2 DEF Shape, SweepTypeOK
<1> QED BY <1>1, SweepInductive, PTL DEF SweepInv

\* run1: a PASS is a job of this sweep that exited 0 on the image of the row.
THEOREM PassesEarned == SweepSpec => []PassEarned
<1>1. SweepInv => PassEarned BY DEF SweepInv
<1> QED BY <1>1, SweepInductive, PTL

\* The gates of stage 2: no machine for a known wall, or for an image that no one
\* knows to be good.
THEOREM GatesHold == SweepSpec => []GateRespected
<1>1. SweepInv => GateRespected BY DEF SweepInv
<1> QED BY <1>1, SweepInductive, PTL

\* arch_supported before train(): no training on a GPU without a kernel.
THEOREM NoneTrainsDead == SweepSpec => []NoDeadTraining
<1>1. SweepInv => NoDeadTraining BY DEF SweepInv
<1> QED BY <1>1, SweepInductive, PTL

\* sky launch and sky down by turns: no more clusters are up than were left over,
\* and the one that is waited for.
THEOREM LaunchesSerial == SweepSpec => []SerialLaunches
<1>1. SweepInv => SerialLaunches
  <2> SUFFICES ASSUME SweepInv PROVE SerialLaunches OBVIOUS
  <2> DEFINE Ups == {n \in Names : Up(n)}
  <2>0. Shape /\ Cardinality(Others) <= leftovers BY DEF SweepInv, Counted
  <2>1. IsFiniteSet(Names) BY SweepAssumption
  <2>2. Others \in SUBSET Names /\ Ups \in SUBSET Names BY DEF Others
  <2>3. IsFiniteSet(Others) /\ IsFiniteSet(Ups) BY <2>1, <2>2, FS_Subset
  <2>4. Cardinality(Others) \in Nat /\ Cardinality(Ups) \in Nat BY <2>3, FS_CardinalityType
  <2>5. leftovers \in Nat BY <2>0, LeftoversNat
  <2>6. CASE waiting = "job"
    <3>1. Ups \in SUBSET (Others \cup {Name}) BY DEF Others
    <3>2. /\ IsFiniteSet(Others \cup {Name})
          /\ Cardinality(Others \cup {Name}) <= Cardinality(Others) + 1
      <4>1. \A S, x : IsFiniteSet(S) => /\ IsFiniteSet(S \cup {x})
                                        /\ Cardinality(S \cup {x}) \in {Cardinality(S), Cardinality(S) + 1}
        BY FS_AddElement
      <4>2. /\ IsFiniteSet(Others \cup {Name})
            /\ Cardinality(Others \cup {Name}) \in {Cardinality(Others), Cardinality(Others) + 1}
        BY <2>3, <4>1
      <4> QED BY <2>4, <4>2
    <3>3. Cardinality(Others \cup {Name}) \in Nat BY <3>2, FS_CardinalityType
    <3>4. Cardinality(Ups) <= Cardinality(Others \cup {Name}) BY <3>1, <3>2, FS_Subset
    <3>5. Cardinality(Ups) <= leftovers + 1 BY <2>0, <2>4, <2>5, <3>2, <3>3, <3>4
    <3> QED BY <2>6, <3>5 DEF SerialLaunches
  <2>7. CASE waiting # "job"
    <3>1. Ups = Others BY <2>7 DEF Others
    <3>2. Cardinality(Ups) <= leftovers + 0 BY <2>0, <2>4, <2>5, <3>1
    <3> QED BY <2>7, <3>2 DEF SerialLaunches
  <2> QED BY <2>6, <2>7
<1> QED BY <1>1, SweepInductive, PTL
=============================================================================
