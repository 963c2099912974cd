-------------------------------- MODULE Sweep --------------------------------
(***************************************************************************)
(* sky/snsg_full_sweep.sh and sky/snsg_sweep.sh: smoke runs of a list of   *)
(* cells, one cluster after the other on rented machines.                  *)
(*                                                                         *)
(* The full ("staged") sweep first runs the preflight task on the images   *)
(* whose state is unknown, all on clusters of one name, then launches the  *)
(* rows whose image passed and which are no known wall.  The other         *)
(* ("plain") sweep launches every row.  Both take a cluster down after     *)
(* each launch and ignore whether that worked; a cluster left over takes   *)
(* itself down when it has been idle (-i IDLE --down).                     *)
(*                                                                         *)
(* A shell's own bookkeeping is done in the step that ends a command.  The *)
(* script may be killed, and run again, while its clusters and their jobs  *)
(* live on.  SkyPilot and the cloud are external, modelled by what the     *)
(* scripts rely on: a launch gets no machine, or one with whatever the     *)
(* image holds today, or reuses the cluster of that name if it has the     *)
(* same image and is refused if not.                                       *)
(***************************************************************************)
EXTENDS Cells, FiniteSets, Preflight

CONSTANTS
  SMOKES,            \* the rows: [method, framework, image, nodes, task, config]; the
                     \* last two: whether the files of that name exist
  SKIP,              \* <<method, framework>> of the known walls
  PREFLIGHT_IMAGES,  \* the images to test, in order
  KnownState,        \* image -> "OK", "NG" or "", as written in the script
  Torches,           \* what the torch of an image may turn out to be
  Devices,           \* the GPUs a user may ask for
  NoCluster,
  MaxSweeps,         \* bound: how often a script is started
  MaxFaults          \* bound: kills, failed downs and preemptions

PF == <<"tfct", "pf">>
NameOf(row) == <<row.method, row.framework>>
Rows == {SMOKES[k] : k \in DOMAIN SMOKES}
Names == {PF} \cup {NameOf(row) : row \in Rows}
Images == DOMAIN KnownState

ASSUME SweepAssumption ==
  /\ SMOKES \in Seq(Rows) /\ PREFLIGHT_IMAGES \in Seq(Images)
  /\ \A row \in Rows : row.image \in Images /\ NameOf(row) # PF
  /\ \A r1, r2 \in Rows : NameOf(r1) = NameOf(r2) => r1 = r2
  /\ IsFiniteSet(Names)
  /\ KnownState \in [Images -> {"OK", "NG", ""}]
  /\ \A t \in Torches : \A e \in t.archs : e.kind \in {"sm", "compute"} /\ e.num \in Nat
  /\ Devices \subseteq Nat /\ Devices # {}

ASSUME BoundAssumption == MaxSweeps \in Nat /\ MaxFaults \in Nat

VARIABLES
  script,      \* "none", "staged" or "plain": the script that runs
  sweeps,      \* how many were started
  device,      \* its GPU argument
  stage,       \* "preflight" or "rows"
  item,        \* the index in that stage's list
  waiting,     \* "no", or what sky launch has come to: a "job", or "nothing"
  imgState,    \* IMG_STATE
  results,     \* RESULTS: the verdict on each row so far
  clusters,    \* cluster name -> what runs there, or NoCluster
  exits,       \* history: <<name, image>> of this sweep's jobs that exited 0
  leftovers,   \* history: how often a cluster was left up
  faults       \* bound: faults so far

sweepVars == <<script, sweeps, device, stage, item, waiting, imgState, results, clusters,
               exits, leftovers, faults>>

JobStates == {"queued", "trains", "ok", "failed"}
Cluster == [image: Images, torch: Torches, device: Devices, sweep: 1..MaxSweeps,
            job: JobStates]
Verdicts == {"PASS", "FAIL", "SKIP", "IMG"}

SweepInit ==
  /\ script = "none" /\ sweeps = 0 /\ stage = "rows" /\ item = 1 /\ waiting = "no"
  /\ device = CHOOSE d \in Devices : TRUE
  /\ imgState = KnownState /\ results = <<>>
  /\ clusters = [n \in Names |-> NoCluster]
  /\ exits = {} /\ leftovers = 0 /\ faults = 0

Up(n) == clusters[n] # NoCluster
Busy(n) == Up(n) /\ clusters[n].job \in {"queued", "trains"}
List == IF stage = "preflight" THEN PREFLIGHT_IMAGES ELSE SMOKES
AtItem == script # "none" /\ item \in DOMAIN List
Row == SMOKES[item]
Name == IF stage = "preflight" THEN PF ELSE NameOf(Row)
Image == IF stage = "preflight" THEN PREFLIGHT_IMAGES[item] ELSE Row.image

\* A script is started, on some GPU.
Start(s, d) ==
  /\ script = "none" /\ sweeps < MaxSweeps
  /\ script' = s /\ sweeps' = sweeps + 1 /\ device' = d
  /\ stage' = (IF s = "staged" THEN "preflight" ELSE "rows")
  /\ item' = 1 /\ waiting' = "no" /\ imgState' = KnownState /\ results' = <<>>
  /\ exits' = {}
  /\ UNCHANGED <<clusters, leftovers, faults>>

\* Stage 1 is over; the last row is done.
NextStage ==
  /\ script # "none" /\ item \notin DOMAIN List
  /\ IF stage = "preflight" THEN stage' = "rows" /\ item' = 1 /\ UNCHANGED script
                            ELSE script' = "none" /\ UNCHANGED <<stage, item>>
  /\ UNCHANGED <<sweeps, device, waiting, imgState, results, clusters, exits, leftovers, faults>>

\* Mutant: the state of the image is not asked for.
GateSkipOnly == IF NameOf(Row) \in SKIP THEN "SKIP" ELSE "go"

\* The two gates of stage 2, in their order.
Gate ==
  IF NameOf(Row) \in SKIP THEN "SKIP" ELSE IF imgState[Row.image] # "OK" THEN "IMG" ELSE "go"

Gated == script = "staged" /\ stage = "rows" /\ Gate # "go"

\* Mutant: the loop does not move on from a refused row.
PassOverAgain ==
  /\ AtItem /\ waiting = "no" /\ Gated
  /\ results' = Append(results, Gate)
  /\ UNCHANGED <<script, sweeps, device, stage, item, waiting, imgState, clusters, exits,
                 leftovers, faults>>

\* A row that a gate refuses: recorded, not launched.
PassOver ==
  /\ AtItem /\ waiting = "no" /\ Gated
  /\ results' = Append(results, Gate) /\ item' = item + 1
  /\ UNCHANGED <<script, sweeps, device, stage, waiting, imgState, clusters, exits, leftovers,
                 faults>>

\* sky launch -c name: a task file that does not exist, no capacity, or a
\* cluster of that name with another image end it without a job.
LaunchFails ==
  /\ AtItem /\ waiting = "no" /\ ~Gated
  /\ waiting' = "nothing"
  /\ UNCHANGED <<script, sweeps, device, stage, item, imgState, results, clusters, exits,
                 leftovers, faults>>

\* sky launch on a new cluster, or on the one of that name once its job is over:
\* it reads the task file and hands on the name of the config.
LaunchJob ==
  /\ AtItem /\ waiting = "no" /\ ~Gated
  /\ stage = "rows" => Row.task
  /\ \E t \in Torches :
       /\ IF Up(Name)
          THEN /\ ~Busy(Name)
               /\ clusters[Name].image = Image /\ clusters[Name].device = device
               /\ t = clusters[Name].torch
          ELSE TRUE
       /\ clusters' = [clusters EXCEPT ![Name] =
            [image |-> Image, torch |-> t, device |-> device, sweep |-> sweeps, job |-> "queued"]]
  /\ waiting' = "job"
  /\ UNCHANGED <<script, sweeps, device, stage, item, imgState, results, exits, leftovers, faults>>

Exits(n, job) ==
  /\ clusters' = [clusters EXCEPT ![n].job = job]
  /\ exits' = (IF job = "ok" /\ clusters[n].sweep = sweeps
               THEN exits \cup {<<n, clusters[n].image>>} ELSE exits)
  /\ UNCHANGED <<script, sweeps, device, stage, item, waiting, imgState, results, leftovers, faults>>

\* The preflight task reports; its setup may have failed before that.
JobReports ==
  /\ Up(PF) /\ clusters[PF].job = "queued"
  /\ \/ Exits(PF, "failed")
     \/ /\ report(clusters[PF].torch, clusters[PF].device) = 0
        /\ Exits(PF, "ok")

\* A row's job reads its config and comes to dispatch(): it trains if the gates
\* let it, or fails.
JobStarts(row) ==
  LET n == NameOf(row) IN
  /\ Up(n) /\ clusters[n].job = "queued"
  /\ \/ Exits(n, "failed")
     \/ /\ row.config /\ DispatchOK(row) /\ check_gpu_arch(clusters[n].torch, clusters[n].device)
        /\ Exits(n, "trains")

JobEnds(row) ==
  LET n == NameOf(row) IN
  /\ Up(n) /\ clusters[n].job = "trains"
  /\ \E job \in {"ok", "failed"} : Exits(n, job)

\* Mutant: the status is that of the last command, `sky down ... || true`.
PassedAlways == TRUE

\* The status of run1 is that of sky launch: of its job, if it came to one.
Passed == waiting = "job" /\ Up(Name) /\ clusters[Name].job = "ok"

\* Mutant: sky down runs only after a launch that worked.
DownIfPassed(fails) == IF fails \/ ~Passed THEN clusters ELSE [clusters EXCEPT ![Name] = NoCluster]

\* sky down name -y || true
Down(fails) == IF fails THEN clusters ELSE [clusters EXCEPT ![Name] = NoCluster]

\* sky launch returns, the cluster goes down or not, the verdict is recorded.
LaunchReturns(fails) ==
  /\ AtItem /\ waiting # "no"
  /\ waiting = "job" => ~Busy(Name)
  /\ fails => faults < MaxFaults /\ Up(Name)
  /\ clusters' = Down(fails)
  /\ leftovers' = leftovers + (IF fails THEN 1 ELSE 0)
  /\ faults' = faults + (IF fails THEN 1 ELSE 0)
  /\ IF stage = "preflight"
     THEN /\ imgState' = [imgState EXCEPT ![Image] = IF Passed THEN "OK" ELSE "NG"]
          /\ UNCHANGED results
     ELSE /\ results' = Append(results, IF Passed THEN "PASS" ELSE "FAIL")
          /\ UNCHANGED imgState
  /\ item' = item + 1 /\ waiting' = "no"
  /\ UNCHANGED <<script, sweeps, device, stage, exits>>

\* The script is killed: what it has launched stays.
KillScript ==
  /\ script # "none" /\ faults < MaxFaults
  /\ script' = "none" /\ waiting' = "no"
  /\ faults' = faults + 1 /\ leftovers' = leftovers + 1
  /\ UNCHANGED <<sweeps, device, stage, item, imgState, results, clusters, exits>>

\* A spot machine is taken away.
Preempt(n) ==
  /\ Up(n) /\ faults < MaxFaults
  /\ clusters' = [clusters EXCEPT ![n] = NoCluster] /\ faults' = faults + 1
  /\ UNCHANGED <<script, sweeps, device, stage, item, waiting, imgState, results, exits, leftovers>>

\* Mutant: a launch without --down: an idle cluster stays up.
AutodownNever(n) == FALSE /\ UNCHANGED sweepVars

\* -i IDLE --down: an idle cluster takes itself down.  It does not overtake the
\* return of the launch that waits for its job.
Autodown(n) ==
  /\ Up(n) /\ ~Busy(n)
  /\ ~(AtItem /\ waiting = "job" /\ n = Name)
  /\ clusters' = [clusters EXCEPT ![n] = NoCluster]
  /\ UNCHANGED <<script, sweeps, device, stage, item, waiting, imgState, results, exits,
                 leftovers, faults>>

ScriptStep == NextStage \/ PassOver \/ LaunchFails \/ LaunchJob \/ LaunchReturns(FALSE)
JobStep == JobReports \/ \E row \in Rows : JobStarts(row) \/ JobEnds(row)

SweepNext ==
  \/ \E s \in {"staged", "plain"}, d \in Devices : Start(s, d)
  \/ ScriptStep \/ LaunchReturns(TRUE) \/ KillScript
  \/ JobStep
  \/ \E n \in Names : Preempt(n) \/ Autodown(n)

SweepSpec == SweepInit /\ [][SweepNext]_sweepVars

-------------------------------------------------------------------------------
\* What CUDA promises: a native kernel runs on its own major architecture from
\* its minor on, PTX on any later device.
CudaRuns(entry, dev) ==
  /\ entry.num <= dev
  /\ entry.kind = "sm" => entry.num \div 10 = dev \div 10

\* Types; the verdicts recorded are those of the rows gone through.
SweepTypeOK ==
  /\ script \in {"none", "staged", "plain"} /\ sweeps \in 0..MaxSweeps /\ device \in Devices
  /\ stage \in {"preflight", "rows"} /\ item \in 1..(Len(List) + 1)
  /\ waiting \in {"no", "job", "nothing"}
  /\ imgState \in [Images -> {"OK", "NG", ""}]
  /\ results \in Seq(Verdicts) /\ (stage = "rows" => Len(results) = item - 1)
  /\ \A n \in Names : Up(n) => clusters[n] \in Cluster
  /\ faults \in 0..MaxFaults /\ leftovers \in 0..MaxFaults

\* A PASS stands for a job of this sweep that exited 0 on the row's own image,
\* whatever failed downs and killed sweeps have left behind.
PassEarned ==
  \A k \in DOMAIN results :
    results[k] = "PASS" => <<NameOf(SMOKES[k]), SMOKES[k].image>> \in exits

\* The staged sweep spends no machine on a row that is a known wall, or whose
\* image was neither known to be good nor found good by a job of this sweep.
GateRespected ==
  \A row \in Rows :
    script = "staged" /\ Up(NameOf(row)) /\ clusters[NameOf(row)].sweep = sweeps
      => /\ NameOf(row) \notin SKIP
         /\ KnownState[row.image] = "OK" \/ <<PF, row.image>> \in exits

\* No cell trains on a GPU that its torch has no kernel for, however stale the
\* states written in the script are for the GPU asked for and for the image.
NoDeadTraining ==
  \A n \in Names :
    Up(n) /\ clusters[n].job = "trains" /\ clusters[n].torch.imports /\ clusters[n].torch.cuda
      => \E e \in clusters[n].torch.archs : CudaRuns(e, clusters[n].device)

\* Launches are serial: beside the cluster a script waits for, only those are up
\* that a failed sky down or a killed script has left.
SerialLaunches ==
  Cardinality({n \in Names : Up(n)}) <= leftovers + (IF waiting = "job" THEN 1 ELSE 0)

\* Whatever fails, in the end no machine is up.
AllDown == <>[](\A n \in Names : ~Up(n))

\* A shell that is not killed goes on, jobs come to an end, idle clusters go down.
SweepFairness ==
  /\ WF_sweepVars(ScriptStep)
  /\ WF_sweepVars(JobStep)
  /\ WF_sweepVars(\E n \in Names : Autodown(n))
=============================================================================
