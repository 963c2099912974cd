-------------------------------- MODULE Launch --------------------------------
(***************************************************************************)
(* One config launched on a SkyPilot cluster.  SkyPilot runs the same      *)
(* block on every node; what happens then depends on the cell:             *)
(*   direct  every node runs tfct-run, and train() starts its own torchrun *)
(*   hf      every node runs torchrun around tfct-run                      *)
(*           (sky/hf_torchrun_launch.sh)                                   *)
(*   ray     the head alone runs tfct-run, on a ray cluster of the nodes   *)
(*           (sky/ray_bootstrap.sh, modelled in RayBootstrap)              *)
(* Each node goes through the program of its trainer (Cells).  A job may   *)
(* be killed at any point and the same experiment launched again on the    *)
(* same machines, where its working directory still is: one per node, or a *)
(* shared one.                                                             *)
(***************************************************************************)
EXTENDS Cells, FiniteSets

CONSTANTS
  Nodes,        \* the machines
  HeadNode,     \* the one of rank 0
  Configs,      \* the configs a user may launch
  SharedFS,     \* whether output.local_dir is on a shared file system
  MaxJobs       \* bound: jobs launched

ASSUME NodesAssumption   == HeadNode \in Nodes /\ IsFiniteSet(Nodes)
ASSUME SharedAssumption  == SharedFS \in BOOLEAN
ASSUME MaxJobsAssumption == MaxJobs \in Nat

VARIABLES
  job,          \* the job: number, config, nodes provisioned, launched by SkyPilot?
  pc,           \* per node: where its copy of the run block is
  k,            \* per node: the step of the trainer to be done next
  own_head,     \* whether the driver has started a ray head of its own
  fits,         \* the groups of nodes that have started a training run in this job
  seed,         \* per working directory: the converted seed
  shards,       \* per working directory: node -> job that wrote its shard of the checkpoint
  exported      \* the exports to hf in this job: by whom, from which shards

vars == <<job, pc, k, own_head, fits, seed, shards, exported>>
files == <<seed, shards, exported>>

cfg == job.cfg
program == TrainerOf(cfg).steps
LaunchedBy == IF Uses(cfg, "ray") THEN "ray" ELSE IF Uses(cfg, "hf") THEN "hf" ELSE "direct"

\* The node whose disk holds n's working directory.
Site(n) == IF SharedFS THEN HeadNode ELSE n

\* SKYPILOT_NUM_NODES and the lines of SKYPILOT_NODE_IPS; unset off SkyPilot.
Provisioned == IF job.sky THEN Cardinality(job.team) ELSE 0

Seeds == {"none", "partial", "whole"}

TypeOK ==
  /\ job \in [id : 0..MaxJobs, cfg : Configs, team : SUBSET Nodes, sky : BOOLEAN]
  /\ pc \in [Nodes -> {"off", "outer", "join", "held", "dispatch", "step", "convert", "fit",
                      "done", "failed"}]
  /\ \A n \in Nodes :
       /\ pc[n] = "step" => k[n] \in 1..(Len(program) + 1)
       /\ pc[n] = "fit" => program[k[n]] = "fit"
       /\ pc[n] = "convert" => program[k[n]] \in {"convert", "convert_once"}
  /\ own_head \in BOOLEAN
  /\ fits \subseteq SUBSET job.team
  /\ seed \in [Nodes -> Seeds]
  /\ shards \in [Nodes -> [Nodes -> 0..MaxJobs]]
  /\ exported \subseteq [by : Nodes, read : [Nodes -> 0..MaxJobs]]

Init ==
  /\ job \in [id : {0}, cfg : Configs, team : {{HeadNode}}, sky : {FALSE}]
  /\ pc = [n \in Nodes |-> "off"]
  /\ k = [n \in Nodes |-> 1]
  /\ own_head = FALSE /\ fits = {}
  /\ seed = [n \in Nodes |-> "none"]
  /\ shards = [n \in Nodes |-> [m \in Nodes |-> 0]]
  /\ exported = {}

Goto(n, l) == pc' = [pc EXCEPT ![n] = l]
Advance(n) == k' = [k EXCEPT ![n] = @ + 1]

-----------------------------------------------------------------------------
(* SkyPilot, the user and the machines *)

\* sky launch / sky exec on some of the machines, head first, or tfct-run by hand.
\* The config may have been edited since, its cell and working directory not.
Submit ==
  /\ \A n \in Nodes : pc[n] = "off"
  /\ job.id < MaxJobs
  /\ job' \in [id : {job.id + 1}, cfg : Configs, team : {t \in SUBSET Nodes : HeadNode \in t},
               sky : BOOLEAN]
  /\ <<job'.cfg.method, job'.cfg.framework>> = <<cfg.method, cfg.framework>>
  /\ job'.sky \/ job'.team = {HeadNode}
  /\ pc' = [n \in Nodes |->
              CASE n \notin job'.team -> "off"
                [] n \in job'.team /\ Uses(job'.cfg, "ray") /\ n # HeadNode -> "join"
                [] n \in job'.team /\ Uses(job'.cfg, "hf") /\ Cardinality(job'.team) > 1 -> "outer"
                [] OTHER -> "dispatch"]
  /\ k' = [n \in Nodes |-> 1]
  /\ own_head' = FALSE /\ fits' = {} /\ exported' = {}
  /\ UNCHANGED <<seed, shards>>

\* A node may fail at any moment: a preempted machine, a lost GPU, out of memory.
NodeFails(n) ==
  /\ pc[n] \notin {"off", "failed", "done"}
  /\ Goto(n, "failed")
  /\ UNCHANGED <<job, k, own_head, fits, files>>

\* SkyPilot kills a job when one of its nodes failed, or when its head has ended
\* and nobody but the workers of its ray cluster is left.
Reap ==
  /\ \/ \E n \in Nodes : pc[n] = "failed"
     \/ /\ pc[HeadNode] = "done"
        /\ \A n \in Nodes : pc[n] \in {"done", "join", "held", "off"}
  /\ pc' = [n \in Nodes |-> "off"]
  /\ UNCHANGED <<job, k, own_head, fits, files>>

-----------------------------------------------------------------------------
(* hf_torchrun_launch.sh: the outer torchrun, over the nodes provisioned *)
OuterRendezvous ==
  /\ \A n \in job.team : pc[n] = "outer"
  /\ pc' = [n \in Nodes |-> IF n \in job.team THEN "dispatch" ELSE pc[n]]
  /\ UNCHANGED <<job, k, own_head, fits, files>>

\* ray_bootstrap.sh on a worker: it joins the head's cluster when it has prepared
\* its files, and sleeps.  The head waits for it for a while only, and then runs
\* the driver: a worker may join at any time of the job, or never.
Joins(n) ==
  /\ pc[n] = "join"
  /\ Goto(n, "held")
  /\ UNCHANGED <<job, k, own_head, fits, files>>

\* The nodes of the ray cluster that the driver talks to: those that have joined
\* the bootstrap's, or the head alone.
Cluster == IF own_head THEN {HeadNode} ELSE {HeadNode} \cup {n \in job.team : pc[n] = "held"}

\* dispatch(): the gates, then train().
Dispatch(n) ==
  /\ pc[n] = "dispatch"
  /\ Goto(n, IF DispatchOK(cfg) THEN "step" ELSE "failed")
  /\ UNCHANGED <<job, k, own_head, fits, files>>

-----------------------------------------------------------------------------
(* train() *)

AtStep(n, steps) ==
  /\ pc[n] = "step"
  /\ k[n] \in DOMAIN program
  /\ program[k[n]] \in steps

Guard(n) ==
  /\ AtStep(n, {"full_only", "full_or_lora", "init_from", "resolve"})
  /\ IF StepPasses(cfg, program[k[n]], Provisioned, Cardinality(job.team))
     THEN Advance(n) /\ UNCHANGED pc
     ELSE Goto(n, "failed") /\ UNCHANGED k
  /\ UNCHANGED <<job, own_head, fits, files>>

\* Mutant: RAY_ADDRESS is not looked at.
RayHeadAlways(n) ==
  /\ AtStep(n, {"ray_head", "ray_unless"})
  /\ own_head' = TRUE
  /\ Advance(n)
  /\ UNCHANGED <<job, pc, fits, files>>

\* slime: ray start --head for this node alone; slime_grpo does without it when
\* RAY_ADDRESS, which ray_bootstrap.sh exports on several nodes, is set.
RayHead(n) ==
  /\ AtStep(n, {"ray_head", "ray_unless"})
  /\ own_head' = ~(program[k[n]] = "ray_unless" /\ Cardinality(job.team) > 1)
  /\ Advance(n)
  /\ UNCHANGED <<job, pc, fits, files>>

\* Mutant: every cell takes the seed's directory for the seed.
SeedFoundAlways(n) == seed[Site(n)] # "none"

\* A conversion runs on each node by itself (--standalone --nnodes=1) and writes
\* the seed in the working directory; a cell that converts once takes a seed
\* converted beforehand, or looks only for the directory.
SeedFound(n) ==
  /\ program[k[n]] = "convert_once"
  /\ Preconverted(cfg) \/ seed[Site(n)] # "none"

\* Mutant: the conversion is not waited for.
ConvertBeginsAhead(n) ==
  /\ AtStep(n, {"convert", "convert_once"})
  /\ ~SeedFound(n)
  /\ seed' = [seed EXCEPT ![Site(n)] = "partial"]
  /\ Goto(n, "convert") /\ Advance(n)
  /\ UNCHANGED <<job, own_head, fits, shards, exported>>

ConvertBegins(n) ==
  /\ AtStep(n, {"convert", "convert_once"})
  /\ ~SeedFound(n)
  /\ seed' = [seed EXCEPT ![Site(n)] = "partial"]
  /\ Goto(n, "convert")
  /\ UNCHANGED <<job, k, own_head, fits, shards, exported>>

ConvertSkipped(n) ==
  /\ AtStep(n, {"convert", "convert_once"})
  /\ SeedFound(n)
  /\ Advance(n)
  /\ UNCHANGED <<job, pc, own_head, fits, files>>

\* The seed is whole when the last of those writing it there has ended.
ConvertEnds(n) ==
  /\ pc[n] = "convert"
  /\ seed' = IF \E m \in Nodes \ {n} : pc[m] = "convert" /\ Site(m) = Site(n)
             THEN seed ELSE [seed EXCEPT ![Site(n)] = "whole"]
  /\ Goto(n, "step")
  /\ Advance(n)
  /\ UNCHANGED <<job, own_head, fits, shards, exported>>

\* The nodes that can start a training run together.  An inner torchrun waits for
\* the nodes the config declares (torchrun_args; one: --standalone), the outer one
\* has gathered the nodes provisioned; ray gives the driver the nodes it asks for.
\* Other direct cells train where they are.
Gathers(g) ==
  IF LaunchedBy = "ray" THEN g \subseteq Cluster /\ Cardinality(g) = cfg.nodes
  ELSE IF LaunchedBy = "hf" THEN g = job.team
  ELSE IF Does(cfg, "resolve") THEN Cardinality(g) = cfg.nodes
  ELSE Cardinality(g) = 1

\* The processes of a training run that are modelled: under ray, the driver.
Procs(g) == IF LaunchedBy = "ray" THEN {HeadNode} ELSE g

FitStarts(g) ==
  /\ g # {} /\ Gathers(g)
  /\ \A n \in Procs(g) : AtStep(n, {"fit"})
  /\ fits' = fits \cup {g}
  /\ pc' = [n \in Nodes |-> IF n \in Procs(g) THEN "fit" ELSE pc[n]]
  /\ UNCHANGED <<job, k, own_head, files>>

\* A training run ends on all its nodes, each with its shard of the checkpoint.
FitEnds(g) ==
  /\ g \in fits
  /\ \A n \in Procs(g) : pc[n] = "fit"
  /\ pc' = [n \in Nodes |-> IF n \in Procs(g) THEN "step" ELSE pc[n]]
  /\ k' = [n \in Nodes |-> IF n \in Procs(g) THEN k[n] + 1 ELSE k[n]]
  /\ shards' = [s \in Nodes |-> [n \in Nodes |->
                  IF n \in g /\ Site(n) = s THEN job.id ELSE shards[s][n]]]
  /\ UNCHANGED <<job, own_head, fits, seed, exported>>

\* Mutant: no head-only guard.
ExportEverywhere(n) ==
  /\ AtStep(n, {"export"})
  /\ exported' = exported \cup {[by |-> n, read |-> shards[Site(n)]]}
  /\ Advance(n)
  /\ UNCHANGED <<job, pc, own_head, fits, seed, shards>>

\* The head exports the checkpoint it finds in its working directory.
Export(n) ==
  /\ AtStep(n, {"export"})
  /\ exported' = IF n = HeadNode
                 THEN exported \cup {[by |-> n, read |-> shards[Site(n)]]}
                 ELSE exported
  /\ Advance(n)
  /\ UNCHANGED <<job, pc, own_head, fits, seed, shards>>

\* save_model, which HF Trainer does on its rank 0, and the return of train().
TrainReturns(n) ==
  /\ pc[n] = "step"
  /\ k[n] > Len(program) \/ AtStep(n, {"save"})
  /\ Goto(n, "done")
  /\ UNCHANGED <<job, k, own_head, fits, files>>

NodeStep(n) ==
  \/ Joins(n) \/ Dispatch(n) \/ Guard(n) \/ RayHead(n)
  \/ ConvertBegins(n) \/ ConvertSkipped(n) \/ ConvertEnds(n)
  \/ Export(n) \/ TrainReturns(n)

Together == OuterRendezvous \/ \E g \in SUBSET job.team : FitStarts(g) \/ FitEnds(g)

Next ==
  \/ Submit \/ Reap \/ Together
  \/ \E n \in Nodes : NodeStep(n) \/ NodeFails(n)

Spec == Init /\ [][Next]_vars

\* A process that is not killed goes on; a rendezvous whose nodes have all come
\* succeeds and a training run comes to its last step; SkyPilot cleans up.
Fairness ==
  /\ \A n \in Nodes : WF_vars(NodeStep(n))
  /\ WF_vars(Together)
  /\ WF_vars(Reap)

FairSpec == Spec /\ Fairness

-----------------------------------------------------------------------------
(* Properties *)

\* A cell that resolves its topology never trains on other nodes than all those
\* provisioned, as many as its config declares (_dist.py, lines 8-14).
Agree(g) == g = job.team /\ Cardinality(g) = cfg.nodes
ResolvedWorld == Does(cfg, "resolve") => \A g \in fits : Agree(g)

\* Whatever was killed while converting, and whoever else converts in the same
\* directory, training starts from a whole seed in the cells that always convert.
SeedWhole ==
  Does(cfg, "convert") => \A n \in Nodes : pc[n] = "fit" => seed[Site(n)] = "whole"

\* On a shared file system, what is exported is exported by the head and is the
\* checkpoint of this job, complete (torchtitan_pretrain.py, lines 109-113).
ExportComplete ==
  SharedFS => \A e \in exported : e.by = HeadNode /\ \A n \in job.team : e.read[n] = job.id

\* No job of a direct or hf cell waits for ever: neither for nodes that were not
\* provisioned, nor for nodes that failed.
JobEnds ==
  LaunchedBy # "ray" /\ pc[HeadNode] \in {"outer", "dispatch"} ~> pc[HeadNode] \in {"done", "failed", "off"}

\* Nor does a job of a ray cell, however late its workers join, if it has the nodes
\* its config declares and, on several of them, starts no ray head of its own
\* (slime_grpo.py, lines 191-193).
RayJobEnds ==
  LaunchedBy = "ray" /\ Cardinality(job.team) = cfg.nodes
    /\ (Does(cfg, "ray_head") => cfg.nodes = 1) /\ pc[HeadNode] = "dispatch"
      ~> pc[HeadNode] \in {"done", "failed", "off"}

(* Statements of the comments *)

\* run.py line 84 and _dist.py lines 12-14: a cell that is wired trains on the
\* nodes that its config declares and that are provisioned, or dies.
WorldAsDeclared == \A g \in fits : Agree(g)

\* slime_ppo.py line 170, "the same pattern as slime_grpo", and _dist.py line 94:
\* a cell wired through ray whose nodes are those its config declares, and have all
\* joined the bootstrap's cluster, can reach them when it submits its job.
RayReaches ==
  LaunchedBy = "ray" /\ Cardinality(job.team) = cfg.nodes
    /\ (\A n \in job.team \ {HeadNode} : pc[n] = "held") /\ AtStep(HeadNode, {"fit"})
      => Gathers(job.team)
=============================================================================
