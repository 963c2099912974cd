---------------------------- MODULE RayBootstrap ----------------------------
(***************************************************************************)
(* The ray cluster bootstrap of sky/ray_bootstrap.sh.                      *)
(*                                                                         *)
(* SkyPilot runs the script on every node of a job.  The head (rank 0)     *)
(* starts a ray control plane, waits for the workers and execs the driver; *)
(* a worker prepares its node-local files, joins and sleeps.  Jobs follow  *)
(* one another on a cluster that is kept, and the ray daemons outlive the  *)
(* job that started them.  A file on each node, the marker, records the    *)
(* collective environment the node's raylet was started with, so that a    *)
(* later job can tell whether the raylet is fit to be reused.              *)
(*                                                                         *)
(* Ray and SkyPilot themselves are external: they are modelled by what the *)
(* script relies on.                                                       *)
(***************************************************************************)
EXTENDS Integers, FiniteSets

CONSTANTS
  Nodes,        \* the nodes of the SkyPilot cluster
  Head,         \* the node of rank 0
  Env,          \* collective environments (values of _ray_env_fingerprint)
  NoEnv,        \* no raylet is running / no marker file exists
  EnvMaps,      \* the environments a job may compute, one per node
  ReuseFlags,   \* the values TFCT_RAY_REUSE may have
  MaxJobs,      \* bound: jobs submitted over the life of a behaviour
  MaxTries,     \* polls of the head's wait loop (30 in the script)
  Faults        \* which of FaultKinds the environment may inject

FaultKinds == {"ray_dies", "raylet_dies", "cancel", "killed_in_start"}

ASSUME HeadAssumption   == Head \in Nodes
ASSUME EnvAssumption    == NoEnv \notin Env /\ EnvMaps \subseteq [Nodes -> Env]
ASSUME ReuseAssumption  == ReuseFlags \subseteq BOOLEAN
ASSUME BoundAssumption  == MaxJobs \in Nat /\ MaxTries \in Nat \ {0}
ASSUME FaultsAssumption == Faults \subseteq FaultKinds

VARIABLES
  job,          \* the job being run: its number and its environment variables
  pc,           \* per node: where its copy of the script is
  reuse_ray,    \* per node: the shell variable _reuse_ray
  tries,        \* polls the head has made in its wait loop
  marker,       \* per node: content of /tmp/tfct_ray_env.6385
  prepared,     \* per node: last job whose PREPARE command succeeded there
  rayEnv,       \* per node: environment of the raylet alive there
  rayJob,       \* per node: job that started the raylet alive there
  members       \* nodes registered with the control plane on the head

script == <<pc, reuse_ray, tries, marker, prepared>>
ray    == <<rayEnv, rayJob, members>>
vars   == <<job, pc, reuse_ray, tries, marker, prepared, rayEnv, rayJob, members>>

Workers == Nodes \ {Head}

PC == { "idle", "begin", "start", "mark", "wait", "driver", "prepare",
        "join", "holding", "refused", "dead", "done" }

\* SKYPILOT_NUM_NODES and SKYPILOT_NODE_IPS (team), the environment _netenv.sh
\* pins, TFCT_RAY_REUSE, and whether a PREPARE command was given.
Job == [ id : 0..MaxJobs, team : {{Head}, Nodes}, env : [Nodes -> Env],
         reuse : BOOLEAN, prepare : BOOLEAN ]

NUM_NODES == Cardinality(job.team)
SingleNode == job.team = {Head}

TypeOK ==
  /\ job \in Job
  /\ pc \in [Nodes -> PC]
  /\ reuse_ray \in [Nodes -> BOOLEAN]
  /\ tries \in 0..MaxTries
  /\ marker \in [Nodes -> Env \cup {NoEnv}]
  /\ prepared \in [Nodes -> 0..MaxJobs]
  /\ rayEnv \in [Nodes -> Env \cup {NoEnv}]
  /\ rayJob \in [Nodes -> 0..MaxJobs]
  /\ members \in SUBSET Nodes

Init ==
  /\ job \in [ id : {0}, team : {{Head}}, env : EnvMaps,
               reuse : {FALSE}, prepare : {FALSE} ]
  /\ pc = [n \in Nodes |-> "idle"]
  /\ reuse_ray = [n \in Nodes |-> FALSE]
  /\ tries = 0
  /\ marker = [n \in Nodes |-> NoEnv]
  /\ prepared = [n \in Nodes |-> 0]
  /\ rayEnv = [n \in Nodes |-> NoEnv]
  /\ rayJob = [n \in Nodes |-> 0]
  /\ members = {}

Goto(n, l) == pc' = [pc EXCEPT ![n] = l]

Idle == \A n \in Nodes : pc[n] = "idle"

-----------------------------------------------------------------------------
(* Ray, as the script uses it *)

\* A control plane is up on the head: `ray start --head` refuses to start another,
\* and `ray start --address` has something to join.
RayUp == rayEnv[Head] # NoEnv

\* `ray start` on n: a raylet that inherits the environment of the script and
\* is registered with the control plane.
RayStart(n) ==
  /\ rayEnv' = [rayEnv EXCEPT ![n] = job.env[n]]
  /\ rayJob' = [rayJob EXCEPT ![n] = job.id]
  /\ members' = IF n = Head THEN {Head} ELSE members \cup {n}

-----------------------------------------------------------------------------
(* The script *)

\* NUM_NODES <= 1: exec the driver, no cluster.
ExecSingle ==
  /\ pc[Head] = "begin"
  /\ SingleNode
  /\ Goto(Head, "driver")
  /\ UNCHANGED <<job, reuse_ray, tries, marker, prepared, ray>>

\* `ray status --address=$RAY_ADDRESS` succeeds: all that the script can see of ray.
ray_status == RayUp

\* Mutants: reuse without its flag; reuse without the fingerprint.
ReusableUnasked(n) == marker[n] = job.env[n]
ReusableBlindly(n) == job.reuse

\* The marker of this node matches what this job is about to export.
Reusable(n) == job.reuse /\ marker[n] = job.env[n]

\* The `ray status` guard: nothing alive, reuse, or exit 1.
CheckRay(n) ==
  /\ pc[n] = "begin"
  /\ ~SingleNode
  /\ reuse_ray' = [reuse_ray EXCEPT ![n] = ray_status /\ Reusable(n)]
  /\ tries' = IF n = Head THEN 0 ELSE tries
  /\ Goto(n, IF ray_status /\ ~Reusable(n) THEN "refused"
             ELSE IF n # Head THEN "prepare"
             ELSE IF ray_status THEN "wait" ELSE "start")
  /\ UNCHANGED <<job, marker, prepared, ray>>

\* head: ray start --head, which dies if a control plane is already running.
StartHead ==
  /\ pc[Head] = "start"
  /\ IF RayUp THEN Goto(Head, "dead") /\ UNCHANGED ray
              ELSE Goto(Head, "mark") /\ RayStart(Head)
  /\ UNCHANGED <<job, reuse_ray, tries, marker, prepared>>

\* Mutant: only the head writes a marker.
WriteMarkerOnHead(n) ==
  /\ pc[n] = "mark"
  /\ marker' = IF n = Head THEN [marker EXCEPT ![n] = job.env[n]] ELSE marker
  /\ Goto(n, IF n = Head THEN "wait" ELSE "holding")
  /\ UNCHANGED <<job, reuse_ray, tries, prepared, ray>>

\* echo "$_ray_env_fingerprint" > "$_ray_env_marker", on head and workers.
WriteMarker(n) ==
  /\ pc[n] = "mark"
  /\ marker' = [marker EXCEPT ![n] = job.env[n]]
  /\ Goto(n, IF n = Head THEN "wait" ELSE "holding")
  /\ UNCHANGED <<job, reuse_ray, tries, prepared, ray>>

\* One iteration of the wait loop.  `grep -c node_` counts the members of the
\* cluster whoever they are, and 0 if ray status fails; leaving the loop by
\* break or by exhaustion leads to the same exec.
Joined == Cardinality(members)

\* Mutant: `while` in place of the bounded `for`.
PollJoinedForever ==
  /\ pc[Head] = "wait"
  /\ IF Joined >= NUM_NODES THEN Goto(Head, "driver") ELSE UNCHANGED pc
  /\ UNCHANGED <<job, reuse_ray, tries, marker, prepared, ray>>

\* Mutant: the loop makes one poll too many.
PollJoinedOnceMore ==
  /\ pc[Head] = "wait"
  /\ tries' = IF Joined >= NUM_NODES THEN tries ELSE tries + 1
  /\ IF Joined >= NUM_NODES \/ tries' > MaxTries
     THEN Goto(Head, "driver")
     ELSE UNCHANGED pc
  /\ UNCHANGED <<job, reuse_ray, marker, prepared, ray>>

PollJoined ==
  /\ pc[Head] = "wait"
  /\ tries' = IF Joined >= NUM_NODES THEN tries ELSE tries + 1
  /\ IF Joined >= NUM_NODES \/ tries' = MaxTries
     THEN Goto(Head, "driver")
     ELSE UNCHANGED pc
  /\ UNCHANGED <<job, reuse_ray, marker, prepared, ray>>

DriverExits ==
  /\ pc[Head] = "driver"
  /\ Goto(Head, "done")
  /\ UNCHANGED <<job, reuse_ray, tries, marker, prepared, ray>>

\* worker: PREPARE, if given, before the join; set -e makes a failure fatal.
\* Then a join, or nothing when the raylet is taken to be joined already.
Prepare(n) ==
  /\ pc[n] = "prepare"
  /\ prepared' = IF job.prepare THEN [prepared EXCEPT ![n] = job.id] ELSE prepared
  /\ Goto(n, IF reuse_ray[n] THEN "holding" ELSE "join")
  /\ UNCHANGED <<job, reuse_ray, tries, marker, ray>>

\* Mutant: without set -e the worker joins whatever PREPARE returned.
PrepareFailsQuietly(n) ==
  /\ pc[n] = "prepare"
  /\ job.prepare
  /\ Goto(n, "join")
  /\ UNCHANGED <<job, reuse_ray, tries, marker, prepared, ray>>

PrepareFails(n) ==
  /\ pc[n] = "prepare"
  /\ job.prepare
  /\ Goto(n, "dead")
  /\ UNCHANGED <<job, reuse_ray, tries, marker, prepared, ray>>

\* worker: ray start --address.  `sleep 15` is the only thing that orders it
\* after the head's start, so it may find no control plane; a raylet already
\* on the node makes it die too.
Join(n) ==
  /\ pc[n] = "join"
  /\ IF RayUp /\ rayEnv[n] = NoEnv
     THEN Goto(n, "mark") /\ RayStart(n)
     ELSE Goto(n, "dead") /\ UNCHANGED ray
  /\ UNCHANGED <<job, reuse_ray, tries, marker, prepared>>

-----------------------------------------------------------------------------
(* SkyPilot, the user and the machines *)

\* sky exec / sky launch: the script begins on every node of the job.
Submit ==
  /\ Idle
  /\ job.id < MaxJobs
  /\ job' \in [ id : {job.id + 1}, team : {{Head}, Nodes}, env : EnvMaps,
                reuse : ReuseFlags, prepare : BOOLEAN ]
  /\ pc' = [n \in Nodes |-> IF n \in job'.team THEN "begin" ELSE "idle"]
  /\ UNCHANGED <<reuse_ray, tries, marker, prepared, ray>>

\* SkyPilot kills what is left of a job.  A copy of the script caught between
\* `ray start` and the write of the marker is a fault of its own.
Kill ==
  /\ "killed_in_start" \in Faults \/ \A n \in Nodes : pc[n] # "mark"
  /\ pc' = [n \in Nodes |-> "idle"]
  /\ UNCHANGED <<job, reuse_ray, tries, marker, prepared, ray>>

\* The driver has ended, or a copy of the script has exited with an error.
JobOver ==
  /\ \E n \in Nodes : pc[n] \in {"done", "refused", "dead"}
  /\ Kill

\* sky cancel, at any moment.
Cancel ==
  /\ "cancel" \in Faults
  /\ ~Idle
  /\ Kill

\* The control plane dies (ray stop, restart of the container); raylets do not
\* survive it.  The files of /tmp do.
RayDies ==
  /\ "ray_dies" \in Faults
  /\ RayUp
  /\ rayEnv' = [n \in Nodes |-> NoEnv]
  /\ rayJob' = [n \in Nodes |-> 0]
  /\ members' = {}
  /\ UNCHANGED <<job, script>>

RayletDies(n) ==
  /\ "raylet_dies" \in Faults
  /\ rayEnv[n] # NoEnv
  /\ rayEnv' = [rayEnv EXCEPT ![n] = NoEnv]
  /\ rayJob' = [rayJob EXCEPT ![n] = 0]
  /\ members' = members \ {n}
  /\ UNCHANGED <<job, script>>

\* sky down, then sky launch: new machines.
DownAndLaunch ==
  /\ Idle
  /\ job.id \in 1..(MaxJobs - 1)
  /\ marker' = [n \in Nodes |-> NoEnv]
  /\ prepared' = [n \in Nodes |-> 0]
  /\ rayEnv' = [n \in Nodes |-> NoEnv]
  /\ rayJob' = [n \in Nodes |-> 0]
  /\ members' = {}
  /\ UNCHANGED <<job, pc, reuse_ray, tries>>

-----------------------------------------------------------------------------
HeadStep == ExecSingle \/ CheckRay(Head) \/ StartHead \/ WriteMarker(Head) \/ PollJoined

WorkerStep(n) == CheckRay(n) \/ Prepare(n) \/ PrepareFails(n) \/ Join(n) \/ WriteMarker(n)

Environment ==
  \/ Submit \/ DriverExits \/ JobOver \/ Cancel \/ RayDies \/ DownAndLaunch
  \/ \E n \in Workers : RayletDies(n)

Next ==
  \/ HeadStep
  \/ \E n \in Workers : WorkerStep(n)
  \/ Environment

Spec == Init /\ [][Next]_vars

\* A shell script that is not killed goes on, and SkyPilot cleans up after a
\* job that ended.  Nothing says a driver ends, a user submits or a fault occurs.
Fairness ==
  /\ WF_vars(HeadStep)
  /\ \A n \in Workers : WF_vars(WorkerStep(n))
  /\ WF_vars(JobOver)

FairSpec == Spec /\ Fairness

-----------------------------------------------------------------------------
(* Properties *)

\* The driver of a job that has a cluster to run on.
DriverRuns == pc[Head] = "driver" /\ ~SingleNode

\* With reuse off, whatever dies, is cancelled or is left over from earlier
\* jobs, every raylet the driver can place an actor on was started by this very
\* job and carries its environment (the reason for the guard, lines 53-63).
NoStaleEnv ==
  DriverRuns /\ ~job.reuse =>
    \A n \in members : rayJob[n] = job.id /\ rayEnv[n] = job.env[n]

\* With reuse off, an actor never lands on a worker whose node-local files this
\* job has not prepared: PREPARE precedes the join (lines 116-122).
MembersPrepared ==
  DriverRuns /\ ~job.reuse /\ job.prepare =>
    \A n \in members \ {Head} : prepared[n] = job.id

\* As long as no script is killed between `ray start` and the write of the
\* marker, a marker next to a live raylet tells that raylet's environment.
MarkerHonest ==
  \A n \in Nodes : rayEnv[n] # NoEnv /\ pc[n] # "mark" => marker[n] = rayEnv[n]

\* A head that decided to reuse has, if any, a control plane of its own
\* environment (line 78).
ReuseKeepsEnv ==
  DriverRuns /\ reuse_ray[Head] => rayEnv[Head] \in {NoEnv, job.env[Head]}

\* The head never waits for ever: every job whose script begins is, in the end,
\* driving, refused, dead or gone, whatever its workers do (lines 107-112).
BootEnds == pc[Head] = "begin" ~> pc[Head] \in {"driver", "refused", "dead", "done", "idle"}

(* The inductive invariant behind NoStaleEnv and MembersPrepared *)

\* The wait loop is entered with polls left to make.
LoopBound == pc[Head] \in {"start", "mark", "wait"} => tries < MaxTries

\* Membership is membership of the control plane that is up, which is older than
\* every raylet it registered; no raylet comes from a job yet to be submitted.
ClusterShape ==
  /\ ~RayUp => \A n \in Nodes : rayEnv[n] = NoEnv
  /\ \A n \in members : /\ rayEnv[n] # NoEnv
                        /\ rayJob[Head] <= rayJob[n]
  /\ \A n \in Nodes : rayJob[n] <= job.id

\* A raylet of this job carries its environment, and stands on a prepared node;
\* a worker about to join is on a prepared node already.
OwnRaylets ==
  /\ \A n \in members : rayJob[n] = job.id => rayEnv[n] = job.env[n]
  /\ job.prepare => \A n \in Workers :
        pc[n] = "join" \/ (n \in members /\ rayJob[n] = job.id)
          => prepared[n] = job.id

\* With reuse off, a head past its check has a control plane of its own job.
HeadIsFresh ==
  ~job.reuse /\ ~SingleNode /\ pc[Head] \in {"mark", "wait", "driver"} /\ RayUp
    => rayJob[Head] = job.id

IInv == TypeOK /\ LoopBound /\ ClusterShape /\ OwnRaylets /\ HeadIsFresh

\* The inductive invariant behind MarkerHonest and ReuseKeepsEnv, which holds as
\* long as no script is killed in its start: the raylet next to a script about to
\* write the marker has the environment it will write, and a head past its check
\* has a control plane of its own environment, if any.
MarkerInv ==
  /\ MarkerHonest
  /\ \A n \in Nodes : pc[n] = "mark" => rayEnv[n] \in {NoEnv, job.env[n]}
  /\ ~SingleNode /\ pc[Head] \in {"mark", "wait", "driver"}
       => rayEnv[Head] \in {NoEnv, job.env[Head]}

(* Statements of the script's comments *)

\* Lines 44 and 84: the guard fires because the ray of an EARLIER job is alive.
AlarmOnOldRay ==
  [][\A n \in Nodes : pc[n] # "refused" /\ pc'[n] = "refused" => rayJob[Head] < job.id]_vars

\* Line 11: all workers have joined before the driver runs.
DriverWaitsForAll ==
  [][~DriverRuns /\ DriverRuns' => job.team \subseteq members]_vars

\* Line 124: a worker that takes the reuse path has joined already.
ReuseMeansJoined ==
  [][\A n \in Workers : pc[n] = "begin" /\ pc'[n] = "prepare" /\ reuse_ray'[n]
                         => n \in members]_vars
=============================================================================
