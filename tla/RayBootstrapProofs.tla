------------------------- MODULE RayBootstrapProofs -------------------------
(***************************************************************************)
(* Proofs about RayBootstrap, for every set of nodes, every number of jobs *)
(* and polls, and every combination of faults.  TypeOK alone is not        *)
(* inductive (a poll could step over MaxTries), so everything is derived   *)
(* from IInv.                                                              *)
(***************************************************************************)
EXTENDS RayBootstrap, TLAPS

(* A step of one node's program counter keeps pc well typed and leaves the
   other nodes where they are. *)
LEMMA GotoType ==
  ASSUME pc \in [Nodes -> PC], NEW n \in Nodes, NEW l \in PC, Goto(n, l)
  PROVE  /\ pc' \in [Nodes -> PC]
         /\ pc'[n] = l
         /\ \A m \in Nodes \ {n} : pc'[m] = pc[m]
BY DEF Goto

(* What `ray start` on a node does to the cluster, whichever node it is. *)
LEMMA RayStartCluster ==
  ASSUME TypeOK, NEW n \in Nodes, RayStart(n), rayEnv[n] = NoEnv,
         n # Head => RayUp
  PROVE  /\ rayEnv' \in [Nodes -> Env \cup {NoEnv}]
         /\ rayJob' \in [Nodes -> 0..MaxJobs]
         /\ members' \in SUBSET Nodes
         /\ rayEnv'[n] = job.env[n] /\ rayEnv'[n] # NoEnv /\ rayJob'[n] = job.id
         /\ \A m \in Nodes \ {n} : rayEnv'[m] = rayEnv[m] /\ rayJob'[m] = rayJob[m]
         /\ members' = IF n = Head THEN {Head} ELSE members \cup {n}
<1>1. job.env \in [Nodes -> Env] /\ job.id \in 0..MaxJobs
  BY DEF TypeOK, Job
<1> QED BY <1>1, HeadAssumption, EnvAssumption DEF TypeOK, RayStart

(* The inductive invariant holds initially. *)
LEMMA InitIInv == Init => IInv
<1> SUFFICES ASSUME Init PROVE IInv
  OBVIOUS
<1>1. TypeOK
  <2>1. job \in Job
    <3>1. 0 \in 0..MaxJobs
      BY BoundAssumption
    <3> QED BY <3>1, EnvAssumption DEF Init, Job
  <2>2. /\ tries \in 0..MaxTries
        /\ rayJob \in [Nodes -> 0..MaxJobs]
        /\ prepared \in [Nodes -> 0..MaxJobs]
    BY BoundAssumption DEF Init
  <2> QED BY <2>1, <2>2 DEF Init, TypeOK, PC
<1>2. LoopBound
  BY HeadAssumption DEF Init, LoopBound
<1>3. ClusterShape
  BY DEF Init, ClusterShape, RayUp
<1>4. OwnRaylets
  BY DEF Init, OwnRaylets
<1>5. HeadIsFresh
  BY DEF Init, HeadIsFresh, SingleNode
<1> QED BY <1>1, <1>2, <1>3, <1>4, <1>5 DEF IInv

(* Every action of the script, of SkyPilot and of the environment preserves it. *)
LEMMA NextIInv == IInv /\ [Next]_vars => IInv'
<1> SUFFICES ASSUME IInv, [Next]_vars PROVE IInv'
  OBVIOUS
<1>t. TypeOK
  BY DEF IInv
<1>j. /\ job.env \in [Nodes -> Env] /\ job.id \in 0..MaxJobs
      /\ job.reuse \in BOOLEAN /\ job.prepare \in BOOLEAN
  BY <1>t DEF TypeOK, Job
<1> USE HeadAssumption, BoundAssumption
<1>1. CASE ExecSingle
  <2> USE <1>1, <1>t DEF ExecSingle, Goto, ray, SingleNode
  <2>1. TypeOK'
    BY DEF TypeOK, PC
  <2>2. LoopBound'
    BY DEF IInv, LoopBound, TypeOK
  <2>3. ClusterShape'
    BY DEF IInv, ClusterShape, RayUp
  <2>4. OwnRaylets'
    BY DEF IInv, OwnRaylets, Workers, TypeOK
  <2>5. HeadIsFresh'
    BY DEF IInv, HeadIsFresh
  <2> QED BY <2>1, <2>2, <2>3, <2>4, <2>5 DEF IInv
<1>2. ASSUME NEW n \in Nodes, CheckRay(n) PROVE IInv'
  <2> USE <1>2, <1>t, <1>j
  <2>1. TypeOK'
    <3>1. reuse_ray' \in [Nodes -> BOOLEAN]
      BY DEF CheckRay, ray_status, RayUp, Reusable, TypeOK
    <3>2. tries' \in 0..MaxTries
      BY DEF CheckRay, TypeOK
    <3>3. pc' \in [Nodes -> PC]
      BY DEF CheckRay, Goto, TypeOK, PC
    <3> QED BY <3>1, <3>2, <3>3 DEF CheckRay, ray, TypeOK
  <2>2. LoopBound'
    BY DEF IInv, LoopBound, CheckRay, Goto, TypeOK
  <2>3. ClusterShape'
    BY DEF IInv, ClusterShape, RayUp, CheckRay, ray
  <2>4. OwnRaylets'
    BY DEF IInv, OwnRaylets, Workers, CheckRay, Goto, ray, TypeOK
  <2>5. HeadIsFresh'
    BY DEF IInv, HeadIsFresh, CheckRay, Goto, ray, TypeOK, Reusable, ray_status, RayUp,
           SingleNode
  <2> QED BY <2>1, <2>2, <2>3, <2>4, <2>5 DEF IInv
<1>3. CASE StartHead
  <2>1. CASE RayUp
    <3> USE <1>3, <1>t, <2>1 DEF StartHead, Goto, ray
    <3>1. TypeOK'
      BY DEF TypeOK, PC
    <3>2. LoopBound'
      BY DEF LoopBound, TypeOK
    <3>3. ClusterShape'
      BY DEF IInv, ClusterShape, RayUp
    <3>4. OwnRaylets'
      BY DEF IInv, OwnRaylets, Workers, TypeOK
    <3>5. HeadIsFresh'
      BY DEF HeadIsFresh, TypeOK
    <3> QED BY <3>1, <3>2, <3>3, <3>4, <3>5 DEF IInv
  <2>2. CASE ~RayUp
    <3>1. RayStart(Head) /\ Goto(Head, "mark") /\ rayEnv[Head] = NoEnv
      BY <1>3, <2>2 DEF StartHead, RayUp
    <3>2. UNCHANGED <<job, reuse_ray, tries, marker, prepared>>
      BY <1>3 DEF StartHead
    <3>3. pc' \in [Nodes -> PC] /\ pc'[Head] = "mark" /\ \A m \in Nodes \ {Head} : pc'[m] = pc[m]
      BY <3>1, <1>t, GotoType DEF TypeOK, PC
    <3>4. /\ rayEnv' \in [Nodes -> Env \cup {NoEnv}]
          /\ rayJob' \in [Nodes -> 0..MaxJobs]
          /\ rayEnv'[Head] = job.env[Head] /\ rayEnv'[Head] # NoEnv /\ rayJob'[Head] = job.id
          /\ \A m \in Nodes \ {Head} : rayEnv'[m] = rayEnv[m] /\ rayJob'[m] = rayJob[m]
          /\ members' = {Head}
      BY <3>1, <1>t, RayStartCluster
    <3>5. TypeOK'
      BY <3>2, <3>3, <3>4, <1>t DEF TypeOK
    <3>6. LoopBound'
      BY <3>2, <1>3 DEF IInv, LoopBound, StartHead
    <3>7. ClusterShape'
      BY <3>2, <3>4, <1>j DEF IInv, ClusterShape, RayUp
    <3>8. OwnRaylets'
      BY <3>2, <3>3, <3>4 DEF IInv, OwnRaylets, Workers
    <3>9. HeadIsFresh'
      BY <3>2, <3>4 DEF HeadIsFresh
    <3> QED BY <3>5, <3>6, <3>7, <3>8, <3>9 DEF IInv
  <2> QED BY <2>1, <2>2
<1>4. ASSUME NEW n \in Nodes, WriteMarker(n) PROVE IInv'
  <2> USE <1>4, <1>t, <1>j DEF WriteMarker, Goto, ray
  <2>1. TypeOK'
    BY DEF TypeOK, PC
  <2>2. LoopBound'
    BY DEF IInv, LoopBound, TypeOK
  <2>3. ClusterShape'
    BY DEF IInv, ClusterShape, RayUp
  <2>4. OwnRaylets'
    BY DEF IInv, OwnRaylets, Workers, TypeOK
  <2>5. HeadIsFresh'
    BY DEF IInv, HeadIsFresh, TypeOK, RayUp, SingleNode
  <2> QED BY <2>1, <2>2, <2>3, <2>4, <2>5 DEF IInv
<1>5. CASE PollJoined
  <2> DEFINE enough == Joined >= NUM_NODES
  <2>1. tries' = (IF enough THEN tries ELSE tries + 1)
        /\ (IF enough \/ tries' = MaxTries THEN Goto(Head, "driver") ELSE pc' = pc)
        /\ pc[Head] = "wait"
        /\ UNCHANGED <<job, reuse_ray, marker, prepared, ray>>
    BY <1>5 DEF PollJoined
  <2> HIDE DEF enough
  <2>2. tries < MaxTries
    BY <2>1 DEF IInv, LoopBound
  <2> USE <2>1, <2>2, <1>t DEF Goto, ray
  <2>3. TypeOK'
    BY DEF TypeOK, PC
  <2>4. LoopBound'
    BY DEF LoopBound, TypeOK
  <2>5. ClusterShape'
    BY DEF IInv, ClusterShape, RayUp
  <2>6. OwnRaylets'
    BY DEF IInv, OwnRaylets, Workers, TypeOK
  <2>7. HeadIsFresh'
    BY DEF IInv, HeadIsFresh, TypeOK, RayUp, SingleNode
  <2> QED BY <2>3, <2>4, <2>5, <2>6, <2>7 DEF IInv
<1>6. ASSUME NEW n \in Workers, Prepare(n) PROVE IInv'
  <2> USE <1>6, <1>t, <1>j DEF Prepare, Goto, ray, Workers
  <2>1. TypeOK'
    BY DEF TypeOK, PC
  <2>2. LoopBound'
    BY DEF IInv, LoopBound, TypeOK
  <2>3. ClusterShape'
    BY DEF IInv, ClusterShape, RayUp
  <2>4. OwnRaylets'
    BY DEF IInv, OwnRaylets, TypeOK
  <2>5. HeadIsFresh'
    BY DEF IInv, HeadIsFresh, TypeOK, RayUp, SingleNode
  <2> QED BY <2>1, <2>2, <2>3, <2>4, <2>5 DEF IInv
<1>7. ASSUME NEW n \in Workers, PrepareFails(n) PROVE IInv'
  <2> USE <1>7, <1>t DEF PrepareFails, Goto, ray, Workers
  <2>1. TypeOK'
    BY DEF TypeOK, PC
  <2>2. LoopBound'
    BY DEF IInv, LoopBound, TypeOK
  <2>3. ClusterShape'
    BY DEF IInv, ClusterShape, RayUp
  <2>4. OwnRaylets'
    BY DEF IInv, OwnRaylets, TypeOK
  <2>5. HeadIsFresh'
    BY DEF IInv, HeadIsFresh, TypeOK, RayUp, SingleNode
  <2> QED BY <2>1, <2>2, <2>3, <2>4, <2>5 DEF IInv
<1>8. ASSUME NEW n \in Workers, Join(n) PROVE IInv'
  <2> USE DEF Workers
  <2>0. n \in Nodes /\ n # Head /\ pc[n] = "join"
    BY <1>8 DEF Join
  <2>1. CASE RayUp /\ rayEnv[n] = NoEnv
    <3>1. RayStart(n) /\ Goto(n, "mark")
      BY <1>8, <2>1 DEF Join
    <3>2. UNCHANGED <<job, reuse_ray, tries, marker, prepared>>
      BY <1>8 DEF Join
    <3>3. pc' \in [Nodes -> PC] /\ pc'[n] = "mark" /\ \A m \in Nodes \ {n} : pc'[m] = pc[m]
      BY <3>1, <2>0, <1>t, GotoType DEF TypeOK, PC
    <3>4. /\ rayEnv' \in [Nodes -> Env \cup {NoEnv}]
          /\ rayJob' \in [Nodes -> 0..MaxJobs]
          /\ members' \in SUBSET Nodes
          /\ rayEnv'[n] = job.env[n] /\ rayEnv'[n] # NoEnv /\ rayJob'[n] = job.id
          /\ \A m \in Nodes \ {n} : rayEnv'[m] = rayEnv[m] /\ rayJob'[m] = rayJob[m]
          /\ members' = members \cup {n}
      BY <3>1, <2>0, <2>1, <1>t, RayStartCluster
    <3>5. TypeOK'
      BY <3>2, <3>3, <3>4, <1>t DEF TypeOK
    <3>6. LoopBound'
      BY <3>2, <3>3, <2>0 DEF IInv, LoopBound
    <3>7. ClusterShape'
      <4>1. (~RayUp => \A m \in Nodes : rayEnv[m] = NoEnv)'
        BY <2>0, <2>1, <3>4 DEF RayUp
      <4>2. \A m \in members' : rayEnv'[m] # NoEnv /\ rayJob'[Head] <= rayJob'[m]
        BY <2>0, <3>4, <1>t DEF IInv, ClusterShape, TypeOK
      <4>3. \A m \in Nodes : rayJob'[m] <= job'.id
        BY <3>2, <3>4, <1>j DEF IInv, ClusterShape
      <4> QED BY <4>1, <4>2, <4>3 DEF ClusterShape
    <3>8. OwnRaylets'
      BY <2>0, <3>2, <3>3, <3>4, <1>t DEF IInv, OwnRaylets, TypeOK
    <3>9. HeadIsFresh'
      BY <2>0, <3>2, <3>3, <3>4 DEF IInv, HeadIsFresh, RayUp, SingleNode
    <3> QED BY <3>5, <3>6, <3>7, <3>8, <3>9 DEF IInv
  <2>2. CASE ~(RayUp /\ rayEnv[n] = NoEnv)
    <3>0. Goto(n, "dead") /\ UNCHANGED <<job, reuse_ray, tries, marker, prepared, ray>>
      BY <1>8, <2>2 DEF Join
    <3> USE <2>0, <3>0, <1>t DEF Goto, ray
    <3>1. TypeOK'
      BY DEF TypeOK, PC
    <3>2. LoopBound'
      BY DEF IInv, LoopBound, TypeOK
    <3>3. ClusterShape'
      BY DEF IInv, ClusterShape, RayUp
    <3>4. OwnRaylets'
      BY DEF IInv, OwnRaylets, TypeOK
    <3>5. HeadIsFresh'
      BY DEF IInv, HeadIsFresh, TypeOK, RayUp, SingleNode
    <3> QED BY <3>1, <3>2, <3>3, <3>4, <3>5 DEF IInv
  <2> QED BY <2>1, <2>2
<1>9. CASE Submit
  <2> USE <1>9, <1>t, <1>j DEF Submit, ray, Idle
  <2>1. job' \in Job /\ job'.id = job.id + 1
    BY EnvAssumption, ReuseAssumption DEF Job
  <2>2. TypeOK'
    BY <2>1 DEF TypeOK, PC
  <2>3. LoopBound'
    BY DEF LoopBound
  <2>4. ClusterShape'
    BY <2>1 DEF IInv, ClusterShape, RayUp, TypeOK
  <2>5. OwnRaylets'
    BY <2>1 DEF IInv, ClusterShape, OwnRaylets, Workers, TypeOK
  <2>6. HeadIsFresh'
    BY DEF HeadIsFresh
  <2> QED BY <2>2, <2>3, <2>4, <2>5, <2>6 DEF IInv
<1>10. CASE DriverExits
  <2> USE <1>10, <1>t DEF DriverExits, Goto, ray
  <2>1. TypeOK'
    BY DEF TypeOK, PC
  <2>2. LoopBound'
    BY DEF LoopBound, TypeOK
  <2>3. ClusterShape'
    BY DEF IInv, ClusterShape, RayUp
  <2>4. OwnRaylets'
    BY DEF IInv, OwnRaylets, Workers, TypeOK
  <2>5. HeadIsFresh'
    BY DEF HeadIsFresh, TypeOK
  <2> QED BY <2>1, <2>2, <2>3, <2>4, <2>5 DEF IInv
<1>11. CASE JobOver \/ Cancel
  <2> USE <1>11, <1>t DEF JobOver, Cancel, Kill, ray
  <2>1. TypeOK'
    BY DEF TypeOK, PC
  <2>2. LoopBound'
    BY DEF LoopBound
  <2>3. ClusterShape'
    BY DEF IInv, ClusterShape, RayUp
  <2>4. OwnRaylets'
    BY DEF IInv, OwnRaylets, Workers
  <2>5. HeadIsFresh'
    BY DEF HeadIsFresh
  <2> QED BY <2>1, <2>2, <2>3, <2>4, <2>5 DEF IInv
<1>12. CASE RayDies
  <2> USE <1>12, <1>t, <1>j DEF RayDies, script
  <2>1. TypeOK'
    BY DEF TypeOK
  <2>2. LoopBound'
    BY DEF IInv, LoopBound
  <2>3. ClusterShape'
    BY DEF IInv, ClusterShape, RayUp
  <2>4. OwnRaylets'
    BY DEF IInv, OwnRaylets, Workers
  <2>5. HeadIsFresh'
    BY DEF HeadIsFresh, RayUp
  <2> QED BY <2>1, <2>2, <2>3, <2>4, <2>5 DEF IInv
<1>13. CASE DownAndLaunch
  <2> USE <1>13, <1>t, <1>j DEF DownAndLaunch, Idle
  <2>1. TypeOK'
    BY DEF TypeOK
  <2>2. LoopBound'
    BY DEF IInv, LoopBound
  <2>3. ClusterShape'
    BY DEF IInv, ClusterShape, RayUp
  <2>4. OwnRaylets'
    BY DEF IInv, OwnRaylets, Workers
  <2>5. HeadIsFresh'
    BY DEF HeadIsFresh, RayUp
  <2> QED BY <2>1, <2>2, <2>3, <2>4, <2>5 DEF IInv
<1>14. ASSUME NEW n \in Workers, RayletDies(n) PROVE IInv'
  <2> USE <1>14, <1>t, <1>j DEF RayletDies, script, Workers
  <2>1. TypeOK'
    BY DEF TypeOK
  <2>2. LoopBound'
    BY DEF IInv, LoopBound
  <2>3. ClusterShape'
    BY DEF IInv, ClusterShape, RayUp, TypeOK
  <2>4. OwnRaylets'
    BY DEF IInv, OwnRaylets, TypeOK
  <2>5. HeadIsFresh'
    BY DEF IInv, HeadIsFresh, RayUp, SingleNode, TypeOK
  <2> QED BY <2>1, <2>2, <2>3, <2>4, <2>5 DEF IInv
<1>15. CASE UNCHANGED vars
  BY <1>15 DEF vars, IInv, TypeOK, LoopBound, ClusterShape, OwnRaylets, HeadIsFresh,
              RayUp, SingleNode
<1>16. Workers \subseteq Nodes
  BY DEF Workers
<1> QED
  BY <1>1, <1>2, <1>3, <1>4, <1>5, <1>6, <1>7, <1>8, <1>9, <1>10, <1>11, <1>12,
     <1>13, <1>14, <1>15, <1>16
  DEF Next, HeadStep, WorkerStep, Environment

(* IInv is an invariant of the bootstrap. *)
THEOREM Inductive == Spec => []IInv
BY InitIInv, NextIInv, PTL DEF Spec

(* TypeOK: the bootstrap is well typed; in particular the wait loop of lines
   108-112 never makes more than MaxTries polls. *)
THEOREM TypeCorrect == Spec => []TypeOK
<1>1. IInv => TypeOK
  BY DEF IInv
<1> QED BY <1>1, Inductive, PTL

(* NoStaleEnv: with reuse off no driver ever runs over a raylet started by an
   earlier job or in another environment (the guard of lines 76-100). *)
THEOREM FreshDriver == Spec => []NoStaleEnv
<1>1. IInv => NoStaleEnv
  <2> SUFFICES ASSUME IInv, DriverRuns, ~job.reuse, NEW n \in members
               PROVE  rayJob[n] = job.id /\ rayEnv[n] = job.env[n]
    BY DEF NoStaleEnv
  <2>1. n \in Nodes /\ Head \in Nodes /\ rayJob[n] \in Nat /\ rayJob[Head] \in Nat /\ job.id \in Nat
    BY HeadAssumption, BoundAssumption DEF IInv, TypeOK, Job
  <2>2. RayUp
    BY <2>1 DEF IInv, ClusterShape
  <2>3. rayJob[Head] = job.id
    BY <2>2 DEF IInv, HeadIsFresh, DriverRuns
  <2>4. rayJob[n] = job.id
    BY <2>1, <2>3 DEF IInv, ClusterShape
  <2> QED BY <2>4 DEF IInv, OwnRaylets
<1> QED BY <1>1, Inductive, PTL

(* MembersPrepared: with reuse off, every worker the driver of a job with a
   PREPARE command can use has run that command for this job (lines 116-122). *)
THEOREM WorkersPrepared == Spec => []MembersPrepared
<1>1. IInv /\ NoStaleEnv => MembersPrepared
  BY DEF IInv, NoStaleEnv, OwnRaylets, MembersPrepared, Workers, TypeOK
<1> QED BY <1>1, Inductive, FreshDriver, PTL

(* MarkerInv holds initially and is preserved by every step, unless a script is
   killed between `ray start` and the write of its marker. *)
LEMMA InitMarkerInv == Init => MarkerInv
BY HeadAssumption DEF Init, MarkerInv, MarkerHonest

LEMMA NextMarkerInv ==
  ASSUME "killed_in_start" \notin Faults
  PROVE  TypeOK /\ MarkerInv /\ [Next]_vars => MarkerInv'
<1> SUFFICES ASSUME TypeOK, MarkerInv, [Next]_vars PROVE MarkerInv'
  OBVIOUS
<1>j. job.env \in [Nodes -> Env]
  BY DEF TypeOK, Job
<1> USE HeadAssumption, <1>j DEF TypeOK
<1>1. CASE ExecSingle
  BY <1>1 DEF ExecSingle, Goto, ray, SingleNode, MarkerInv, MarkerHonest
<1>2. ASSUME NEW n \in Nodes, CheckRay(n) PROVE MarkerInv'
  <2> USE <1>2 DEF CheckRay, Goto, ray
  <2>1. MarkerHonest'
    BY DEF MarkerInv, MarkerHonest
  <2>2. (\A m \in Nodes : pc[m] = "mark" => rayEnv[m] \in {NoEnv, job.env[m]})'
    BY DEF MarkerInv
  <2>3. n = Head /\ pc'[Head] = "wait" => rayEnv[Head] = job.env[Head]
    BY DEF MarkerInv, MarkerHonest, Reusable, ray_status, RayUp
  <2>4. (~SingleNode /\ pc[Head] \in {"mark", "wait", "driver"}
           => rayEnv[Head] \in {NoEnv, job.env[Head]})'
    BY <2>3 DEF MarkerInv, SingleNode
  <2> QED BY <2>1, <2>2, <2>4 DEF MarkerInv
<1>3. CASE StartHead
  BY <1>3 DEF StartHead, RayStart, RayUp, Goto, ray, SingleNode, MarkerInv, MarkerHonest
<1>4. ASSUME NEW n \in Nodes, WriteMarker(n) PROVE MarkerInv'
  BY <1>4 DEF WriteMarker, Goto, ray, SingleNode, MarkerInv, MarkerHonest
<1>5. CASE PollJoined
  <2>1. /\ pc[Head] = "wait"
        /\ Goto(Head, "driver") \/ pc' = pc
        /\ UNCHANGED <<job, marker, ray>>
    BY <1>5 DEF PollJoined
  <2> QED BY <2>1 DEF Goto, ray, SingleNode, MarkerInv, MarkerHonest
<1>6. ASSUME NEW n \in Workers, Prepare(n) \/ PrepareFails(n) PROVE MarkerInv'
  BY <1>6 DEF Prepare, PrepareFails, Goto, ray, SingleNode, Workers, MarkerInv, MarkerHonest
<1>7. ASSUME NEW n \in Workers, Join(n) PROVE MarkerInv'
  BY <1>7 DEF Join, RayStart, Goto, ray, SingleNode, Workers, MarkerInv, MarkerHonest
<1>8. CASE Submit
  BY <1>8 DEF Submit, Idle, ray, MarkerInv, MarkerHonest
<1>9. CASE DriverExits
  BY <1>9 DEF DriverExits, Goto, ray, SingleNode, MarkerInv, MarkerHonest
<1>10. CASE JobOver \/ Cancel
  BY <1>10 DEF JobOver, Cancel, Kill, ray, MarkerInv, MarkerHonest
<1>11. CASE RayDies \/ DownAndLaunch
  BY <1>11 DEF RayDies, DownAndLaunch, script, MarkerInv, MarkerHonest
<1>12. ASSUME NEW n \in Workers, RayletDies(n) PROVE MarkerInv'
  BY <1>12 DEF RayletDies, script, SingleNode, Workers, MarkerInv, MarkerHonest
<1>13. CASE UNCHANGED vars
  BY <1>13 DEF vars, SingleNode, MarkerInv, MarkerHonest
<1>14. Workers \subseteq Nodes
  BY DEF Workers
<1> QED
  BY <1>1, <1>2, <1>3, <1>4, <1>5, <1>6, <1>7, <1>8, <1>9, <1>10, <1>11, <1>12,
     <1>13, <1>14
  DEF Next, HeadStep, WorkerStep, Environment

(* MarkerInv, hence MarkerHonest: whatever daemons die and jobs are cancelled,
   the marker next to a live raylet tells its environment (lines 64-66). *)
THEOREM MarkersTrue ==
  ASSUME "killed_in_start" \notin Faults
  PROVE  Spec => []MarkerInv /\ []MarkerHonest
<1>1. Init => MarkerInv
  BY InitMarkerInv
<1>2. TypeOK /\ MarkerInv /\ [Next]_vars => MarkerInv'
  BY NextMarkerInv
<1>3. MarkerInv => MarkerHonest
  BY DEF MarkerInv
<1> QED BY <1>1, <1>2, <1>3, TypeCorrect, PTL DEF Spec

(* ReuseKeepsEnv: a driver that reuses a control plane finds it in its own
   environment, with reuse on and any job before it (line 78). *)
THEOREM ReuseIsSafe ==
  ASSUME "killed_in_start" \notin Faults
  PROVE  Spec => []ReuseKeepsEnv
<1>1. MarkerInv => ReuseKeepsEnv
  BY DEF MarkerInv, ReuseKeepsEnv, DriverRuns
<1> QED BY <1>1, MarkersTrue, PTL
=============================================================================
