----------------------------- MODULE LaunchProofs -----------------------------
(***************************************************************************)
(* Proofs about Launch, for any set of machines, configs and launches.     *)
(*                                                                         *)
(* The argument: a cell that resolves its topology trains on all the nodes *)
(* of the job at once, so that a training run is a barrier: while it runs, *)
(* nobody converts, and when it has ended, every shard is new.             *)
(***************************************************************************)
EXTENDS Launch, CellProofs, FiniteSetTheorems

\* The step has been done by n, in this job.
Past(n, step) == \E j \in DOMAIN program : program[j] = step /\ j < k[n]

JobShape ==
  /\ HeadNode \in job.team /\ (job.sky \/ job.team = {HeadNode})
  /\ \A n \in Nodes \ job.team : pc[n] = "off"

Counters ==
  /\ k \in [Nodes -> Nat]
  /\ \A n \in Nodes :
       /\ pc[n] \in {"outer", "dispatch"} => k[n] = 1
       /\ pc[n] \in {"convert", "fit"} => k[n] \in 1..Len(program)

\* Who trains has passed the gates, and its guards.
Gated ==
  \A n \in Nodes :
    /\ pc[n] \in {"step", "convert", "fit"} => DispatchOK(cfg)
    /\ pc[n] \in {"step", "convert", "fit"} /\ Past(n, "resolve")
         => resolve(cfg, Provisioned, Cardinality(job.team))

\* While a cell that resolves trains, all its nodes do, but for those that fail.
Barrier ==
  Does(cfg, "resolve") =>
    \A n \in Nodes : pc[n] = "fit" => \A m \in Nodes : pc[m] \in {"fit", "failed", "off"}

\* A node that has converted has a whole seed, or somebody is, or was killed,
\* writing it anew.
Converted ==
  Does(cfg, "convert") =>
    \A n \in Nodes : pc[n] \in {"step", "fit"} /\ Past(n, "convert") =>
      \/ seed[Site(n)] = "whole"
      \/ \E m \in Nodes : Site(m) = Site(n) /\ pc[m] \in {"convert", "failed"}

\* After the training run of a cell that resolves, all its shards are of this job.
Sharded ==
  Does(cfg, "resolve") =>
    \A n \in Nodes : pc[n] = "step" /\ Past(n, "fit") =>
      \A m \in job.team : shards[Site(m)][m] = job.id

LaunchInv ==
  /\ TypeOK /\ JobShape /\ Counters /\ Gated
  /\ ResolvedWorld /\ Barrier /\ SeedWhole /\ Converted /\ Sharded /\ ExportComplete

-------------------------------------------------------------------------------
(* Facts that the steps share *)

LEMMA HeadInNodes == HeadNode \in Nodes BY NodesAssumption

Labels == {"off", "outer", "join", "held", "dispatch", "step", "convert", "fit", "done", "failed"}

\* What belongs to the job does not change while it runs.
LEMMA SameJob ==
  ASSUME job' = job
  PROVE  /\ cfg' = cfg /\ program' = program /\ LaunchedBy' = LaunchedBy
         /\ Provisioned' = Provisioned
         /\ \A s : Does(cfg, s)' <=> Does(cfg, s)
         /\ DispatchOK(cfg)' <=> DispatchOK(cfg)
         /\ resolve(cfg, Provisioned, Cardinality(job.team))'
              <=> resolve(cfg, Provisioned, Cardinality(job.team))
         /\ FitAt(cfg)' = FitAt(cfg)
BY DEF cfg, program, LaunchedBy, Provisioned

\* A node in its program has a registered trainer.
LEMMA InProgram ==
  ASSUME LaunchInv, NEW n \in Nodes, pc[n] \in {"step", "convert", "fit"}
  PROVE  /\ Registered(cfg) /\ Shaped(program, FitAt(cfg)) /\ DOMAIN program = 1..Len(program)
         /\ FitAt(cfg) \in 1..Len(program) /\ Len(program) \in Nat
         /\ k[n] \in 1..(Len(program) + 1)
<1>1. Registered(cfg) BY DEF LaunchInv, Gated, DispatchOK
<1>2. Shaped(program, FitAt(cfg)) BY <1>1, TrainerShape DEF program
<1>3. DOMAIN program = 1..Len(program) /\ Len(program) \in Nat BY <1>2 DEF Shaped
<1>4. k[n] \in 1..(Len(program) + 1) BY <1>3 DEF LaunchInv, TypeOK, Counters
<1> QED BY <1>1, <1>2, <1>3, <1>4 DEF Shaped

\* Advancing, a node has done the step it stood at, and no other.
LEMMA PastNext ==
  ASSUME NEW n \in Nodes, job' = job, k \in [Nodes -> Nat], k' = [k EXCEPT ![n] = @ + 1],
         DOMAIN program = 1..Len(program), Len(program) \in Nat,
         NEW s
  PROVE  /\ Past(n, s)' <=> Past(n, s) \/ (k[n] \in DOMAIN program /\ program[k[n]] = s)
         /\ \A m \in Nodes \ {n} : Past(m, s)' <=> Past(m, s)
BY SameJob DEF Past

LEMMA PastSame ==
  ASSUME job' = job, NEW n \in Nodes, k'[n] = k[n], NEW s
  PROVE  Past(n, s)' <=> Past(n, s)
BY SameJob DEF Past

\* A node under way is one of the job's, and the others wait for it while it
\* does not train.
LEMMA Alone ==
  ASSUME LaunchInv, NEW n \in Nodes, pc[n] \notin {"off", "failed", "fit"}
  PROVE  n \in job.team /\ (Does(cfg, "resolve") => \A m \in Nodes : pc[m] # "fit")
BY DEF LaunchInv, JobShape, Barrier

\* A seed that nobody writes stays as it is for those who train.
LEMMA SeedStays ==
  ASSUME LaunchInv, job' = job, seed' = seed,
         \A n \in Nodes : pc'[n] = "fit" => pc[n] = "fit"
  PROVE  SeedWhole'
BY SameJob DEF LaunchInv, SeedWhole, Site

-------------------------------------------------------------------------------
(* One node goes from one place of the program to another: what does not       *)
(* depend on which.  Converted and Sharded are left to the actions.            *)
LEMMA NodeMoves ==
  ASSUME LaunchInv, NEW n \in Nodes, NEW l \in {"held", "step", "convert", "done", "failed"},
         pc[n] \in {"outer", "join", "held", "dispatch", "step", "convert", "fit"},
         pc[n] = "fit" => l = "failed",
         pc' = [pc EXCEPT ![n] = l], k' \in [Nodes -> Nat],
         \A m \in Nodes \ {n} : k'[m] = k[m],
         job' = job, fits' = fits, shards' = shards, own_head' \in BOOLEAN,
         seed' \in [Nodes -> Seeds], seed' = seed \/ l \in {"step", "convert"},
         exported' \subseteq [by : Nodes, read : [Nodes -> 0..MaxJobs]],
         l = "step" => k'[n] \in 1..(Len(program) + 1),
         l = "convert" => k'[n] \in 1..Len(program) /\ program[k'[n]] \in Conversions,
         l \in {"step", "convert"} => DispatchOK(cfg),
         l \in {"step", "convert"} /\ Past(n, "resolve")'
           => resolve(cfg, Provisioned, Cardinality(job.team))
  PROVE  (TypeOK /\ JobShape /\ Counters /\ Gated /\ ResolvedWorld /\ Barrier /\ SeedWhole)'
<1>1. /\ TypeOK /\ JobShape /\ Counters /\ Gated /\ ResolvedWorld /\ Barrier
      /\ pc \in [Nodes -> Labels]
  BY DEF LaunchInv, TypeOK, Labels
<1>2. pc'[n] = l /\ \A m \in Nodes \ {n} : pc'[m] = pc[m] BY <1>1
<1>3. cfg' = cfg /\ program' = program BY SameJob
<1>4. TypeOK'
  <2>1. /\ job' \in [id : 0..MaxJobs, cfg : Configs, team : SUBSET Nodes, sky : BOOLEAN]
        /\ pc' \in [Nodes -> Labels] /\ own_head' \in BOOLEAN /\ fits' \subseteq SUBSET job'.team
        /\ seed' \in [Nodes -> Seeds] /\ shards' \in [Nodes -> [Nodes -> 0..MaxJobs]]
        /\ exported' \subseteq [by : Nodes, read : [Nodes -> 0..MaxJobs]]
    BY <1>1 DEF TypeOK, Labels
  <2>2. ASSUME NEW m \in Nodes
        PROVE  /\ pc'[m] = "step" => k'[m] \in 1..(Len(program') + 1)
               /\ pc'[m] = "fit" => program'[k'[m]] = "fit"
               /\ pc'[m] = "convert" => program'[k'[m]] \in {"convert", "convert_once"}
    <3>1. CASE m = n BY <1>2, <1>3, <3>1 DEF Conversions
    <3>2. CASE m # n BY <1>1, <1>2, <1>3, <3>2 DEF TypeOK
    <3> QED BY <3>1, <3>2
  <2> QED BY <2>1, <2>2 DEF TypeOK, Labels
<1>5. JobShape' BY <1>1, <1>2 DEF JobShape
<1>6. Counters' BY <1>1, <1>2, <1>3 DEF Counters
<1>7. Gated'
  <2>1. \A m \in Nodes \ {n} : Past(m, "resolve")' <=> Past(m, "resolve") BY PastSame
  <2> QED BY <1>1, <1>2, <2>1, SameJob DEF Gated
<1>8. ResolvedWorld' BY <1>1, SameJob DEF ResolvedWorld, Agree
<1>9. Barrier'
  <2>1. CASE l = "failed" BY <1>1, <1>2, <2>1, SameJob DEF Barrier
  <2>2. CASE l # "failed" BY <1>2, <2>2, Alone, SameJob DEF Barrier
  <2> QED BY <2>1, <2>2
<1>10. SeedWhole'
  <2>1. CASE seed' = seed BY <1>2, <2>1, SeedStays
  <2>2. CASE l \in {"step", "convert"}
    <3>1. Does(cfg, "convert") => \A m \in Nodes : pc[m] # "fit"
      BY <2>2, Resolving, Alone DEF DispatchOK
    <3> QED BY <1>2, <2>2, <3>1, SameJob DEF SeedWhole
  <2> QED BY <2>1, <2>2
<1> QED BY <1>4, <1>5, <1>6, <1>7, <1>8, <1>9, <1>10

-------------------------------------------------------------------------------
(* The two invariants about files, when a node moves that does not write them *)

\* A conversion counts as done after the step that did it or found it done;
\* nobody else's seed is touched.
LEMMA ConvertedStays ==
  ASSUME LaunchInv, NEW n \in Nodes, NEW l \in {"held", "step", "done", "failed"},
         pc' = [pc EXCEPT ![n] = l], job' = job, seed' = seed,
         pc[n] # "failed", pc[n] = "convert" => l = "failed",
         \A m \in Nodes \ {n} : Past(m, "convert")' <=> Past(m, "convert"),
         Does(cfg, "convert") /\ l = "step" /\ Past(n, "convert")'
           => pc[n] = "step" /\ Past(n, "convert")
  PROVE  Converted'
<1>1. Converted /\ pc \in [Nodes -> Labels] BY DEF LaunchInv, TypeOK, Labels
<1>2. pc'[n] = l /\ \A m \in Nodes \ {n} : pc'[m] = pc[m] BY <1>1
<1>3. SUFFICES ASSUME Does(cfg, "convert"), NEW q \in Nodes,
                      pc'[q] \in {"step", "fit"}, Past(q, "convert")', seed[Site(q)] # "whole"
               PROVE  \E m \in Nodes : Site(m) = Site(q) /\ pc'[m] \in {"convert", "failed"}
  BY SameJob DEF Converted, Site
<1>4. pc[q] \in {"step", "fit"} /\ Past(q, "convert") BY <1>2, <1>3
<1>5. PICK m \in Nodes : Site(m) = Site(q) /\ pc[m] \in {"convert", "failed"}
  BY <1>1, <1>3, <1>4 DEF Converted
<1> QED BY <1>2, <1>5

\* A training run counts as done after the step that did it.
LEMMA ShardedStays ==
  ASSUME LaunchInv, NEW n \in Nodes, NEW l \in {"held", "step", "convert", "done", "failed"},
         pc' = [pc EXCEPT ![n] = l], job' = job, shards' = shards,
         \A m \in Nodes \ {n} : Past(m, "fit")' <=> Past(m, "fit"),
         l = "step" /\ Past(n, "fit")' => pc[n] = "step" /\ Past(n, "fit")
  PROVE  Sharded'
<1>1. Sharded /\ pc \in [Nodes -> Labels] BY DEF LaunchInv, TypeOK, Labels
<1>2. pc'[n] = l /\ \A m \in Nodes \ {n} : pc'[m] = pc[m] BY <1>1
<1> QED BY <1>1, <1>2, SameJob DEF Sharded, Site

LEMMA ExportStays ==
  ASSUME LaunchInv, job' = job, exported' = exported
  PROVE  ExportComplete'
BY DEF LaunchInv, ExportComplete

-------------------------------------------------------------------------------
(* The steps of a node *)

LEMMA FilesTyped ==
  ASSUME LaunchInv
  PROVE  /\ seed \in [Nodes -> Seeds] /\ shards \in [Nodes -> [Nodes -> 0..MaxJobs]]
         /\ exported \subseteq [by : Nodes, read : [Nodes -> 0..MaxJobs]]
         /\ own_head \in BOOLEAN /\ fits \subseteq SUBSET job.team
         /\ k \in [Nodes -> Nat] /\ pc \in [Nodes -> Labels]
         /\ \A n \in Nodes : Site(n) \in Nodes
BY HeadInNodes DEF LaunchInv, TypeOK, Counters, Site, Labels

LEMMA DispatchInv == ASSUME LaunchInv, NEW n \in Nodes, Dispatch(n) PROVE LaunchInv'
<1> DEFINE l == IF DispatchOK(cfg) THEN "step" ELSE "failed"
<1>1. /\ pc[n] = "dispatch" /\ pc' = [pc EXCEPT ![n] = l] /\ l \in {"step", "failed"}
      /\ UNCHANGED <<job, k, own_head, fits, seed, shards, exported>>
  BY DEF Dispatch, Goto, files
<1>2. \A m \in Nodes, s \in {"convert", "fit", "resolve"} : Past(m, s)' <=> Past(m, s)
  BY <1>1, PastSame
<1>3. k[n] = 1 /\ \A m \in Nodes : k'[m] = k[m] BY <1>1 DEF LaunchInv, Counters
<1>4. l = "step" => DispatchOK(cfg) OBVIOUS
<1>5. l = "step" => Shaped(program, FitAt(cfg)) BY TrainerShape DEF DispatchOK, program
<1>6. l = "step" => \A s : ~Past(n, s)' BY <1>1, <1>3, <1>5, SameJob DEF Past, Shaped
<1>7. l = "step" => k'[n] \in 1..(Len(program) + 1) BY <1>3, <1>5 DEF Shaped
<1> HIDE DEF l
<1>8. (TypeOK /\ JobShape /\ Counters /\ Gated /\ ResolvedWorld /\ Barrier /\ SeedWhole)'
  BY <1>1, <1>3, <1>4, <1>6, <1>7, NodeMoves, FilesTyped
<1>9. Converted' BY <1>1, <1>2, <1>6, ConvertedStays
<1>10. Sharded' BY <1>1, <1>2, <1>6, ShardedStays
<1>11. ExportComplete' BY <1>1, ExportStays
<1> QED BY <1>8, <1>9, <1>10, <1>11 DEF LaunchInv

\* The next step, after one that neither trains nor converts.
LEMMA StepOn ==
  ASSUME LaunchInv, NEW n \in Nodes, pc[n] = "step", k[n] \in DOMAIN program,
         program[k[n]] \notin {"fit", "convert"},
         program[k[n]] = "resolve" => resolve(cfg, Provisioned, Cardinality(job.team)),
         k' = [k EXCEPT ![n] = @ + 1], own_head' \in BOOLEAN,
         exported' \subseteq [by : Nodes, read : [Nodes -> 0..MaxJobs]],
         UNCHANGED <<job, pc, fits, seed, shards>>
  PROVE  (TypeOK /\ JobShape /\ Counters /\ Gated /\ ResolvedWorld /\ Barrier /\ SeedWhole
          /\ Converted /\ Sharded)'
<1>1. pc' = [pc EXCEPT ![n] = "step"] BY FilesTyped
<1>2. /\ DOMAIN program = 1..Len(program) /\ Len(program) \in Nat
      /\ k \in [Nodes -> Nat] /\ DispatchOK(cfg)
      /\ Past(n, "resolve") => resolve(cfg, Provisioned, Cardinality(job.team))
  BY InProgram, FilesTyped DEF LaunchInv, Gated
<1>3. \A s \in {"resolve", "convert", "fit"} :
        /\ Past(n, s)' <=> Past(n, s) \/ program[k[n]] = s
        /\ \A m \in Nodes \ {n} : Past(m, s)' <=> Past(m, s)
  BY <1>2, PastNext
<1>4. /\ k' \in [Nodes -> Nat] /\ k'[n] \in 1..(Len(program) + 1)
      /\ \A m \in Nodes \ {n} : k'[m] = k[m]
  BY <1>2
<1>5. (TypeOK /\ JobShape /\ Counters /\ Gated /\ ResolvedWorld /\ Barrier /\ SeedWhole)'
  BY <1>1, <1>2, <1>3, <1>4, NodeMoves, FilesTyped
<1>6. Converted' BY <1>1, <1>3, ConvertedStays
<1>7. Sharded' BY <1>1, <1>3, ShardedStays
<1> QED BY <1>5, <1>6, <1>7

\* A node leaves its program, or has none: a worker of the ray cluster that joins it.
LEMMA Ends ==
  ASSUME LaunchInv, NEW n \in Nodes, NEW l \in {"held", "done", "failed"},
         pc[n] \in {"outer", "join", "held", "dispatch", "step", "convert", "fit"},
         pc[n] \in {"convert", "fit"} => l = "failed",
         pc' = [pc EXCEPT ![n] = l], UNCHANGED <<job, k, own_head, fits, files>>
  PROVE  LaunchInv'
<1>1. UNCHANGED <<seed, shards, exported>> BY DEF files
<1>2. \A m \in Nodes, s \in {"convert", "fit"} : Past(m, s)' <=> Past(m, s) BY PastSame
<1>3. (TypeOK /\ JobShape /\ Counters /\ Gated /\ ResolvedWorld /\ Barrier /\ SeedWhole)'
  BY <1>1, NodeMoves, FilesTyped
<1>4. Converted' BY <1>1, <1>2, ConvertedStays
<1>5. Sharded' BY <1>1, <1>2, ShardedStays
<1>6. ExportComplete' BY <1>1, ExportStays
<1> QED BY <1>3, <1>4, <1>5, <1>6 DEF LaunchInv

LEMMA JoinsInv == ASSUME LaunchInv, NEW n \in Nodes, Joins(n) PROVE LaunchInv'
BY Ends DEF Joins, Goto

LEMMA GuardInv == ASSUME LaunchInv, NEW n \in Nodes, Guard(n) PROVE LaunchInv'
<1>1. /\ pc[n] = "step" /\ k[n] \in DOMAIN program
      /\ program[k[n]] \in {"full_only", "full_or_lora", "init_from", "resolve"}
      /\ UNCHANGED <<job, own_head, fits, seed, shards, exported>>
  BY DEF Guard, AtStep, files
<1>2. CASE StepPasses(cfg, program[k[n]], Provisioned, Cardinality(job.team))
  <2>1. k' = [k EXCEPT ![n] = @ + 1] /\ pc' = pc BY <1>2 DEF Guard, Advance
  <2>2. program[k[n]] = "resolve" => resolve(cfg, Provisioned, Cardinality(job.team))
    BY <1>2 DEF StepPasses
  <2>3. ExportComplete' BY <1>1, ExportStays
  <2> QED BY <1>1, <2>1, <2>2, <2>3, StepOn, FilesTyped DEF LaunchInv
<1>3. CASE ~StepPasses(cfg, program[k[n]], Provisioned, Cardinality(job.team))
  BY <1>1, <1>3, Ends DEF Guard, Goto, files
<1> QED BY <1>2, <1>3

LEMMA RayHeadInv == ASSUME LaunchInv, NEW n \in Nodes, RayHead(n) PROVE LaunchInv'
<1>1. /\ pc[n] = "step" /\ k[n] \in DOMAIN program
      /\ program[k[n]] \in {"ray_head", "ray_unless"}
      /\ k' = [k EXCEPT ![n] = @ + 1]
      /\ UNCHANGED <<job, pc, fits, seed, shards, exported>>
  BY DEF RayHead, AtStep, Advance, files
<1>2. own_head' \in BOOLEAN BY FilesTyped DEF RayHead
<1>3. ExportComplete' BY <1>1, ExportStays
<1> QED BY <1>1, <1>2, <1>3, StepOn, FilesTyped DEF LaunchInv

LEMMA ConvertSkippedInv == ASSUME LaunchInv, NEW n \in Nodes, ConvertSkipped(n) PROVE LaunchInv'
<1>1. /\ pc[n] = "step" /\ k[n] \in DOMAIN program /\ program[k[n]] = "convert_once"
      /\ k' = [k EXCEPT ![n] = @ + 1]
      /\ UNCHANGED <<job, pc, own_head, fits, seed, shards, exported>>
  BY DEF ConvertSkipped, SeedFound, AtStep, Advance, files
<1>2. ExportComplete' BY <1>1, ExportStays
<1> QED BY <1>1, <1>2, StepOn, FilesTyped DEF LaunchInv

LEMMA NodeFailsInv == ASSUME LaunchInv, NEW n \in Nodes, NodeFails(n) PROVE LaunchInv'
<1>1. pc[n] \in Labels BY FilesTyped
<1> QED BY <1>1, Ends DEF NodeFails, Goto, Labels

LEMMA TrainReturnsInv == ASSUME LaunchInv, NEW n \in Nodes, TrainReturns(n) PROVE LaunchInv'
BY Ends DEF TrainReturns, Goto

\* A conversion begins: the seed of that directory is torn, and its writer known.
LEMMA ConvertBeginsInv == ASSUME LaunchInv, NEW n \in Nodes, ConvertBegins(n) PROVE LaunchInv'
<1>1. /\ pc[n] = "step" /\ k[n] \in DOMAIN program /\ program[k[n]] \in Conversions
      /\ seed' = [seed EXCEPT ![Site(n)] = "partial"]
      /\ pc' = [pc EXCEPT ![n] = "convert"]
      /\ UNCHANGED <<job, k, own_head, fits, shards, exported>>
  BY DEF ConvertBegins, AtStep, Goto, Conversions
<1>2. DOMAIN program = 1..Len(program) /\ DispatchOK(cfg) /\ seed' \in [Nodes -> Seeds]
  BY <1>1, InProgram, FilesTyped DEF LaunchInv, Gated, Seeds
<1>3. \A m \in Nodes, s \in {"resolve", "convert", "fit"} : Past(m, s)' <=> Past(m, s)
  BY <1>1, PastSame
<1>4. Past(n, "resolve") => resolve(cfg, Provisioned, Cardinality(job.team))
  BY <1>1 DEF LaunchInv, Gated
<1>5. (TypeOK /\ JobShape /\ Counters /\ Gated /\ ResolvedWorld /\ Barrier /\ SeedWhole)'
  BY <1>1, <1>2, <1>3, <1>4, NodeMoves, FilesTyped
<1>6. Converted'
  <2>1. SUFFICES ASSUME Does(cfg, "convert"), NEW q \in Nodes,
                        pc'[q] \in {"step", "fit"}, Past(q, "convert")', seed'[Site(q)] # "whole"
                 PROVE  \E m \in Nodes : Site(m) = Site(q) /\ pc'[m] \in {"convert", "failed"}
    BY <1>1, SameJob DEF Converted, Site
  <2>2. pc'[n] = "convert" /\ \A m \in Nodes \ {n} : pc'[m] = pc[m] BY <1>1, FilesTyped
  <2>3. CASE Site(q) = Site(n) BY <2>2, <2>3
  <2>4. CASE Site(q) # Site(n)
    <3>1. seed'[Site(q)] = seed[Site(q)] BY <1>1, <2>4, FilesTyped
    <3>2. pc[q] \in {"step", "fit"} /\ Past(q, "convert") BY <1>3, <2>1, <2>2
    <3>3. PICK m \in Nodes : Site(m) = Site(q) /\ pc[m] \in {"convert", "failed"}
      BY <2>1, <3>1, <3>2 DEF LaunchInv, Converted
    <3> QED BY <1>1, <2>2, <3>3
  <2> QED BY <2>3, <2>4
<1>7. Sharded' BY <1>1, <1>3, ShardedStays
<1>8. ExportComplete' BY <1>1, ExportStays
<1> QED BY <1>5, <1>6, <1>7, <1>8 DEF LaunchInv

\* A conversion ends: the seed is whole, or another conversion of it goes on.
LEMMA ConvertEndsInv == ASSUME LaunchInv, NEW n \in Nodes, ConvertEnds(n) PROVE LaunchInv'
<1> DEFINE others == {m \in Nodes \ {n} : pc[m] = "convert" /\ Site(m) = Site(n)}
<1>1. /\ pc[n] = "convert" /\ pc' = [pc EXCEPT ![n] = "step"] /\ k' = [k EXCEPT ![n] = @ + 1]
      /\ seed' = IF others # {} THEN seed ELSE [seed EXCEPT ![Site(n)] = "whole"]
      /\ UNCHANGED <<job, own_head, fits, shards, exported>>
  BY DEF ConvertEnds, Goto, Advance
<1>2. /\ DOMAIN program = 1..Len(program) /\ Len(program) \in Nat /\ k \in [Nodes -> Nat]
      /\ k[n] \in 1..Len(program) /\ program[k[n]] \in Conversions
      /\ DispatchOK(cfg) /\ seed' \in [Nodes -> Seeds]
      /\ Past(n, "resolve") => resolve(cfg, Provisioned, Cardinality(job.team))
  BY <1>1, InProgram, FilesTyped DEF LaunchInv, Gated, Counters, TypeOK, Seeds, Conversions
<1>3. \A s \in {"resolve", "convert", "fit"} :
        /\ Past(n, s)' <=> Past(n, s) \/ program[k[n]] = s
        /\ \A m \in Nodes \ {n} : Past(m, s)' <=> Past(m, s)
  BY <1>1, <1>2, PastNext
<1>4. /\ k' \in [Nodes -> Nat] /\ k'[n] \in 1..(Len(program) + 1)
      /\ \A m \in Nodes \ {n} : k'[m] = k[m]
  BY <1>1, <1>2
<1>5. (TypeOK /\ JobShape /\ Counters /\ Gated /\ ResolvedWorld /\ Barrier /\ SeedWhole)'
  BY <1>1, <1>2, <1>3, <1>4, NodeMoves, FilesTyped DEF Conversions
<1>6. Converted'
  <2>1. SUFFICES ASSUME Does(cfg, "convert"), NEW q \in Nodes,
                        pc'[q] \in {"step", "fit"}, Past(q, "convert")', seed'[Site(q)] # "whole"
                 PROVE  \E m \in Nodes : Site(m) = Site(q) /\ pc'[m] \in {"convert", "failed"}
    BY <1>1, SameJob DEF Converted, Site
  <2>2. pc'[n] = "step" /\ \A m \in Nodes \ {n} : pc'[m] = pc[m] BY <1>1, FilesTyped
  <2>3. CASE others # {} /\ Site(q) = Site(n) BY <2>2, <2>3
  <2>4. CASE others = {} /\ Site(q) = Site(n) BY <1>1, <2>1, <2>4, FilesTyped
  <2>5. CASE Site(q) # Site(n)
    <3>1. seed'[Site(q)] = seed[Site(q)] BY <1>1, <2>5, FilesTyped
    <3>2. pc[q] \in {"step", "fit"} /\ Past(q, "convert") BY <1>3, <2>1, <2>2, <2>5
    <3>3. PICK m \in Nodes : Site(m) = Site(q) /\ pc[m] \in {"convert", "failed"}
      BY <2>1, <3>1, <3>2 DEF LaunchInv, Converted
    <3> QED BY <2>2, <2>5, <3>3
  <2> QED BY <2>3, <2>4, <2>5
<1>7. Sharded'
  <2>1. Shaped(program, FitAt(cfg)) BY <1>1, InProgram
  <2>2. k[n] < FitAt(cfg) BY <1>2, <2>1 DEF Shaped, Conversions, After
  <2>3. ~Past(n, "fit")' BY <1>2, <1>3, <2>1, <2>2 DEF Past, Shaped, Conversions
  <2> QED BY <1>1, <1>3, <2>3, ShardedStays
<1>8. ExportComplete' BY <1>1, ExportStays
<1> QED BY <1>5, <1>6, <1>7, <1>8 DEF LaunchInv

\* The head exports after the training run: all shards are new.
LEMMA ExportInv == ASSUME LaunchInv, NEW n \in Nodes, Export(n) PROVE LaunchInv'
<1>1. /\ pc[n] = "step" /\ k[n] \in DOMAIN program /\ program[k[n]] = "export"
      /\ k' = [k EXCEPT ![n] = @ + 1]
      /\ UNCHANGED <<job, pc, own_head, fits, seed, shards>>
      /\ exported' = IF n = HeadNode
                     THEN exported \cup {[by |-> n, read |-> shards[Site(n)]]} ELSE exported
  BY DEF Export, AtStep, Advance
<1>2. exported' \subseteq [by : Nodes, read : [Nodes -> 0..MaxJobs]] BY <1>1, FilesTyped
<1>3. ExportComplete'
  <2>1. SUFFICES ASSUME SharedFS
                 PROVE  \A m \in job.team : shards[Site(n)][m] = job.id
    BY <1>1 DEF LaunchInv, ExportComplete
  <2>2. Registered(cfg) /\ Shaped(program, FitAt(cfg)) /\ DOMAIN program = 1..Len(program)
    BY <1>1, InProgram
  <2>3. Does(cfg, "resolve") BY <1>1, <2>2, Resolving DEF Does, program
  <2>4. Past(n, "fit") BY <1>1, <2>2 DEF Past, Shaped, Before, After
  <2>5. \A m \in job.team : shards[Site(m)][m] = job.id
    BY <1>1, <2>3, <2>4 DEF LaunchInv, Sharded
  <2> QED BY <2>1, <2>5 DEF Site
<1> QED BY <1>1, <1>2, <1>3, StepOn, FilesTyped DEF LaunchInv

-------------------------------------------------------------------------------
(* The steps that concern all nodes *)

LEMMA InitInv == Init => LaunchInv
<1> SUFFICES ASSUME Init PROVE LaunchInv OBVIOUS
<1>1. /\ job \in [id : {0}, cfg : Configs, team : {{HeadNode}}, sky : {FALSE}]
      /\ pc = [n \in Nodes |-> "off"] /\ k = [n \in Nodes |-> 1]
      /\ own_head = FALSE /\ fits = {} /\ seed = [n \in Nodes |-> "none"]
      /\ shards = [n \in Nodes |-> [m \in Nodes |-> 0]] /\ exported = {}
  BY DEF Init
<1>2. TypeOK
  <2>1. job \in [id : 0..MaxJobs, cfg : Configs, team : SUBSET Nodes, sky : BOOLEAN]
    <3>1. 0 \in 0..MaxJobs /\ {HeadNode} \in SUBSET Nodes BY HeadInNodes, MaxJobsAssumption
    <3> QED BY <1>1, <3>1
  <2>2. shards \in [Nodes -> [Nodes -> 0..MaxJobs]] BY <1>1, MaxJobsAssumption
  <2> QED BY <1>1, <2>1, <2>2 DEF TypeOK, Seeds
<1>3. JobShape /\ Counters /\ Gated /\ ResolvedWorld /\ Barrier /\ SeedWhole /\ Converted
      /\ Sharded /\ ExportComplete
  BY <1>1 DEF JobShape, Counters, Gated, ResolvedWorld, Barrier, SeedWhole, Converted, Sharded,
    ExportComplete
<1> QED BY <1>2, <1>3 DEF LaunchInv

\* A new job: every node begins, or has nothing to do.
LEMMA SubmitInv == ASSUME LaunchInv, Submit PROVE LaunchInv'
<1>1. /\ job' \in [id : {job.id + 1}, cfg : Configs, team : {t \in SUBSET Nodes : HeadNode \in t},
                   sky : BOOLEAN]
      /\ job.id < MaxJobs /\ (job'.sky \/ job'.team = {HeadNode})
      /\ k' = [n \in Nodes |-> 1] /\ own_head' = FALSE /\ fits' = {} /\ exported' = {}
      /\ UNCHANGED <<seed, shards>>
  BY DEF Submit
<1>2. /\ pc' \in [Nodes -> {"off", "join", "outer", "dispatch"}]
      /\ \A n \in Nodes \ job'.team : pc'[n] = "off"
  BY DEF Submit
<1>3. job'.id \in 0..MaxJobs
  BY <1>1, MaxJobsAssumption DEF LaunchInv, TypeOK
<1>4. TypeOK' BY <1>1, <1>2, <1>3, FilesTyped DEF TypeOK
<1>5. JobShape' BY <1>1, <1>2 DEF JobShape
<1>6. Counters' BY <1>1, <1>2 DEF Counters
<1>7. Gated' /\ ResolvedWorld' /\ Barrier' /\ SeedWhole' /\ Converted' /\ Sharded'
      /\ ExportComplete'
  BY <1>1, <1>2 DEF Gated, ResolvedWorld, Barrier, SeedWhole, Converted, Sharded, ExportComplete
<1> QED BY <1>4, <1>5, <1>6, <1>7 DEF LaunchInv

\* Nodes go to places where nothing is asked of them.
LEMMA Leaves ==
  ASSUME LaunchInv, UNCHANGED <<job, k, own_head, fits, files>>, pc' \in [Nodes -> Labels],
         \A n \in Nodes : \/ pc'[n] = pc[n] /\ pc[n] \in {"off", "failed", "done"}
                          \/ pc'[n] = "off" \/ (pc'[n] = "dispatch" /\ pc[n] = "outer")
  PROVE  LaunchInv'
<1>1. /\ UNCHANGED <<seed, shards, exported>> /\ cfg' = cfg /\ program' = program
      /\ \A n \in Nodes : pc'[n] \in {"off", "failed", "done", "dispatch"}
  BY SameJob DEF files
<1>2. TypeOK' BY <1>1, FilesTyped DEF LaunchInv, TypeOK, Labels
<1>3. JobShape' BY DEF LaunchInv, JobShape
<1>4. Counters' BY <1>1 DEF LaunchInv, Counters
<1>5. Gated' /\ Barrier' /\ SeedWhole' /\ Converted' /\ Sharded'
  BY <1>1 DEF Gated, Barrier, SeedWhole, Converted, Sharded
<1>6. ResolvedWorld' BY SameJob DEF LaunchInv, ResolvedWorld, Agree
<1>7. ExportComplete' BY <1>1, ExportStays
<1> QED BY <1>2, <1>3, <1>4, <1>5, <1>6, <1>7 DEF LaunchInv

LEMMA ReapInv == ASSUME LaunchInv, Reap PROVE LaunchInv'
<1>1. pc' = [n \in Nodes |-> "off"] /\ UNCHANGED <<job, k, own_head, fits, files>> BY DEF Reap
<1>2. pc' \in [Nodes -> Labels] /\ \A n \in Nodes : pc'[n] = "off" BY <1>1 DEF Labels
<1> QED BY <1>1, <1>2, Leaves

LEMMA OuterInv == ASSUME LaunchInv, OuterRendezvous PROVE LaunchInv'
<1>1. /\ \A n \in job.team : pc[n] = "outer"
      /\ pc' = [n \in Nodes |-> IF n \in job.team THEN "dispatch" ELSE pc[n]]
      /\ UNCHANGED <<job, k, own_head, fits, files>>
  BY DEF OuterRendezvous
<1>2. \A n \in Nodes \ job.team : pc[n] = "off" BY DEF LaunchInv, JobShape
<1>3. pc' \in [Nodes -> Labels] BY <1>1, FilesTyped DEF Labels
<1> QED BY <1>1, <1>2, <1>3, Leaves

\* A node that stands at the training run has done all there is before it.
LEMMA AtFit ==
  ASSUME LaunchInv, NEW n \in Nodes, pc[n] \in {"step", "fit"}, k[n] \in DOMAIN program,
         program[k[n]] = "fit"
  PROVE  /\ k[n] = FitAt(cfg) /\ Registered(cfg) /\ DispatchOK(cfg)
         /\ \A s \in Before : Does(cfg, s) => Past(n, s)
         /\ Does(cfg, "resolve") => resolve(cfg, Provisioned, Cardinality(job.team))
<1>1. /\ Registered(cfg) /\ DispatchOK(cfg) /\ DOMAIN program = 1..Len(program)
      /\ Shaped(program, FitAt(cfg))
  BY InProgram DEF LaunchInv, Gated
<1>2. k[n] = FitAt(cfg) BY <1>1 DEF Shaped
<1>3. ASSUME NEW s \in Before, Does(cfg, s) PROVE Past(n, s)
  <2>1. PICK j \in 1..Len(program) : program[j] = s BY <1>1, <1>3 DEF Does, program
  <2>2. j # FitAt(cfg) /\ ~(j > FitAt(cfg)) BY <1>1, <1>3, <2>1 DEF Shaped, Before, After
  <2> QED BY <1>1, <1>2, <2>1, <2>2 DEF Past, Shaped
<1>4. Does(cfg, "resolve") => resolve(cfg, Provisioned, Cardinality(job.team))
  BY <1>3 DEF Before, LaunchInv, Gated
<1> QED BY <1>1, <1>2, <1>3, <1>4

\* resolve() and the rendezvous together: the declared nodes are all nodes.
LEMMA WholeTeam ==
  ASSUME LaunchInv, NEW g \in SUBSET job.team, FitStarts(g), Does(cfg, "resolve")
  PROVE  Agree(g) /\ Procs(g) = g
<1>1. PICK n \in Procs(g) : AtStep(n, {"fit"})
  BY DEF FitStarts, Procs
<1>2. n \in Nodes /\ job.team \in SUBSET Nodes BY <1>1, HeadInNodes DEF Procs, LaunchInv, TypeOK
<1>3. Registered(cfg) /\ resolve(cfg, Provisioned, Cardinality(job.team))
  BY <1>1, <1>2, AtFit DEF AtStep
<1>4. LaunchedBy = "direct" BY <1>3, ResolvingAlone DEF LaunchedBy
<1>5. Cardinality(g) = cfg.nodes /\ Procs(g) = g BY <1>4 DEF FitStarts, Gathers, Procs
<1>6. IsFiniteSet(job.team) BY <1>2, NodesAssumption, FS_Subset
<1>7. Cardinality(job.team) \in Nat /\ Cardinality(job.team) # 0
  BY <1>6, FS_CardinalityType, FS_EmptySet DEF LaunchInv, JobShape
<1>8. Cardinality(g) = Cardinality(job.team)
  <2>1. CASE job.sky BY <1>3, <1>5, <1>7, <2>1 DEF resolve, Provisioned
  <2>2. CASE ~job.sky
    <3>1. job.team = {HeadNode} BY <2>2 DEF LaunchInv, JobShape
    <3>2. g = job.team BY <3>1 DEF FitStarts
    <3> QED BY <3>2
  <2> QED BY <2>1, <2>2
<1>9. g = job.team BY <1>6, <1>8, FS_Subset
<1> QED BY <1>5, <1>9 DEF Agree

LEMMA FitStartsInv == ASSUME LaunchInv, NEW g \in SUBSET job.team, FitStarts(g) PROVE LaunchInv'
<1>1. /\ g # {} /\ Gathers(g) /\ fits' = fits \cup {g}
      /\ pc' = [n \in Nodes |-> IF n \in Procs(g) THEN "fit" ELSE pc[n]]
      /\ \A n \in Procs(g) : pc[n] = "step" /\ k[n] \in DOMAIN program /\ program[k[n]] = "fit"
      /\ UNCHANGED <<job, k, own_head, seed, shards, exported>>
  BY DEF FitStarts, AtStep, files
<1>2. job.team \in SUBSET Nodes /\ Procs(g) \subseteq Nodes /\ Procs(g) # {}
  BY <1>1, HeadInNodes DEF Procs, LaunchInv, TypeOK
<1>3. cfg' = cfg /\ program' = program BY <1>1, SameJob
<1>4. pc' \in [Nodes -> Labels] BY <1>1, FilesTyped DEF Labels
<1>5. \A n \in Procs(g) : /\ pc'[n] = "fit" /\ DispatchOK(cfg) /\ Registered(cfg)
                          /\ Does(cfg, "resolve") => resolve(cfg, Provisioned, Cardinality(job.team))
  BY <1>1, <1>2, AtFit
<1>6. \A n \in Nodes \ Procs(g) : pc'[n] = pc[n] BY <1>1
<1>7. \A m \in Nodes, s \in {"resolve", "convert", "fit"} : Past(m, s)' <=> Past(m, s)
  BY <1>1, PastSame
<1>8. TypeOK'
  <2>1. ASSUME NEW n \in Nodes
        PROVE  /\ pc'[n] = "step" => k[n] \in 1..(Len(program) + 1)
               /\ pc'[n] = "fit" => program[k[n]] = "fit"
               /\ pc'[n] = "convert" => program[k[n]] \in {"convert", "convert_once"}
    <3>1. CASE n \in Procs(g) BY <1>1, <1>5, <3>1
    <3>2. CASE n \notin Procs(g) BY <1>6, <3>2 DEF LaunchInv, TypeOK
    <3> QED BY <3>1, <3>2
  <2> QED BY <1>1, <1>3, <1>4, <2>1, FilesTyped DEF LaunchInv, TypeOK, Labels
<1>9. JobShape'
  <2>1. Procs(g) \subseteq job.team BY DEF Procs, LaunchInv, JobShape
  <2> QED BY <1>1, <1>2, <1>6, <2>1 DEF LaunchInv, JobShape
<1>10. Counters'
  <2>1. \A n \in Procs(g) : k[n] \in 1..Len(program) BY <1>1, <1>2, InProgram
  <2> QED BY <1>1, <1>3, <1>5, <1>6, <2>1 DEF LaunchInv, Counters
<1>11. Gated'
  <2>1. ASSUME NEW n \in Nodes, pc'[n] \in {"step", "convert", "fit"}
        PROVE  DispatchOK(cfg) /\ (Past(n, "resolve")
                 => resolve(cfg, Provisioned, Cardinality(job.team)))
    <3>1. CASE n \in Procs(g)
      <4>1. Past(n, "resolve") => Does(cfg, "resolve") BY DEF Past, Does, program
      <4> QED BY <1>5, <3>1, <4>1
    <3>2. CASE n \notin Procs(g) BY <1>6, <2>1, <3>2 DEF LaunchInv, Gated
    <3> QED BY <3>1, <3>2
  <2> QED BY <1>1, <1>7, <2>1, SameJob DEF Gated
<1>12. ResolvedWorld' BY <1>1, SameJob, WholeTeam DEF LaunchInv, ResolvedWorld, Agree
<1>13. Does(cfg, "resolve") => \A m \in Nodes : pc'[m] \in {"fit", "off"}
  <2>1. SUFFICES ASSUME Does(cfg, "resolve"), NEW m \in Nodes PROVE pc'[m] \in {"fit", "off"}
    OBVIOUS
  <2>2. Procs(g) = job.team BY <2>1, WholeTeam DEF Agree
  <2> QED BY <1>5, <1>6, <2>2 DEF LaunchInv, JobShape
<1>14. Barrier' BY <1>1, <1>13, SameJob DEF Barrier
<1>15. Converted'
  <2>1. SUFFICES ASSUME Does(cfg, "convert"), NEW q \in Nodes,
                        pc'[q] \in {"step", "fit"}, Past(q, "convert")
                 PROVE  seed[Site(q)] = "whole"
    BY <1>1, <1>7, SameJob DEF Converted, Site
  <2>2. Does(cfg, "resolve") BY <1>2, <1>5, <2>1, Resolving
  <2>3. Procs(g) = job.team BY <2>2, WholeTeam DEF Agree
  <2>4. q \in Procs(g) /\ pc[q] = "step" BY <1>1, <1>6, <2>1, <2>3 DEF LaunchInv, JobShape
  <2>5. \A m \in Nodes : pc[m] \in {"step", "off"} BY <1>1, <2>3 DEF LaunchInv, JobShape
  <2> QED BY <2>1, <2>4, <2>5 DEF LaunchInv, Converted
<1>16. SeedWhole'
  <2>1. SUFFICES ASSUME Does(cfg, "convert"), NEW q \in Nodes, pc'[q] = "fit"
                 PROVE  seed[Site(q)] = "whole"
    BY <1>1, SameJob DEF SeedWhole, Site
  <2>2. CASE q \notin Procs(g) BY <1>6, <2>1, <2>2 DEF LaunchInv, SeedWhole
  <2>3. CASE q \in Procs(g)
    <3>1. Does(cfg, "resolve") BY <1>5, <2>1, <2>3, Resolving
    <3>2. Procs(g) = job.team BY <3>1, WholeTeam DEF Agree
    <3>3. \A m \in Nodes : pc[m] \in {"step", "off"} BY <1>1, <3>2 DEF LaunchInv, JobShape
    <3>4. Past(q, "convert") BY <1>1, <1>2, <2>1, <2>3, AtFit DEF Before
    <3> QED BY <1>1, <2>1, <2>3, <3>3, <3>4 DEF LaunchInv, Converted
  <2> QED BY <2>2, <2>3
<1>17. Sharded'
  <2>1. \A n \in Nodes : pc'[n] = "step" => pc[n] = "step" BY <1>1
  <2> QED BY <1>1, <1>7, <2>1, SameJob DEF LaunchInv, Sharded, Site
<1>18. ExportComplete' BY <1>1, ExportStays
<1> QED BY <1>8, <1>9, <1>10, <1>11, <1>12, <1>14, <1>15, <1>16, <1>17, <1>18 DEF LaunchInv

LEMMA FitEndsInv == ASSUME LaunchInv, NEW g \in SUBSET job.team, FitEnds(g) PROVE LaunchInv'
<1>1. /\ g \in fits /\ \A n \in Procs(g) : pc[n] = "fit"
      /\ pc' = [n \in Nodes |-> IF n \in Procs(g) THEN "step" ELSE pc[n]]
      /\ k' = [n \in Nodes |-> IF n \in Procs(g) THEN k[n] + 1 ELSE k[n]]
      /\ shards' = [s \in Nodes |-> [n \in Nodes |->
                      IF n \in g /\ Site(n) = s THEN job.id ELSE shards[s][n]]]
      /\ UNCHANGED <<job, own_head, fits, seed, exported>>
  BY DEF FitEnds
<1>2. job.team \in SUBSET Nodes /\ Procs(g) \subseteq Nodes
  BY HeadInNodes DEF Procs, LaunchInv, TypeOK
<1>3. cfg' = cfg /\ program' = program BY <1>1, SameJob
<1>4. \A n \in Procs(g) :
        /\ k[n] \in 1..Len(program) /\ Len(program) \in Nat /\ DOMAIN program = 1..Len(program)
        /\ program[k[n]] = "fit" /\ Registered(cfg) /\ DispatchOK(cfg)
        /\ Does(cfg, "resolve") => resolve(cfg, Provisioned, Cardinality(job.team))
  <2>1. SUFFICES ASSUME NEW n \in Procs(g)
                 PROVE /\ k[n] \in 1..Len(program) /\ Len(program) \in Nat
                       /\ DOMAIN program = 1..Len(program)
                       /\ program[k[n]] = "fit" /\ Registered(cfg) /\ DispatchOK(cfg)
                       /\ Does(cfg, "resolve") => resolve(cfg, Provisioned, Cardinality(job.team))
    OBVIOUS
  <2>2. n \in Nodes /\ pc[n] = "fit" BY <1>1, <1>2
  <2>3. k[n] \in 1..Len(program) /\ program[k[n]] = "fit" BY <2>2 DEF LaunchInv, Counters, TypeOK
  <2> QED BY <2>2, <2>3, InProgram, AtFit
<1>5. \A n \in Procs(g) : pc'[n] = "step" /\ k'[n] = k[n] + 1 BY <1>1, <1>2
<1>6. \A n \in Nodes \ Procs(g) : pc'[n] = pc[n] /\ k'[n] = k[n] BY <1>1
<1>7. \A n \in Procs(g), s \in {"resolve", "convert"} : Past(n, s)' <=> Past(n, s)
  BY <1>3, <1>4, <1>5 DEF Past
<1>8. \A n \in Nodes \ Procs(g), s \in {"resolve", "convert", "fit"} : Past(n, s)' <=> Past(n, s)
  BY <1>1, <1>6, PastSame
<1>9. TypeOK'
  <2>1. ASSUME NEW n \in Nodes
        PROVE  /\ pc'[n] = "step" => k'[n] \in 1..(Len(program) + 1)
               /\ pc'[n] = "fit" => program[k'[n]] = "fit"
               /\ pc'[n] = "convert" => program[k'[n]] \in {"convert", "convert_once"}
    <3>1. CASE n \in Procs(g) BY <1>4, <1>5, <3>1
    <3>2. CASE n \notin Procs(g) BY <1>6, <3>2 DEF LaunchInv, TypeOK
    <3> QED BY <3>1, <3>2
  <2>2. job.id \in 0..MaxJobs BY DEF LaunchInv, TypeOK
  <2>3. shards' \in [Nodes -> [Nodes -> 0..MaxJobs]] BY <1>1, <2>2, FilesTyped
  <2>4. pc' \in [Nodes -> Labels] BY <1>1, FilesTyped DEF Labels
  <2> QED BY <1>1, <1>3, <2>1, <2>3, <2>4, FilesTyped DEF LaunchInv, TypeOK, Labels
<1>10. JobShape'
  <2>1. \A n \in Procs(g) : n \in job.team BY <1>1, <1>2 DEF LaunchInv, JobShape
  <2> QED BY <1>1, <1>2, <1>6, <2>1 DEF LaunchInv, JobShape
<1>11. Counters'
  <2>1. k' \in [Nodes -> Nat] BY <1>1, <1>4, FilesTyped
  <2> QED BY <1>3, <1>5, <1>6, <2>1 DEF LaunchInv, Counters
<1>12. Gated'
  <2>1. ASSUME NEW n \in Nodes, pc'[n] \in {"step", "convert", "fit"}
        PROVE  DispatchOK(cfg) /\ (Past(n, "resolve")'
                 => resolve(cfg, Provisioned, Cardinality(job.team)))
    <3>1. CASE n \in Procs(g)
      <4>1. Past(n, "resolve")' => Does(cfg, "resolve") BY <1>3 DEF Past, Does, program
      <4> QED BY <1>4, <3>1, <4>1
    <3>2. CASE n \notin Procs(g) BY <1>6, <1>8, <2>1, <3>2 DEF LaunchInv, Gated
    <3> QED BY <3>1, <3>2
  <2> QED BY <1>1, <2>1, SameJob DEF Gated
<1>13. ResolvedWorld' BY <1>1, SameJob DEF LaunchInv, ResolvedWorld, Agree
<1>14. Does(cfg, "resolve") => Procs(g) = job.team /\ g = job.team
  <2>1. SUFFICES ASSUME Does(cfg, "resolve") PROVE Procs(g) = job.team /\ g = job.team
    OBVIOUS
  <2>2. g = job.team BY <1>1, <2>1 DEF LaunchInv, ResolvedWorld, Agree
  <2>3. HeadNode \in Procs(g) BY <2>2 DEF Procs, LaunchInv, JobShape
  <2>4. LaunchedBy = "direct" BY <1>4, <2>1, <2>3, ResolvingAlone DEF LaunchedBy
  <2> QED BY <2>2, <2>4 DEF Procs
<1>15. Barrier'
  <2>1. Does(cfg, "resolve") => \A n \in Nodes : pc'[n] # "fit"
    BY <1>5, <1>6, <1>14 DEF LaunchInv, JobShape
  <2> QED BY <1>1, <2>1, SameJob DEF Barrier
<1>16. Converted'
  <2>1. SUFFICES ASSUME Does(cfg, "convert"), NEW q \in Nodes,
                        pc'[q] \in {"step", "fit"}, Past(q, "convert")', seed[Site(q)] # "whole"
                 PROVE  \E m \in Nodes : Site(m) = Site(q) /\ pc'[m] \in {"convert", "failed"}
    BY <1>1, SameJob DEF Converted, Site
  <2>2. pc[q] \in {"step", "fit"} /\ Past(q, "convert") BY <1>1, <1>6, <1>7, <1>8, <2>1
  <2>3. PICK m \in Nodes : Site(m) = Site(q) /\ pc[m] \in {"convert", "failed"}
    BY <2>1, <2>2 DEF LaunchInv, Converted
  <2> QED BY <1>1, <1>6, <2>3
<1>17. Sharded'
  <2>1. SUFFICES ASSUME Does(cfg, "resolve"), NEW m \in job.team
                 PROVE  shards'[Site(m)][m] = job.id
    BY <1>1, SameJob DEF Sharded, Site
  <2>2. m \in Nodes /\ Site(m) \in Nodes BY <1>2, FilesTyped
  <2> QED BY <1>1, <1>14, <2>1, <2>2
<1>18. ExportComplete' BY <1>1, ExportStays
<1>19. SeedWhole' BY <1>1, <1>5, <1>6, SeedStays
<1> QED BY <1>9, <1>10, <1>11, <1>12, <1>13, <1>15, <1>16, <1>17, <1>18, <1>19 DEF LaunchInv

LEMMA StutterInv == ASSUME LaunchInv, UNCHANGED vars PROVE LaunchInv'
<1>1. UNCHANGED <<job, pc, k, own_head, fits, seed, shards, exported>> BY DEF vars
<1>2. cfg' = cfg /\ program' = program BY <1>1, SameJob
<1>3. \A n \in Nodes, s \in {"resolve", "convert", "fit"} : Past(n, s)' <=> Past(n, s)
  BY <1>1, PastSame
<1>4. (TypeOK /\ JobShape /\ Counters)' BY <1>1, <1>2 DEF LaunchInv, TypeOK, JobShape, Counters
<1>5. (Gated /\ ResolvedWorld /\ Barrier)'
  BY <1>1, <1>3, SameJob DEF LaunchInv, Gated, ResolvedWorld, Agree, Barrier
<1>6. (Converted /\ Sharded)' BY <1>1, <1>3, SameJob DEF LaunchInv, Converted, Sharded, Site
<1>7. SeedWhole' BY <1>1, SeedStays
<1>8. ExportComplete' BY <1>1, ExportStays
<1> QED BY <1>4, <1>5, <1>6, <1>7, <1>8 DEF LaunchInv

LEMMA NextInv == LaunchInv /\ [Next]_vars => LaunchInv'
<1> SUFFICES ASSUME LaunchInv, [Next]_vars PROVE LaunchInv' OBVIOUS
<1>1. ASSUME NEW n \in Nodes, NodeStep(n) PROVE LaunchInv'
  BY <1>1, JoinsInv, DispatchInv, GuardInv, RayHeadInv, ConvertBeginsInv, ConvertSkippedInv,
     ConvertEndsInv, ExportInv, TrainReturnsInv DEF NodeStep
<1>2. ASSUME Together PROVE LaunchInv'
  BY <1>2, OuterInv, FitStartsInv, FitEndsInv DEF Together
<1> QED BY <1>1, <1>2, SubmitInv, ReapInv, NodeFailsInv, StutterInv DEF Next

-------------------------------------------------------------------------------
(* The theorems *)

\* LaunchInv holds of every launch: any number of machines and configs, shared
\* and separate working directories, any kills and relaunches.
THEOREM LaunchInductive == Spec => []LaunchInv
BY InitInv, NextInv, PTL DEF Spec

\* The types of the launch.
THEOREM LaunchTyped == Spec => []TypeOK
<1>1. LaunchInv => TypeOK BY DEF LaunchInv
<1> QED BY <1>1, LaunchInductive, PTL

\* A cell that calls resolve() trains on all the nodes provisioned, as many as
\* its config declares, or not at all.
THEOREM WorldsAgree == Spec => []ResolvedWorld
<1>1. LaunchInv => ResolvedWorld BY DEF LaunchInv
<1> QED BY <1>1, LaunchInductive, PTL

\* A cell that converts each time trains from a whole seed only, whoever else
\* converts in its directory and whoever was killed doing so.
THEOREM SeedsWhole == Spec => []SeedWhole
<1>1. LaunchInv => SeedWhole BY DEF LaunchInv
<1> QED BY <1>1, LaunchInductive, PTL

\* On a shared file system the head exports the complete checkpoint of this job.
THEOREM ExportsComplete == Spec => []ExportComplete
<1>1. LaunchInv => ExportComplete BY DEF LaunchInv
<1> QED BY <1>1, LaunchInductive, PTL

=============================================================================
