---------------------------- MODULE RolloutProofs ----------------------------
(***************************************************************************)
(* Proofs about Rollout, for any number of hosts, load balancers and       *)
(* batches.                                                                *)
(***************************************************************************)
EXTENDS Rollout, FiniteSetTheorems, WellFoundedInduction, TLAPS

-----------------------------------------------------------------------------
(***************************************************************************)
(* The batches of a strategy.                                              *)
(***************************************************************************)
Len1 == Len(strategy.batches)

\* What the parser of the strategy and the preflight let through.
Config ==
  /\ strategy.kind \in Strategies
  /\ strategy.batches \in Seq({Rest, 1} \cup 1..MaxCount) /\ Len1 >= 1
  /\ strategy.kind \in {"parallel", "canaryRest"} => strategy.batches[Len1] = Rest
  /\ serverMap \subseteq Hosts /\ deployable \subseteq Hosts
  /\ unchanged \subseteq deployable

LEMMA ConfigInit == Init => Config
<1> SUFFICES ASSUME Init PROVE Config
  OBVIOUS
<1> USE BatchesAssumption, StrategiesAssumption
<1>1. PICK k \in Strategies : strategy \in [kind : {k}, batches : Batches(k)]
  BY DEF Init
<1>2. strategy.kind = k /\ strategy.batches \in Batches(k)
  BY <1>1
<1> DEFINE b == strategy.batches
<1>3. /\ b \in Seq({Rest, 1} \cup 1..MaxCount) /\ Len(b) >= 1
      /\ k \in {"parallel", "canaryRest"} => b[Len(b)] = Rest
  <2>1. CASE k = "sequential"
    <3>1. b = <<1>>
      BY <1>2, <2>1 DEF Batches
    <3> QED
      BY <2>1, <3>1
  <2>2. CASE k = "parallel"
    <3>1. b = <<Rest>>
      BY <1>2, <2>2 DEF Batches
    <3> QED
      BY <2>2, <3>1 DEF Rest
  <2>3. CASE k = "canary"
    <3>1. PICK n \in 2..MaxBatches : b \in [1..n -> 1..MaxCount]
      BY <1>2, <2>3 DEF Batches
    <3> QED
      BY <2>3, <3>1
  <2>4. CASE k = "canaryRest"
    <3>1. PICK n \in 1..MaxBatches-1 :
            \E counts \in [1..n -> 1..MaxCount] : b = Append(counts, Rest)
      BY <1>2, <2>4 DEF Batches
    <3>2. PICK counts \in [1..n -> 1..MaxCount] : b = Append(counts, Rest)
      BY <3>1
    <3>3. n \in Nat /\ counts \in Seq({Rest, 1} \cup 1..MaxCount) /\ Len(counts) = n
      BY <3>2
    <3> QED
      BY <2>4, <3>2, <3>3 DEF Rest
  <2> QED
    BY <2>1, <2>2, <2>3, <2>4, StrategiesAssumption DEF Kinds
<1> QED
  BY <1>2, <1>3 DEF Init, Preflight, Config, Len1

LEMMA PlacesFinite ==
  ASSUME Config, NEW i \in Nat, i <= Len1
  PROVE  IsFiniteSet(Places(i)) /\ Reach(i) \in Nat
<1>1. \A j \in 1..i : Size(strategy.batches[j]) \in 0..(NumHosts + MaxCount + 1)
  BY HostsAssumption, BatchesAssumption DEF Config, Len1, Size, Rest
<1> DEFINE room == (1..i) \X (1..(NumHosts + MaxCount + 1))
<1>2. Places(i) \in SUBSET room
  BY <1>1, HostsAssumption, BatchesAssumption DEF Places
<1>3. IsFiniteSet(1..i)
  BY FS_Interval
<1>4. NumHosts + MaxCount + 1 \in Int
  BY HostsAssumption, BatchesAssumption
<1>5. IsFiniteSet(1..(NumHosts + MaxCount + 1))
  BY <1>4, FS_Interval
<1>6. IsFiniteSet(room)
  BY <1>3, <1>5, FS_Product
<1>7. IsFiniteSet(Places(i))
  BY <1>2, <1>6, FS_Subset
<1> QED
  BY <1>7, FS_CardinalityType DEF Reach

\* The batches before one reach no further than those before a later one.
LEMMA ReachGrows ==
  ASSUME Config, NEW i \in Nat, NEW j \in Nat, i <= j, j <= Len1
  PROVE  Reach(i) <= Reach(j) /\ Reach(i) \in Nat /\ Reach(j) \in Nat
<1>1. Places(i) \in SUBSET Places(j)
  BY DEF Places
<1>2. i <= Len1
  BY DEF Config, Len1
<1> QED
  BY <1>1, <1>2, PlacesFinite, FS_Subset DEF Reach

LEMMA ReachNone == Config => Reach(0) = 0
<1>1. Places(0) = {}
  BY DEF Places
<1> QED
  BY <1>1, FS_EmptySet DEF Reach

LEMMA HostsFinite == IsFiniteSet(Hosts) /\ Cardinality(Hosts) = NumHosts
BY HostsAssumption, FS_Interval DEF Hosts

LEMMA RankType ==
  ASSUME Config, NEW h \in serving
  PROVE  Rank(h) \in 1..NumHosts
<1> DEFINE before == {g \in serving : g <= h}
<1>1. before \in SUBSET Hosts /\ h \in before
  <2>1. serving \subseteq Hosts
    BY DEF Config, serving
  <2>2. h \in Nat /\ h <= h
    BY <2>1, HostsAssumption DEF Hosts
  <2>3. before \subseteq serving
    OBVIOUS
  <2> QED
    BY <2>1, <2>2, <2>3
<1>2. IsFiniteSet(before) /\ Cardinality(before) <= NumHosts
  BY <1>1, HostsFinite, FS_Subset
<1>3. Cardinality(before) # 0 /\ Cardinality(before) \in Nat
  BY <1>1, <1>2, FS_EmptySet, FS_CardinalityType
<1> QED
  BY <1>2, <1>3, HostsAssumption DEF Rank

\* No host is in two batches.
LEMMA BatchesDisjoint ==
  ASSUME Config, NEW i \in 1..Len1, NEW j \in 1..Len1, i # j
  PROVE  BatchHosts(i) \cap BatchHosts(j) = {}
<1>0. Len1 \in Nat
  BY DEF Config, Len1
<1>1. ASSUME NEW a \in 1..Len1, NEW b \in 1..Len1, a < b,
             NEW h \in BatchHosts(a), h \in BatchHosts(b)
      PROVE  FALSE
  <2>1. Rank(h) <= Reach(a) /\ Reach(b - 1) < Rank(h) /\ h \in serving
    BY <1>1 DEF BatchHosts
  <2>2. Reach(a) <= Reach(b - 1) /\ Reach(a) \in Nat /\ Reach(b - 1) \in Nat
    BY <1>0, <1>1, ReachGrows
  <2>3. Rank(h) \in Nat
    BY <2>1, RankType, HostsAssumption
  <2> QED
    BY <2>1, <2>2, <2>3
<1> QED
  BY <1>0, <1>1

\* A strategy that ends in "R" takes every serving host.
LEMMA LastTakesRest ==
  ASSUME Config, strategy.batches[Len1] = Rest, NEW h \in serving
  PROVE  \E i \in 1..Len1 : h \in BatchHosts(i)
<1>0. Len1 \in Nat /\ Len1 >= 1
  BY DEF Config, Len1
<1>1. Reach(Len1) >= NumHosts /\ Reach(Len1) \in Nat
  <2> DEFINE last == {Len1} \X (1..NumHosts)
  <2>1. last \in SUBSET Places(Len1)
    BY <1>0 DEF Places, Size
  <2>2. IsFiniteSet(Places(Len1)) /\ Reach(Len1) \in Nat
    BY <1>0, PlacesFinite
  <2>3. Cardinality(last) = NumHosts
    <3>1. IsFiniteSet({Len1}) /\ Cardinality({Len1}) = 1
      BY FS_Singleton
    <3>2. IsFiniteSet(1..NumHosts) /\ Cardinality(1..NumHosts) = NumHosts
      BY HostsFinite DEF Hosts
    <3>3. Cardinality(last) = Cardinality({Len1}) * Cardinality(1..NumHosts)
      BY <3>1, <3>2, FS_Product
    <3> HIDE DEF last
    <3> QED
      BY <3>1, <3>2, <3>3, HostsAssumption
  <2> QED
    BY <2>1, <2>2, <2>3, FS_Subset, HostsAssumption DEF Reach
<1>2. Rank(h) \in 1..NumHosts
  BY RankType
<1> DEFINE enough == {i \in 1..Len1 : Rank(h) <= Reach(i)}
           Less == OpToRel(<, Nat)
<1>3. Len1 \in enough /\ enough \in SUBSET Nat
  BY <1>0, <1>1, <1>2, HostsAssumption
<1>4. Less = {p \in Nat \X Nat : p[1] < p[2]}
  BY DEF OpToRel
<1>5. IsWellFoundedOn(Less, Nat)
  BY NatLessThanWellFounded
<1> HIDE DEF Less
<1>6. PICK i \in enough : \A k \in enough : ~ (<<k, i>> \in Less)
  BY <1>3, <1>5, WFMin
<1>7. Reach(i - 1) < Rank(h)
  <2>1. i \in 1..Len1
    BY <1>6
  <2>2. Reach(i - 1) \in Nat
    BY <1>0, <2>1, PlacesFinite
  <2>3. CASE i = 1
    BY <1>2, <2>3, ReachNone
  <2>4. CASE i > 1
    <3>1. i - 1 \in 1..Len1 /\ i - 1 \in Nat /\ i \in Nat /\ i - 1 < i
      BY <1>0, <2>1, <2>4
    <3>2. <<i - 1, i>> \in Less
      BY <1>4, <3>1
    <3>3. i - 1 \notin enough
      BY <1>6, <3>2
    <3> QED
      BY <1>2, <2>2, <3>1, <3>3, HostsAssumption
  <2> QED
    BY <2>1, <2>3, <2>4
<1> QED
  BY <1>6, <1>7 DEF BatchHosts

-----------------------------------------------------------------------------
(***************************************************************************)
(* The order of the tasks, whatever fails.                                 *)
(***************************************************************************)
\* What the tasks and the phases leave behind.
Tasks ==
  \A h \in Hosts :
    /\ pc[h] # "waiting" => h \in deployable /\ phase # "pre"
    /\ pc[h] = "drain" => h \in serverMap
    /\ h \in throwing => h \in serving /\ pc[h] # "waiting"
    /\ pc[h] # "waiting" /\ h \in serving =>
         \E i \in 1..batch : h \in BatchHosts(i)

\* A batch that is over.
Over(i) ==
  \A h \in BatchHosts(i) : pc[h] = "done" /\ (isCanary => h \notin throwing)

Phases ==
  /\ \A i \in 1..Len1 : i < batch => Over(i)
  /\ phase = "workers" => Over(batch) /\ batch = Len1
  /\ phase = "pre" => batch = 1
  /\ aborted => phase \in {"gate", "exit"}
  /\ \A w \in workers : pc[w] # "waiting" =>
       ~aborted /\ phase # "rollout" /\ \A h \in BatchHosts(batch) : pc[h] = "done"
  /\ phase \in {"gate", "exit"} /\ ~aborted =>
       /\ \A h \in Hosts : pc[h] \in {"waiting", "done"}
       /\ isCanary => throwing = {}

Shape == Config /\ TypeOK /\ Tasks /\ Phases

LEMMA ShapeInit == Init => Shape
<1> SUFFICES ASSUME Init PROVE Shape
  OBVIOUS
<1>1. Config
  BY ConfigInit
<1>2. TypeOK
  <2>1. Len(strategy.batches) \in Nat /\ batch \in 1..Len(strategy.batches)
    BY <1>1 DEF Init, Config, Len1
  <2> QED
    BY <1>1, <2>1 DEF Init, TypeOK, Config, Preflight, Len1, Labels
<1>3. Tasks
  BY DEF Init, Tasks
<1>4. Phases
  <2>1. workers \subseteq Hosts
    BY <1>1 DEF Config, workers
  <2> QED
    BY <1>1, <2>1 DEF Init, Phases, Config, Len1
<1> QED
  BY <1>1, <1>2, <1>3, <1>4 DEF Shape

\* The configuration does not change, nor what is computed from it.
LEMMA ConfigFixed == [Next]_vars => UNCHANGED configVars
BY DEF Next, vars, Orchestrate, HostTask, PreMigrations, PreFails, StartTasks, NextBatch,
       WorkersDone, Abort, PostGate, Drain, Quiesce, Deploy, HealthCheck, Ready, Resume

LEMMA BatchesFixed ==
  ASSUME UNCHANGED configVars
  PROVE  /\ (serving' = serving) /\ (workers' = workers) /\ (isCanary' = isCanary)
         /\ (Len1' = Len1) /\ (Config => Config')
         /\ \A i : BatchHosts(i)' = BatchHosts(i)
<1> USE DEF configVars
<1>1. (serving' = serving) /\ (workers' = workers) /\ (isCanary' = isCanary)
  BY DEF serving, workers, isCanary
<1>2. (Len1' = Len1) /\ (Config => Config')
  BY DEF Len1, Config
<1>3. ASSUME NEW i PROVE BatchHosts(i)' = BatchHosts(i)
  BY <1>1 DEF BatchHosts, Rank, Reach, Places
<1> QED
  BY <1>1, <1>2, <1>3

\* What a step of a task changes.
LEMMA TaskEffect ==
  ASSUME Shape, NEW h \in Hosts, HostTask(h)
  PROVE  /\ pc[h] \notin {"waiting", "done"} /\ phase # "exit"
         /\ pc' = [pc EXCEPT ![h] = pc'[h]]
         /\ pc'[h] \in {"quiesce", "deploy", "health", "ready", "resume", "done"}
         /\ throwing \subseteq throwing' /\ throwing' \subseteq throwing \cup {h}
         /\ h \in throwing' => h \in serving
         /\ UNCHANGED <<configVars, runVars>>
         /\ TypeOK'
<1> USE DEF Shape, TypeOK, Running, Goto, Finally, Fails, Count, Labels, Counters,
        configVars, localVars, worldVars, runVars, setServerState
<1>0. h \in deployable /\ (h \in throwing => h \in serving)
  BY DEF Tasks, HostTask, Drain, Quiesce, Deploy, HealthCheck, Ready, Resume
<1>1. CASE Drain(h)
  <2>1. h \in serving
    BY <1>0, <1>1 DEF Drain, Tasks, serving
  <2> QED
    BY <1>1, <2>1 DEF Drain
<1>2. CASE Quiesce(h)
  BY <1>0, <1>2 DEF Quiesce, quiesceScheduler
<1>3. CASE Deploy(h)
  BY <1>0, <1>3 DEF Deploy, workers
<1>4. CASE HealthCheck(h)
  BY <1>0, <1>4 DEF HealthCheck, workers
<1>5. CASE Ready(h)
  BY <1>0, <1>5 DEF Ready
<1>6. CASE Resume(h)
  BY <1>0, <1>6 DEF Resume, resumeScheduler
<1> QED
  BY <1>1, <1>2, <1>3, <1>4, <1>5, <1>6 DEF HostTask

LEMMA TaskShape ==
  ASSUME Shape, NEW h \in Hosts, HostTask(h)
  PROVE  Shape'
<1>1. /\ pc[h] \notin {"waiting", "done"} /\ phase # "exit"
      /\ pc' = [pc EXCEPT ![h] = pc'[h]]
      /\ pc'[h] \in {"quiesce", "deploy", "health", "ready", "resume", "done"}
      /\ throwing \subseteq throwing' /\ throwing' \subseteq throwing \cup {h}
      /\ h \in throwing' => h \in serving
      /\ UNCHANGED <<configVars, runVars>>
      /\ TypeOK'
  BY TaskEffect
<1>2. /\ (serving' = serving) /\ (workers' = workers) /\ (isCanary' = isCanary)
      /\ (Len1' = Len1) /\ Config'
      /\ \A i : BatchHosts(i)' = BatchHosts(i)
  BY <1>1, BatchesFixed DEF Shape
<1>3. /\ UNCHANGED <<phase, batch, aborted, serverMap, deployable>>
      /\ \A g \in Hosts : g # h => pc'[g] = pc[g] /\ (g \in throwing' <=> g \in throwing)
      /\ \A g \in throwing : g \in Hosts
  BY <1>1 DEF Shape, TypeOK, runVars, configVars
<1>4. serving \subseteq Hosts /\ workers \subseteq Hosts /\ \A i : BatchHosts(i) \subseteq serving
  BY DEF Shape, Config, serving, workers, BatchHosts
<1>5. Tasks'
  BY <1>1, <1>2, <1>3 DEF Shape, Tasks
<1>6. ASSUME NEW i, Over(i) PROVE Over(i)'
  <2>1. h \notin BatchHosts(i)
    BY <1>1, <1>6 DEF Over
  <2> QED
    BY <1>2, <1>3, <1>4, <1>6, <2>1 DEF Over
<1>7. Phases'
  <2>1. /\ \A i \in 1..Len1' : i < batch' => Over(i)'
        /\ phase' = "workers" => Over(batch)' /\ batch' = Len1'
        /\ phase' = "pre" => batch' = 1
        /\ aborted' => phase' \in {"gate", "exit"}
    BY <1>2, <1>3, <1>6 DEF Shape, Phases
  <2>2. ASSUME NEW w \in workers, pc'[w] # "waiting"
        PROVE  /\ ~aborted' /\ phase' # "rollout"
               /\ \A g \in BatchHosts(batch) : pc'[g] = "done"
    <3>1. pc[w] # "waiting"
      BY <1>1, <1>3, <1>4, <2>2
    <3>2. /\ ~aborted /\ phase # "rollout"
          /\ \A g \in BatchHosts(batch) : pc[g] = "done"
      BY <3>1 DEF Shape, Phases
    <3> QED
      BY <1>1, <1>3, <1>4, <3>2
  <2>3. ~ (phase \in {"gate", "exit"} /\ ~aborted)
    BY <1>1 DEF Shape, Phases
  <2>4. BatchHosts(batch)' = BatchHosts(batch)
    BY <1>2, <1>3 DEF BatchHosts
  <2> QED
    BY <1>2, <1>3, <2>1, <2>2, <2>3, <2>4 DEF Phases
<1> QED
  BY <1>1, <1>2, <1>5, <1>7 DEF Shape

\* The tasks of a batch begin behind all batches before it, the workers behind
\* all of them.
LEMMA StartShape ==
  ASSUME Shape, StartTasks
  PROVE  Shape'
<1> DEFINE starting == {h \in Batch : pc[h] = "waiting"}
<1>1. /\ phase \in {"rollout", "workers"}
      /\ UNCHANGED <<configVars, localVars, worldVars, runVars>>
      /\ UNCHANGED <<phase, batch, aborted, serverMap, deployable, throwing>>
  BY DEF StartTasks, runVars, localVars, configVars
<1>2. /\ (serving' = serving) /\ (workers' = workers) /\ (isCanary' = isCanary)
      /\ (Len1' = Len1) /\ Config'
      /\ \A i : BatchHosts(i)' = BatchHosts(i)
  BY <1>1, BatchesFixed DEF Shape
<1>3. serving \subseteq Hosts /\ workers \subseteq Hosts /\ \A i : BatchHosts(i) \subseteq serving
  BY DEF Shape, Config, serving, workers, BatchHosts
<1>4. starting \subseteq Hosts /\ starting \subseteq serving \cup workers
  BY <1>3 DEF Batch
<1>5. \A h \in Hosts :
        /\ h \notin starting => pc'[h] = pc[h]
        /\ h \in starting => /\ pc[h] = "waiting"
                             /\ pc'[h] \in {"done", "drain", "quiesce"}
                             /\ pc'[h] = "drain" => h \in serverMap
  BY DEF StartTasks
<1>6. TypeOK'
  <2>1. pc' \in [Hosts -> Labels]
    BY <1>5 DEF StartTasks, Shape, TypeOK, Labels
  <2>2. outcome' \in [Hosts -> {None} \cup Counters]
    BY DEF StartTasks, Shape, TypeOK, Counters
  <2> QED
    BY <1>1, <2>1, <2>2 DEF Shape, TypeOK, configVars, localVars, worldVars, runVars
<1>7. Tasks'
  <2> SUFFICES ASSUME NEW h \in Hosts
               PROVE  /\ pc'[h] # "waiting" => h \in deployable /\ phase # "pre"
                      /\ pc'[h] = "drain" => h \in serverMap
                      /\ h \in throwing => h \in serving /\ pc'[h] # "waiting"
                      /\ pc'[h] # "waiting" /\ h \in serving =>
                           \E i \in 1..batch : h \in BatchHosts(i)
    BY <1>1, <1>2 DEF Tasks
  <2>1. CASE h \notin starting
    BY <1>5, <2>1 DEF Shape, Tasks
  <2>2. CASE h \in starting
    <3>1. h \in deployable
      BY <1>4, <2>2 DEF serving, workers
    <3>2. h \in serving => h \in BatchHosts(batch)
      BY <1>1, <2>2 DEF Batch, workers
    <3>3. batch \in 1..batch
      BY DEF Shape, TypeOK
    <3> QED
      BY <1>1, <1>5, <2>2, <3>1, <3>2, <3>3 DEF Shape, Tasks
  <2> QED
    BY <2>1, <2>2
<1>8. ASSUME NEW i, Over(i) PROVE Over(i)'
  <2>1. BatchHosts(i) \cap starting = {}
    BY <1>8 DEF Over
  <2> QED
    BY <1>1, <1>2, <1>3, <1>5, <1>8, <2>1 DEF Over
<1>9. Phases'
  <2>1. /\ \A i \in 1..Len1' : i < batch' => Over(i)'
        /\ phase' = "workers" => Over(batch)' /\ batch' = Len1'
        /\ phase' = "pre" => batch' = 1
        /\ aborted' => phase' \in {"gate", "exit"}
    BY <1>1, <1>2, <1>8 DEF Shape, Phases
  <2>2. ASSUME NEW w \in workers, pc'[w] # "waiting"
        PROVE  /\ ~aborted /\ phase # "rollout"
               /\ \A g \in BatchHosts(batch) : pc'[g] = "done"
    <3>1. ~aborted
      BY <1>1 DEF Shape, Phases
    <3>2. phase # "rollout"
      BY <1>3, <1>5, <2>2 DEF Shape, Phases, Batch, BatchHosts, workers
    <3>3. \A g \in BatchHosts(batch) : pc[g] = "done"
      BY <1>1, <3>2 DEF Shape, Phases, Over
    <3> QED
      BY <1>3, <1>5, <3>1, <3>2, <3>3
  <2>3. BatchHosts(batch)' = BatchHosts(batch)
    BY <1>1, <1>2 DEF BatchHosts
  <2> QED
    BY <1>1, <1>2, <2>1, <2>2, <2>3 DEF Phases
<1> QED
  BY <1>2, <1>6, <1>7, <1>9 DEF Shape

\* The steps between the batches touch no host.
Between == PreMigrations \/ PreFails \/ NextBatch \/ WorkersDone \/ Abort \/ PostGate

LEMMA BetweenShape ==
  ASSUME Shape, Between
  PROVE  Shape'
<1>1. UNCHANGED <<configVars, localVars, worldVars, pc, outcome>>
  BY DEF Between, PreMigrations, PreFails, NextBatch, WorkersDone, Abort, PostGate
<1>2. /\ (serving' = serving) /\ (workers' = workers) /\ (isCanary' = isCanary)
      /\ (Len1' = Len1) /\ Config'
      /\ \A i : BatchHosts(i)' = BatchHosts(i)
  BY <1>1, BatchesFixed DEF Shape
<1>3. UNCHANGED <<serverMap, deployable, throwing, pc>>
  BY <1>1 DEF configVars, localVars
<1>4. serving \subseteq Hosts /\ workers \subseteq Hosts /\ \A i : BatchHosts(i) \subseteq serving
  BY DEF Shape, Config, serving, workers, BatchHosts
<1>5. \A i : Over(i)' <=> Over(i)
  BY <1>2, <1>3 DEF Over
<1>6. batch \in 1..Len1 /\ Len1 \in Nat
  BY DEF Shape, TypeOK, Config, Len1
<1>7. batch' \in {batch, batch + 1} /\ batch' \in 1..Len1
  BY <1>6 DEF Between, PreMigrations, PreFails, NextBatch, WorkersDone, Abort, PostGate, Len1
<1>8. TypeOK'
  <2>1. /\ phase' \in {"pre", "rollout", "workers", "gate", "exit"}
        /\ aborted' \in BOOLEAN /\ post' \in {"pending", "run", "skipped"}
    BY DEF Between, PreMigrations, PreFails, NextBatch, WorkersDone, Abort, PostGate,
           Shape, TypeOK
  <2>2. batch' \in 1..Len(strategy'.batches)
    BY <1>1, <1>7 DEF Len1, configVars
  <2> QED
    BY <1>1, <2>1, <2>2 DEF Shape, TypeOK, configVars, localVars, worldVars
<1>9. Tasks'
  <2>1. phase' # "pre"
    BY DEF Between, PreMigrations, PreFails, NextBatch, WorkersDone, Abort, PostGate
  <2>2. 1..batch \subseteq 1..batch'
    BY <1>6, <1>7
  <2> QED
    BY <1>2, <1>3, <2>1, <2>2 DEF Shape, Tasks
<1>10. Phases'
  <2> USE <1>2, <1>3, <1>5, <1>6 DEF Shape, Phases
  <2>1. BatchHosts(batch)' = BatchHosts(batch')
    BY DEF BatchHosts
  <2>2. Over(batch)' <=> Over(batch')
    BY <2>1 DEF Over
  <2>3. CASE PreMigrations
    <3>1. UNCHANGED <<batch, aborted>> /\ phase = "pre" /\ phase' \in {"gate", "rollout"}
      BY <2>3 DEF PreMigrations
    <3>2. \A h \in Hosts : pc[h] = "waiting" /\ h \notin throwing
      BY <3>1 DEF Tasks
    <3>3. throwing = {}
      BY <3>2 DEF TypeOK
    <3> QED
      BY <1>4, <3>1, <3>2, <3>3
  <2>4. CASE PreFails
    <3>1. UNCHANGED <<batch, aborted>> /\ phase = "pre" /\ phase' = "exit"
      BY <2>4 DEF PreFails
    <3>2. \A h \in Hosts : pc[h] = "waiting" /\ h \notin throwing
      BY <3>1 DEF Tasks
    <3>3. throwing = {}
      BY <3>2 DEF TypeOK
    <3> QED
      BY <1>4, <3>1, <3>2, <3>3
  <2>5. CASE NextBatch
    <3>1. /\ phase = "rollout" /\ aborted' = aborted
          /\ \/ batch < Len1 /\ batch' = batch + 1 /\ phase' = "rollout"
             \/ batch = Len1 /\ batch' = batch /\ phase' = "workers"
      BY <2>5 DEF NextBatch, Len1
    <3>2. Over(batch)
      BY <2>5 DEF NextBatch, Settled, Over
    <3>3. \A w \in workers : pc[w] = "waiting"
      BY <3>1
    <3>4. ~aborted
      BY <3>1
    <3>5. \A i \in 1..Len1 : i < batch' => Over(i)
      BY <3>1, <3>2
    <3> QED
      BY <2>2, <3>1, <3>2, <3>3, <3>4, <3>5
  <2>6. CASE WorkersDone
    <3>1. /\ phase = "workers" /\ phase' = "gate" /\ UNCHANGED <<batch, aborted>>
          /\ \A w \in workers : pc[w] = "done"
      BY <2>6 DEF WorkersDone, Settled
    <3>2. ~aborted /\ Over(batch) /\ batch = Len1 /\ \A i \in 1..batch : Over(i)
      BY <3>1
    <3>3. ASSUME NEW h \in Hosts PROVE pc[h] \in {"waiting", "done"}
      BY <3>1, <3>2 DEF Tasks, Over, serving, workers
    <3>4. ASSUME isCanary, NEW h \in throwing PROVE FALSE
      <4>1. h \in Hosts
        BY DEF TypeOK
      <4> QED
        BY <3>2, <3>4, <4>1 DEF Tasks, Over
    <3> QED
      BY <2>1, <3>1, <3>2, <3>3, <3>4 DEF Over
  <2>7. CASE Abort
    <3>1. phase = "rollout" /\ phase' = "gate" /\ aborted' /\ batch' = batch
      BY <2>7 DEF Abort
    <3>2. \A w \in workers : pc[w] = "waiting"
      BY <3>1
    <3> QED
      BY <2>1, <3>1, <3>2
  <2>8. CASE PostGate
    <3>1. phase = "gate" /\ phase' = "exit" /\ UNCHANGED <<batch, aborted>>
      BY <2>8 DEF PostGate
    <3> QED
      BY <2>1, <3>1
  <2> QED
    BY <2>3, <2>4, <2>5, <2>6, <2>7, <2>8 DEF Between
<1> QED
  BY <1>2, <1>8, <1>9, <1>10 DEF Shape

LEMMA ShapeStep == Shape /\ [Next]_vars => Shape'
<1> SUFFICES ASSUME Shape, [Next]_vars PROVE Shape'
  OBVIOUS
<1>1. CASE UNCHANGED vars
  <2>1. UNCHANGED <<configVars, localVars, worldVars, runVars, pc, outcome>>
    BY <1>1 DEF vars
  <2>2. /\ (serving' = serving) /\ (workers' = workers) /\ (isCanary' = isCanary)
        /\ (Len1' = Len1) /\ Config'
        /\ \A i : BatchHosts(i)' = BatchHosts(i)
    BY <2>1, BatchesFixed DEF Shape
  <2>3. UNCHANGED <<phase, batch, aborted, serverMap, deployable, throwing, pc>>
    BY <2>1 DEF configVars, localVars, runVars
  <2>4. TypeOK'
    BY <2>1 DEF Shape, TypeOK, configVars, localVars, worldVars, runVars
  <2>5. Tasks'
    BY <2>2, <2>3 DEF Shape, Tasks
  <2>6. \A i : Over(i)' <=> Over(i)
    BY <2>2, <2>3 DEF Over
  <2>7. BatchHosts(batch)' = BatchHosts(batch) /\ (Over(batch)' <=> Over(batch))
    BY <2>2, <2>3 DEF BatchHosts, Over
  <2>8. Phases'
    BY <2>2, <2>3, <2>6, <2>7 DEF Shape, Phases
  <2> QED
    BY <2>2, <2>4, <2>5, <2>8 DEF Shape
<1>2. CASE Next
  BY <1>2, TaskShape, StartShape, BetweenShape DEF Next, Orchestrate, Between
<1> QED
  BY <1>1, <1>2

LEMMA ShapeAlways == Spec => []Shape
BY ShapeInit, ShapeStep, PTL DEF Spec

\* The variables of the rollout have their types.
THEOREM TypeCorrect == Spec => []TypeOK
<1>1. Shape => TypeOK
  BY DEF Shape
<1> QED
  BY <1>1, ShapeAlways, PTL

\* The canary guards the rest, for any number of hosts and any sizes of the
\* batches, whichever commands fail or are lost.
THEOREM CanaryGuards == Spec => []CanaryGuardsTheRest
<1>1. ASSUME Shape, NEW i \in 1..Len1, NEW j \in 1..Len1, i < j,
             NEW g \in BatchHosts(i), NEW h \in BatchHosts(j), pc[h] # "waiting"
      PROVE  pc[g] = "done" /\ (isCanary => g \notin throwing)
  <2>1. h \in serving /\ h \in Hosts /\ Len1 \in Nat /\ batch \in 1..Len1
    BY <1>1 DEF Shape, Config, TypeOK, BatchHosts, serving, Len1
  <2>2. PICK k \in 1..batch : h \in BatchHosts(k)
    BY <1>1, <2>1 DEF Shape, Tasks
  <2>3. k = j
    BY <1>1, <2>1, <2>2, BatchesDisjoint DEF Shape
  <2>4. Over(i)
    BY <1>1, <2>1, <2>3 DEF Shape, Phases
  <2> QED
    BY <2>4 DEF Over
<1>2. ASSUME Shape, NEW w \in workers, pc[w] # "waiting"
      PROVE  ~aborted /\ \A h \in serving : pc[h] \in {"waiting", "done"}
  <2>1. ~aborted /\ \A h \in BatchHosts(batch) : pc[h] = "done"
    BY <1>2 DEF Shape, Phases
  <2>2. ASSUME NEW h \in serving, pc[h] # "waiting" PROVE pc[h] = "done"
    <3>1. h \in Hosts /\ Len1 \in Nat /\ batch \in 1..Len1
      BY <1>2 DEF Shape, Config, TypeOK, serving, Len1
    <3>2. PICK k \in 1..batch : h \in BatchHosts(k)
      BY <1>2, <2>2, <3>1 DEF Shape, Tasks
    <3>3. CASE k = batch
      BY <2>1, <3>2, <3>3
    <3>4. CASE k < batch
      BY <1>2, <3>1, <3>2, <3>4 DEF Shape, Phases, Over
    <3> QED
      BY <3>1, <3>3, <3>4
  <2> QED
    BY <2>1, <2>2
<1>3. Shape => CanaryGuardsTheRest
  BY <1>1, <1>2 DEF CanaryGuardsTheRest, Len1
<1> QED
  BY <1>3, ShapeAlways, PTL

-----------------------------------------------------------------------------
(***************************************************************************)
(* What the tasks give back, when no ready and no resume is lost.          *)
(***************************************************************************)
\* out and paused are what drained and quiesced say.
HostGivenBack(h) ==
  /\ h \in drained => h \in serving /\ pc[h] \in {"quiesce", "deploy", "health", "ready"}
  /\ h \in quiesced => pc[h] \in {"deploy", "health", "ready", "resume"}
  /\ h \in paused => h \in quiesced
  /\ \A p \in HAProxies : h \in out[p] =>
       \/ h \in drained
       \/ h \in throwing /\ pc[h] = "done" /\ strategy.kind \in DrainFaults

GivenBack == \A h \in Hosts : HostGivenBack(h)

LEMMA GivenBackTask ==
  ASSUME ~LostCommands, Shape, GivenBack, NEW h \in Hosts, HostTask(h)
  PROVE  GivenBack'
<1>1. /\ pc' = [pc EXCEPT ![h] = pc'[h]]
      /\ throwing \subseteq throwing' /\ throwing' \subseteq throwing \cup {h}
      /\ UNCHANGED configVars
  BY TaskEffect
<1>2. serving' = serving /\ UNCHANGED strategy
  BY <1>1, BatchesFixed DEF configVars
<1>3. pc \in [Hosts -> Labels] /\ out \in [HAProxies -> SUBSET Hosts]
  BY DEF Shape, TypeOK
<1>4. HostGivenBack(h)
  BY DEF GivenBack
<1>5. ASSUME NEW g \in Hosts, g # h PROVE HostGivenBack(g)'
  <2>1. HostGivenBack(g)
    BY DEF GivenBack
  <2>2. pc'[g] = pc[g] /\ (g \in throwing => g \in throwing')
    BY <1>1, <1>3, <1>5
  <2>3. /\ g \in drained' <=> g \in drained
        /\ g \in quiesced' <=> g \in quiesced
        /\ g \in paused' => g \in paused
    BY <1>5 DEF HostTask, Drain, Quiesce, Deploy, HealthCheck, Ready, Resume,
           quiesceScheduler, resumeScheduler, worldVars, configVars, localVars
  <2>4. \A p \in HAProxies : g \in out'[p] => g \in out[p]
    BY <1>3, <1>5 DEF HostTask, Drain, Quiesce, Deploy, HealthCheck, Ready, Resume,
           setServerState, worldVars
  <2> QED
    BY <1>2, <2>1, <2>2, <2>3, <2>4 DEF HostGivenBack
<1>6. HostGivenBack(h)'
  <2> USE <1>2, <1>3, <1>4 DEF HostGivenBack
  <2>1. CASE Drain(h)
    <3>1. h \in serving
      BY <2>1 DEF Drain, Running, Shape, Tasks, serving
    <3>2. h \notin quiesced /\ h \notin paused /\ UNCHANGED <<quiesced, paused>>
      BY <2>1 DEF Drain, Running
    <3>3. CASE h \in drained' /\ pc'[h] = "quiesce"
      BY <3>1, <3>2, <3>3
    <3>4. CASE /\ strategy.kind \in DrainFaults /\ h \in throwing'
               /\ pc'[h] = "done" /\ drained' = drained
      <4>1. h \notin drained
        BY <2>1 DEF Drain, Running
      <4> QED
        BY <3>2, <3>4, <4>1
    <3> QED
      BY <2>1, <3>3, <3>4 DEF Drain, Goto
  <2>2. CASE Quiesce(h)
    BY <2>2 DEF Quiesce, Running, Goto, quiesceScheduler
  <2>3. CASE Deploy(h)
    BY <2>3 DEF Deploy, Running, Goto, Fails, Finally
  <2>4. CASE HealthCheck(h)
    BY <2>4 DEF HealthCheck, Running, Goto, Fails, Finally, worldVars
  <2>5. CASE Ready(h)
    BY <2>5 DEF Ready, Running, Goto, setServerState
  <2>6. CASE Resume(h)
    BY <2>6 DEF Resume, Running, Goto, resumeScheduler
  <2> QED
    BY <2>1, <2>2, <2>3, <2>4, <2>5, <2>6 DEF HostTask
<1> QED
  BY <1>5, <1>6 DEF GivenBack

LEMMA GivenBackStep ==
  ASSUME ~LostCommands, Shape, GivenBack, [Next]_vars
  PROVE  GivenBack'
<1>1. UNCHANGED strategy /\ serving' = serving
  BY ConfigFixed, BatchesFixed DEF configVars
<1>2. CASE UNCHANGED vars
  <2>1. UNCHANGED <<drained, quiesced, throwing, out, paused, pc>>
    BY <1>2 DEF vars, localVars, worldVars
  <2> QED
    BY <1>1, <2>1 DEF GivenBack, HostGivenBack
<1>3. CASE Between
  <2>1. UNCHANGED <<drained, quiesced, throwing, out, paused, pc>>
    BY <1>3 DEF Between, PreMigrations, PreFails, NextBatch, WorkersDone, Abort, PostGate,
                localVars, worldVars
  <2> QED
    BY <1>1, <2>1 DEF GivenBack, HostGivenBack
<1>4. CASE StartTasks
  <2>1. UNCHANGED <<drained, quiesced, throwing, out, paused>>
    BY <1>4 DEF StartTasks, localVars, worldVars
  <2>2. \A h \in Hosts : pc[h] # "waiting" => pc'[h] = pc[h]
    BY <1>4 DEF StartTasks
  <2> QED
    BY <1>1, <2>1, <2>2 DEF GivenBack, HostGivenBack
<1> QED
  BY <1>2, <1>3, <1>4, GivenBackTask DEF Next, Orchestrate, Between

LEMMA GivenBackAlways == ~LostCommands /\ Spec => [](Shape /\ GivenBack)
<1>1. Init => GivenBack
  BY DEF Init, GivenBack, HostGivenBack
<1>2. ~LostCommands /\ Shape /\ GivenBack /\ [Next]_vars => GivenBack'
  BY GivenBackStep
<1>3. Shape /\ ~LostCommands => ~LostCommands'
  OBVIOUS
<1> QED
  BY <1>1, <1>2, <1>3, ShapeAlways, PTL DEF Spec

\* One batch is out at a time, for any number of hosts and load balancers, when
\* no command is lost.
THEOREM OneBatch ==
  ASSUME ~LostCommands
  PROVE  Spec => []OneBatchOut
<1>1. ASSUME Shape, GivenBack, isCanary, NEW p \in HAProxies, NEW h \in out[p]
      PROVE  h \in BatchHosts(batch)
  <2>1. h \in Hosts /\ Len1 \in Nat /\ batch \in 1..Len1
    BY <1>1 DEF Shape, Config, TypeOK, Len1
  <2>2. /\ h \in serving /\ pc[h] # "waiting"
        /\ pc[h] = "done" => h \in throwing
    BY <1>1, <2>1 DEF GivenBack, HostGivenBack, Shape, Tasks
  <2>3. PICK i \in 1..batch : h \in BatchHosts(i)
    BY <1>1, <2>1, <2>2 DEF Shape, Tasks
  <2>4. ~ (i < batch)
    BY <1>1, <2>1, <2>2, <2>3 DEF Shape, Phases, Over
  <2> QED
    BY <2>1, <2>3, <2>4
<1>2. Shape /\ GivenBack => OneBatchOut
  BY <1>1 DEF OneBatchOut
<1> QED
  BY <1>2, GivenBackAlways, PTL

\* A rollout that is not aborted gives everything back, when no command is lost
\* and none fails but in a canary.
THEOREM Restored ==
  ASSUME ~LostCommands, DrainFaults \subseteq {"canary", "canaryRest"}
  PROVE  Spec => []RestoredUnlessAborted
<1>1. ASSUME Shape, GivenBack, phase = "exit", ~aborted
      PROVE  paused = {} /\ \A p \in HAProxies : out[p] = {}
  <2>1. /\ \A h \in Hosts : pc[h] \in {"waiting", "done"}
        /\ isCanary => throwing = {}
        /\ paused \subseteq Hosts /\ \A p \in HAProxies : out[p] \subseteq Hosts
    BY <1>1 DEF Shape, TypeOK, Phases
  <2>2. ASSUME NEW h \in Hosts
        PROVE  h \notin paused /\ \A p \in HAProxies : h \notin out[p]
    BY <1>1, <2>1 DEF GivenBack, HostGivenBack, isCanary
  <2> QED
    BY <2>1, <2>2
<1>2. Shape /\ GivenBack => RestoredUnlessAborted
  BY <1>1 DEF RestoredUnlessAborted
<1> QED
  BY <1>2, GivenBackAlways, PTL

-----------------------------------------------------------------------------
(***************************************************************************)
(* What is counted.                                                        *)
(***************************************************************************)
\* What is counted as successful serves the new WAR, and everything that ends is
\* counted unless its drain failed.
HostCounted(h) ==
  /\ h \in unchanged \/ pc[h] = "health" \/ outcome[h] = "successful" => h \notin old
  /\ pc[h] \in {"ready", "resume", "done"} =>
       outcome[h] # None \/ (h \in throwing /\ strategy.kind \in DrainFaults)

Counted == \A h \in Hosts : HostCounted(h)

\* A strategy that ends in "R" has taken every host when the gate is reached
\* without an abort.
TakesAll ==
  phase = "gate" /\ ~aborted /\ strategy.batches[Len1] = Rest =>
    deployable = unchanged \/ \A h \in deployable : pc[h] = "done"

Tallied == Shape /\ Counted /\ TakesAll

LEMMA CountedTask ==
  ASSUME Shape, Counted, NEW h \in Hosts, HostTask(h)
  PROVE  Counted'
<1>1. /\ pc' = [pc EXCEPT ![h] = pc'[h]] /\ throwing \subseteq throwing'
      /\ UNCHANGED <<strategy, unchanged>>
  BY TaskEffect DEF configVars
<1>2. pc \in [Hosts -> Labels] /\ outcome \in [Hosts -> {None} \cup Counters]
  BY DEF Shape, TypeOK
<1>3. ASSUME NEW g \in Hosts, g # h PROVE HostCounted(g)'
  <2>1. HostCounted(g)
    BY DEF Counted
  <2>2. pc'[g] = pc[g] /\ (g \in throwing => g \in throwing')
    BY <1>1, <1>2, <1>3
  <2>3. outcome'[g] = outcome[g] /\ (g \in old' => g \in old)
    BY <1>2, <1>3 DEF HostTask, Drain, Quiesce, Deploy, HealthCheck, Ready, Resume, Fails,
                      Count, worldVars
  <2> QED
    BY <1>1, <2>1, <2>2, <2>3 DEF HostCounted
<1>4. HostCounted(h)'
  <2>0. HostCounted(h)
    BY DEF Counted
  <2> USE <1>1, <1>2, <2>0, NoneAssumption DEF HostCounted, Running, Goto, Count
  <2>1. CASE Drain(h)
    BY <2>1 DEF Drain
  <2>2. CASE Quiesce(h)
    BY <2>2 DEF Quiesce
  <2>3. CASE Deploy(h)
    BY <2>3 DEF Deploy, Fails, Finally
  <2>4. CASE HealthCheck(h)
    BY <2>4 DEF HealthCheck, Fails, Finally, worldVars
  <2>5. CASE Ready(h)
    BY <2>5 DEF Ready
  <2>6. CASE Resume(h)
    BY <2>6 DEF Resume
  <2> QED
    BY <2>1, <2>2, <2>3, <2>4, <2>5, <2>6 DEF HostTask
<1> QED
  BY <1>3, <1>4 DEF Counted

LEMMA CountedStart ==
  ASSUME Shape, Counted, StartTasks
  PROVE  Counted'
<1>1. UNCHANGED <<strategy, unchanged, throwing, old>>
  BY DEF StartTasks, configVars, localVars, worldVars
<1>2. ASSUME NEW h \in Hosts PROVE HostCounted(h)'
  <2>1. HostCounted(h)
    BY DEF Counted
  <2>2. CASE h \in Batch /\ pc[h] = "waiting" /\ h \in unchanged
    <3>1. pc'[h] = "done" /\ outcome'[h] = "successful"
      BY <2>2 DEF StartTasks
    <3> QED
      BY <1>1, <2>1, <2>2, <3>1, NoneAssumption DEF HostCounted
  <2>3. CASE h \in Batch /\ pc[h] = "waiting" /\ h \notin unchanged
    <3>1. pc'[h] \in {"drain", "quiesce"} /\ outcome'[h] = outcome[h]
      BY <2>3 DEF StartTasks
    <3> QED
      BY <1>1, <2>1, <3>1 DEF HostCounted
  <2>4. CASE ~ (h \in Batch /\ pc[h] = "waiting")
    <3>1. pc'[h] = pc[h] /\ outcome'[h] = outcome[h]
      BY <2>4 DEF StartTasks
    <3> QED
      BY <1>1, <2>1, <3>1 DEF HostCounted
  <2> QED
    BY <2>2, <2>3, <2>4
<1> QED
  BY <1>2 DEF Counted

\* The workers' end is the end of every host.
LEMMA WorkersLast ==
  ASSUME Shape, WorkersDone, strategy.batches[Len1] = Rest, NEW h \in deployable
  PROVE  pc[h] = "done"
<1>1. CASE h \in workers
  BY <1>1 DEF WorkersDone, Settled
<1>2. CASE h \in serving
  <2>1. Len1 \in Nat /\ batch = Len1 /\ Over(Len1)
    BY DEF Shape, Config, Phases, WorkersDone, Len1
  <2>2. PICK i \in 1..Len1 : h \in BatchHosts(i)
    BY <1>2, LastTakesRest DEF Shape
  <2>3. Over(i)
    BY <2>1 DEF Shape, Phases
  <2> QED
    BY <2>2, <2>3 DEF Over
<1> QED
  BY <1>1, <1>2 DEF workers

LEMMA TalliedStep == Tallied /\ [Next]_vars => Tallied'
<1> SUFFICES ASSUME Tallied, [Next]_vars PROVE Tallied'
  OBVIOUS
<1>1. Shape' /\ Len1' = Len1 /\ UNCHANGED <<strategy, deployable, unchanged>>
  BY ShapeStep, ConfigFixed, BatchesFixed DEF Tallied, configVars
<1>2. CASE UNCHANGED vars
  <2>1. UNCHANGED <<throwing, old, pc, outcome, phase, aborted>>
    BY <1>2 DEF vars, localVars, worldVars, runVars
  <2> QED
    BY <1>1, <2>1 DEF Tallied, Counted, HostCounted, TakesAll
<1>3. CASE Between
  <2>1. UNCHANGED <<throwing, old, pc, outcome>>
    BY <1>3 DEF Between, PreMigrations, PreFails, NextBatch, WorkersDone, Abort, PostGate,
                localVars, worldVars
  <2>2. Counted'
    BY <1>1, <2>1 DEF Tallied, Counted, HostCounted
  <2>3. CASE phase' = "gate" /\ ~aborted'
    <3>1. PreMigrations \/ WorkersDone
      BY <1>3, <2>3 DEF Between, PreMigrations, PreFails, NextBatch, WorkersDone, Abort,
                        PostGate
    <3>2. PreMigrations => deployable = unchanged
      BY <2>3 DEF PreMigrations
    <3> QED
      BY <1>1, <2>1, <2>2, <3>1, <3>2, WorkersLast DEF Tallied, TakesAll
  <2>4. CASE ~ (phase' = "gate" /\ ~aborted')
    BY <1>1, <2>2, <2>4 DEF Tallied, TakesAll
  <2> QED
    BY <2>3, <2>4
<1>4. CASE StartTasks
  <2>1. phase' # "gate"
    BY <1>4 DEF StartTasks, runVars
  <2> QED
    BY <1>1, <1>4, <2>1, CountedStart DEF Tallied, TakesAll
<1>5. ASSUME NEW h \in Hosts, HostTask(h) PROVE Tallied'
  <2>1. ~ (phase = "gate" /\ ~aborted)
    BY <1>5, TaskEffect DEF Tallied, Shape, Phases
  <2>2. UNCHANGED <<phase, aborted>>
    BY <1>5, TaskEffect DEF Tallied, runVars
  <2> QED
    BY <1>1, <1>5, <2>1, <2>2, CountedTask DEF Tallied, TakesAll
<1> QED
  BY <1>2, <1>3, <1>4, <1>5 DEF Next, Orchestrate, Between

\* A strategy of a kind that leaves no host out, and whose drains either do not
\* fail or abort it.
LeavesNoneOut ==
  Strategies \subseteq {"parallel", "canaryRest"} /\ "parallel" \notin DrainFaults

\* The post-deploy migrations run when no host serves the old WAR, for any number
\* of hosts, under the strategies that take them all.
THEOREM PostAfter ==
  ASSUME LeavesNoneOut
  PROVE  Spec => []PostAfterEverySwitch
<1> DEFINE Safe == Tallied /\ (post # "pending" => phase = "exit") /\ PostAfterEverySwitch
<1>1. Init => Safe
  <2>1. ASSUME Init PROVE Counted /\ TakesAll
    BY <2>1, NoneAssumption DEF Init, Counted, HostCounted, TakesAll, Preflight
  <2> QED
    BY <2>1, ShapeInit DEF Init, Tallied, PostAfterEverySwitch
<1>2. ASSUME Tallied, PostGate, post' = "run" PROVE old = {}
  <2>1. /\ phase = "gate" /\ computeFullCoverage /\ computeNoFailures
        /\ strategy.kind \in {"parallel", "canaryRest"}
        /\ strategy.batches[Len1] = Rest
    BY <1>2 DEF PostGate, Tallied, Shape, Config, LeavesNoneOut
  <2>2. deployable = Hosts
    BY <1>2, <2>1, HostsFinite, FS_Subset DEF computeFullCoverage, Tallied, Shape, Config
  <2>3. ASSUME NEW h \in Hosts PROVE h \notin old
    <3>1. outcome[h] \in {None, "successful"} /\ ~aborted
      BY <2>1 DEF computeNoFailures
    <3>2. ~ (h \in throwing /\ strategy.kind \in DrainFaults)
      BY <1>2, <2>1, <3>1 DEF Tallied, Shape, Phases, isCanary, LeavesNoneOut
    <3>3. HostCounted(h)
      BY <1>2 DEF Tallied, Counted
    <3>4. h \in unchanged \/ pc[h] = "done"
      BY <1>2, <2>1, <2>2, <3>1 DEF Tallied, TakesAll
    <3> QED
      BY <3>1, <3>2, <3>3, <3>4 DEF HostCounted
  <2>4. old \subseteq Hosts
    BY <1>2 DEF Tallied, Shape, TypeOK
  <2> QED
    BY <2>3, <2>4
<1>3. Safe /\ [Next]_vars => Safe'
  <2> SUFFICES ASSUME Safe, [Next]_vars PROVE Safe'
    OBVIOUS
  <2>1. Tallied'
    BY TalliedStep
  <2>2. CASE PostGate
    <3>1. phase' = "exit" /\ UNCHANGED worldVars
      BY <2>2 DEF PostGate
    <3> QED
      BY <1>2, <2>1, <2>2, <3>1 DEF PostAfterEverySwitch, worldVars
  <2>3. CASE ~PostGate
    <3>1. UNCHANGED post /\ (phase = "exit" => phase' = "exit") /\ old' \subseteq old
      <4>1. CASE \E h \in Hosts : HostTask(h)
        <5>1. UNCHANGED runVars
          BY <4>1, TaskEffect DEF Tallied
        <5>2. old' \subseteq old
          BY <4>1 DEF HostTask, Drain, Quiesce, Deploy, HealthCheck, Ready, Resume, worldVars
        <5> QED
          BY <5>1, <5>2 DEF runVars
      <4>2. CASE Orchestrate
        BY <2>3, <4>2 DEF Orchestrate, PreMigrations, PreFails, StartTasks, NextBatch,
                          WorkersDone, Abort, worldVars, runVars
      <4>3. CASE UNCHANGED vars
        BY <4>3 DEF vars, worldVars, runVars
      <4> QED
        BY <4>1, <4>2, <4>3 DEF Next
    <3> QED
      BY <2>1, <3>1 DEF PostAfterEverySwitch
  <2> QED
    BY <2>2, <2>3
<1>4. Safe => PostAfterEverySwitch
  OBVIOUS
<1> QED
  BY <1>1, <1>3, <1>4, PTL DEF Spec

=============================================================================
