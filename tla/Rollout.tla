------------------------------- MODULE Rollout -------------------------------
(***************************************************************************)
(* The rollout of "payara deploy run" over the hosts of one configuration: *)
(* the pre-deploy migrations, the batches of the strategy over the serving *)
(* hosts and the worker batch of listr-deploy.ts, the HAProxy drain and    *)
(* the scheduler quiesce around each host's deployment, and the gate of    *)
(* the post-deploy migrations of post-gate.ts.                             *)
(*                                                                         *)
(* Tasks of one batch run concurrently and a step is the code between two  *)
(* awaits.  deployToHost is one step, its insides are DeployPolling's.  A  *)
(* host without a scheduler, or a configuration without quiesce or health  *)
(* check, behaves as one whose call is refused or whose check succeeds.    *)
(* Listr2 is external: a list with exitOnError rejects at the first error  *)
(* while the tasks already running go on.                                  *)
(***************************************************************************)
EXTENDS Naturals, Sequences, FiniteSets

CONSTANTS
  NumHosts,     \* configured hosts, numbered in the order of the configuration
  HAProxies,    \* load balancers
  Strategies,   \* kinds of strategy the operator uses, a subset of Kinds
  DrainFaults,  \* kinds under which a drain command may fail
  LostCommands, \* whether ready, quiesce and resume commands may be lost,
                \* or the answer that tells of a quiesced scheduler
  MaxBatches,   \* bound on the batches of a canary strategy
  MaxCount,     \* bound on the hosts of a counted batch
  None

Hosts == 1..NumHosts
Kinds == {"sequential", "parallel", "canary", "canaryRest"}

ASSUME HostsAssumption == NumHosts \in Nat \ {0}
ASSUME StrategiesAssumption == DrainFaults \subseteq Kinds
                                 /\ Strategies \subseteq Kinds
ASSUME CommandsAssumption == LostCommands \in BOOLEAN
ASSUME BatchesAssumption == MaxBatches \in Nat /\ MaxCount \in Nat
ASSUME NoneAssumption ==
  None \notin {"successful", "failed", "healthCheckFailed", "workerFailed"}

VARIABLES
  strategy,   \* the parsed strategy: kind and batch sizes
  serverMap,  \* hosts with a HAProxy server name
  deployable, \* hosts selected, reachable and analysed
  unchanged,  \* those whose WAR has no differences
  phase,      \* what executeListrDeployment and its caller are doing
  batch,      \* the batch that runs
  pc,         \* pc[h]: the await h's task is suspended at
  drained, quiesced,  \* the task's local variables
  throwing,   \* hosts whose task ends with an exception
  outcome,    \* outcome[h]: the counter of DeployContext h is counted in
  aborted,    \* DeployContext.aborted
  out,        \* out[p]: the hosts HAProxy p does not route to
  paused,     \* hosts whose scheduler is quiesced
  old,        \* hosts that serve the old WAR
  post        \* the post-deploy migrations: "pending", "run" or "skipped"

configVars == <<strategy, serverMap, deployable, unchanged>>
localVars  == <<drained, quiesced, throwing>>
worldVars  == <<out, paused, old>>
runVars    == <<phase, batch, aborted, post>>
vars == <<configVars, localVars, worldVars, runVars, pc, outcome>>

-----------------------------------------------------------------------------
(***************************************************************************)
(* Strategies and their batches.                                           *)
(***************************************************************************)
Rest == 0

\* parseDeploymentStrategy: "R" is the last batch of a canary or none.
Batches(kind) ==
  CASE kind = "sequential" -> {<<1>>}
    [] kind = "parallel"   -> {<<Rest>>}
    [] kind = "canary"     -> UNION {[1..n -> 1..MaxCount] : n \in 2..MaxBatches}
    [] kind = "canaryRest" -> {Append(counts, Rest) : counts \in
                                 UNION {[1..n -> 1..MaxCount] : n \in 1..MaxBatches-1}}

isCanary == strategy.kind \in {"canary", "canaryRest"}

\* partitionHostsByClass
serving == IF serverMap = {} THEN deployable ELSE deployable \cap serverMap
workers == deployable \ serving

Size(count) == IF count = Rest THEN NumHosts ELSE count

\* How many serving hosts the first i batches take, one for each place of theirs.
Places(i) == UNION {{j} \X (1..Size(strategy.batches[j])) : j \in 1..i}
Reach(i) == Cardinality(Places(i))

Rank(h) == Cardinality({g \in serving : g <= h})

BatchHosts(i) == {h \in serving : Reach(i - 1) < Rank(h) /\ Rank(h) <= Reach(i)}

Settled(hs) == \A h \in hs : pc[h] = "done"

-----------------------------------------------------------------------------
\* The checks before the rollout: unreachable hosts and those whose analysis
\* failed are dropped, and without any host left there is no rollout.
Preflight ==
  /\ deployable \in SUBSET Hosts \ {{}}
  /\ unchanged \in SUBSET deployable

Init ==
  /\ strategy \in UNION {[kind : {k}, batches : Batches(k)] : k \in Strategies}
  /\ serverMap \in SUBSET Hosts
  /\ Preflight
  /\ phase = "pre" /\ batch = 1
  /\ pc = [h \in Hosts |-> "waiting"]
  /\ drained = {} /\ quiesced = {} /\ throwing = {}
  /\ outcome = [h \in Hosts |-> None]
  /\ aborted = FALSE
  /\ out = [p \in HAProxies |-> {}]
  /\ paused = {}
  /\ old = Hosts \ unchanged
  /\ post = "pending"

Goto(h, label) == pc' = [pc EXCEPT ![h] = label]

Count(h, counter) == outcome' = [outcome EXCEPT ![h] = counter]

-----------------------------------------------------------------------------
(***************************************************************************)
(* deploy-run.ts around the rollout.                                       *)
(***************************************************************************)
PreMigrations ==
  /\ phase = "pre"
  /\ phase' = IF deployable = unchanged THEN "gate" ELSE "rollout"
  /\ UNCHANGED <<configVars, localVars, worldVars, batch, aborted, post, pc,
                 outcome>>

\* A migration fails, or a HAProxy cannot be reached before the rollout.
PreFails ==
  /\ phase = "pre"
  /\ phase' = "exit"
  /\ UNCHANGED <<configVars, localVars, worldVars, batch, aborted, post, pc,
                 outcome>>

\* Mutated: a failed worker does not count.
computeNoServingFailures ==
  /\ ~aborted
  /\ \A h \in Hosts : outcome[h] \in {None, "successful", "workerFailed"}

computeNoFailures ==
  /\ ~aborted
  /\ \A h \in Hosts : outcome[h] \in {None, "successful"}

computeFullCoverage == Cardinality(deployable) = NumHosts

\* The gate of the post-deploy migrations, and the end of the process, which
\* kills the tasks still running.
PostGate ==
  /\ phase = "gate"
  /\ post' = IF computeFullCoverage /\ computeNoFailures THEN "run"
                                                         ELSE "skipped"
  /\ phase' = "exit"
  /\ UNCHANGED <<configVars, localVars, worldVars, batch, aborted, pc,
                 outcome>>

-----------------------------------------------------------------------------
(***************************************************************************)
(* executeListrDeployment: one batch after the other, then the workers.    *)
(***************************************************************************)
Batch == IF phase = "rollout" THEN BatchHosts(batch) ELSE workers

\* Mutated: a canary batch does not exit on its errors.
NextBatchOnError ==
  /\ phase = "rollout"
  /\ Settled(BatchHosts(batch))
  /\ \/ /\ batch < Len(strategy.batches)
        /\ batch' = batch + 1
        /\ UNCHANGED phase
     \/ /\ batch = Len(strategy.batches)
        /\ phase' = "workers"
        /\ UNCHANGED batch
  /\ UNCHANGED <<configVars, localVars, worldVars, aborted, post, pc, outcome>>

NextBatch ==
  /\ phase = "rollout"
  /\ Settled(BatchHosts(batch))
  /\ isCanary => BatchHosts(batch) \cap throwing = {}
  /\ \/ /\ batch < Len(strategy.batches)
        /\ batch' = batch + 1
        /\ UNCHANGED phase
     \/ /\ batch = Len(strategy.batches)
        /\ phase' = "workers"
        /\ UNCHANGED batch
  /\ UNCHANGED <<configVars, localVars, worldVars, aborted, post, pc, outcome>>

WorkersDone ==
  /\ phase = "workers"
  /\ Settled(workers)
  /\ phase' = "gate"
  /\ UNCHANGED <<configVars, localVars, worldVars, batch, aborted, post, pc,
                 outcome>>

\* A canary list rejects with its first task, and the workers are left alone.
Abort ==
  /\ phase = "rollout" /\ isCanary
  /\ \E h \in BatchHosts(batch) \cap throwing : pc[h] = "done"
  /\ aborted' = TRUE
  /\ phase' = "gate"
  /\ UNCHANGED <<configVars, localVars, worldVars, batch, post, pc, outcome>>

-----------------------------------------------------------------------------
(***************************************************************************)
(* createHostTask, for serving hosts and workers.                          *)
(***************************************************************************)
Running(h) == phase # "exit" /\ pc[h] \notin {"waiting", "done"}

\* The tasks of a list run up to their first await; hosts without changes end.
StartTasks ==
  LET starting == {h \in Batch : pc[h] = "waiting"}
  IN /\ phase \in {"rollout", "workers"} /\ starting # {}
     /\ pc' = [h \in Hosts |-> IF h \notin starting THEN pc[h]
                                ELSE IF h \in unchanged THEN "done"
                                ELSE IF h \in serverMap THEN "drain"
                                ELSE "quiesce"]
     /\ outcome' = [h \in Hosts |-> IF h \in starting \cap unchanged
                                    THEN "successful" ELSE outcome[h]]
     /\ UNCHANGED <<configVars, localVars, worldVars, runVars>>

\* The load balancers in some obey a command that is sent to all at once.
setServerState(h, state, some) ==
  out' = [p \in HAProxies |-> IF p \notin some THEN out[p]
                               ELSE IF state = "drain" THEN out[p] \cup {h}
                               ELSE out[p] \ {h}]

\* When one load balancer fails, the others, and even that one, may have
\* obeyed.  The exception is raised before drained is set and before anything
\* is counted.
Drain(h) ==
  /\ Running(h) /\ pc[h] = "drain"
  /\ \/ /\ setServerState(h, "drain", HAProxies)
        /\ drained' = drained \cup {h}
        /\ Goto(h, "quiesce")
        /\ UNCHANGED throwing
     \/ /\ strategy.kind \in DrainFaults
        /\ \E some \in SUBSET HAProxies : setServerState(h, "drain", some)
        /\ throwing' = throwing \cup {h}
        /\ Goto(h, "done")
        /\ UNCHANGED drained
  /\ UNCHANGED <<configVars, quiesced, paused, old, runVars, outcome>>

\* The scheduler is paused, or not, and whether it is may not be learned.
quiesceScheduler(h) ==
  \E effect, available \in BOOLEAN :
    /\ available => effect
    /\ effect => available \/ LostCommands
    /\ paused' = paused \cup {g \in {h} : effect}
    /\ quiesced' = quiesced \cup {g \in {h} : available}

\* With the wait for the scheduler's units; nothing of it fails the task.
Quiesce(h) ==
  /\ Running(h) /\ pc[h] = "quiesce"
  /\ quiesceScheduler(h)
  /\ Goto(h, "deploy")
  /\ UNCHANGED <<configVars, drained, throwing, out, old, runVars, outcome>>

\* Mutated: the task ends without making the host ready.
FinallyDrained(h) == Goto(h, "resume")

\* The way to the finally block, where drained and quiesced are given back.
Finally(h) == Goto(h, IF h \in drained THEN "ready" ELSE "resume")

\* A worker's failure is counted apart and does not throw.
Fails(h, counter) ==
  /\ Finally(h)
  /\ IF h \in workers
     THEN Count(h, "workerFailed") /\ UNCHANGED throwing
     ELSE Count(h, counter) /\ throwing' = throwing \cup {h}

Deploy(h) ==
  /\ Running(h) /\ pc[h] = "deploy"
  /\ \/ /\ old' = old \ {h}
        /\ Goto(h, "health")
        /\ UNCHANGED <<throwing, outcome>>
     \/ /\ old' \in {old, old \ {h}}
        /\ Fails(h, "failed")
  /\ UNCHANGED <<configVars, drained, quiesced, out, paused, runVars>>

HealthCheck(h) ==
  /\ Running(h) /\ pc[h] = "health"
  /\ \/ Count(h, "successful") /\ Finally(h) /\ UNCHANGED throwing
     \/ Fails(h, "healthCheckFailed")
  /\ UNCHANGED <<configVars, drained, quiesced, worldVars, runVars>>

\* readyServer, after a success or in the finally block: its result is ignored.
Ready(h) ==
  /\ Running(h) /\ pc[h] = "ready"
  /\ \E some \in SUBSET HAProxies :
       /\ some = HAProxies \/ LostCommands
       /\ setServerState(h, "ready", some)
  /\ drained' = drained \ {h}
  /\ Goto(h, "resume")
  /\ UNCHANGED <<configVars, quiesced, throwing, paused, old, runVars,
                 outcome>>

\* Mutated: the scheduler is resumed after a success alone.
ResumeAfterSuccess(h) ==
  /\ Running(h) /\ pc[h] = "resume"
  /\ IF h \in quiesced \ throwing THEN paused' = paused \ {h}
                                  ELSE UNCHANGED paused
  /\ quiesced' = quiesced \ {h}
  /\ Goto(h, "done")
  /\ UNCHANGED <<configVars, drained, throwing, out, old, runVars, outcome>>

\* Best effort: an error is swallowed.
resumeScheduler(h) == paused' \in {paused \ {h}} \cup {w \in {paused} : LostCommands}

Resume(h) ==
  /\ Running(h) /\ pc[h] = "resume"
  /\ IF h \in quiesced THEN resumeScheduler(h) ELSE UNCHANGED paused
  /\ quiesced' = quiesced \ {h}
  /\ Goto(h, "done")
  /\ UNCHANGED <<configVars, drained, throwing, out, old, runVars, outcome>>

-----------------------------------------------------------------------------
HostTask(h) ==
  \/ Drain(h) \/ Quiesce(h) \/ Deploy(h) \/ HealthCheck(h) \/ Ready(h)
  \/ Resume(h)

Orchestrate ==
  \/ PreMigrations \/ PreFails
  \/ StartTasks \/ NextBatch \/ WorkersDone \/ Abort
  \/ PostGate

Next == Orchestrate \/ \E h \in Hosts : HostTask(h)

\* Every call has a time limit.
Spec ==
  /\ Init /\ [][Next]_vars
  /\ WF_vars(Orchestrate)
  /\ \A h \in Hosts : WF_vars(HostTask(h))

-----------------------------------------------------------------------------
Labels == {"waiting", "drain", "quiesce", "deploy", "health", "ready",
           "resume", "done"}
Counters == {"successful", "failed", "healthCheckFailed", "workerFailed"}

TypeOK ==
  /\ serverMap \subseteq Hosts /\ deployable \subseteq Hosts
  /\ unchanged \subseteq deployable
  /\ strategy.kind \in Strategies /\ strategy.batches \in Seq({Rest, 1} \cup 1..MaxCount)
  /\ phase \in {"pre", "rollout", "workers", "gate", "exit"}
  /\ batch \in 1..Len(strategy.batches)
  /\ pc \in [Hosts -> Labels]
  /\ {drained, quiesced, throwing, paused, old} \subseteq SUBSET Hosts
  /\ outcome \in [Hosts -> {None} \cup Counters]
  /\ aborted \in BOOLEAN
  /\ out \in [HAProxies -> SUBSET Hosts]
  /\ post \in {"pending", "run", "skipped"}

\* A host is touched only when every host of the batches before its own has
\* ended its task, in a canary without an error: what the canary met, a failed
\* drain, deployment or health check, reaches no later batch.  The workers come
\* last: after every serving host that is deployed to, and never behind a
\* canary that has failed.
CanaryGuardsTheRest ==
  /\ \A i, j \in 1..Len(strategy.batches) : i < j =>
       \A g \in BatchHosts(i), h \in BatchHosts(j) :
         pc[h] # "waiting" => pc[g] = "done" /\ (isCanary => g \notin throwing)
  /\ \A w \in workers : pc[w] # "waiting" =>
       ~aborted /\ \A h \in serving : pc[h] \in {"waiting", "done"}

\* Only hosts of the batch that runs are out of the rotation, on any load
\* balancer: at no moment of a canary rollout are two batches missing.
OneBatchOut ==
  isCanary => \A p \in HAProxies : out[p] \subseteq BatchHosts(batch)

\* Post-deploy migrations must never run while any configured host still serves
\* the old WAR.
PostAfterEverySwitch == post = "run" => old = {}

\* A rollout that was not aborted leaves every host in the rotation of every
\* load balancer and every scheduler running, whatever failed on the way.
RestoredUnlessAborted ==
  phase = "exit" /\ ~aborted =>
    paused = {} /\ \A p \in HAProxies : out[p] = {}

\* The same of every rollout: the server is always restored to ready if it was
\* drained, even on failure.
AlwaysRestored ==
  phase = "exit" => \A p \in HAProxies : out[p] = {}

=============================================================================
