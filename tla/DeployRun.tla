------------------------------ MODULE DeployRun ------------------------------
(***************************************************************************)
(* One "payara deploy run": the plan of its flags, the pre-deploy          *)
(* migrations, the hosts of a flat configuration or the classes of another *)
(* in their order with the gate behind each, and the gate of the           *)
(* post-deploy migrations (cli/commands/deploy-run.ts and                  *)
(* cli/multi-class-deploy.ts).                                             *)
(*                                                                         *)
(* A step is the code between two awaits.  executeListrDeployment is one   *)
(* step here and does to its hosts what Rollout, which looks inside it,    *)
(* shows.  A flat configuration is one class that is run by code of its    *)
(* own.  Earlier runs have left the new WAR file on any of the hosts.      *)
(***************************************************************************)
EXTENDS Naturals, Sequences, FiniteSets, TLC

CONSTANTS
  Hosts,       \* the configured hosts
  NumClasses,  \* the classes of a multi-class configuration are 1..NumClasses
  MaxRepeats,  \* bound on the --class arguments that repeat another one
  MaxPartial   \* bound on the classes whose rollout may leave hosts out

ASSUME HostsAssumption == IsFiniteSet(Hosts)
ASSUME ClassesAssumption == NumClasses \in Nat \ {0}
ASSUME BoundsAssumption == {MaxRepeats, MaxPartial} \subseteq Nat

VARIABLES
  config,     \* the configuration
  options,    \* the flags
  phase,      \* the await the action handler is at
  war,        \* the hosts whose WAR file is the one to deploy
  todo,       \* classes still to run
  results,    \* outcomes of those that ran: MultiClassResult.classes
  deployable, \* hosts of this class that are reachable and analysed
  changed,    \* those whose analysis shows differences
  pre         \* whether the pre-deploy phase is over

vars == <<config, options, phase, war, todo, results, deployable, changed, pre>>

-----------------------------------------------------------------------------
(* The configuration and the flags                                         *)

Class == 1..NumClasses

\* What validateDeployConfig lets through: no host in two classes.  blocking
\* is the class's own value or, without one, whether the class drains.  The
\* rollout of a class in partial may leave hosts out and count no failure: its
\* strategy is sequential, which is the default, or a canary without "R" that
\* stops short, or it is parallel and a drain may throw.
ValidConfigs ==
  [ multi : {TRUE}, classOf : [Hosts -> Class], blocking : [Class -> BOOLEAN],
    partial : {p \in SUBSET Class : Cardinality(p) <= MaxPartial},
    blocks : SUBSET {"pre", "post"} ]
    \cup
  [ multi : {FALSE}, classOf : [Hosts -> {1}], blocking : [Class -> {TRUE}],
    partial : SUBSET {1}, blocks : SUBSET {"pre", "post"} ]

OnlyFlags == {"migrationsOnly", "preOnly", "postOnly"}
SkipFlags == {"skipMigrations", "skipPre", "skipPost"}

\* The plan, of flags that do not contradict each other.
PlanFlags ==
  { flags \in SUBSET (OnlyFlags \cup SkipFlags) : Cardinality(flags) <= 1 }

resolveDeployPlan(flags) ==
  [ runPre     |-> flags \cap {"postOnly", "skipMigrations", "skipPre"} = {},
    runPost    |-> flags \cap {"preOnly", "skipMigrations", "skipPost"} = {},
    runRollout |-> flags \cap OnlyFlags = {} ]

plan == resolveDeployPlan(options.flags)

\* The flags name the migrations the configuration must have.
RequiredBlocks(c, flags) ==
  /\ "preOnly" \in flags => "pre" \in c.blocks
  /\ "postOnly" \in flags => "post" \in c.blocks
  /\ "migrationsOnly" \in flags => c.blocks # {}

\* How many --class arguments there are.
ClassArgs(o) == Cardinality(o.classes) + o.repeats

\* --class is for configurations with classes, --host for one class of them.
validateClassFlags(c, o) ==
  /\ ~c.multi => o.classes = {}
  /\ c.multi /\ o.hosts # {} => ClassArgs(o) = 1

\* Scoping flags mean nothing without a rollout.
StrayFlags(o) == o.classes # {} \/ o.hosts # {}

ValidOptions(c) ==
  { o \in [ flags : PlanFlags, classes : SUBSET Class, repeats : 0..MaxRepeats,
            hosts : SUBSET Hosts, force : BOOLEAN, dryRun : BOOLEAN ] :
      /\ RequiredBlocks(c, o.flags)
      /\ IF resolveDeployPlan(o.flags).runRollout
         THEN validateClassFlags(c, o) ELSE ~StrayFlags(o)
      /\ o.classes = {} => o.repeats = 0 }

ClassHosts(c) == {h \in Hosts : config.classOf[h] = c}

\* The hosts of a class that --host leaves.
RunHosts(c) ==
  IF options.hosts = {} THEN ClassHosts(c) ELSE ClassHosts(c) \cap options.hosts

validateClassHostOverride ==
  \A c \in options.classes : options.hosts \subseteq ClassHosts(c)

\* The classes --class selects.
partitionSelectedClasses == IF options.classes = {} THEN Class ELSE options.classes

\* They run in the order of the configuration.
Turn(c) == c \in todo /\ \A d \in todo : c <= d

-----------------------------------------------------------------------------
(* The gate of the post-deploy migrations                                  *)

mcIsScoped ==
  \/ ClassArgs(options) \in 1..NumClasses-1
  \/ ClassArgs(options) = 1 /\ options.hosts # {}

isScopedDeploy == RunHosts(1) # Hosts

\* An outcome counts failed, aborted and unhealthy hosts as "failed".
classGateFailed(r) == r.ctx = "failed"

\* Mutated: what stops no class does not count.
computeNoGateFailures(rs) == \A i \in DOMAIN rs : ~classGateFailed(rs[i])

\* A class that did not run has neither failures nor coverage to lack.
computeNoFailures(rs) ==
  \A i \in DOMAIN rs : rs[i].ctx \in {"notRun", "ok"}

computeFullCoverage(rs) ==
  \A i \in DOMAIN rs : rs[i].ctx # "notRun" => rs[i].coverageOk

\* Every configured host of the class, those --host left out included.
Covers(c, hs) == Cardinality(hs) = Cardinality(ClassHosts(c))

abortedAt(rs) ==
  {i \in DOMAIN rs : classGateFailed(rs[i]) /\ config.blocking[rs[i].class]}

resolvePostSkipReason(scoped, rs) ==
  IF ~plan.runPost THEN "flag"
  ELSE IF scoped THEN "scoped-subset"
  ELSE IF ~computeFullCoverage(rs) THEN "partial-coverage"
  ELSE IF ~computeNoFailures(rs) THEN "rollout-failed"
  ELSE "none"

\* Whether runMigrationPhase migrates: there is a block, and no dry run.
runMigrationPhase(block, run) ==
  block \in config.blocks /\ run /\ ~options.dryRun

GateOn(scoped, rs) ==
  IF runMigrationPhase("post", resolvePostSkipReason(scoped, rs) = "none")
  THEN "post" ELSE "done"

-----------------------------------------------------------------------------
(* The run                                                                 *)

Init ==
  /\ config \in ValidConfigs
  /\ options \in ValidOptions(config)
  /\ phase = "start"
  /\ war \in SUBSET Hosts
  /\ todo = {} /\ results = <<>>
  /\ deployable = {} /\ changed = {} /\ pre = FALSE

setupVars == <<config, options>>

Exit ==
  /\ phase' = "done"
  /\ UNCHANGED <<setupVars, war, todo, results, deployable, changed, pre>>

\* The -only shapes and a multi-class configuration migrate at once; a flat
\* one looks at its hosts first.
Start ==
  /\ phase = "start"
  /\ phase' = IF config.multi \/ ~plan.runRollout THEN "pre" ELSE "preflight"
  /\ todo' = IF config.multi THEN partitionSelectedClasses ELSE {1}
  /\ UNCHANGED <<setupVars, war, results, deployable, changed, pre>>

\* A pre-deploy migration fails, or none of the guards behind it lets the run
\* go on: --host names a host of another class.
PreFails ==
  /\ phase = "pre"
  /\ \/ runMigrationPhase("pre", plan.runPre)
     \/ config.multi /\ plan.runRollout /\ ~validateClassHostOverride
  /\ Exit

\* The migrations of an -only shape, the second phase behind the first.
MigrationsOnly ==
  /\ phase = "pre" /\ ~plan.runRollout
  /\ pre' = TRUE
  /\ phase' = IF runMigrationPhase("post", plan.runPost) THEN "post" ELSE "done"
  /\ UNCHANGED <<setupVars, war, todo, results, deployable, changed>>

PostMigrations ==
  /\ phase = "post"
  /\ Exit

-----------------------------------------------------------------------------
(* The hosts                                                               *)

\* Differences are found on every host whose file is another one, on every
\* host with --force, and on those whose hashes cannot be read.
analyzeHost(h) ==
  IF h \in war /\ ~options.force THEN {"same", "changed"} ELSE {"changed"}

\* A host that is not reached, through its tunnel or without one, drops out,
\* as does one whose analysis throws.
createHostPreflightTask(h) == {"dropped"} \cup analyzeHost(h)

\* Nothing goes on without a host.
executePreflightChecks(hs) ==
  /\ \E result \in [hs -> {"dropped", "same", "changed"}] :
       /\ \A h \in hs : result[h] \in createHostPreflightTask(h)
       /\ deployable' = {h \in hs : result[h] # "dropped"}
       /\ changed' = {h \in hs : result[h] = "changed"}
  /\ deployable' # {}

\* executeListrDeployment: a deployment that fails may have written the file,
\* and hosts are left out by what counts no failure.
Deployments(c) ==
  [ctx : {"ok"}, files : IF c \in config.partial THEN SUBSET changed ELSE {changed}]
    \cup [ctx : {"failed", "workerFailed"}, files : SUBSET changed]

-----------------------------------------------------------------------------
(* A flat configuration                                                    *)

\* A WAR or a strategy that cannot be read, no host left, or the operator
\* does not go on without those that are missing.
FlatGivesUp ==
  /\ phase = "preflight" /\ ~config.multi
  /\ Exit

FlatPreflight ==
  /\ phase = "preflight" /\ ~config.multi
  /\ executePreflightChecks(RunHosts(1))
  /\ phase' = "pre"
  /\ UNCHANGED <<setupVars, war, todo, results, pre>>

FlatOutcome(ctx) ==
  <<[class |-> 1, ctx |-> ctx, coverageOk |-> Covers(1, deployable)]>>

FlatPre ==
  /\ phase = "pre" /\ ~config.multi /\ plan.runRollout
  /\ pre' = TRUE
  /\ UNCHANGED <<setupVars, war, todo, deployable, changed>>

\* No host has differences: there is nothing to roll out but the gate.
UpToDate ==
  /\ FlatPre /\ changed = {}
  /\ results' = FlatOutcome("ok")
  /\ phase' = GateOn(isScopedDeploy, results')

DryRun ==
  /\ FlatPre /\ changed # {} /\ options.dryRun
  /\ phase' = "done"
  /\ UNCHANGED results

FlatRolls ==
  /\ FlatPre /\ changed # {} /\ ~options.dryRun
  /\ phase' = "rollout"
  /\ UNCHANGED results

\* A HAProxy that cannot be reached ends the run.
HAProxyCheckFails ==
  /\ phase = "rollout" /\ ~config.multi
  /\ Exit

FlatRollout ==
  /\ phase = "rollout" /\ ~config.multi
  /\ \E d \in Deployments(1) :
       /\ war' = war \cup d.files
       /\ results' = FlatOutcome(d.ctx)
       /\ phase' = GateOn(isScopedDeploy, results')
  /\ UNCHANGED <<setupVars, todo, deployable, changed, pre>>

-----------------------------------------------------------------------------
(* A multi-class configuration                                             *)

MultiClass ==
  /\ phase = "pre" /\ config.multi /\ plan.runRollout
  /\ validateClassHostOverride
  /\ pre' = TRUE
  /\ phase' = IF options.dryRun THEN "done" ELSE "class"
  /\ UNCHANGED <<setupVars, war, todo, results, deployable, changed>>

Return(c, ctx, coverage) ==
  /\ results' = Append(results, [class |-> c, ctx |-> ctx,
                                 coverageOk |-> coverage])
  /\ todo' = todo \ {c}
  /\ phase' = "class"
  /\ UNCHANGED <<setupVars, pre>>

\* Mutated: the class before it alone stops a class.
GatedByLast(c) ==
  Len(results) \in abortedAt(results) \/ RunHosts(c) = {}

\* A blocking class failed before this one, or it has no hosts.
Gated(c) == abortedAt(results) # {} \/ RunHosts(c) = {}

ClassSkipped(c) ==
  /\ phase = "class" /\ Turn(c) /\ Gated(c)
  /\ Return(c, "notRun", FALSE)
  /\ UNCHANGED <<war, deployable, changed>>

\* Its WAR cannot be read, or none of its hosts is reachable and analysed.
ClassUnreachable(c) ==
  /\ phase = "class" /\ Turn(c) /\ ~Gated(c)
  /\ Return(c, "failed", FALSE)
  /\ UNCHANGED <<war, deployable, changed>>

ClassPreflight(c) ==
  /\ phase = "class" /\ Turn(c) /\ ~Gated(c)
  /\ executePreflightChecks(RunHosts(c))
  /\ phase' = "rollout"
  /\ UNCHANGED <<setupVars, war, todo, results, pre>>

ClassUpToDate(c) ==
  /\ phase = "rollout" /\ config.multi /\ Turn(c) /\ changed = {}
  /\ Return(c, "ok", Covers(c, deployable))
  /\ UNCHANGED <<war, deployable, changed>>

\* A HAProxy cannot be reached, or the strategy cannot be read.
ClassCheckFails(c) ==
  /\ phase = "rollout" /\ config.multi /\ Turn(c) /\ changed # {}
  /\ Return(c, "failed", Covers(c, deployable))
  /\ UNCHANGED <<war, deployable, changed>>

ClassRollout(c) ==
  /\ phase = "rollout" /\ config.multi /\ Turn(c) /\ changed # {}
  /\ \E d \in Deployments(c) :
       /\ war' = war \cup d.files
       /\ Return(c, d.ctx, Covers(c, deployable))
  /\ UNCHANGED <<deployable, changed>>

\* The classes are over: the gate, and exit 1 if one of them stopped the rest.
MultiClassGate ==
  /\ phase = "class" /\ todo = {}
  /\ phase' = GateOn(mcIsScoped, results)
  /\ UNCHANGED <<setupVars, war, todo, results, deployable, changed, pre>>

\* The process is killed or an await throws; the hosts at work may go on.
Interrupted ==
  /\ phase \notin {"start", "done"}
  /\ \E files \in SUBSET (IF phase = "rollout" THEN changed ELSE {}) :
       war' = war \cup files
  /\ phase' = "done"
  /\ UNCHANGED <<setupVars, todo, results, deployable, changed, pre>>

-----------------------------------------------------------------------------
FlatStep ==
  \/ FlatGivesUp \/ FlatPreflight \/ UpToDate \/ DryRun \/ FlatRolls
  \/ HAProxyCheckFails \/ FlatRollout

ClassStep(c) ==
  \/ ClassSkipped(c) \/ ClassUnreachable(c) \/ ClassPreflight(c)
  \/ ClassUpToDate(c) \/ ClassCheckFails(c) \/ ClassRollout(c)

MultiClassStep == MultiClass \/ MultiClassGate \/ \E c \in Class : ClassStep(c)

Next ==
  \/ Start \/ PreFails \/ MigrationsOnly \/ PostMigrations \/ Interrupted
  \/ FlatStep
  \/ MultiClassStep

Spec == Init /\ [][Next]_vars

-----------------------------------------------------------------------------
Symmetry == Permutations(Hosts)

Outcomes ==
  [class : Class, ctx : {"notRun", "ok", "failed", "workerFailed"},
   coverageOk : BOOLEAN]

TypeOK ==
  /\ config \in ValidConfigs
  /\ options \in ValidOptions(config)
  /\ phase \in {"start", "preflight", "pre", "class", "rollout", "post", "done"}
  /\ war \subseteq Hosts
  /\ todo \subseteq Class
  /\ results \in Seq(Outcomes)
  /\ deployable \subseteq Hosts /\ changed \subseteq deployable
  /\ pre \in BOOLEAN

\* The post-deploy migrations of a rollout, which destroy what the old WAR
\* needs, run only when every configured host has the new file: those of every
\* class, those the flags leave out, that are unreachable and that failed.
\* Excepted are the classes whose rollout leaves hosts out uncounted, for which
\* the promise of the code does not hold.
PostBehindEveryWar ==
  phase = "post" /\ plan.runRollout =>
    \A h \in Hosts : h \in war \/ config.classOf[h] \in config.partial

\* A host is touched in its turn alone: behind the pre-deploy migrations, by
\* flags that select it and ask for no dry run, and behind no blocking class
\* that failed, however many classes between the two did not run.
HostsInTurn ==
  [][ \A h \in war' \ war :
        /\ pre /\ ~options.dryRun
        /\ options.hosts = {} \/ h \in options.hosts
        /\ options.classes = {} \/ config.classOf[h] \in options.classes
        /\ \A i \in DOMAIN results :
             results[i].ctx = "failed" => ~config.blocking[results[i].class] ]_vars

=============================================================================
