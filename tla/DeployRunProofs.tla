---------------------------- MODULE DeployRunProofs ----------------------------
(***************************************************************************)
(* Proofs about DeployRun, for any hosts, classes and flags.               *)
(***************************************************************************)
EXTENDS DeployRun, FiniteSetTheorems, SequenceTheorems, TLAPS

-----------------------------------------------------------------------------
(***************************************************************************)
(* The inductive invariant.                                                *)
(***************************************************************************)
\* A phase belongs to one of the two shapes of a configuration, and the hosts
\* are reached behind the pre-deploy phase alone.
Shape ==
  /\ phase = "preflight" => ~config.multi /\ plan.runRollout
  /\ phase = "class" => config.multi
  /\ phase \in {"class", "rollout"} => plan.runRollout /\ pre /\ ~options.dryRun

\* A flat configuration has no outcome before its gate.
NoOutcome ==
  phase \in {"start", "preflight", "pre"} \/ (phase = "rollout" /\ ~config.multi) =>
    results = <<>>

\* A selected class waits for its turn or has an outcome.
EachClassOnce ==
  config.multi /\ phase # "start" =>
    /\ todo \subseteq partitionSelectedClasses
    /\ \A c \in partitionSelectedClasses :
         c \in todo \/ \E i \in DOMAIN results : results[i].class = c

\* The hosts at hand are those of one class, with differences wherever the
\* file is another one.
AtHand(c) ==
  /\ deployable \subseteq RunHosts(c)
  /\ changed \subseteq deployable
  /\ deployable \ war \subseteq changed

FlatAtHand ==
  ~config.multi /\ plan.runRollout /\ phase \in {"pre", "rollout"} => AtHand(1)

ClassAtHand ==
  config.multi /\ phase = "rollout" =>
    /\ abortedAt(results) = {}
    /\ \E c \in Class : Turn(c) /\ AtHand(c)

\* Every host of the class has the new file, unless its rollout may leave some
\* out.
Written(c) == c \in config.partial \/ ClassHosts(c) \subseteq war

\* What an outcome says of its class.
Truthful(r) ==
  /\ r.ctx = "ok" /\ r.coverageOk => Written(r.class)
  /\ r.ctx = "notRun" => RunHosts(r.class) = {} \/ abortedAt(results) # {}

OutcomesTruthful == \A i \in DOMAIN results : Truthful(results[i])

Inv ==
  /\ TypeOK
  /\ Shape
  /\ NoOutcome
  /\ EachClassOnce
  /\ FlatAtHand
  /\ ClassAtHand
  /\ OutcomesTruthful

-----------------------------------------------------------------------------
(***************************************************************************)
(* Lemmas about the configuration and the outcomes.                        *)
(***************************************************************************)
LEMMA FirstClass == 1 \in Class
BY ClassesAssumption DEF Class

\* What the types of the configuration and the flags say, as single facts.
LEMMA ConfigTypes ==
  ASSUME TypeOK
  PROVE  /\ config.multi \in BOOLEAN
         /\ config.classOf \in [Hosts -> Class]
         /\ ~config.multi => config.classOf \in [Hosts -> {1}]
         /\ config.blocking \in [Class -> BOOLEAN]
         /\ options.classes \subseteq Class
         /\ options.hosts \subseteq Hosts
         /\ options.repeats \in 0..MaxRepeats
         /\ options.dryRun \in BOOLEAN
         /\ plan.runRollout => validateClassFlags(config, options)
<1>1. config \in ValidConfigs /\ options \in ValidOptions(config)
  BY DEF TypeOK
<1>2. /\ config.multi \in BOOLEAN
      /\ config.classOf \in [Hosts -> Class]
      /\ ~config.multi => config.classOf \in [Hosts -> {1}]
      /\ config.blocking \in [Class -> BOOLEAN]
  <2>1. CASE config \in
               [ multi : {TRUE}, classOf : [Hosts -> Class], blocking : [Class -> BOOLEAN],
                 partial : {p \in SUBSET Class : Cardinality(p) <= MaxPartial},
                 blocks : SUBSET {"pre", "post"} ]
    BY <2>1
  <2>2. CASE config \in
               [ multi : {FALSE}, classOf : [Hosts -> {1}], blocking : [Class -> {TRUE}],
                 partial : SUBSET {1}, blocks : SUBSET {"pre", "post"} ]
    BY <2>2, FirstClass
  <2> QED
    BY <1>1, <2>1, <2>2 DEF ValidConfigs
<1>3. /\ options \in [ flags : PlanFlags, classes : SUBSET Class, repeats : 0..MaxRepeats,
                       hosts : SUBSET Hosts, force : BOOLEAN, dryRun : BOOLEAN ]
      /\ plan.runRollout => validateClassFlags(config, options)
  BY <1>1 DEF ValidOptions, plan
<1> QED
  BY <1>2, <1>3

LEMMA RunHostsBelong ==
  ASSUME NEW c
  PROVE  RunHosts(c) \subseteq ClassHosts(c) /\ ClassHosts(c) \subseteq Hosts
BY DEF RunHosts, ClassHosts

\* Hosts of a class that are as many as the class are the class.
LEMMA CoversAll ==
  ASSUME NEW c, NEW hs \in SUBSET ClassHosts(c), Covers(c, hs)
  PROVE  hs = ClassHosts(c)
<1>1. IsFiniteSet(ClassHosts(c))
  BY HostsAssumption, FS_Subset DEF ClassHosts
<1> QED
  BY <1>1, FS_Subset DEF Covers

LEMMA OneTurn ==
  ASSUME todo \subseteq Class, NEW c \in Class, NEW d \in Class, Turn(c), Turn(d)
  PROVE  c = d
BY ClassesAssumption DEF Turn, Class

\* The outcomes with one more.
LEMMA OneMore ==
  ASSUME results \in Seq(Outcomes), NEW r \in Outcomes
  PROVE  /\ Append(results, r) \in Seq(Outcomes)
         /\ DOMAIN results \subseteq DOMAIN Append(results, r)
         /\ \E n \in DOMAIN Append(results, r) :
              /\ Append(results, r)[n] = r
              /\ \A i \in DOMAIN Append(results, r) :
                   i # n => i \in DOMAIN results /\ Append(results, r)[i] = results[i]
              /\ n \notin DOMAIN results
<1>1. /\ Append(results, r) \in Seq(Outcomes)
      /\ Len(Append(results, r)) = Len(results) + 1
      /\ \A i \in 1..Len(results) : Append(results, r)[i] = results[i]
      /\ Append(results, r)[Len(results) + 1] = r
  BY AppendProperties
<1>2. /\ Len(results) \in Nat
      /\ DOMAIN results = 1..Len(results)
      /\ DOMAIN Append(results, r) = 1..(Len(results) + 1)
  BY <1>1, LenProperties
<1>3. /\ Len(results) + 1 \in DOMAIN Append(results, r)
      /\ Len(results) + 1 \notin DOMAIN results
      /\ DOMAIN results \subseteq DOMAIN Append(results, r)
      /\ \A i \in DOMAIN Append(results, r) :
           i # Len(results) + 1 => i \in DOMAIN results
  BY <1>2
<1> QED
  BY <1>1, <1>2, <1>3

\* The gate opens for a rollout of every class without a failure.
LEMMA GateOpens ==
  ASSUME NEW scoped \in BOOLEAN, NEW rs, GateOn(scoped, rs) = "post"
  PROVE  ~scoped /\ computeFullCoverage(rs) /\ computeNoFailures(rs)
<1>1. resolvePostSkipReason(scoped, rs) = "none"
  BY DEF GateOn, runMigrationPhase
<1> QED
  BY <1>1, Zenon DEF resolvePostSkipReason

-----------------------------------------------------------------------------
(***************************************************************************)
(* The invariant holds initially and is preserved by each action.          *)
(***************************************************************************)
LEMMA InitInv == Init => Inv
<1> SUFFICES ASSUME Init PROVE Inv
  OBVIOUS
<1>1. TypeOK
  BY EmptySeq DEF Init, TypeOK
<1>2. Shape /\ NoOutcome /\ EachClassOnce /\ FlatAtHand /\ ClassAtHand
  BY DEF Init, Shape, NoOutcome, EachClassOnce, FlatAtHand, ClassAtHand
<1>3. OutcomesTruthful
  BY DEF Init, OutcomesTruthful
<1> QED
  BY <1>1, <1>2, <1>3 DEF Inv

\* A run that is over keeps what is known.
LEMMA ExitInv ==
  ASSUME Inv, phase # "start", phase' = "done", war \subseteq war', war' \subseteq Hosts,
         UNCHANGED <<setupVars, todo, results, deployable, changed>>, pre' \in BOOLEAN
  PROVE  Inv'
<1> USE DEF Inv, setupVars
<1>1. TypeOK'
  BY DEF TypeOK
<1>2. Shape' /\ NoOutcome' /\ FlatAtHand' /\ ClassAtHand'
  BY DEF Shape, NoOutcome, FlatAtHand, ClassAtHand
<1>3. EachClassOnce'
  BY DEF EachClassOnce, partitionSelectedClasses
<1>4. OutcomesTruthful'
  BY DEF OutcomesTruthful, Truthful, Written, ClassHosts, RunHosts, abortedAt, classGateFailed
<1> QED
  BY <1>1, <1>2, <1>3, <1>4

LEMMA ExitSteps ==
  ASSUME Inv,
         \/ PreFails \/ PostMigrations \/ Interrupted \/ FlatGivesUp \/ HAProxyCheckFails
  PROVE  Inv'
<1> USE DEF Inv, Exit, setupVars
<1>1. war \subseteq Hosts /\ changed \subseteq Hosts /\ pre \in BOOLEAN
  BY DEF TypeOK
<1>2. CASE PreFails
  BY <1>1, <1>2, ExitInv DEF PreFails
<1>3. CASE PostMigrations
  BY <1>1, <1>3, ExitInv DEF PostMigrations
<1>4. CASE Interrupted
  BY <1>1, <1>4, ExitInv DEF Interrupted
<1>5. CASE FlatGivesUp
  BY <1>1, <1>5, ExitInv DEF FlatGivesUp
<1>6. CASE HAProxyCheckFails
  BY <1>1, <1>6, ExitInv DEF HAProxyCheckFails
<1> QED
  BY <1>2, <1>3, <1>4, <1>5, <1>6

LEMMA StartInv ==
  ASSUME Inv, Start
  PROVE  Inv'
<1> USE DEF Inv, Start, setupVars
<1>1. partitionSelectedClasses \subseteq Class
  BY ConfigTypes DEF partitionSelectedClasses
<1>2. TypeOK'
  BY <1>1, FirstClass DEF TypeOK
<1>3. results = <<>> /\ results' = <<>>
  BY DEF NoOutcome
<1>4. Shape' /\ NoOutcome' /\ ClassAtHand'
  BY <1>3 DEF Shape, NoOutcome, ClassAtHand, plan
<1>5. EachClassOnce'
  BY DEF EachClassOnce, partitionSelectedClasses
<1>6. FlatAtHand'
  BY DEF FlatAtHand, plan
<1>7. OutcomesTruthful'
  BY <1>3 DEF OutcomesTruthful
<1> QED
  BY <1>2, <1>4, <1>5, <1>6, <1>7

LEMMA MigrationsOnlyInv ==
  ASSUME Inv, MigrationsOnly
  PROVE  Inv'
<1> USE DEF Inv, MigrationsOnly, setupVars
<1>1. TypeOK'
  BY DEF TypeOK
<1>2. Shape' /\ NoOutcome' /\ FlatAtHand' /\ ClassAtHand'
  BY DEF Shape, NoOutcome, FlatAtHand, ClassAtHand
<1>3. EachClassOnce'
  BY DEF EachClassOnce, partitionSelectedClasses
<1>4. OutcomesTruthful'
  BY DEF NoOutcome, OutcomesTruthful
<1> QED
  BY <1>1, <1>2, <1>3, <1>4

\* What the checks of the hosts of a class leave.
LEMMA ChecksLeave ==
  ASSUME NEW c, executePreflightChecks(RunHosts(c)), UNCHANGED <<setupVars, war>>
  PROVE  AtHand(c)'
<1> USE DEF setupVars
<1>1. RunHosts(c)' = RunHosts(c)
  BY DEF RunHosts, ClassHosts
<1>2. PICK result \in [RunHosts(c) -> {"dropped", "same", "changed"}] :
        /\ \A h \in RunHosts(c) : result[h] \in createHostPreflightTask(h)
        /\ deployable' = {h \in RunHosts(c) : result[h] # "dropped"}
        /\ changed' = {h \in RunHosts(c) : result[h] = "changed"}
  BY DEF executePreflightChecks
<1>3. ASSUME NEW h \in RunHosts(c), result[h] # "dropped", h \notin war
      PROVE  result[h] = "changed"
  BY <1>2, <1>3 DEF createHostPreflightTask, analyzeHost
<1> QED
  BY <1>1, <1>2, <1>3 DEF AtHand

LEMMA FlatPreflightInv ==
  ASSUME Inv, FlatPreflight
  PROVE  Inv'
<1> USE DEF Inv, FlatPreflight, setupVars
<1>1. AtHand(1)'
  BY ChecksLeave
<1>2. TypeOK'
  <2>1. RunHosts(1)' \subseteq Hosts
    BY DEF RunHosts, ClassHosts
  <2> QED
    BY <1>1, <2>1 DEF TypeOK, AtHand
<1>3. Shape' /\ NoOutcome' /\ FlatAtHand' /\ ClassAtHand'
  BY <1>1 DEF Shape, NoOutcome, FlatAtHand, ClassAtHand
<1>4. EachClassOnce'
  BY DEF EachClassOnce
<1>5. OutcomesTruthful'
  BY DEF NoOutcome, OutcomesTruthful
<1> QED
  BY <1>2, <1>3, <1>4, <1>5

\* A flat rollout has one outcome, true of the hosts that were covered.
LEMMA FlatOutcomeInv ==
  ASSUME Inv, ~config.multi, plan.runRollout, pre' = TRUE,
         NEW ctx \in {"ok", "failed", "workerFailed"},
         results' = FlatOutcome(ctx),
         phase' = GateOn(isScopedDeploy, results'),
         war \subseteq war', war' \subseteq Hosts,
         AtHand(1), ctx = "ok" => 1 \in config.partial \/ changed \subseteq war',
         UNCHANGED <<setupVars, todo, deployable, changed>>
  PROVE  Inv'
<1> USE DEF Inv, setupVars
<1> DEFINE r == [class |-> 1, ctx |-> ctx, coverageOk |-> Covers(1, deployable)]
<1>1. results' = <<r>> /\ DOMAIN <<r>> = {1} /\ <<r>>[1] = r
  BY DEF FlatOutcome
<1>2. r \in Outcomes /\ <<r>> \in Seq(Outcomes)
  BY FirstClass DEF Outcomes, Covers
<1>3. phase' \in {"post", "done"}
  BY DEF GateOn
<1>4. TypeOK'
  BY <1>1, <1>2, <1>3 DEF TypeOK
<1>5. Shape' /\ NoOutcome' /\ EachClassOnce' /\ FlatAtHand' /\ ClassAtHand'
  BY <1>3 DEF Shape, NoOutcome, EachClassOnce, FlatAtHand, ClassAtHand
<1>6. ASSUME ctx = "ok", Covers(1, deployable)
      PROVE  Written(1)'
  <2>1. deployable \in SUBSET ClassHosts(1)
    BY RunHostsBelong DEF AtHand
  <2>2. deployable = ClassHosts(1)
    BY <1>6, <2>1, CoversAll
  <2>3. 1 \in config.partial \/ deployable \subseteq war'
    BY <1>6 DEF AtHand
  <2> QED
    BY <2>2, <2>3 DEF Written, ClassHosts
<1>7. \A i \in DOMAIN results' : results'[i].class = 1 /\ results'[i].ctx = ctx
        /\ results'[i].coverageOk = Covers(1, deployable)
  BY <1>1
<1>8. OutcomesTruthful'
  BY <1>6, <1>7 DEF OutcomesTruthful, Truthful
<1> QED
  BY <1>4, <1>5, <1>8

LEMMA FlatRolloutInv ==
  ASSUME Inv, FlatRollout
  PROVE  Inv'
<1> USE DEF Inv, FlatRollout, setupVars
<1>1. PICK d \in Deployments(1) :
        /\ war' = war \cup d.files
        /\ results' = FlatOutcome(d.ctx)
        /\ phase' = GateOn(isScopedDeploy, results')
  OBVIOUS
<1>2. /\ d.ctx \in {"ok", "failed", "workerFailed"}
      /\ d.files \subseteq changed
      /\ d.ctx = "ok" => 1 \in config.partial \/ d.files = changed
  BY DEF Deployments
<1>3. plan.runRollout /\ pre /\ AtHand(1)
  BY DEF Shape, FlatAtHand
<1>4. changed \subseteq Hosts /\ war \subseteq Hosts
  BY DEF TypeOK
<1> QED
  BY <1>1, <1>2, <1>3, <1>4, FlatOutcomeInv

LEMMA UpToDateInv ==
  ASSUME Inv, UpToDate
  PROVE  Inv'
<1> USE DEF Inv, UpToDate, FlatPre, setupVars
<1>1. AtHand(1) /\ war \subseteq Hosts
  BY DEF FlatAtHand, TypeOK
<1> QED
  BY <1>1, FlatOutcomeInv

LEMMA FlatGoesOnInv ==
  ASSUME Inv, DryRun \/ FlatRolls
  PROVE  Inv'
<1> USE DEF Inv, DryRun, FlatRolls, FlatPre, setupVars
<1>1. TypeOK'
  BY DEF TypeOK
<1>2. results = <<>> /\ results' = <<>>
  BY DEF NoOutcome
<1>3. AtHand(1)'
  BY DEF FlatAtHand, AtHand, RunHosts, ClassHosts
<1>4. Shape' /\ NoOutcome' /\ EachClassOnce' /\ FlatAtHand' /\ ClassAtHand'
  BY <1>2, <1>3 DEF Shape, NoOutcome, EachClassOnce, FlatAtHand, ClassAtHand, plan
<1>5. OutcomesTruthful'
  BY <1>2 DEF OutcomesTruthful
<1> QED
  BY <1>1, <1>4, <1>5

LEMMA MultiClassInv ==
  ASSUME Inv, MultiClass
  PROVE  Inv'
<1> USE DEF Inv, MultiClass, setupVars
<1>1. TypeOK'
  BY ConfigTypes DEF TypeOK
<1>2. Shape' /\ NoOutcome' /\ FlatAtHand' /\ ClassAtHand'
  BY ConfigTypes DEF Shape, NoOutcome, FlatAtHand, ClassAtHand, plan
<1>3. EachClassOnce'
  BY DEF EachClassOnce, partitionSelectedClasses
<1>4. OutcomesTruthful'
  BY DEF NoOutcome, OutcomesTruthful
<1> QED
  BY <1>1, <1>2, <1>3, <1>4

\* The run of a class is over: its outcome joins those of the classes before.
LEMMA ReturnInv ==
  ASSUME Inv, config.multi, phase \in {"class", "rollout"},
         NEW c \in Class, Turn(c),
         NEW ctx \in {"notRun", "ok", "failed", "workerFailed"},
         NEW coverage \in BOOLEAN,
         Return(c, ctx, coverage),
         war \subseteq war', war' \subseteq Hosts,
         ctx = "ok" /\ coverage => c \in config.partial \/ ClassHosts(c) \subseteq war',
         ctx = "notRun" => RunHosts(c) = {} \/ abortedAt(results) # {},
         UNCHANGED <<deployable, changed>>
  PROVE  Inv'
<1> USE DEF Inv, Return, setupVars
<1> DEFINE r == [class |-> c, ctx |-> ctx, coverageOk |-> coverage]
<1>1. r \in Outcomes
  BY DEF Outcomes
<1>2. /\ results' \in Seq(Outcomes)
      /\ DOMAIN results \subseteq DOMAIN results'
  BY <1>1, OneMore DEF TypeOK
<1>3. PICK n \in DOMAIN results' :
        /\ results'[n] = r
        /\ \A i \in DOMAIN results' :
             i # n => i \in DOMAIN results /\ results'[i] = results[i]
        /\ n \notin DOMAIN results
  BY <1>1, OneMore DEF TypeOK
<1>4. TypeOK'
  BY <1>2 DEF TypeOK
<1>5. Shape' /\ NoOutcome' /\ FlatAtHand' /\ ClassAtHand'
  BY DEF Shape, NoOutcome, FlatAtHand, ClassAtHand, plan
<1>6. \A i \in DOMAIN results : results'[i] = results[i]
  BY <1>2, <1>3
<1>7. EachClassOnce'
  <2>1. partitionSelectedClasses' = partitionSelectedClasses
    BY DEF partitionSelectedClasses
  <2>2. r.class = c
    OBVIOUS
  <2> QED
    BY <1>2, <1>3, <1>6, <2>1, <2>2 DEF EachClassOnce
<1>8. abortedAt(results) # {} => abortedAt(results)' # {}
  BY <1>2, <1>6 DEF abortedAt, classGateFailed
<1>9. /\ r.ctx = "ok" /\ r.coverageOk => Written(r.class)'
      /\ r.ctx = "notRun" => RunHosts(r.class)' = {} \/ abortedAt(results)' # {}
  BY <1>8 DEF Written, ClassHosts, RunHosts
<1>10. ASSUME NEW i \in DOMAIN results
       PROVE  /\ results[i].ctx = "ok" /\ results[i].coverageOk =>
                   Written(results[i].class)'
              /\ results[i].ctx = "notRun" =>
                   RunHosts(results[i].class)' = {} \/ abortedAt(results)' # {}
  <2>1. Truthful(results[i])
    BY <1>10 DEF OutcomesTruthful
  <2> QED
    BY <1>8, <2>1 DEF Truthful, Written, ClassHosts, RunHosts
<1>11. OutcomesTruthful'
  <2> SUFFICES ASSUME NEW i \in DOMAIN results'
               PROVE  Truthful(results[i])'
    BY DEF OutcomesTruthful
  <2> HIDE DEF Return, r
  <2>1. CASE i = n
    BY <1>3, <1>9, <2>1 DEF Truthful, Written, ClassHosts, RunHosts
  <2>2. CASE i # n
    <3>1. i \in DOMAIN results /\ results'[i] = results[i]
      BY <1>3, <2>2
    <3> QED
      BY <1>10, <3>1 DEF Truthful, Written, ClassHosts, RunHosts
  <2> QED
    BY <2>1, <2>2
<1> QED
  BY <1>4, <1>5, <1>7, <1>11

\* What is known of the class whose hosts are at hand.
LEMMA ClassInTurn ==
  ASSUME Inv, config.multi, phase = "rollout", NEW c \in Class, Turn(c)
  PROVE  AtHand(c) /\ abortedAt(results) = {}
<1>1. PICK d \in Class : Turn(d) /\ AtHand(d) /\ abortedAt(results) = {}
  BY DEF Inv, ClassAtHand
<1> QED
  BY <1>1, OneTurn DEF Inv, TypeOK

\* A class whose hosts at hand cover it, all with the new file, has it.
LEMMA Covered ==
  ASSUME NEW c \in Class, AtHand(c), Covers(c, deployable), NEW files, changed \subseteq files
  PROVE  ClassHosts(c) \subseteq war \cup files
<1>1. deployable \in SUBSET ClassHosts(c)
  BY RunHostsBelong DEF AtHand
<1>2. deployable = ClassHosts(c)
  BY <1>1, CoversAll
<1> QED
  BY <1>2 DEF AtHand

LEMMA ClassStepInv ==
  ASSUME Inv, NEW c \in Class, ClassStep(c)
  PROVE  Inv'
<1>1. /\ war \subseteq Hosts /\ changed \subseteq Hosts
      /\ phase = "class" => config.multi
  BY DEF Inv, TypeOK, Shape
<1>2. Covers(c, deployable) \in BOOLEAN
  BY DEF Covers
<1>3. CASE ClassSkipped(c)
  BY <1>1, <1>3, ReturnInv DEF ClassSkipped, Gated
<1>4. CASE ClassUnreachable(c)
  BY <1>1, <1>4, ReturnInv DEF ClassUnreachable
<1>5. CASE ClassPreflight(c)
  <2> USE <1>5 DEF ClassPreflight, setupVars, Inv
  <2>1. AtHand(c)'
    BY ChecksLeave
  <2>2. TypeOK'
    <3>1. RunHosts(c)' \subseteq Hosts
      BY DEF RunHosts, ClassHosts
    <3> QED
      BY <2>1, <3>1 DEF TypeOK, AtHand
  <2>3. Shape' /\ NoOutcome' /\ FlatAtHand'
    BY <1>1 DEF Shape, NoOutcome, FlatAtHand, plan
  <2>4. EachClassOnce'
    BY DEF EachClassOnce, partitionSelectedClasses
  <2>5. ClassAtHand'
    <3>1. abortedAt(results)' = {}
      BY DEF Gated, abortedAt, classGateFailed
    <3>2. Turn(c)'
      BY DEF Turn
    <3> QED
      BY <2>1, <3>1, <3>2 DEF ClassAtHand
  <2>6. OutcomesTruthful'
    BY DEF OutcomesTruthful, Truthful, Written, ClassHosts, RunHosts, abortedAt, classGateFailed
  <2> QED
    BY <2>2, <2>3, <2>4, <2>5, <2>6
<1>6. CASE ClassUpToDate(c)
  <2>1. AtHand(c)
    BY <1>6, ClassInTurn DEF ClassUpToDate
  <2>2. Covers(c, deployable) => ClassHosts(c) \subseteq war
    BY <1>6, <2>1, Covered DEF ClassUpToDate
  <2> QED
    BY <1>1, <1>2, <1>6, <2>2, ReturnInv DEF ClassUpToDate
<1>7. CASE ClassCheckFails(c)
  BY <1>1, <1>2, <1>7, ReturnInv DEF ClassCheckFails
<1>8. CASE ClassRollout(c)
  <2>1. PICK d \in Deployments(c) :
          war' = war \cup d.files /\ Return(c, d.ctx, Covers(c, deployable))
    BY <1>8 DEF ClassRollout
  <2>2. /\ d.ctx \in {"ok", "failed", "workerFailed"}
        /\ d.files \subseteq changed
        /\ d.ctx = "ok" => c \in config.partial \/ d.files = changed
    BY <2>1 DEF Deployments
  <2>3. AtHand(c)
    BY <1>8, ClassInTurn DEF ClassRollout
  <2>4. d.ctx = "ok" /\ Covers(c, deployable) =>
          c \in config.partial \/ ClassHosts(c) \subseteq war'
    BY <2>1, <2>2, <2>3, Covered
  <2>5. /\ config.multi /\ phase \in {"class", "rollout"} /\ Turn(c)
        /\ UNCHANGED <<deployable, changed>>
    BY <1>8 DEF ClassRollout
  <2>6. war \subseteq war' /\ war' \subseteq Hosts
    BY <1>1, <2>1, <2>2
  <2> QED
    BY <1>2, <2>1, <2>2, <2>4, <2>5, <2>6, ReturnInv
<1> QED
  BY <1>3, <1>4, <1>5, <1>6, <1>7, <1>8 DEF ClassStep

LEMMA MultiClassGateInv ==
  ASSUME Inv, MultiClassGate
  PROVE  Inv'
<1> USE DEF Inv, MultiClassGate, setupVars
<1>1. phase' \in {"post", "done"}
  BY DEF GateOn
<1>2. TypeOK'
  BY <1>1 DEF TypeOK
<1>3. Shape' /\ NoOutcome' /\ FlatAtHand' /\ ClassAtHand'
  BY <1>1 DEF Shape, NoOutcome, FlatAtHand, ClassAtHand
<1>4. EachClassOnce'
  BY DEF EachClassOnce, partitionSelectedClasses
<1>5. OutcomesTruthful'
  BY DEF OutcomesTruthful, Truthful, Written, ClassHosts, RunHosts, abortedAt, classGateFailed
<1> QED
  BY <1>2, <1>3, <1>4, <1>5

LEMMA StutterInv ==
  ASSUME Inv, UNCHANGED vars
  PROVE  Inv'
<1> USE DEF Inv, vars
<1>1. TypeOK'
  BY DEF TypeOK
<1>2. Shape' /\ NoOutcome' /\ EachClassOnce'
  BY DEF Shape, NoOutcome, EachClassOnce, partitionSelectedClasses, plan
<1>3. FlatAtHand' /\ ClassAtHand'
  BY DEF FlatAtHand, ClassAtHand, AtHand, Turn, abortedAt, classGateFailed,
         RunHosts, ClassHosts, plan
<1>4. OutcomesTruthful'
  BY DEF OutcomesTruthful, Truthful, Written, ClassHosts, RunHosts, abortedAt, classGateFailed
<1> QED
  BY <1>1, <1>2, <1>3, <1>4

\* The invariant is inductive: every step of the run preserves it.
LEMMA NextInv == Inv /\ [Next]_vars => Inv'
<1> SUFFICES ASSUME Inv, [Next]_vars PROVE Inv'
  OBVIOUS
<1>1. CASE Start
  BY <1>1, StartInv
<1>2. CASE PreFails \/ PostMigrations \/ Interrupted
  BY <1>2, ExitSteps
<1>3. CASE MigrationsOnly
  BY <1>3, MigrationsOnlyInv
<1>4. CASE FlatStep
  BY <1>4, ExitSteps, FlatPreflightInv, UpToDateInv, FlatGoesOnInv, FlatRolloutInv
     DEF FlatStep
<1>5. CASE MultiClassStep
  BY <1>5, MultiClassInv, MultiClassGateInv, ClassStepInv DEF MultiClassStep
<1>6. CASE UNCHANGED vars
  BY <1>6, StutterInv
<1> QED
  BY <1>1, <1>2, <1>3, <1>4, <1>5, <1>6 DEF Next

\* Every outcome a run has is true of the hosts of its class, at every moment.
THEOREM Invariant == Spec => []Inv
BY InitInv, NextInv, PTL DEF Spec

\* Every variable of a run has its type.
THEOREM TypeCorrect == Spec => []TypeOK
<1>1. Inv => TypeOK
  BY DEF Inv
<1> QED
  BY <1>1, Invariant, PTL

-----------------------------------------------------------------------------
(***************************************************************************)
(* A host is touched in its turn.                                          *)
(***************************************************************************)
\* A step writes a WAR file only at the rollout, to hosts with differences.
LEMMA OnlyTheRolloutWrites ==
  ASSUME [Next]_vars, NEW h \in war' \ war
  PROVE  phase = "rollout" /\ h \in changed
<1> USE DEF Exit, setupVars, Return
<1>1. CASE Start \/ PreFails \/ MigrationsOnly \/ PostMigrations
  BY <1>1 DEF Start, PreFails, MigrationsOnly, PostMigrations
<1>2. CASE Interrupted
  BY <1>2 DEF Interrupted
<1>3. CASE FlatStep
  <2>1. CASE FlatRollout
    BY <2>1 DEF FlatRollout, Deployments
  <2> QED
    BY <1>3, <2>1 DEF FlatStep, FlatGivesUp, FlatPreflight, UpToDate, DryRun, FlatRolls,
       FlatPre, HAProxyCheckFails
<1>4. CASE MultiClassStep
  <2>1. CASE MultiClass \/ MultiClassGate
    BY <2>1 DEF MultiClass, MultiClassGate
  <2>2. ASSUME NEW c \in Class, ClassStep(c)
        PROVE  phase = "rollout" /\ h \in changed
    <3>1. CASE ClassRollout(c)
      BY <3>1 DEF ClassRollout, Deployments
    <3> QED
      BY <2>2, <3>1 DEF ClassStep, ClassSkipped, ClassUnreachable, ClassPreflight,
         ClassUpToDate, ClassCheckFails
  <2> QED
    BY <1>4, <2>1, <2>2 DEF MultiClassStep
<1>5. CASE UNCHANGED vars
  BY <1>5 DEF vars
<1> QED
  BY <1>1, <1>2, <1>3, <1>4, <1>5 DEF Next

\* The hosts with differences are those whose turn it is.
LEMMA InTurn ==
  ASSUME Inv, phase = "rollout", NEW h \in changed
  PROVE  /\ pre /\ ~options.dryRun
         /\ options.hosts = {} \/ h \in options.hosts
         /\ options.classes = {} \/ config.classOf[h] \in options.classes
         /\ \A i \in DOMAIN results :
              results[i].ctx = "failed" => ~config.blocking[results[i].class]
<1> USE DEF Inv
<1>1. pre /\ ~options.dryRun /\ plan.runRollout
  BY DEF Shape
<1>2. CASE config.multi
  <2>1. PICK c \in Class : Turn(c) /\ AtHand(c) /\ abortedAt(results) = {}
    BY <1>2 DEF ClassAtHand
  <2>2. h \in RunHosts(c)
    BY <2>1 DEF AtHand
  <2>3. (options.hosts = {} \/ h \in options.hosts) /\ config.classOf[h] = c
    BY <2>2 DEF RunHosts, ClassHosts
  <2>4. c \in partitionSelectedClasses
    BY <1>2, <2>1 DEF EachClassOnce, Turn
  <2> QED
    BY <1>1, <2>1, <2>3, <2>4 DEF partitionSelectedClasses, abortedAt, classGateFailed
<1>3. CASE ~config.multi
  <2>1. h \in RunHosts(1) /\ results = <<>>
    BY <1>1, <1>3 DEF FlatAtHand, AtHand, NoOutcome
  <2>2. options.classes = {}
    BY <1>1, <1>3, ConfigTypes DEF validateClassFlags
  <2> QED
    BY <1>1, <2>1, <2>2 DEF RunHosts
<1> QED
  BY <1>2, <1>3

\* A run touches a host behind the pre-deploy migrations, where its flags
\* select it, and behind no blocking class that failed.
THEOREM TouchedInTurn == Spec => HostsInTurn
<1>1. Inv /\ [Next]_vars =>
        [ \A h \in war' \ war :
            /\ pre /\ ~options.dryRun
            /\ options.hosts = {} \/ h \in options.hosts
            /\ options.classes = {} \/ config.classOf[h] \in options.classes
            /\ \A i \in DOMAIN results :
                 results[i].ctx = "failed" => ~config.blocking[results[i].class] ]_vars
  BY OnlyTheRolloutWrites, InTurn
<1> QED
  BY <1>1, Invariant, PTL DEF Spec, HostsInTurn

-----------------------------------------------------------------------------
(***************************************************************************)
(* The gate of the post-deploy migrations.  No --class argument repeats    *)
(* another one: with MaxRepeats = 1 TLC finds a class that was left out.   *)
(***************************************************************************)
\* Every host has the new file, or belongs to a class that may leave it out.
EveryWar == \A h \in Hosts : h \in war \/ config.classOf[h] \in config.partial

\* Every host belongs to a class.
LEMMA EachHostHasClass ==
  ASSUME TypeOK, \A c \in Class : Written(c)
  PROVE  EveryWar
BY ConfigTypes DEF ClassHosts, TypeOK, Written, EveryWar

\* A gate of several classes that is not scoped is one of every class.
LEMMA NotScoped ==
  ASSUME TypeOK, MaxRepeats = 0, config.multi, plan.runRollout, ~mcIsScoped
  PROVE  partitionSelectedClasses = Class /\ options.hosts = {}
<1>1. /\ options.classes \in SUBSET Class
      /\ options.repeats = 0
      /\ options.hosts # {} => ClassArgs(options) = 1
  BY ConfigTypes DEF validateClassFlags
<1>2. /\ IsFiniteSet(Class)
      /\ Cardinality(Class) = NumClasses
  BY ClassesAssumption, FS_Interval DEF Class
<1>3. /\ IsFiniteSet(options.classes)
      /\ Cardinality(options.classes) \in Nat
      /\ Cardinality(options.classes) <= NumClasses
      /\ Cardinality(options.classes) = NumClasses => options.classes = Class
  BY <1>1, <1>2, FS_Subset, FS_CardinalityType
<1>4. Cardinality(options.classes) = 0 <=> options.classes = {}
  BY <1>3, FS_EmptySet
<1>5. ClassArgs(options) = Cardinality(options.classes)
  BY <1>1, <1>3 DEF ClassArgs
<1>6. options.hosts = {}
  BY <1>1, <1>5 DEF mcIsScoped
<1>7. ClassArgs(options) \notin 1..NumClasses-1
  BY DEF mcIsScoped
<1>8. options.classes = {} \/ options.classes = Class
  BY <1>3, <1>4, <1>5, <1>7, ClassesAssumption
<1> QED
  BY <1>6, <1>8 DEF partitionSelectedClasses

\* When the gate of several classes opens every host has the new file, those
\* excepted that a rollout may leave out.
LEMMA MultiClassGateHolds ==
  ASSUME Inv, MaxRepeats = 0, MultiClassGate, phase' = "post"
  PROVE  EveryWar
<1> USE DEF Inv
<1>1. config.multi /\ plan.runRollout /\ todo = {} /\ TypeOK
  BY DEF Shape, MultiClassGate
<1>2. ~mcIsScoped /\ computeFullCoverage(results) /\ computeNoFailures(results)
  <2>1. mcIsScoped \in BOOLEAN
    BY DEF mcIsScoped
  <2> QED
    BY <2>1, GateOpens DEF MultiClassGate
<1>3. partitionSelectedClasses = Class /\ options.hosts = {}
  BY <1>1, <1>2, NotScoped
<1>4. ASSUME NEW c \in Class
      PROVE  Written(c)
  <2>1. PICK i \in DOMAIN results : results[i].class = c
    BY <1>1, <1>3 DEF EachClassOnce, MultiClassGate
  <2>2. Truthful(results[i])
    BY DEF OutcomesTruthful
  <2>3. results[i].ctx \in {"notRun", "ok"}
    BY <1>2 DEF computeNoFailures
  <2>4. CASE results[i].ctx = "notRun"
    <3>1. abortedAt(results) = {}
      BY <1>2 DEF computeNoFailures, abortedAt, classGateFailed
    <3> QED
      BY <1>3, <2>1, <2>2, <2>4, <3>1 DEF Truthful, Written, RunHosts
  <2>5. CASE results[i].ctx = "ok"
    BY <1>2, <2>1, <2>2, <2>5 DEF Truthful, computeFullCoverage
  <2> QED
    BY <2>3, <2>4, <2>5
<1> QED
  BY <1>1, <1>4, EachHostHasClass

\* When the gate of a flat configuration opens every host has the new file,
\* unless its rollout may leave some out.
LEMMA FlatGateHolds ==
  ASSUME Inv, UpToDate \/ FlatRollout, phase' = "post"
  PROVE  EveryWar'
<1> USE DEF Inv, setupVars
<1>1. ~config.multi /\ plan.runRollout /\ TypeOK /\ AtHand(1)
  BY DEF UpToDate, FlatPre, FlatRollout, Shape, FlatAtHand
<1>2. PICK ctx \in {"ok", "failed", "workerFailed"} :
        /\ results' = FlatOutcome(ctx)
        /\ ctx = "ok" => 1 \in config.partial \/ changed \subseteq war'
        /\ phase' = GateOn(isScopedDeploy, results')
        /\ war \subseteq war' /\ war' \subseteq Hosts
  <2>1. changed \subseteq Hosts /\ war \subseteq Hosts
    BY <1>1 DEF TypeOK
  <2>2. CASE UpToDate
    BY <2>1, <2>2 DEF UpToDate, FlatPre
  <2>3. CASE FlatRollout
    BY <2>1, <2>3 DEF FlatRollout, Deployments
  <2> QED
    BY <2>2, <2>3
<1>3. ~isScopedDeploy /\ computeFullCoverage(results') /\ computeNoFailures(results')
  <2>1. isScopedDeploy \in BOOLEAN
    BY DEF isScopedDeploy
  <2> QED
    BY <1>2, <2>1, GateOpens
<1>4. ctx = "ok" /\ Covers(1, deployable)
  BY <1>2, <1>3 DEF FlatOutcome, computeFullCoverage, computeNoFailures
<1>5. RunHosts(1) = Hosts /\ ClassHosts(1) = Hosts
  BY <1>3, RunHostsBelong DEF isScopedDeploy
<1>6. deployable = Hosts
  BY <1>1, <1>4, <1>5, CoversAll DEF AtHand
<1>7. 1 \in config.partial \/ Hosts \subseteq war'
  BY <1>1, <1>2, <1>4, <1>6 DEF AtHand
<1>8. config' = config /\ \A h \in Hosts : config.classOf[h] = 1
  BY <1>1, ConfigTypes DEF UpToDate, FlatPre, FlatRollout
<1> QED
  BY <1>7, <1>8 DEF EveryWar

\* Only the gates of a rollout and the -only shapes reach the post-deploy
\* migrations.
LEMMA GateSteps ==
  ASSUME Inv, [Next]_vars, phase' = "post"
  PROVE  \/ phase = "post" /\ UNCHANGED <<options, config, war>>
         \/ ~plan.runRollout /\ UNCHANGED options
         \/ UpToDate \/ FlatRollout \/ MultiClassGate
<1> USE DEF Exit, setupVars, Return
<1>1. CASE Start \/ PreFails \/ MigrationsOnly \/ PostMigrations \/ Interrupted
  BY <1>1 DEF Start, PreFails, MigrationsOnly, PostMigrations, Interrupted
<1>2. CASE FlatStep
  BY <1>2 DEF FlatStep, FlatGivesUp, FlatPreflight, DryRun, FlatRolls, FlatPre,
     HAProxyCheckFails
<1>3. CASE MultiClassStep
  <2>1. CASE MultiClass \/ MultiClassGate
    BY <2>1 DEF MultiClass
  <2>2. ASSUME NEW c \in Class, ClassStep(c)
        PROVE  FALSE
    BY <2>2 DEF ClassStep, ClassSkipped, ClassUnreachable, ClassPreflight,
       ClassUpToDate, ClassCheckFails, ClassRollout
  <2> QED
    BY <1>3, <2>1, <2>2 DEF MultiClassStep
<1>4. CASE UNCHANGED vars
  BY <1>4 DEF vars
<1> QED
  BY <1>1, <1>2, <1>3, <1>4 DEF Next

\* The post-deploy migrations of a rollout find the new file on every host of
\* the classes whose rollout leaves none out.
THEOREM PostGate ==
  ASSUME MaxRepeats = 0
  PROVE  Spec => []PostBehindEveryWar
<1>1. Init => PostBehindEveryWar
  BY DEF Init, PostBehindEveryWar
<1>2. Inv /\ PostBehindEveryWar /\ [Next]_vars => PostBehindEveryWar'
  <2> SUFFICES ASSUME Inv, PostBehindEveryWar, [Next]_vars, phase' = "post", plan'.runRollout
               PROVE  EveryWar'
    BY DEF PostBehindEveryWar, EveryWar
  <2>1. CASE phase = "post" /\ UNCHANGED <<options, config, war>>
    BY <2>1 DEF PostBehindEveryWar, EveryWar, plan
  <2>2. CASE ~plan.runRollout /\ UNCHANGED options
    BY <2>2 DEF plan
  <2>3. CASE UpToDate \/ FlatRollout
    BY <2>3, FlatGateHolds
  <2>4. CASE MultiClassGate
    BY <2>4, MultiClassGateHolds DEF MultiClassGate, EveryWar, setupVars
  <2> QED
    BY <2>1, <2>2, <2>3, <2>4, GateSteps
<1> QED
  BY <1>1, <1>2, Invariant, PTL DEF Spec

=============================================================================
