--------------------------- MODULE PayaraLifecycle ---------------------------
(***************************************************************************)
(* Starting, stopping and restarting the Payara domain: PayaraManager      *)
(* (start, stop, restart, aggressiveStop, safeStart, ensureSingleProcess), *)
(* the process killer, the three start-up modes of plugin-startup.ts, the  *)
(* routes of lifecycle.ts and the event handlers of index.ts, with the     *)
(* environment on its way from the vault through the manager's memory and  *)
(* setenv.conf into the JVM.                                               *)
(*                                                                         *)
(* An operation is the sequence of the calls it has still to make, each of *)
(* which ends in an await: todo[o].  A call that turns out to need others  *)
(* puts them in front; an exception drops the rest.  The JVMs are          *)
(* processes of their own: they boot, drain and die when they like.        *)
(*                                                                         *)
(* The configuration has secrets with an inline api-key among them,        *)
(* restarts on key rotation and on a new certificate, and watches the      *)
(* secrets that change.                                                    *)
(***************************************************************************)
EXTENDS Naturals, Sequences, FiniteSets

CONSTANTS
  Jvms,          \* the processes there is room for
  None,          \* no operation begun, no answer
  Modes,         \* the start-up modes considered
  Unreliable,    \* the modes in which list-domains may fail, and the agent
                 \* may find JVMs that are booting or draining
  PgrepFaults,   \* whether the list of processes may come back empty
  Overlap,       \* whether an operation may begin while another is under way
  MaxOperations, \* bound on the operations after onStart
  MaxRotations   \* bound on the new versions of the secrets

AllModes == {"exec", "aggressive", "normal"}

ASSUME ModesAssumption == Unreliable \subseteq Modes /\ Modes \subseteq AllModes
ASSUME FlagsAssumption == {PgrepFaults, Overlap} \subseteq BOOLEAN
ASSUME LimitsAssumption == {MaxOperations, MaxRotations} \subseteq Nat
ASSUME JvmsAssumption == IsFiniteSet(Jvms)

VARIABLES
  mode,        \* getStartupMode(config)
  jvm, jvmEnv, \* the state of each JVM, the version of the secrets it got
  vault,       \* the version of the secrets in the vault
  environment, \* PayaraManager.environment: a version, as all that follow
  setenv,      \* the file setenv.conf
  kind, answer,\* what operation o is, and how it ended
  since,       \* the version in the vault when o began
  todo,        \* the calls o has still to make
  content,     \* what o is writing to setenv.conf
  pids         \* the processes o has decided to kill

jvmVars   == <<jvm, jvmEnv>>
envVars   == <<environment, setenv>>
flowVars  == <<answer, todo, content>>
beginVars == <<mode, vault, kind, since>>
vars == <<jvmVars, envVars, flowVars, beginVars, pids>>

Operations == 0 .. MaxOperations
OnStart    == 0

Kinds == {"onStart", "start", "stop", "restart", "certificate", "keyRotated",
          "secretChanged"}

ASSUME NoneAssumption == None \notin Kinds \cup {"done", "error"}

Alive   == {j \in Jvms : jvm[j] # "none"}
Running == \E j \in Jvms : jvm[j] = "up"

\* What a new agent may find: nothing, one JVM, or several of which one at
\* most holds the admin port.
Found ==
  /\ \A i, j \in Jvms : jvm[i] = "up" /\ jvm[j] = "up" => i = j
  /\ mode = "exec" => Cardinality(Alive) <= 1
  /\ mode \in Unreliable \/ \A j \in Alive : jvm[j] = "up"

Init ==
  /\ mode \in Modes
  /\ jvm \in [Jvms -> {"none", "booting", "up", "draining"}]
  /\ Found
  /\ \E version \in {0, 1} : jvmEnv = [j \in Jvms |-> version]
  /\ vault = 1 /\ environment = 1 /\ setenv \in {0, 1}
  /\ kind = [o \in Operations |-> None]
  /\ answer = [o \in Operations |-> None]
  /\ since = [o \in Operations |-> 0]
  /\ todo = [o \in Operations |-> << >>]
  /\ content = [o \in Operations |-> 0]
  /\ pids = [o \in Operations |-> {}]

-----------------------------------------------------------------------------
(***************************************************************************)
(* The flow of an operation.  writeSetenvConf takes the environment when   *)
(* it is called, that is at the end of the call before it.                 *)
(***************************************************************************)
At(o, call) == todo[o] # << >> /\ Head(todo[o]) = call
Rest(o) == Tail(todo[o])

ProceedIn(o, calls, env) ==
  /\ todo' = [todo EXCEPT ![o] = calls]
  /\ answer' = [answer EXCEPT ![o] = IF calls = << >> THEN "done" ELSE None]
  /\ content' = [content EXCEPT ![o] =
       IF calls # << >> /\ Head(calls) = "writeSetenv" THEN env ELSE 0]

Proceed(o, calls) == ProceedIn(o, calls, environment)

Throw(o) ==
  /\ todo' = [todo EXCEPT ![o] = << >>]
  /\ answer' = [answer EXCEPT ![o] = "error"]
  /\ content' = [content EXCEPT ![o] = 0]

\* What isRunning may answer: an asadmin that fails counts as not running.
ListDomains == {Running} \cup {b \in {FALSE} : mode \in Unreliable}

\* What getPayaraProcessPids may answer: an error counts as no process.
Processes == {Alive} \cup {p \in {{}} : PgrepFaults}

\* Methods that make one call after the other.
aggressiveStop == <<"gracefulStop", "killProcesses", "verifyStopped">>
safeStart == <<"ensureNoJava", "writeSetenv", "startDomain", "waitForHealthy">>
aggressiveRestart == aggressiveStop \o safeStart
restart == <<"stop", "start">>

configuredRestart ==
  CASE mode = "aggressive" -> aggressiveRestart
    [] mode = "normal" -> restart
    [] mode = "exec" -> << >>

refreshSecrets == <<"fetchSecrets", "writeSetenv">>

onStart ==
  (IF mode = "exec" THEN << >> ELSE <<"ensureSingleProcess">>)
    \o refreshSecrets \o <<"startup">>

\* Mutated: the restart goes ahead without the new key.
onKeyRotatedUnfetched == configuredRestart

onKeyRotated == refreshSecrets \o configuredRestart

Handler(k) ==
  CASE k = "onStart" -> onStart
    [] k = "start" -> <<"start">>
    [] k = "stop" -> <<"stop">>
    [] k = "restart" -> restart
    [] k = "certificate" -> configuredRestart
    [] k = "keyRotated" -> onKeyRotated
    [] k = "secretChanged" -> refreshSecrets

Busy(o) == kind[o] # None /\ answer[o] = None

Begin(o, k) ==
  /\ kind[o] = None
  /\ k = "onStart" <=> o = OnStart
  /\ o # OnStart => answer[OnStart] = "done" /\ kind[o - 1] # None
  /\ Overlap \/ \A p \in Operations : ~Busy(p)
  /\ kind' = [kind EXCEPT ![o] = k]
  /\ since' = [since EXCEPT ![o] = vault]
  /\ Proceed(o, Handler(k))
  /\ UNCHANGED <<mode, vault, jvmVars, envVars, pids>>

-----------------------------------------------------------------------------
(***************************************************************************)
(* The environment.                                                        *)
(***************************************************************************)
\* Mutated: the file gets the secrets but the manager does not keep them.
FetchSecretsForgets(o) ==
  /\ At(o, "fetchSecrets")
  /\ \/ /\ \E version \in since[o] .. vault : ProceedIn(o, Rest(o), version)
        /\ UNCHANGED environment
     \/ UNCHANGED environment /\ Throw(o)
  /\ UNCHANGED <<setenv, jvmVars, beginVars, pids>>

\* The secrets are read one by one after the operation began; the manager
\* keeps the result at once and then writes it to setenv.conf.
FetchSecrets(o) ==
  /\ At(o, "fetchSecrets")
  /\ \/ /\ environment' \in since[o] .. vault
        /\ ProceedIn(o, Rest(o), environment')
     \/ UNCHANGED environment /\ Throw(o)
  /\ UNCHANGED <<setenv, jvmVars, beginVars, pids>>

\* tee, chmod and chown: the content may be in place when one of them fails.
WriteSetenv(o) ==
  /\ At(o, "writeSetenv")
  /\ \/ setenv' = content[o] /\ Proceed(o, Rest(o))
     \/ setenv' \in {setenv, content[o]} /\ Throw(o)
  /\ UNCHANGED <<environment, jvmVars, beginVars, pids>>

-----------------------------------------------------------------------------
(***************************************************************************)
(* PayaraManager.start and stop.                                           *)
(***************************************************************************)
Unchanged == UNCHANGED <<jvmVars, envVars, beginVars, pids>>

Start(o) ==
  /\ At(o, "start")
  /\ \E listed \in ListDomains :
       Proceed(o, (IF listed THEN << >>
                   ELSE <<"writeSetenv", "startDomain", "waitForHealthy">>)
                  \o Rest(o))
  /\ Unchanged

\* asadmin refuses a second domain on the admin port; otherwise it launches a
\* JVM in the environment of setenv.conf, whatever else is alive.
StartDomain(o) ==
  /\ At(o, "startDomain")
  /\ \/ /\ ~Running
        /\ \E j \in Jvms \ Alive :
             /\ jvm' = [jvm EXCEPT ![j] = "booting"]
             /\ jvmEnv' = [jvmEnv EXCEPT ![j] = setenv]
        /\ Proceed(o, <<"awaitBoot">> \o Rest(o))
     \/ UNCHANGED jvmVars /\ Throw(o)
  /\ UNCHANGED <<envVars, beginVars, pids>>

\* start-domain returns when the domain is up, or asadmin is killed after its
\* limit while the JVM goes on; then the health endpoint has its own limit.
AwaitUp(o) ==
  /\ At(o, "awaitBoot") \/ At(o, "waitForHealthy")
  /\ \/ Running /\ Proceed(o, Rest(o))
     \/ Throw(o)
  /\ Unchanged

Stop(o) ==
  /\ At(o, "stop")
  /\ \E listed \in ListDomains :
       Proceed(o, (IF listed THEN <<"stopDomain", "waitForStopped">>
                   ELSE << >>) \o Rest(o))
  /\ Unchanged

\* The JVMs of S begin to shut down.
Shut(S) ==
  jvm' = [j \in Jvms |-> IF j \in S /\ jvm[j] # "none" THEN "draining"
                         ELSE jvm[j]]

\* Errors of stop-domain are swallowed.
StopDomain(o) ==
  /\ At(o, "stopDomain")
  /\ Shut({j \in Jvms : jvm[j] = "up"}) \/ UNCHANGED jvm
  /\ Proceed(o, Rest(o))
  /\ UNCHANGED <<jvmEnv, envVars, beginVars, pids>>

\* Mutated: the admin port is closed, and nobody looks at the process.
WaitForPortClosed(o) ==
  /\ At(o, "waitForStopped")
  /\ \/ FALSE \in ListDomains /\ Proceed(o, Rest(o))
     \/ Throw(o)
  /\ Unchanged

WaitForStopped(o) ==
  /\ At(o, "waitForStopped")
  /\ \/ FALSE \in ListDomains /\ {} \in Processes /\ Proceed(o, Rest(o))
     \/ Throw(o)
  /\ Unchanged

-----------------------------------------------------------------------------
(***************************************************************************)
(* The aggressive methods, and killProcessesByPid.                         *)
(***************************************************************************)
\* The calls that depend on whether a list of processes is empty.
AskProcesses(o, call, ifNone, ifSome) ==
  /\ At(o, call)
  /\ \E seen \in Processes :
       /\ Proceed(o, (IF seen = {} THEN ifNone ELSE ifSome) \o Rest(o))
       /\ pids' = [pids EXCEPT ![o] = seen]
  /\ UNCHANGED <<jvmVars, envVars, beginVars>>

FailIfAlive(o, call) ==
  /\ At(o, call)
  /\ \E seen \in Processes :
       \/ seen = {} /\ Proceed(o, Rest(o))
       \/ seen # {} /\ Throw(o)
  /\ pids' = [pids EXCEPT ![o] = {}]
  /\ UNCHANGED <<jvmVars, envVars, beginVars>>

EnsureSingleProcess(o) ==
  /\ At(o, "ensureSingleProcess")
  /\ \E seen \in Processes :
       Proceed(o, (IF Cardinality(seen) <= 1 THEN << >>
                   ELSE aggressiveStop \o <<"restartFresh">>) \o Rest(o))
  /\ Unchanged

RestartFresh(o) == AskProcesses(o, "restartFresh", safeStart, << >>)

GracefulStop(o) ==
  /\ At(o, "gracefulStop")
  /\ \E listed \in ListDomains :
       Proceed(o, (IF listed THEN <<"stopDomain">> ELSE << >>) \o Rest(o))
  /\ Unchanged

EnsureNoJava(o) ==
  AskProcesses(o, "ensureNoJava", << >>, <<"killProcesses">>)

KillProcesses(o) ==
  AskProcesses(o, "killProcesses", << >>,
               <<"sigterm", "checkRemaining", "finalCheck">>)

Sigterm(o) ==
  /\ At(o, "sigterm")
  /\ \/ Shut(pids[o]) /\ Proceed(o, Rest(o))
     \/ (Shut(pids[o]) \/ UNCHANGED jvm) /\ Throw(o)
  /\ UNCHANGED <<jvmEnv, envVars, beginVars, pids>>

CheckRemaining(o) == AskProcesses(o, "checkRemaining", << >>, <<"sigkill">>)

\* A process in an uninterruptible wait survives.
Sigkill(o) ==
  /\ At(o, "sigkill")
  /\ \E killed \in SUBSET pids[o] :
       jvm' = [j \in Jvms |-> IF j \in killed THEN "none" ELSE jvm[j]]
  /\ Proceed(o, Rest(o)) \/ Throw(o)
  /\ UNCHANGED <<jvmEnv, envVars, beginVars, pids>>

FinalCheck(o) == FailIfAlive(o, "finalCheck")
VerifyStopped(o) == FailIfAlive(o, "verifyStopped")

-----------------------------------------------------------------------------
(***************************************************************************)
(* plugin-startup.ts.  In exec mode the wait for Payara may time out; the  *)
(* other two look at its health.  Deploying is WarDeployer.deploy, which   *)
(* starts a domain that does not run.                                      *)
(***************************************************************************)
StartupCalls(ready, deploy) ==
  CASE mode = "exec" -> IF ready THEN deploy ELSE << >>
    [] mode = "aggressive" ->
         (IF ready THEN << >> ELSE <<"ensureNoJava">> \o safeStart) \o deploy
    [] mode = "normal" -> IF ready THEN << >> ELSE <<"start">> \o deploy

Startup(o) ==
  /\ At(o, "startup")
  /\ \E ready \in BOOLEAN, deploy \in {<< >>, <<"deploy">>} :
       /\ ready => Running
       /\ Proceed(o, StartupCalls(ready, deploy) \o Rest(o))
  /\ Unchanged

Deploy(o) ==
  /\ At(o, "deploy")
  /\ \E listed \in ListDomains :
       Proceed(o, (IF listed THEN << >> ELSE <<"start">>)
                  \o <<"asadminDeploy">> \o Rest(o))
  /\ Unchanged

AsadminDeploy(o) ==
  /\ At(o, "asadminDeploy")
  /\ Proceed(o, Rest(o)) \/ Throw(o)
  /\ Unchanged

-----------------------------------------------------------------------------
(***************************************************************************)
(* The processes outside: the JVMs, the vault, and systemd in exec mode.   *)
(***************************************************************************)
OnlyJvm == UNCHANGED <<envVars, flowVars, beginVars, pids>>

Boot(j) ==
  /\ jvm[j] = "booting" /\ ~Running
  /\ jvm' = [jvm EXCEPT ![j] = "up"]
  /\ UNCHANGED jvmEnv /\ OnlyJvm

\* A drained JVM exits; so does one that crashes or finds its port taken.
Exit(j) ==
  /\ j \in Alive
  /\ jvm' = [jvm EXCEPT ![j] = "none"]
  /\ UNCHANGED jvmEnv /\ OnlyJvm

ExecStart(j) ==
  /\ mode = "exec" /\ At(OnStart, "startup") /\ Alive = {}
  /\ jvm' = [jvm EXCEPT ![j] = "booting"]
  /\ jvmEnv' = [jvmEnv EXCEPT ![j] = setenv]
  /\ OnlyJvm

Rotate ==
  /\ vault <= MaxRotations
  /\ vault' = vault + 1
  /\ UNCHANGED <<mode, kind, since, jvmVars, envVars, flowVars, pids>>

Continue(o) ==
  \/ FetchSecrets(o) \/ WriteSetenv(o)
  \/ Start(o) \/ StartDomain(o) \/ AwaitUp(o)
  \/ Stop(o) \/ StopDomain(o) \/ WaitForStopped(o)
  \/ EnsureSingleProcess(o) \/ RestartFresh(o) \/ GracefulStop(o)
  \/ EnsureNoJava(o) \/ KillProcesses(o) \/ Sigterm(o) \/ CheckRemaining(o)
  \/ Sigkill(o) \/ FinalCheck(o) \/ VerifyStopped(o)
  \/ Startup(o) \/ Deploy(o) \/ AsadminDeploy(o)

Next ==
  \/ \E o \in Operations : Continue(o) \/ \E k \in Kinds : Begin(o, k)
  \/ \E j \in Jvms : Boot(j) \/ Exit(j) \/ ExecStart(j)
  \/ Rotate

Spec == Init /\ [][Next]_vars

-----------------------------------------------------------------------------
Calls ==
  {"fetchSecrets", "writeSetenv", "start", "startDomain", "awaitBoot",
   "waitForHealthy", "stop", "stopDomain", "waitForStopped",
   "ensureSingleProcess", "restartFresh", "gracefulStop", "ensureNoJava",
   "killProcesses", "sigterm", "checkRemaining", "sigkill", "finalCheck",
   "verifyStopped", "startup", "deploy", "asadminDeploy"}

Versions == 0 .. MaxRotations + 1

TypeOK ==
  /\ mode \in Modes
  /\ jvm \in [Jvms -> {"none", "booting", "up", "draining"}]
  /\ jvmEnv \in [Jvms -> Versions]
  /\ {vault, environment, setenv} \subseteq Versions
  /\ kind \in [Operations -> {None} \cup Kinds]
  /\ answer \in [Operations -> {None, "done", "error"}]
  /\ since \in [Operations -> Versions]
  /\ todo \in [Operations -> Seq(Calls)]
  /\ content \in [Operations -> Versions]
  /\ pids \in [Operations -> SUBSET Jvms]

Launches(o) == At(o, "startDomain") /\ At(o, "awaitBoot")'

Failed == \E o \in Operations : answer[o] = "error"

Aggressive(o) ==
  mode = "aggressive" /\ kind[o] \in {"onStart", "certificate", "keyRotated"}

\* A JVM is never launched beside another one, which the memory of the host
\* does not allow: for the aggressive handlers whatever went wrong before, for
\* the plain start as long as no operation has reported an error.
OneJvm ==
  [][ \A o \in Operations :
        Launches(o) /\ Alive # {}
          => mode = "exec" \/ (~Aggressive(o) /\ Failed) ]_vars

\* When onKeyRotated reports that Payara was restarted, no JVM is left with
\* an older key, nor will one be; in normal mode a failed operation before
\* may have left a JVM that start takes for its own.
RotationReachesJvm ==
  \A o \in Operations :
    kind[o] = "keyRotated" /\ answer[o] = "done" =>
      \/ mode = "exec" \/ (mode = "normal" /\ Failed)
      \/ \A j \in Alive : jvmEnv[j] >= since[o]

\* A JVM gets secrets no older than those any earlier handler has stored,
\* although each start writes setenv.conf again from memory.
FreshLaunch ==
  [][ \A o, p \in Operations :
        /\ Launches(o)
        /\ kind[p] \in {"onStart", "keyRotated", "secretChanged"}
        /\ answer[p] = "done"
        => \A j \in Alive' \ Alive : jvmEnv'[j] >= since[p] ]_vars

=============================================================================
