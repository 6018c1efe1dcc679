----------------------------- MODULE FullRestart -----------------------------
(***************************************************************************)
(* The agent side of a deployment in aggressive mode: POST /deploy runs    *)
(* WarDeployer.deployWithFullRestart (undeploy, stop, kill, start, deploy) *)
(* under the lock file and the journal, and POST /deploy/full runs the     *)
(* same Payara steps of deployAuto without either.  SIGTERM may arrive, the*)
(* agent may crash at any await, and it starts again as plugin-startup.ts  *)
(* does.  A step of the model is the code between two awaits; the asadmin  *)
(* details of a deploy are HotDeploy's, and so is the status tracker.      *)
(***************************************************************************)
EXTENDS DeploymentLock, DeploymentJournal

CONSTANTS
  Torn,         \* a WAR file cut short: no archive, and nothing deploys it
  Kinds,        \* "apply" for POST /deploy, "auto" for POST /deploy/full
  Overlap,      \* whether a request may arrive in the windows where another
                \* one is in flight with deployLock still, or already, FALSE
  PidReuse,     \* whether a restarted agent may get the pid of the last one
  MaxCrashes,   \* bound on crashes
  MaxSigterms   \* bound on the SIGTERMs sent by systemd

ASSUME KindsAssumption == Kinds \subseteq {"apply", "auto"}
ASSUME TornAssumption ==
  Torn # None /\ \A content \in SUBSET Requests : content # Torn
ASSUME BoundsAssumption == MaxCrashes \in Nat /\ MaxSigterms \in Nat
ASSUME SwitchAssumption == {Overlap, PidReuse} \subseteq BOOLEAN

VARIABLES
  pc,         \* pc[r]: the await request r is suspended at
  kind,       \* kind[r]: the route r was sent to
  step,       \* step[r]: the step deployWithFullRestart is in
  answer,     \* answer[r]: the HTTP answer of r
  seen,       \* seen[r]: the lock file as updateStep read it
  extracted,  \* extracted[r]: the WAR content in r's temporary directory
  deployLock, \* WarDeployer.deployLock
  war,        \* content of the WAR file: the requests whose files it holds,
              \* or Torn
  app,        \* content of the application registered in the domain
  running,    \* whether the domain runs
  agent,      \* "up" or "down"
  crashes, sigterms

flowVars    == <<pc, step, answer, deployLock>>
requestVars == <<kind, seen, extracted>>
payaraVars  == <<app, running>>
agentVars   == <<agent, crashes, sigterms>>
vars == <<flowVars, requestVars, war, payaraVars, agentVars, lockVars,
          journalVars>>

Content == {None} \cup SUBSET Requests
Answers == {"deployed", "failed", "conflict", "error", "lost"}
Labels  == {"idle", "isLocked", "forceRemove", "acquire", "startJournal",
            "lockRead", "lockWrite", "journal", "body", "rewrite", "complete",
            "release", "done"}

Init ==
  /\ pc = [r \in Requests |-> "idle"]
  /\ kind = [r \in Requests |-> None]
  /\ step = [r \in Requests |-> 0]
  /\ answer = [r \in Requests |-> None]
  /\ seen = [r \in Requests |-> None]
  /\ extracted = [r \in Requests |-> {}]
  /\ deployLock = FALSE
  /\ war = {} /\ app = {} /\ running = TRUE
  /\ agent = "up" /\ crashes = 0 /\ sigterms = 0
  /\ LockInit
  /\ JournalInit

InFlight(r) == pc[r] \notin {"idle", "done"}

\* Between acquire and the end of release: where SIGTERM must be deferred.
Protected(r) ==
  /\ kind[r] = "apply"
  /\ InFlight(r)
  /\ pc[r] \notin {"isLocked", "forceRemove", "acquire"}

Goto(r, label) == pc' = [pc EXCEPT ![r] = label]
Reply(r, a) == answer' = [answer EXCEPT ![r] = a]

\* A local variable that is not read again.
Forget(f, r, v) == f' = [f EXCEPT ![r] = v]

\* An answer without a lock to give back.
Answer(r, a) ==
  /\ Goto(r, "done") /\ Reply(r, a)
  /\ Forget(step, r, 0)
  /\ UNCHANGED deployLock

-----------------------------------------------------------------------------
(***************************************************************************)
(* The ends of deployWithFullRestart and the way from one step to the      *)
(* next.  The finally block resets deployLock and then awaits release,     *)
(* which does nothing when acquired is already FALSE; updateStep throws    *)
(* in that case.  deployAuto has neither lock nor journal to update.       *)
(***************************************************************************)
\* Mutated: deployLock is not reset while the file is still to be given back.
FinallyKeepsLock(r, a) ==
  /\ deployLock' = (deployLock /\ acquired)
  /\ Reply(r, a)
  /\ Goto(r, IF acquired THEN "release" ELSE "done")
  /\ Forget(step, r, 0)

Finally(r, a) ==
  /\ deployLock' = FALSE
  /\ Reply(r, a)
  /\ Goto(r, IF acquired THEN "release" ELSE "done")
  /\ Forget(step, r, 0)

Throw(r) ==
  IF kind[r] = "auto" THEN Answer(r, "error") ELSE Finally(r, "failed")

NextStep(r) ==
  \/ /\ kind[r] = "auto" \/ acquired
     /\ Goto(r, IF kind[r] = "auto" THEN "body" ELSE "lockRead")
     /\ step' = [step EXCEPT ![r] = @ + 1]
     /\ UNCHANGED <<answer, deployLock>>
  \/ /\ kind[r] = "apply" /\ ~acquired
     /\ Throw(r)

-----------------------------------------------------------------------------
\* The environment's promise when ~Overlap: nobody sends a request while
\* a POST /deploy is checking the lock file or giving it back.
Quiet == deployLock \/ \A r \in Requests : kind[r] = "apply" => ~InFlight(r)

Send(r, k) ==
  /\ agent = "up" /\ k \in Kinds
  /\ pc[r] = "idle"
  /\ Overlap \/ Quiet
  /\ kind' = [kind EXCEPT ![r] = k]
  /\ UNCHANGED <<seen, extracted, war, payaraVars, agentVars, lockVars,
                 journalVars>>

checkDeploymentInProgress(r) ==
  /\ deployLock
  /\ \E k \in Kinds : Send(r, k)
  /\ Answer(r, "conflict")

PostDeploy(r) ==
  /\ ~deployLock
  /\ Send(r, "apply")
  /\ Goto(r, "isLocked")
  /\ UNCHANGED <<step, answer, deployLock>>

\* deployAuto starts with aggressiveStop.
PostDeployFull(r) ==
  /\ ~deployLock
  /\ Send(r, "auto")
  /\ Goto(r, "body")
  /\ step' = [step EXCEPT ![r] = kill]
  /\ UNCHANGED <<answer, deployLock>>

-----------------------------------------------------------------------------
(***************************************************************************)
(* acquire, and journal.start.                                             *)
(***************************************************************************)
\* Mutated: a lock file is waited for, stale or not.
CheckLockFileWaits(r) ==
  /\ pc[r] = "isLocked"
  /\ lockFile = None
  /\ Goto(r, "acquire")
  /\ UNCHANGED <<step, answer, deployLock, requestVars, war, payaraVars,
                 agentVars, lockVars, journalVars>>

CheckLockFile(r) ==
  /\ pc[r] = "isLocked"
  /\ \/ isLocked /\ Answer(r, "error")
     \/ /\ ~isLocked
        /\ Goto(r, IF isStale THEN "forceRemove" ELSE "acquire")
        /\ UNCHANGED <<step, answer, deployLock>>
  /\ UNCHANGED <<requestVars, war, payaraVars, agentVars, lockVars,
                 journalVars>>

RemoveStaleLock(r) ==
  /\ pc[r] = "forceRemove"
  /\ forceRemove
  /\ Goto(r, "acquire")
  /\ UNCHANGED <<step, answer, deployLock, requestVars, war, payaraVars,
                 agentVars, journalVars>>

Acquire(r) ==
  /\ pc[r] = "acquire"
  /\ writeLockFile(r)
  /\ deployLock' = TRUE
  /\ startJournal(r)
  /\ Goto(r, "startJournal")
  /\ UNCHANGED <<step, answer, requestVars, war, payaraVars, agentVars,
                 journalFile>>

AcquireFails(r) ==
  /\ pc[r] = "acquire"
  /\ Answer(r, "error")
  /\ UNCHANGED <<requestVars, war, payaraVars, agentVars, lockVars,
                 journalVars>>

StartJournal(r) ==
  /\ pc[r] = "startJournal"
  /\ persist
  /\ NextStep(r)
  /\ UNCHANGED <<requestVars, war, payaraVars, agentVars, lockVars>>

-----------------------------------------------------------------------------
(***************************************************************************)
(* fileLock.updateStep and journal.updateStep, before each step's body.    *)
(***************************************************************************)
UpdateJournal(r) ==
  \/ /\ checkpoint # None
     /\ updateJournal(step[r])
     /\ Goto(r, "journal")
     /\ UNCHANGED <<step, answer, deployLock, journalFile>>
  \/ /\ checkpoint = None
     /\ Throw(r)
     /\ UNCHANGED journalVars

ReadLockFile(r) ==
  /\ pc[r] = "lockRead"
  /\ \/ /\ lockFile # None
        /\ seen' = [seen EXCEPT ![r] = lockFile]
        /\ Goto(r, "lockWrite")
        /\ UNCHANGED <<step, answer, deployLock, journalVars>>
     \/ lockFile = None /\ UpdateJournal(r) /\ UNCHANGED seen
  /\ UNCHANGED <<kind, extracted, war, payaraVars, agentVars, lockVars>>

WriteLockFile(r) ==
  /\ pc[r] = "lockWrite"
  /\ writeStep(seen[r], step[r])
  /\ Forget(seen, r, None)
  /\ UpdateJournal(r)
  /\ UNCHANGED <<kind, extracted, war, payaraVars, agentVars>>

\* The step "stop" has no body of its own: "kill" stops the domain.  The log
\* line after the write reads the checkpoint and throws when it is gone.
PersistStep(r) ==
  /\ pc[r] = "journal"
  /\ persist
  /\ \/ checkpoint = None /\ Throw(r)
     \/ checkpoint # None /\ step[r] = stop /\ NextStep(r)
     \/ /\ checkpoint # None /\ step[r] # stop
        /\ Goto(r, "body")
        /\ UNCHANGED <<step, answer, deployLock>>
  /\ UNCHANGED <<requestVars, war, payaraVars, agentVars, lockVars>>

-----------------------------------------------------------------------------
(***************************************************************************)
(* The bodies of the steps.                                                *)
(***************************************************************************)
InBody(r, s) == pc[r] = "body" /\ step[r] = s

ContentOf(w) == IF w \in {None, Torn} THEN {} ELSE w

\* A WAR that is no archive cannot be updated, and other errors throw as well.
ExtractWar(r) ==
  /\ InBody(r, warUpdate)
  /\ \/ /\ war # Torn
        /\ extracted' = [extracted EXCEPT ![r] = ContentOf(war) \cup {r}]
        /\ Goto(r, "rewrite")
        /\ UNCHANGED <<step, answer, deployLock>>
     \/ UNCHANGED extracted /\ Throw(r)
  /\ UNCHANGED <<kind, seen, war, payaraVars, agentVars, lockVars,
                 journalVars>>

\* writeZip empties the WAR and writes in place, and a write that ends early
\* need not throw.
WriteWar(r) ==
  /\ pc[r] = "rewrite"
  /\ \/ war' \in {extracted[r], Torn} /\ NextStep(r)
     \/ war' \in {war, Torn} /\ Throw(r)
  /\ Forget(extracted, r, {})
  /\ UNCHANGED <<kind, seen, payaraVars, agentVars, lockVars, journalVars>>

\* Errors of the undeploy are logged and the restart goes on.
Undeploy(r) ==
  /\ InBody(r, undeploy)
  /\ app' \in {app} \cup {a \in {None} : running}
  /\ NextStep(r)
  /\ UNCHANGED <<requestVars, war, running, agentVars, lockVars, journalVars>>

\* aggressiveStop, which throws when a JVM survives the kill.
Kill(r) ==
  /\ InBody(r, kill)
  /\ \/ running' = FALSE /\ NextStep(r)
     \/ running' \in {running, FALSE} /\ Throw(r)
  /\ UNCHANGED <<requestVars, war, app, agentVars, lockVars, journalVars>>

\* safeStart and waitForBootDeploySettled: domain.xml keeps the application.
Start(r) ==
  /\ InBody(r, start)
  /\ \/ running' = TRUE /\ NextStep(r)
     \/ running' \in BOOLEAN /\ Throw(r)
  /\ UNCHANGED <<requestVars, war, app, agentVars, lockVars, journalVars>>

Deploy(r) ==
  /\ InBody(r, deploy)
  /\ \/ running /\ war # Torn /\ app' = war /\ NextStep(r)
     \/ app' \in {app} \cup {a \in {None, war} \ {Torn} : running} /\ Throw(r)
  /\ UNCHANGED <<requestVars, war, running, agentVars, lockVars, journalVars>>

\* listApplications answers the empty list when asadmin fails; deployAuto
\* reports what it saw, deployWithFullRestart throws without the application.
Verify(r) ==
  /\ InBody(r, verify)
  /\ \E listed \in BOOLEAN :
       /\ listed => running /\ app # None
       /\ \/ /\ kind[r] = "auto"
             /\ Answer(r, IF listed THEN "deployed" ELSE "failed")
             /\ UNCHANGED checkpoint
          \/ /\ kind[r] = "apply" /\ ~listed
             /\ Throw(r)
             /\ UNCHANGED checkpoint
          \/ /\ kind[r] = "apply" /\ listed /\ checkpoint = None
             /\ Finally(r, "deployed")
             /\ UNCHANGED checkpoint
          \/ /\ kind[r] = "apply" /\ listed /\ checkpoint # None
             /\ checkpoint' = None
             /\ Goto(r, "complete")
             /\ UNCHANGED <<step, answer, deployLock>>
  /\ UNCHANGED <<requestVars, war, payaraVars, agentVars, lockVars,
                 journalFile>>

\* journal.complete removes the file; a failed removal is ignored.
Complete(r) ==
  /\ pc[r] = "complete"
  /\ journalFile' = None \/ (IoFaults /\ journalFile' = journalFile)
  /\ Finally(r, "deployed")
  /\ UNCHANGED <<requestVars, war, payaraVars, agentVars, lockVars,
                 checkpoint>>

Release(r) ==
  /\ pc[r] = "release"
  /\ release
  /\ Goto(r, "done")
  /\ UNCHANGED <<step, answer, deployLock, requestVars, war, payaraVars,
                 agentVars, journalVars>>

-----------------------------------------------------------------------------
(***************************************************************************)
(* The process: signals, the end of it, and its next start.                *)
(***************************************************************************)
Dies ==
  /\ agent' = "down"
  /\ pc' = [r \in Requests |-> IF InFlight(r) THEN "done" ELSE pc[r]]
  /\ answer' = [r \in Requests |-> IF InFlight(r) THEN "lost" ELSE answer[r]]
  /\ deployLock' = FALSE
  /\ ForgetMemory
  /\ checkpoint' = None
  /\ step' = [r \in Requests |-> 0]
  /\ seen' = [r \in Requests |-> None]
  /\ extracted' = [r \in Requests |-> {}]
  /\ UNCHANGED <<kind, payaraVars, pid, lockFile, expired, journalFile>>

ReceiveSigterm ==
  \/ /\ Terminates
     /\ Dies
     /\ UNCHANGED war
  \/ /\ deferSigterm
     /\ UNCHANGED <<flowVars, requestVars, war, payaraVars, agent, pid,
                    lockFile, expired, acquired, handlerVars, journalVars>>

Sigterm ==
  /\ agent = "up" /\ sigterms < MaxSigterms
  /\ sigterms' = sigterms + 1
  /\ ReceiveSigterm
  /\ agent' = "up" => UNCHANGED resend
  /\ UNCHANGED crashes

\* The timer release sets when a SIGTERM was deferred.
ResendSigterm ==
  /\ agent = "up" /\ resend
  /\ ReceiveSigterm
  /\ resend' = FALSE
  /\ UNCHANGED <<crashes, sigterms>>

\* A crash may fall into the write of the WAR; a signal waits for its end.
Crash ==
  /\ agent = "up" /\ crashes < MaxCrashes
  /\ crashes' = crashes + 1
  /\ Dies
  /\ war' \in {war} \cup {w \in {Torn} : \E r \in Requests : pc[r] = "rewrite"}
  /\ UNCHANGED sigterms

\* handleAggressiveModeStartup: leave a healthy domain with an application
\* alone, deploy into a healthy domain without one, else start and deploy.
\* Nothing reads the lock file or the journal.
Startup ==
  \/ /\ running /\ (app # None \/ war = None)
     /\ UNCHANGED payaraVars
  \/ /\ ~running \/ (app = None /\ war # None)
     /\ running' \in {running, TRUE}
     /\ app' \in {app} \cup {a \in {war} \ {None, Torn} : running'}

Restart ==
  /\ agent = "down"
  /\ agent' = "up"
  /\ pid' \in {pid + 1} \cup {p \in {pid} : PidReuse}
  /\ Startup
  /\ UNCHANGED <<flowVars, requestVars, war, crashes, sigterms, lockFile,
                 expired, memoryVars, journalVars>>

Expire ==
  /\ LockExpires
  /\ UNCHANGED <<flowVars, requestVars, war, payaraVars, agentVars,
                 journalVars>>

-----------------------------------------------------------------------------
Route(r) == checkDeploymentInProgress(r) \/ PostDeploy(r) \/ PostDeployFull(r)

Continue(r) ==
  \/ CheckLockFile(r) \/ RemoveStaleLock(r) \/ Acquire(r) \/ AcquireFails(r)
  \/ StartJournal(r) \/ ReadLockFile(r) \/ WriteLockFile(r) \/ PersistStep(r)
  \/ ExtractWar(r) \/ WriteWar(r) \/ Undeploy(r) \/ Kill(r) \/ Start(r)
  \/ Deploy(r) \/ Verify(r) \/ Complete(r) \/ Release(r)

Next ==
  \/ \E r \in Requests : Route(r) \/ Continue(r)
  \/ Sigterm \/ ResendSigterm \/ Crash \/ Restart \/ Expire

\* Every await settles, the timer fires, systemd restarts the agent.
Fairness ==
  /\ \A r \in Requests : WF_vars(Continue(r))
  /\ WF_vars(ResendSigterm)
  /\ WF_vars(Restart)

Spec == Init /\ [][Next]_vars /\ Fairness

-----------------------------------------------------------------------------
TypeOK ==
  /\ pc \in [Requests -> Labels]
  /\ kind \in [Requests -> Kinds \cup {None}]
  /\ step \in [Requests -> Steps]
  /\ answer \in [Requests -> Answers \cup {None}]
  /\ seen \in [Requests -> {None} \cup LockFiles]
  /\ extracted \in [Requests -> SUBSET Requests]
  /\ deployLock \in BOOLEAN
  /\ war \in Content \cup {Torn} /\ app \in Content /\ running \in BOOLEAN
  /\ agent \in {"up", "down"} /\ crashes \in Nat /\ sigterms \in Nat
  /\ LockTypeOK
  /\ JournalTypeOK

\* At most one deployWithFullRestart is between acquire and release: two of
\* them would undeploy, kill and start the same domain under each other.
OneRestartAtATime ==
  \A r, s \in Requests : Protected(r) /\ Protected(s) => r = s

\* A deployment in its steps holds all three forms of the lock at once, and
\* the lock file tells its own id, process and step (or the step before).
LockFileTellsTheTruth ==
  \A r \in Requests :
    Protected(r) /\ pc[r] # "release" =>
      /\ deployLock /\ acquired
      /\ lockFile # None
      /\ lockFile.id = r /\ lockFile.pid = pid
      /\ lockFile.step \in {step[r], step[r] - 1}

\* The domain is undeployed from, stopped or started only after the journal on
\* disk names this deployment and a step from which canResume is false, so a
\* crash at any await leaves a journal that does not promise a safe resume.
DamageIsJournaled ==
  \A r \in Requests :
    pc[r] = "body" /\ kind[r] = "apply" /\ step[r] >= undeploy =>
      /\ journalFile # None
      /\ journalFile.id = r
      /\ ~canResume(journalFile)

\* With no deployment holding the lock there is no lock file of this process,
\* which would refuse every deployment for the ten minutes until it counts as
\* stale, and the agent's own SIGTERM listener is installed, so that a stop
\* request reaches the graceful shutdown.
LockLeavesNothing ==
  agent = "up" /\ (\A r \in Requests : ~Protected(r)) =>
    /\ lockFile # None => lockFile.pid # pid
    /\ listeners = {"agent"}

\* A SIGTERM never ends the agent while a deployment holds the lock.
SigtermDeferred ==
  [][ (Sigterm \/ ResendSigterm) /\ (\E r \in Requests : Protected(r))
        => agent' = "up" ]_vars

\* A deferred SIGTERM is not forgotten: the agent ends after the deployment.
SigtermHonoured == pendingShutdown ~> agent = "down"

\* Whatever fails, the last request out leaves deployLock FALSE: the routes do
\* not answer 409 for ever.
DeployLockSettles == (\A r \in Requests : ~InFlight(r)) => ~deployLock

\* Every request is answered, or lost with the process, whatever fails.
EventuallyAnswered == \A r \in Requests : InFlight(r) ~> pc[r] = "done"

\* An incomplete deployment is detected on restart: a journal of a process
\* that is gone does not outlive the start of the next one.
IncompleteDetected ==
  agent = "up" /\ journalFile # None => answer[journalFile.id] # "lost"

=============================================================================
