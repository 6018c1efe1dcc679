------------------------------ MODULE HotDeploy ------------------------------
(***************************************************************************)
(* The agent side of a deployment in the default, non-aggressive mode: the *)
(* HTTP routes POST /deploy (and the commit of POST /deploy/chunk),        *)
(* POST /deploy/full and POST /deploy/upload of routes/deploy.ts, the      *)
(* WarDeployer methods they call (applyChanges, deployAuto, deploy), the   *)
(* asadmin sequence of PayaraManager.deploy and the status tracker.        *)
(*                                                                         *)
(* Node runs one thread, so a step is the code between two awaits; several *)
(* requests interleave at every await.  A WAR is abstracted to the set of  *)
(* requests whose content it holds: a POST /deploy adds its own files to   *)
(* the WAR it extracted, an upload replaces the whole file.  Both write it *)
(* in place, so a write that fails half-way leaves no archive: Torn.       *)
(*                                                                         *)
(* `asadmin deploy` is a child process with a limit of ten minutes.  The   *)
(* domain reads the file and registers the application at its own pace,    *)
(* while other requests rewrite the file and deploy it, and goes on when   *)
(* the child is killed at its limit.                                       *)
(***************************************************************************)
EXTENDS Naturals, TLC

CONSTANTS
  Requests,      \* HTTP requests; each one is sent at most once
  Kinds,         \* the routes the clients use, a subset of Routes
  None,          \* no WAR file, no application, no deployment id, no result
  Torn,          \* a WAR file that is not a complete archive
  TempDirFaults  \* whether mkdtemp may fail (disk full, no permission)

Routes == {"apply", "full", "upload"}
Answers == {"deployed", "failed", "conflict", "error"}

ASSUME KindsAssumption == Kinds \subseteq Routes
ASSUME NoneAssumption ==
  /\ None \notin Requests /\ None \notin BOOLEAN
  /\ None \notin Routes \cup Answers
  /\ \A content \in SUBSET Requests : content # None
ASSUME TornAssumption ==
  Torn # None /\ \A content \in SUBSET Requests : content # Torn
ASSUME FaultsAssumption == TempDirFaults \in BOOLEAN

VARIABLES
  pc,         \* pc[r]: the await request r is suspended at
  kind,       \* kind[r]: the route r was sent to
  answer,     \* answer[r]: the HTTP answer of r, once computed
  extracted,  \* extracted[r]: the WAR content in r's temporary directory
  deployLock, \* WarDeployer.deployLock
  war,        \* content of the WAR file on disk
  app,        \* content of the application registered in the domain
  source,     \* the request whose asadmin deploy registered it
  running,    \* whether the domain runs
  command,    \* command[r]: how far the domain is with r's asadmin deploy
  read,       \* read[r]: the WAR content it read for it, until it is registered
  current,    \* DeploymentStatusTracker.currentDeploymentId
  lastResult, \* DeploymentStatusTracker.lastDeploymentResult
  lastCompletedAt, \* DeploymentStatusTracker.lastDeploymentCompletedAt
  now         \* the agent's Date.now(), which passes in DeployPolling

requestVars == <<pc, kind, answer, extracted>>
commandVars == <<command, read>>
appVars     == <<app, source>>
payaraVars  == <<appVars, running, commandVars>>
trackerVars == <<current, lastResult, lastCompletedAt, now>>
vars == <<requestVars, deployLock, war, payaraVars, trackerVars>>

Content == {None} \cup SUBSET Requests
Labels  == {"idle", "tempDir", "extract", "rewrite", "save", "writing",
            "warExists", "isRunning", "start", "list", "undeploy", "asadmin",
            "cascade", "redeploy", "verify", "cleanup", "done"}
Stages  == {"none", "sent", "read", "registered", "lost"}

Init ==
  /\ pc = [r \in Requests |-> "idle"]
  /\ kind = [r \in Requests |-> None]
  /\ answer = [r \in Requests |-> None]
  /\ extracted = [r \in Requests |-> {}]
  /\ deployLock = FALSE
  /\ war \in {None, {}}
  /\ app \in {None, war} /\ source = None
  /\ running \in BOOLEAN
  /\ command = [r \in Requests |-> "none"]
  /\ read = [r \in Requests |-> None]
  /\ current = None
  /\ lastResult = None
  /\ lastCompletedAt = 0
  /\ now = 1

Goto(r, label) == pc' = [pc EXCEPT ![r] = label]

At(r, label, next) == pc[r] = label /\ Goto(r, next)

Reply(r, a) == answer' = [answer EXCEPT ![r] = a]

markStarted(r) ==
  current' = r /\ UNCHANGED <<lastResult, lastCompletedAt, now>>

\* Mutated: the result is stored where the deployment id belongs.
markCompletedSwapped(ok) ==
  /\ current' = IF ok THEN "success" ELSE "failure"
  /\ lastResult' = None
  /\ lastCompletedAt' = now
  /\ UNCHANGED now

markCompleted(ok) ==
  /\ current' = None
  /\ lastResult' = IF ok THEN "success" ELSE "failure"
  /\ lastCompletedAt' = now
  /\ UNCHANGED now

-----------------------------------------------------------------------------
(***************************************************************************)
(* The routes, up to their first await.  checkDeploymentInProgress answers *)
(* 409 while deployLock is set; otherwise applyChanges sets it at once and *)
(* awaits its temporary directory, /deploy/full goes straight to           *)
(* deployAuto, and /deploy/upload saves the body over the WAR first.       *)
(***************************************************************************)
Send(r, k) == pc[r] = "idle" /\ kind' = [kind EXCEPT ![r] = k]

checkDeploymentInProgress(r) ==
  /\ deployLock
  /\ \E k \in Kinds : Send(r, k)
  /\ Goto(r, "done")
  /\ Reply(r, "conflict")
  /\ UNCHANGED <<extracted, deployLock, war, payaraVars, trackerVars>>

\* Mutated: deployLock is not set before the first await.
PostDeployUnlocked(r) ==
  /\ "apply" \in Kinds /\ ~deployLock
  /\ Send(r, "apply")
  /\ Goto(r, "tempDir")
  /\ UNCHANGED <<answer, extracted, deployLock, war, payaraVars, trackerVars>>

PostDeploy(r) ==
  /\ "apply" \in Kinds /\ ~deployLock
  /\ Send(r, "apply")
  /\ Goto(r, "tempDir")
  /\ deployLock' = TRUE
  /\ UNCHANGED <<answer, extracted, war, payaraVars, trackerVars>>

PostDeployFull(r) ==
  /\ "full" \in Kinds /\ ~deployLock
  /\ Send(r, "full")
  /\ Goto(r, "warExists")
  /\ markStarted(r)
  /\ UNCHANGED <<answer, extracted, deployLock, war, payaraVars>>

PostDeployUpload(r) ==
  /\ "upload" \in Kinds /\ ~deployLock
  /\ Send(r, "upload")
  /\ Goto(r, "save")
  /\ UNCHANGED <<answer, extracted, deployLock, war, payaraVars, trackerVars>>

\* fs.writeFile opens the file in place and empties it.
TruncateWar(r) ==
  /\ At(r, "save", "writing")
  /\ war' = Torn
  /\ UNCHANGED <<kind, answer, extracted, deployLock, payaraVars, trackerVars>>

\* Two that write at once mix their blocks.
WrittenByOthers(r) ==
  war # Torn \/ \E s \in Requests \ {r} : pc[s] = "writing"

SaveUpload(r) ==
  /\ At(r, "writing", "warExists")
  /\ war' = IF WrittenByOthers(r) THEN Torn ELSE {r}
  /\ markStarted(r)
  /\ UNCHANGED <<kind, answer, extracted, deployLock, payaraVars>>

\* No body, no directory, or a disk that fills up while the file is written.
SaveUploadFails(r) ==
  /\ pc[r] \in {"save", "writing"}
  /\ Goto(r, "done")
  /\ Reply(r, "error")
  /\ UNCHANGED <<kind, extracted, deployLock, war, payaraVars, trackerVars>>

-----------------------------------------------------------------------------
(***************************************************************************)
(* applyChanges: the temporary directory is awaited before the try block,  *)
(* so its failure skips the finally that resets deployLock.                *)
(***************************************************************************)
createTempDir(r) ==
  /\ At(r, "tempDir", "extract")
  /\ UNCHANGED <<kind, answer, extracted, deployLock, war, payaraVars,
                 trackerVars>>

createTempDirFails(r) ==
  /\ TempDirFaults
  /\ At(r, "tempDir", "done")
  /\ Reply(r, "error")
  /\ UNCHANGED <<kind, extracted, deployLock, war, payaraVars, trackerVars>>

ContentOf(w) == IF w \in {None, Torn} THEN {} ELSE w

Fails(r) == Goto(r, "cleanup") /\ Reply(r, "failed")

\* Mutated: a WAR that cannot be read counts as one that does not exist.
ExtractAnyWar(r) ==
  /\ At(r, "extract", "rewrite")
  /\ extracted' = [extracted EXCEPT ![r] = ContentOf(war) \cup {r}]
  /\ UNCHANGED <<kind, answer, deployLock, war, payaraVars, trackerVars>>

ExtractWar(r) ==
  /\ At(r, "extract", "rewrite")
  /\ war # Torn
  /\ extracted' = [extracted EXCEPT ![r] = ContentOf(war) \cup {r}]
  /\ UNCHANGED <<kind, answer, deployLock, war, payaraVars, trackerVars>>

\* Not an archive, a file name outside the directory, or a full disk.
ExtractWarFails(r) ==
  /\ pc[r] = "extract"
  /\ Fails(r)
  /\ UNCHANGED <<kind, extracted, deployLock, war, payaraVars, trackerVars>>

WriteWar(r) ==
  /\ At(r, "rewrite", "warExists")
  /\ war' = extracted[r]
  /\ UNCHANGED <<kind, answer, extracted, deployLock, payaraVars, trackerVars>>

\* Mutated: this error returns before the finally block.
WriteWarFailsEarly(r) ==
  /\ At(r, "rewrite", "done")
  /\ Reply(r, "failed")
  /\ war' \in {war, Torn}
  /\ UNCHANGED <<kind, extracted, deployLock, payaraVars, trackerVars>>

\* writeZip opens the WAR itself and empties it: an error before leaves it,
\* one after destroys it, and a write cut short need not be an error.
WriteWarFails(r) ==
  /\ pc[r] = "rewrite"
  /\ \/ Fails(r) /\ war' \in {war, Torn}
     \/ Goto(r, "warExists") /\ war' = Torn /\ UNCHANGED answer
  /\ UNCHANGED <<kind, extracted, deployLock, payaraVars, trackerVars>>

\* The finally block: the lock is reset once the temporary directory is gone.
Cleanup(r) ==
  /\ At(r, "cleanup", "done")
  /\ extracted' = [extracted EXCEPT ![r] = {}]
  /\ deployLock' = FALSE
  /\ UNCHANGED <<kind, answer, war, payaraVars, trackerVars>>

-----------------------------------------------------------------------------
(***************************************************************************)
(* How deploy() ends, for its two callers.  applyChanges answers success   *)
(* even when the application is not listed; deployAuto records the result  *)
(* in the tracker, and rethrows an error after recording it.               *)
(***************************************************************************)
DeployReturns(r, listed) ==
  \/ /\ kind[r] = "apply"
     /\ Goto(r, "cleanup")
     /\ Reply(r, "deployed")
     /\ UNCHANGED trackerVars
  \/ /\ kind[r] # "apply"
     /\ Goto(r, "done")
     /\ Reply(r, IF listed THEN "deployed" ELSE "failed")
     /\ markCompleted(listed)

\* Mutated: deployAuto rethrows without markCompleted.
DeployThrowsUnmarked(r) ==
  \/ /\ kind[r] = "apply"
     /\ Goto(r, "cleanup")
     /\ Reply(r, "failed")
     /\ UNCHANGED trackerVars
  \/ /\ kind[r] # "apply"
     /\ Goto(r, "done")
     /\ Reply(r, "error")
     /\ UNCHANGED trackerVars

DeployThrows(r) ==
  \/ /\ kind[r] = "apply"
     /\ Goto(r, "cleanup")
     /\ Reply(r, "failed")
     /\ UNCHANGED trackerVars
  \/ /\ kind[r] # "apply"
     /\ Goto(r, "done")
     /\ Reply(r, "error")
     /\ markCompleted(FALSE)

warExists(r) ==
  /\ pc[r] = "warExists"
  /\ \/ war # None /\ Goto(r, "isRunning") /\ UNCHANGED <<answer, trackerVars>>
     \/ war = None /\ DeployReturns(r, FALSE)
  /\ UNCHANGED <<kind, extracted, deployLock, war, payaraVars>>

\* A list-domains that fails counts as a domain that is down.
isRunning(r) ==
  /\ \E seen \in BOOLEAN :
       (seen => running) /\ At(r, "isRunning", IF seen THEN "list" ELSE "start")
  /\ UNCHANGED <<kind, answer, extracted, deployLock, war, payaraVars,
                 trackerVars>>

\* PayaraManager.start; start-domain boots what domain.xml registers.
Start(r) ==
  /\ At(r, "start", "list")
  /\ running' = TRUE
  /\ UNCHANGED <<kind, answer, extracted, deployLock, war, appVars, commandVars,
                 trackerVars>>

StartFails(r) ==
  /\ pc[r] = "start"
  /\ \E up \in BOOLEAN : running' = (running \/ up)
  /\ DeployThrows(r)
  /\ UNCHANGED <<kind, extracted, deployLock, war, appVars, commandVars>>

-----------------------------------------------------------------------------
(***************************************************************************)
(* PayaraManager.deploy: undeploy what is listed, deploy with --force, and *)
(* on a web-module conflict undeploy with --cascade and try once more.     *)
(* listApplications answers the empty list when asadmin fails, and errors  *)
(* of undeploy are swallowed.                                              *)
(***************************************************************************)
Listed(seen) == seen => running /\ app # None

ListApplications(r) ==
  /\ \E seen \in BOOLEAN :
       Listed(seen) /\ At(r, "list", IF seen THEN "undeploy" ELSE "asadmin")
  /\ UNCHANGED <<kind, answer, extracted, deployLock, war, payaraVars,
                 trackerVars>>

Removes == running /\ app' = None /\ source' = None

Undeploy(r, label, next) ==
  /\ At(r, label, next)
  /\ UNCHANGED appVars \/ Removes
  /\ UNCHANGED <<kind, answer, extracted, deployLock, war, running,
                 commandVars, trackerVars>>

Waits(r) == pc[r] \in {"asadmin", "redeploy"}

Stage(r, stage) == command' = [command EXCEPT ![r] = stage]

\* Mutated: the child is taken as done once the domain has read the file.
AsadminDeployEarly(r) ==
  /\ Waits(r) /\ command[r] \in {"read", "registered"}
  /\ Goto(r, "verify")
  /\ IF command[r] = "read" THEN UNCHANGED command ELSE Stage(r, "none")
  /\ UNCHANGED <<kind, answer, extracted, deployLock, war, appVars, running, read,
                 trackerVars>>

\* The child ends without an error: the application is registered.
AsadminDeploy(r) ==
  /\ Waits(r) /\ command[r] = "registered"
  /\ Goto(r, "verify")
  /\ Stage(r, "none")
  /\ UNCHANGED <<kind, answer, extracted, deployLock, war, appVars, running, read,
                 trackerVars>>

\* An error, or the child is killed at its limit; a command that the domain has
\* is not called back.  --force removes the old application first.
AsadminDeployFails(r) ==
  /\ Waits(r)
  /\ UNCHANGED appVars \/ Removes
  /\ \/ command[r] = "read" /\ UNCHANGED command
     \/ command[r] = "none" /\ running /\ Stage(r, "sent")
     \/ command[r] # "read" /\ Stage(r, "none")
  /\ DeployThrows(r)
  /\ UNCHANGED <<kind, extracted, deployLock, war, running, read>>

NothingRead(r) == read' = [read EXCEPT ![r] = None]

AsadminDeployConflicts(r) ==
  /\ running /\ command[r] \in {"none", "read"}
  /\ At(r, "asadmin", "cascade")
  /\ Stage(r, "none") /\ NothingRead(r)
  /\ UNCHANGED <<kind, answer, extracted, deployLock, war, appVars, running,
                 trackerVars>>

Verify(r) ==
  /\ pc[r] = "verify"
  /\ \E listed \in BOOLEAN : Listed(listed) /\ DeployReturns(r, listed)
  /\ UNCHANGED <<kind, extracted, deployLock, war, payaraVars>>

-----------------------------------------------------------------------------
(***************************************************************************)
(* The lifecycle routes, which take no lock; POST /restart is a stop and a *)
(* start.                                                                  *)
(***************************************************************************)
\* POST /stop, or the JVM dies, and with it the commands it works on.
DomainStops ==
  /\ running
  /\ running' = FALSE
  /\ command' = [r \in Requests |->
                  CASE command[r] \notin {"sent", "read"} -> command[r]
                    [] Waits(r) -> "lost"
                    [] OTHER -> "none"]
  /\ read' = [r \in Requests |-> None]
  /\ UNCHANGED <<requestVars, deployLock, war, appVars, trackerVars>>

\* POST /start, or somebody else starts the domain.
DomainStarts ==
  /\ ~running
  /\ running' = TRUE
  /\ UNCHANGED <<requestVars, deployLock, war, appVars, commandVars, trackerVars>>

\* POST /undeploy, or an undeploy whose child was killed before it took effect.
ApplicationUndeployed ==
  /\ Removes
  /\ UNCHANGED <<requestVars, deployLock, war, running, commandVars, trackerVars>>

Lifecycle == DomainStops \/ DomainStarts \/ ApplicationUndeployed

-----------------------------------------------------------------------------
(***************************************************************************)
(* The domain, which works on a deploy command it was sent whether or not  *)
(* its child still waits.  A file that changes under the reader is no      *)
(* archive, and the command fails.                                         *)
(***************************************************************************)
ReadWar(r) ==
  /\ running
  /\ command[r] = "sent" \/ (command[r] = "none" /\ Waits(r))
  /\ war \notin {None, Torn}
  /\ read' = [read EXCEPT ![r] = war]
  /\ Stage(r, "read")
  /\ UNCHANGED <<requestVars, deployLock, war, appVars, running, trackerVars>>

Register(r) ==
  /\ running /\ command[r] = "read"
  /\ app' = read[r] /\ source' = r
  /\ Stage(r, IF Waits(r) THEN "registered" ELSE "none") /\ NothingRead(r)
  /\ UNCHANGED <<requestVars, deployLock, war, running, trackerVars>>

Domain(r) == ReadWar(r) \/ Register(r)

-----------------------------------------------------------------------------
Route(r) ==
  \/ checkDeploymentInProgress(r)
  \/ PostDeploy(r)
  \/ PostDeployFull(r)
  \/ PostDeployUpload(r)

\* What the event loop runs of a request already sent.
Continue(r) ==
  \/ TruncateWar(r) \/ SaveUpload(r) \/ SaveUploadFails(r)
  \/ createTempDir(r) \/ createTempDirFails(r)
  \/ ExtractWar(r) \/ ExtractWarFails(r) \/ WriteWar(r) \/ WriteWarFails(r)
  \/ warExists(r) \/ isRunning(r) \/ Start(r) \/ StartFails(r)
  \/ ListApplications(r)
  \/ Undeploy(r, "undeploy", "asadmin") \/ Undeploy(r, "cascade", "redeploy")
  \/ AsadminDeploy(r) \/ AsadminDeployFails(r) \/ AsadminDeployConflicts(r)
  \/ Verify(r)
  \/ Cleanup(r)

Next ==
  \/ Lifecycle
  \/ \E r \in Requests : Route(r) \/ Continue(r) \/ Domain(r)

\* Every await settles: each command and each request body has a time limit.
Spec == Init /\ [][Next]_vars /\ \A r \in Requests : WF_vars(Continue(r))

-----------------------------------------------------------------------------
TypeOK ==
  /\ pc \in [Requests -> Labels]
  /\ kind \in [Requests -> Kinds \cup {None}]
  /\ answer \in [Requests -> Answers \cup {None}]
  /\ extracted \in [Requests -> SUBSET Requests]
  /\ deployLock \in BOOLEAN
  /\ war \in Content \cup {Torn}
  /\ app \in Content /\ source \in Requests \cup {None}
  /\ running \in BOOLEAN
  /\ command \in [Requests -> Stages]
  /\ read \in [Requests -> Content]
  /\ current \in {None} \cup Requests
  /\ lastResult \in {None, "success", "failure"}
  /\ lastCompletedAt \in Nat /\ now \in Nat

\* TLC need not tell the requests apart.
Symmetry == Permutations(Requests)

InFlight(r) == pc[r] \notin {"idle", "done"}
Applying(r) == kind[r] = "apply" /\ InFlight(r)

\* At most one request is between taking deployLock and the end of its
\* finally block, whatever the other routes do at the same time: the
\* temporary directory, the WAR file and asadmin have one applyChanges user.
ApplyMutex == \A r, s \in Requests : Applying(r) /\ Applying(s) => r = s

\* An applyChanges whose temporary directory could not be made.
LostTempDir(r) ==
  kind[r] = "apply" /\ pc[r] = "done" /\ answer[r] = "error"

\* deployLock, which every route reads to answer 409, is never lost while an
\* applyChanges is in flight, and never left behind when it ends, but for the
\* one that ended before its try block.
LockIsAccurate ==
  /\ \A r \in Requests : Applying(r) => deployLock
  /\ deployLock => \E r \in Requests : Applying(r) \/ LostTempDir(r)

\* An upload that was not refused: it replaces the WAR without the lock.
Uploaded == \E r \in Requests : kind[r] = "upload" /\ answer[r] # "conflict"

Deployed(r) == kind[r] = "apply" /\ answer[r] = "deployed"

\* A request told that its changes are deployed finds them in the WAR file as
\* long as nobody uploads another: no later or concurrent request to the other
\* routes rewrites the file without them.  A rewrite that fails half-way takes
\* them all; then no rewrite makes an archive again, without them, from what it
\* left.
ChangesKept ==
  ~Uploaded /\ war # Torn =>
    \A r \in Requests : Deployed(r) => r \in ContentOf(war)

\* The application in the domain comes from a deploy command that no lock holds
\* back: one of /deploy/full, or one that outlived a request that failed.
Overtaken ==
  source # None /\ (kind[source] = "full" \/ answer[source] = "failed")

\* When applyChanges answers "deployed", the application registered last was
\* built with the request's changes, or the domain has lost it: no other
\* applyChanges, however they follow each other, brings back an older WAR.
NoStaleApplication ==
  ~Uploaded =>
    \A r \in Requests : Deployed(r) => app = None \/ r \in app \/ Overtaken

\* A request that has begun to deploy the WAR file and has not ended.
Deploying(r) ==
  pc[r] \in {"warExists", "isRunning", "start", "list", "undeploy", "asadmin",
            "cascade", "redeploy", "verify"}

\* "Lock to prevent concurrent deployments": no two requests deploy at once.
NoConcurrentDeployments ==
  \A r, s \in Requests : Deploying(r) /\ Deploying(s) => r = s

\* Once no deployAuto is in flight, the status endpoint shows no deployment id:
\* every path through deployAuto, errors included, reaches markCompleted.
NoPhantomDeployment ==
  current # None => \E r \in Requests : kind[r] \in {"full", "upload"}
                                          /\ InFlight(r)

\* POST /deploy implements the indivisible updates of WarUpdates, although
\* deployAuto reads the WAR file concurrently: no update is lost or invented
\* before the first upload.
ApplyAnswer ==
  [r \in Requests |-> IF kind[r] = "apply" THEN answer[r] ELSE None]
Updates == INSTANCE WarUpdates WITH answer <- ApplyAnswer, uploaded <- Uploaded
IndivisibleUpdates == Updates!Spec

=============================================================================
