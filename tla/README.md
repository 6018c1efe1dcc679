# Verification of znvault-plugin-payara

TLA+ specifications of the deployment plugin in `src/`, the TLC runs that check
them on small instances, and TLAPS proofs about the core of the agent.

## 1. Inventory

The program is two programs. The **agent plugin** runs inside `zn-vault-agent`
on every application host and offers HTTP routes that change a WAR file and the
Payara domain beside it. The **CLI plugin** runs on an operator's machine: it
compares WARs, rolls a deployment out over the hosts, drains them from HAProxy
and applies database migrations before and after. Node runs one thread in each,
so the interleavings are those of the awaits; between CLI, agents, `asadmin`,
HAProxy, the database and the vault they are those of processes.

| Component | State it keeps | Operations | What makes it correct |
|---|---|---|---|
| WAR deployer, hot (`war-deployer.ts`, `deployment-status.ts`) | `deployLock`, the WAR file, the tracker | `applyChanges`, `deployAuto`, `deploy` | one `applyChanges` at a time, no update lost, the lock given back, the status not stuck |
| WAR deployer, full restart (`war-deployer.ts:580-790`) | the same, and the domain | `deployWithFullRestart` | one restart at a time, SIGTERM deferred, the journal ahead of the damage |
| Deployment lock (`deployment-lock.ts`) | lock file, `acquired`, listeners | `acquire`, `updateStep`, `release`, `forceRemove`, `isLocked` | excludes, is not left behind, restores the listeners |
| Deployment journal (`deployment-journal.ts`) | journal file, `checkpoint` | `start`, `updateStep`, `complete`, `canResume` | tells after a crash what was under way |
| Payara manager (`payara-manager.ts`) | none of its own; the domain, `domain.xml` | `start`, `stop`, `deploy`, `undeploy`, `aggressiveStop`, `safeStart`, `waitForBootDeploySettled` | a stopped domain has no JVM, boot is awaited |
| Deployment routes (`routes/deploy.ts`) | -- | `/deploy`, `/deploy/full`, `/deploy/upload`, `/deploy/chunk`, `/deploy/status` | 409 while one is in progress |
| Lifecycle routes (`routes/lifecycle.ts`), plugin startup and key rotation | -- | restart, start, stop, undeploy; setenv | do not disturb a deployment |
| Deployment client (`cli/commands/deploy.ts`, `cli/http-client.ts`) | the verdict | request, time-out, status poll | the verdict is that of its own deployment |
| Rollout (`cli/listr-deploy.ts`, `cli/strategy-executor.ts`) | counters, results, per-host locals | batches, drain, quiesce, deploy, health check, restore | canary stops, workers last, hosts come back |
| HAProxy and scheduler (`cli/haproxy.ts`, `scheduler-quiesce.ts`) | server state, quiesced flag | drain, ready, quiesce, resume | what is drained is made ready again |
| Deploy run (`cli/commands/deploy-run.ts`, `cli/multi-class-deploy.ts`, `cli/deploy-class.ts`, `cli/deploy-plan.ts`, `cli/post-gate.ts`, `cli/listr-preflight.ts`) | flags, outcomes of the classes, coverage, failures | plan of the flags, preflight, the classes in turn, gate of the post-deploy migrations | a failed class stops those behind it, never destructive migrations under an old WAR |
| Chunked upload (`cli/commands/deploy.ts`, `session-store.ts`, `routes/deploy.ts`) | sessions; the differences a CLI computed | `create`, `addFiles`, `cleanup`, commit | what is applied is what one client computed, sessions bounded |
| Migrations (`cli/migrate/*`, `cli/run-migrations.ts`) | the `schema_migrations` table, advisory lock, credential lease | run, seed, reconcile, plan | each file once, in order, under the lock; the lease revoked |
| Configuration store, validation, TLS, tunnels, progress, formatting | configuration file | CRUD, rendering | -- |

How the parts interact:

- `payara deploy run` compares the WAR with each host's hashes, runs the
  pre-deploy migrations, then the rollout; every host of a batch is drained,
  quiesced, deployed to over the agent's HTTP routes, checked, resumed and made
  ready; the gate then decides on the post-deploy migrations.
- A route of the agent checks `deployLock`, calls one `WarDeployer` method and
  answers when it returns; the method awaits file operations and `asadmin`
  children. The tracker behind `GET /deploy/status` is what a client whose
  request timed out has left.
- In aggressive mode the deployer owns a `DeploymentLock` (a file, and the
  exchange of the process's SIGTERM listeners) and a `DeploymentJournal`
  (a file); systemd sends SIGTERM and restarts a dead agent, which then runs
  `plugin-startup.ts`.
- A migration phase leases a database user from the vault, takes `GET_LOCK`,
  runs, ends its session and revokes the lease; SIGINT and SIGTERM listeners
  share the revocation with the `finally` block.

Where it is hard: requests that interleave at every await of another request
with an in-memory flag as the only guard; check-then-write on a lock file;
listeners exchanged while signals arrive; death of a process half-way through a
restart or a migration; answers that are lost although the effect took place;
lists of concurrent tasks that reject while siblings are in flight.

## 2. The modules

| Module | Models | Built on |
|---|---|---|
| `HotDeploy` | the routes and `WarDeployer` in the default mode, `PayaraManager.deploy`, the tracker | -- |
| `WarUpdates` | abstract: POST /deploy as one indivisible update of the WAR, or its destruction | implemented by `HotDeploy` |
| `DeployPolling` | the CLI's request, time-out and poll around one agent | extends `HotDeploy` |
| `Agent` | the requests, steps and I/O faults the next three share | -- |
| `DeploymentLock` | the lock file, SIGTERM deferral, listeners | extends `Agent` |
| `DeploymentJournal` | the checkpoint in memory and on disk | extends `Agent` |
| `FullRestart` | `deployWithFullRestart`, signals, crash, restart | composes the two above |
| `ChunkUpload` | CLIs that compute differences and send them to one agent, its chunk sessions | -- |
| `DeployRun` | one `payara deploy run`: flags, preflight, classes, gates | takes `executeListrDeployment` as one step |
| `Rollout` | inside of `executeListrDeployment`, and the one-class path around it | -- |
| `PayaraLifecycle` | `PayaraManager` and the process killer, start-up modes, lifecycle routes, rotation handlers | -- |
| `MigrationRunner` | `MigrationRunner.run` by several processes | -- |
| `MigrationLease` | `runMigrations`: lease, teardown, signal listeners | -- |
| `HotDeployProofs` | theorems about the agent's routes and about the clients that poll it | extends `DeployPolling` |
| `FullRestartProofs`, `ChunkUploadProofs`, `PayaraLifecycleProofs`, `MigrationLeaseProofs`, `MigrationRunnerProofs`, `RolloutProofs`, `DeployRunProofs` | theorems | extend the module they name |

The configurations give the specifications their constants directly; no module
is needed between them. Definitions whose comment begins with "Mutated:" are
faulty variants of the definition that follows them. They are used by no
specification: substituted for the definition, each shows that a property
notices that fault.

### HotDeploy and WarUpdates

`pc[r]` is the await request `r` is suspended at; a step is the code up to the
next await. `deployLock`, the tracker fields and the WAR file are shared. A WAR is
the set of requests whose files it holds, so `ExtractWar` takes the content of
that moment plus its own files, `WriteWar` puts it back, and an upload replaces
everything. Both write the file in place (`writeZip(this.warPath)`, `writeFile`; there is
no temporary file and no rename), so a write that fails half-way leaves `Torn`: no
archive, and the files of earlier requests are gone with it. `writeZip` may also end without
an error over a file that is not complete. The next POST /deploy cannot open what is left and
fails; only an upload repairs it.

`DeployReturns` and `DeployThrows` are the two ways `deploy()` ends for its two callers:
`applyChanges` goes to its `finally` block, `deployAuto` calls `markCompleted`. The asadmin
sequence keeps what makes it unreliable: `listApplications` answers the empty list
on an error, errors of `undeploy` are swallowed, a conflict is retried once after
`undeploy --cascade`, and the lifecycle routes, which take no lock, may stop or start the
domain or undeploy the application at any moment (`Lifecycle`). `asadmin deploy` is a child
that the request waits for, and the domain is a process of its own: it reads the file
(`ReadWar`) and registers what it has read (`Register`) as separate steps, while other
requests rewrite the file and deploy it. `command[r]` is how far it is with the command of
`r`, `read[r]` the content it holds for it, `source` the request whose command registered the
application. When the child fails or is killed at its limit (`AsadminDeployFails`), the
command is gone, or is still to be read, or has been read and is registered later.
`createTempDirFails` is a separate action because the temporary directory is awaited
before the `try` block.

`WarUpdates` says what POST /deploy promises: a request adds its files to whatever
is there, in one step, and is told "deployed" only if they are in; or it destroys the
file (`Tear`), after which no other one updates it. Uploads take no lock, so the promise
ends with the first one that is not refused (`Uploads`).

### DeployPolling

`client[r]` is the CLI that sends `r`. A request may time out at any moment; a 409
or a time-out starts the poll (`RequestTimesOut`), which takes any completion later than
`requestStartTime` for its own. Any other network error, a connection that a proxy cuts
for instance, is a failure at once (`ConnectionFails`; `http-client.ts:230-235` and
`deploy.ts:172-198` poll only for messages with "timeout" or "aborted"). `PollTimesOut` is
the limit of the poll; it may come while the agent is still at work, as two deploys of 600 s
outlast it.

There are two clocks. `now` is the agent's; `requestStartTime` is the clock of the CLI when
it sends, up to `Skew` off. The history variables `sentAt` and `recordedAt` keep the
agent's clock of the sending of a request and of the recording of its result.
Time passes at any moment (`Tick`), or not at all between two events.

### Agent, DeploymentLock, DeploymentJournal, FullRestart

`DeploymentLock` and `DeploymentJournal` define what each method changes between
two awaits; `FullRestart` puts them in the order of `deployWithFullRestart`:
`isLocked`, (`forceRemove`), `acquire`, `startJournal`, then for each step
`lockRead`, `lockWrite`, `journal`, `body`, and at the end `complete` and
`release`. `Finally` resets `deployLock` before it awaits the release of the file,
as the code does. `Dies` ends the process: memory is lost, requests in flight are
lost, files stay; `Restart` is `handleAggressiveModeStartup`, which reads neither
the lock file nor the journal. `LockExpires` makes a lock file older than 600 s,
`PidReuse` gives the new process the pid of the old one, and `IoFaults` lets fail those
writes and removals of lock file and journal whose errors are only logged; the write of
`acquire`, whose error is thrown, fails in any case (`AcquireFails`). The WAR is rewritten
in place here, too, and may be left `Torn`. `aggressiveStop`, `safeStart` and
`waitForBootDeploySettled` are one step each, which may fail with or without effect;
`PayaraLifecycle` looks inside the first two.

### PayaraLifecycle

`todo[o]` is what operation `o` has still to call, one element per await. Method
bodies are sequences named after the methods (`aggressiveStop`, `safeStart`,
`restart`, `refreshSecrets`, `onKeyRotated`); a call that finds out that more is
needed puts it in front of the rest, and an exception drops the rest. `Handler`
gives the calls of each event handler and route. JVMs are processes outside: one
that was launched boots until it holds the admin port (`up`), drains after a stop
or SIGTERM, and may exit at any moment; a second one may be launched as long as none
is `up`, which is all that asadmin checks. The secrets are version numbers on their
way from `vault` through `environment` (the manager's memory) and `setenv` (the
file) into `jvmEnv`; `content` is the copy a write to the file has taken. The
configuration has secrets with an inline api-key, `restartOnKeyRotation` and
`restartOnCertChange`, and watches the secrets that change. `mode` is the start-up
mode; a new agent finds any JVMs the mode allows.

### ChunkUpload

`pc[c]` is what `deployToHost` of client `c` awaits: a chunk (`chunk`), POST /deploy
(`single`), the upload of a whole WAR, the answer of a commit (`waits`), or how it
ended. A WAR maps paths to whose file it is. `diff[c]` is computed from the hashes of
that moment and used until the end; `left[c]` is what has still to be sent, and a
chunk takes its first `ChunkSize` paths, as `changed.slice` does. `sessions` is the
`Map` of the store in insertion order; `create` is the clean-up (expired sessions,
then the oldest until the limit holds) and the insertion behind it, `Live` is `get`.
Sessions pass their age in the order of their creation (`Expire`), so those the
clean-up deletes are a prefix of the sequence, and what it keeps a `SubSeq`.
The receipt of a chunk and the 409 check are the two halves of the route: a refused
commit leaves its session. `applyChanges` under the lock is one step here (`commit`),
because `HotDeploy` shows that it is one, or one that leaves the file `Torn`; an upload takes
no lock, and may tear the file as well. `overtaken` is a
history variable: the clients behind whose reading of the hashes another one wrote.

### DeployRun

`options` are all flags that `resolveDeployPlan` and the validations of
`deploy-run.ts` accept, `config` is any flat configuration or split of the hosts into
classes with any of the migration blocks, and `war` starts with any set of hosts that
have the new file. A step is the code up to the next await. `results` is
`MultiClassResult.classes`; a flat run has one outcome, computed by code of its own.
Outcomes keep what the gates read: `failed` for the counters `classGateFailed` sums,
`workerFailed` for a failed worker, which the gate of the post-deploy migrations
counts and the gate between the classes does not, and `coverageOk`. The preflight
(`executePreflightChecks`) drops any host, finds differences on each whose file is
another one, and on any other whose hashes cannot be read. `Deployments` is what
`Rollout` allows `executeListrDeployment` to do: a failure and any of the files, or no
failure and all the files -- but for the classes in `partial`, whose rollout may leave hosts
out and count nothing: those under `sequential`, under a canary without "R", and those where
a drain throws (`listr-deploy.ts:176,375-410`, `types.ts:83-88`). A class is in `partial` or
not for the whole run, and any may be, up to `MaxPartial`. Any await may throw and the process may be killed
(`Interrupted`), while hosts at work go on. Repeated `--class` arguments are counted
apart (`repeats`), because the code compares numbers of arguments.

### Rollout

The parsed strategy is a kind and its batch sizes, as `parseDeploymentStrategy`
builds them; the hosts with a HAProxy server name, the reachable ones and those
without differences are any subsets. `phase` is where `deploy-run.ts` and
`executeListrDeployment` are, `pc[h]` where the task of host `h` is; `drained` and
`quiesced` are the task's locals, `out` and `paused` what the load balancers and
schedulers believe. A canary list rejects with its first failing task (`Abort`)
while siblings go on until the process exits. `outcome[h]` is the counter
`computeNoFailures` reads. `LostCommands` adds load balancers and schedulers that
do not obey, or whose answer is lost.

### MigrationRunner

A step is one query of one process: `GET_LOCK`, the table, the seeding of the
baseline row by row, the plan (reconcile bucket, then pending), `requireLockHeld`
before and after the body, the claim (`success=0`), each statement, the
postconditions, `markSuccess`, and the release. A query fails with or without its
effect; a session may be killed, a process may die. `done[f]` counts the statements
of file `f` in effect; the database starts with the baseline's.

### MigrationLease

One migration phase (`pc`) and the signal listener are two flows of a process.
`loop[c]` is where caller `c` is inside `revokeOnce`; the flag `revoked` is set on
entry, before anything is revoked. `Settle` is the delay between `db.end` and the
revocation, during which MySQL closes the session; a revocation that meets a
closing session may leave the lease FAILED, which cannot be revoked any more. The
listener waits for its own `revokeOnce` or five seconds (`onSignal`).

## 3. The runs

All passing runs exhaust their state space.

| Run | Instance | Distinct states | Shows |
|---|---|---|---|
| `hot_apply` | 3 requests, 3 routes, every fault | 1 236 285 | one update at a time, none lost but to a write that destroyed the file (`ChangesKept`), and the refinement of `WarUpdates` (`IndivisibleUpdates`), although /deploy/full reads and deploys the file at every await, until an upload replaces it; an application older than a success was registered by /deploy/full or by a command that outlived its child (`NoStaleApplication`); the lock and the tracker keep nothing that has ended |
| `polling_upload` | 2 CLIs at the same time, /deploy and /deploy/upload | 264 660 | a CLI always reaches a verdict while the agent ends its work, whether or not a result is ever recorded |
| `polling_clocks` | 2 CLIs at the same time, a route that records and one that does not, clocks 1 off | 2 682 044 | no verdict rests on a result older than the clocks differ, and none is made up of the time of one deployment and the result of another (`VerdictIsFresh`) |
| `restart_serial` | 2 requests, /deploy and /deploy/full, 1 crash, 1 SIGTERM, expiring locks | 156 650 | truth of the lock file, no orphan file and the listeners restored (`LockLeavesNothing`), `deployLock` not left behind (`DeployLockSettles`), the journal ahead of the damage, SIGTERM neither obeyed early nor lost, every client answered |
| `rollout` | 3 hosts, 2 load balancers, parallel and canaries ending in R, failing drains, deployments, checks | 185 877 | canary stops, workers last, one batch out, gate, hosts restored |
| `deploy_run` | 2 hosts, flat or in 3 classes, every valid combination of flags | 7 465 816 | the post-deploy migrations find the new file on every configured host outside `partial` (`PostBehindEveryWar`); a host is touched behind the pre-deploy migrations, in a selected class and behind no blocking failure (`HostsInTurn`) |
| `chunk_upload` | 2 clients with 2 uploads of up to 3 files, chunks of 1, 1 session and one more, 1 restart | 3 171 609 | success means the client's own WAR unless it was overtaken (`SuccessIsWar`), a commit applies all that was computed (`CommitIsWhole`), the store is bounded (`SessionsBounded`) and drops no session it need not (`SessionsAreKept`) |
| `payara` | 2 JVMs, the start of the agent and 2 operations, 3 start-up modes, 1 rotation | 236 457 | no JVM launched beside another (`OneJvm`), new secrets reach the JVM (`RotationReachesJvm`) and are not undone by a later start (`FreshLaunch`) |
| `migration` | 3 runs, 4 files of 2 statements, baseline of 2, 1 kill, 1 crash | 135 409 | no concurrent DDL, history true, order kept, no double application |
| `lease` | 1 phase, 2 signals | 979 | lease revoked or reported, settle delay suffices, a signal ends the process |

Two runs end in a violation: there the code does something else than its
comments or messages say.

| Run | What happens |
|---|---|
| `restart_two` | two POST /deploy find no lock file before either has written it |
| `rollout_post` | the strategy `sequential` deploys to the first host alone, nothing is counted as failed, and the post-deploy migrations run |

### Bounds, and why they are enough

- *Requests, clients, runners.* Every property about interference relates two
  requests; a third is there to start between the end of one and the `finally`
  block of another (`hot_apply`, `migration`), or to be deployed before a command that
  another has left behind. Two CLIs are what it takes to mistake a result for one's
  own. Each request is sent once; a repeated one is another request.
- *Time: 2, skew: 1.* A result can be recorded before, in and after the unit in which a
  request is sent, and the clock of the CLI can show the one before or after it.
  In `polling_upload` all happens in one unit, so that no completion ever counts as later
  than a request: the worst case for a client that waits. The theorem holds for any
  numbers.
- *Crashes, kills, SIGTERMs: 1.* One crash reaches every await, the next start and
  a deployment after it. A second repeats from a state the first can reach.
- *Hosts: 3, batches: 3, counts up to 2.* Enough for a batch before, of and after
  a failure, a batch of two concurrent tasks, and hosts left over for a worker,
  an unreachable or an unchanged one; the initial states are all such splits.
- *Classes: 3 of 2 hosts.* A blocking class that fails, one behind it that is skipped or
  empty, and a third: the least that tells a gate that remembers from one that looks at
  the last class. With two hosts there is always an empty class among the three, and
  two hosts can share one. One class in `partial` (`MaxPartial`) has others beside it that
  are not. The theorems of `DeployRunProofs` hold for any numbers.
- *Chunks: up to 3, sessions: 1 and one more.* First, middle and last chunk; the second
  client's session evicts the first one's. Each client may begin again after a failure,
  so a session of its own first upload is there to be confused with.
- *Files: 4, statements: 2.* Two baselined and two not, one of each with a
  postcondition, and a body that can stop half-way.
- *JVMs: 2, operations: 3, rotations: 1.* The second JVM is the one too many. The start of
  the agent and one operation leave the domain in any state (draining, booting, an old
  environment) for the second to meet.
- *Signals: 2.* The second meets the listener the first has started. The theorems
  of `MigrationLeaseProofs` hold for any number.
- Symmetry is used in `hot_apply`, `polling_clocks`, `chunk_upload` and `deploy_run`, whose
  requests, clients or hosts are interchangeable and whose properties are all safety;
  elsewhere liveness is checked, or hosts and files are ordered.

Deadlock is not checked: requests, runs and phases come to an end.

### Environment assumptions of the passing runs

- `restart_serial` sends no request while another POST /deploy has not set, or has already
  reset, `deployLock` (`Overlap = FALSE`): section 6 says what happens otherwise. Its small
  files can be written (`IoFaults = FALSE`) and its processes have pids of their own
  (`PidReuse = FALSE`); `LockSettles` holds without these three (section 4).
- `hot_apply` and the polling runs: a file that changes while asadmin reads it is no archive,
  and the command fails.
- `polling_clocks` has clients of `/deploy` and `/deploy/full`. The latter stands for the routes
  that record a result; the CLI itself sends `/deploy` and `/deploy/upload`.
- `rollout` has load balancers and schedulers that obey (`LostCommands = FALSE`),
  and drains fail only under a canary (`DrainFaults`).
- `payara` has operations that follow one another (`Overlap = FALSE`: the agent has no lock
  between them), a `pgrep` that answers (`PgrepFaults = FALSE`) and, in normal mode, a
  `list-domains` that answers and a domain that is up when it is there (`Unreliable`).
- `deploy_run` has no `--class` argument that repeats another (`MaxRepeats = 0`): section 6. What
  a class in `partial` leaves out is excepted from `PostBehindEveryWar`.
- `lease` takes the delay of 1.5 s to be enough for MySQL to close the session: `Settle` passes
  when it has. That is the assumption behind `CleanSlate`, not a result.
- `chunk_upload` has WARs of two files at least, so that a full upload and a difference
  are not the same.
- `migration` has connections that die with their session (`Reconnects = FALSE`)
  and postconditions that fail only when they do not hold (`AssertErrors = FALSE`). That
  postconditions which hold mean that the whole body is in effect (`Assert`) is what
  `migration-runner.ts:233-235` says of the files, and is taken as given. Four of its six properties are proved without these two assumptions (section 4).

### Fairness

- `HotDeploy`, `FullRestart`: weak fairness of each request's next step. Node runs
  its event loop and each await has a limit: `asadmin` commands and body uploads
  time out, file operations return. None for sending a request, for crashes,
  signals, or the domain.
- `FullRestart` further: the 100 ms timer that sends SIGTERM again fires, and systemd
  restarts a dead agent.
- `DeployPolling`: the client's next step as well; both its request and its poll are
  limited.
- `MigrationRunner` and `Rollout` state it for each query and each call with a limit;
  no liveness property is checked of them yet.
- `ChunkUpload` and `DeployRun` state none: their properties are about safety, and each
  of their steps may fail to come.
- `MigrationLease`: only the five-second timer of the listener. Nothing is assumed
  of the vault, which is the point of `SignalExits`.

## 4. The proofs

`HotDeployProofs` (any set of requests, any subset of the routes):

- `TypeCorrect` : `[]TypeOK`.
- `MutualExclusion` : `[]ApplyMutex`. The invariant is not inductive by itself: two
  requests at `tempDir` would both have passed the check. The strengthening says
  that a request in flight as an `applyChanges` implies `deployLock`.
- `LockAccuracy` : `[]LockIsAccurate`: an `applyChanges` in flight implies the lock, and the
  lock implies one in flight or one that failed to make its temporary directory. That
  the exception is real is shown by `TempDirFaults` (section 6).
- `NoLostUpdate` and `ApplicationKeepsUp` : `[]ChangesKept` and
  `[]NoStaleApplication`. Until an upload is accepted, and `UploadedStays` says that it
  then stays so, `FilesInWar` relates the content a request has extracted to the WAR file:
  between extraction and rewrite nobody else changes it, because of the lock, and what a
  failed write has left is never opened. `Commands` says of each command the domain works
  on, its child alive or not, how new the content is that it has read, and `Served` that
  the application is as new as the answers, or was registered by a command that no lock
  holds back (`Overtaken`); `OvertakenStays` carries that through the answers given later.
- `Refinement` : `Spec => IndivisibleUpdates`: the initial states map to initial states,
  each step before an upload to an `Update`, a `Tear`, a `Reply` or a stutter, and each later
  one to `Uploads`.
- `TrackerSettles` : `[]NoPhantomDeployment`. The invariant `Shown` says that the id the
  tracker shows is that of a request which has called `markStarted` and has not yet
  reached `markCompleted`; every way such a request ends goes through the latter.
- `FreshVerdicts` : `[]VerdictIsFresh` of `DeployPolling`, for any number of CLIs at the same
  time and any `Skew`. `LastRecorded` says that the time and the result the tracker keeps
  are those of one request that has ended, `Clocks` how far `requestStartTime` is from
  `sentAt`, and `Fresh` is the property together with the answers that have not arrived.
  That a success is the client's own does not follow: it is false of the code (section 6).

`FullRestartProofs` (any set of requests, any number of crashes, signals and expiries):

- `TypeCorrect` : `[]TypeOK`, with the shape of a request (`RequestShape`): which route
  and which step go with each await.
- `LockSettles` : `[]DeployLockSettles`, with no assumption: `deployLock` implies a
  deployment in its protected region, which is left through `Finally` only, or with the
  memory of the process.
- `SoleRestart` and `Deferred` : `[]OneRestartAtATime` and `SigtermDeferred`, when
  `~Overlap`. `Exclusive` is the strengthening: at most one deployment is in flight
  (`Alone`), whoever is between `acquire` and `release` holds the memory of the lock and
  the deferring listener (`Held`), nobody else does (`Unheld`), and a dead agent has no
  request (`Gone`). Run `restart_two` shows that `~Overlap` cannot be dropped.
- `FileTruth` and `Journaled` : `[]LockFileTellsTheTruth` and `[]DamageIsJournaled`, when
  also `~IoFaults`, as a write that fails is logged and ignored. `Recorded` says what both
  files hold at each await of the one deployment, one step behind while `updateStep`
  is on its way; what others do to the files is confined to stale ones.
- `NothingLeft` : `[]LockLeavesNothing`, when also `~PidReuse`: `Older` says that a lock
  file without a holder carries the pid of an earlier process.

`ChunkUploadProofs` (any clients, files and numbers of uploads and restarts, any chunk
size and limit; no further assumption):

- `TypeCorrect` : `[]TypeOK`, and that expired sessions are the oldest (`InAge`).
- `StoreBounded` and `SessionsKept` : `[]SessionsBounded` and `SessionsAreKept` (a session is
  evicted only where the limit is exceeded; which one is section 6). They rest
  on lemmas about the clean-up as an operation on sequences: it drops a prefix, whose
  members are expired or have as many as the limit behind them, and deleting by id drops
  one place or none.
- `CommitWhole` : `[]CommitIsWhole`. `Collected` is the strengthening: as long as a client
  knows a session which is there, what the session holds and what the client has left
  make up all its changes. No session of an upload yet to begin exists (`Numbered`), so
  a session that was evicted can only be found missing, never found as another one.
- `SuccessWar` : `[]SuccessIsWar`. `Agrees` says of a client nobody has overtaken that
  WAR and own copy differ within the computed differences at most, before and after a
  commit of its own that it has given up on.

`PayaraLifecycleProofs` (any finite set of JVMs, any number of operations and rotations):

- `TypeCorrect` : `[]TypeOK`. What an operation has still to call is a sequence that each
  step rewrites at its head. The lemmas say it once for all the calls: what a call may be
  replaced by (`Expands`), which neighbours there can be (`Link`), and that a step keeps
  the latter (`LinkedOn`, `Flow`); `Orderly` adds what each handler can and cannot have
  left to do.
- `SecretsReachLaunch` : `FreshLaunch`, when `~Overlap`. Memory never falls behind what a
  handler has stored (`Stored`), and as a `start-domain` is called right behind a
  `writeSetenv`, setenv.conf is then what is in memory (`Saved`).
- `OneProcess` : `OneJvm`, when also `~PgrepFaults` and `"normal"` is not in
  `Unreliable`. `Steady` gives each call what it may rely on (`Safe`): all JVMs are up,
  or one at most is alive, or none. The calls that look at the processes need nothing
  (`Looks`) and establish it for those behind them; an operation that fails leaves it to
  the aggressive handlers, which begin by looking.
- `RotationDone` : `[]RotationReachesJvm` under the same assumptions. `Purged` says that
  once the handler of a rotated key has passed its last call that empties the host, no
  JVM is alive with an older key: that call has found none (`PurgeEmpties`), and any
  launched since has the key from memory (`Stored`, `Saved`).
  Section 6 shows that none of the assumptions can be dropped.

`MigrationLeaseProofs` (any number of signals):

- `TypeCorrect`, `LeaseAccounted`, `SettleSuffices` : the three invariants of run
  `lease`, and `SingleRevoker`: the `finally` block and the listener never both send
  revocations. The inductive invariant `Inv` says who is inside `revokeOnce` at each
  await (`PhaseInside`, `OneRevoker`), that nobody is before the lease is known and
  the listeners are installed (`FlagTells`), that whoever has left has revoked or
  logged (`OverIsAccounted`) and that the session is closed behind the delay
  (`Settled`). The assumption used is that `None` is none of the states' names.

`MigrationRunnerProofs` (any runs, files, statements, baseline and numbers of faults):

- `TypeCorrect` : `[]TypeOK`; that there is a file at hand wherever one is taken is part
  of it (`HasFile`), as `Min` of nothing has no type.
- `Invariant` : `[]Inv`. `SuccessIsComplete`, `OkMeansUpToDate`, `LostLockIsReported` and
  `InOrder` follow from it (`SuccessTold`, `UpToDate`, `LostLockTold`, `Ordered`), for
  `Reconnects` and `AssertErrors` of either value: the run `migration` checks less. The
  argument does not use the lock. It is the primary key of the history: only the last
  row can be a claim (`LastIsClaim`), a claim is inserted once, by a run that has seen
  every file before it complete (`Covered`), and two runs that execute one body only
  add to what is in effect (`Grows`), so neither can make the other's row false
  (`Executed`).
- `SoleWriter` : `[]NoConcurrentDDL` when `~Reconnects`. `Owner` is the strengthening: a
  run whose connection works has the lock from `GET_LOCK` to its release.
- `NoSecondApply` : `NoDoubleApply` when also `~AssertErrors`; it needs `Owner`, as the
  postconditions are evaluated some queries before the body.

`DeployRunProofs` (any finite set of hosts, any number of classes, any flags):

- `Invariant`, `TypeCorrect` : `[]Inv` and `[]TypeOK`. `PostBehindEveryWar` says nothing
  before the gate, so it is far from inductive. `Inv` follows the run: which phase
  belongs to which shape of configuration (`Shape`, `NoOutcome`), that each selected
  class waits or has an outcome (`EachClassOnce`), that the hosts at hand belong to the
  class in turn and show differences wherever the file is another one (`FlatAtHand`,
  `ClassAtHand`), and what an outcome says of the files of its class
  (`OutcomesTruthful`). TLC checks it on the instance of `deploy_run`, too.
- `TouchedInTurn` : `HostsInTurn`, as a step only writes to hosts at hand
  (`OnlyTheRolloutWrites`) and those are in their turn (`InTurn`).
- `PostGate` : `[]PostBehindEveryWar` when `MaxRepeats = 0`. A gate that is open has
  every class among the selected ones (`NotScoped`, a matter of counting arguments),
  each with a truthful outcome without failure and with coverage, and coverage is
  equality of cardinalities of a subset (`CoversAll`, from the finiteness of `Hosts`). A
  truthful outcome of a class in `partial` says nothing of its files (`Written`), and
  such classes are excepted from the conclusion (`EveryWar`).

`RolloutProofs` (any number of hosts, load balancers and batches of any size):

- `TypeCorrect` : `[]TypeOK`. The invariant `Shape` is about the order of the tasks:
  every batch before the current one is over (`Over`, in a canary without an exception),
  a touched serving host is in a batch that has begun, a touched worker is behind all of
  them (`Tasks`, `Phases`). The batches are sets of ranks, so it rests on lemmas about
  cardinalities: no host is in two batches (`BatchesDisjoint`), and a strategy that ends
  in "R" takes every serving host (`LastTakesRest`).
- `CanaryGuards` : `[]CanaryGuardsTheRest`, whichever commands fail or are lost.
- `OneBatch` : `[]OneBatchOut` when `~LostCommands`; `Restored` :
  `[]RestoredUnlessAborted` when, besides, drains fail in canaries only. `GivenBack` is
  the strengthening: who is out of a rotation holds `drained`, or ended with a drain
  that failed, and who is paused holds `quiesced`.
- `PostAfter` : `[]PostAfterEverySwitch` for the strategies that end in "R", when a
  parallel one has no failing drain. `Counted` says that every task that ends is counted,
  and truthfully; `TakesAll` that all have ended at a gate that no abort led to.
  Section 6 shows that none of the assumptions can be dropped.

Every safety invariant and every action property that a passing run checks is the
statement of one of these theorems, for every value of the constants. The assumptions a
theorem makes about the environment are those of the run (section 3), or weaker; the
modules assume of their constants that numbers are numbers, that `None` is none of the
values beside it, and that the sets of hosts, files or JVMs that are counted are finite.

Only model-checked: the four liveness properties (`EventuallyAnswered`, `EventuallyVerdict`,
`SigtermHonoured`, `SignalExits`), whose fairness needs ENABLED, which the prover does
not treat; and the two runs that end in a violation, which are counterexamples.

## 5. What is not modelled

- Text processing: migration file parsing, splitting of SQL, checksums, progress and
  formatting. Their results are constants. Of the configuration, what its validation
  lets through is modelled (`ValidConfigs`), the commands that edit it are not.
- The update of the agent's plugins before a rollout (`deploy-run.ts:615-656`,
  which `--dry-run` does not prevent), prompts and summaries: they change none of the
  state above, or end the run.
- The inside of read-only requests. `DeployRun` and `Rollout` take any outcome of the
  checks; in `Rollout` a host without differences counts as one that serves the new WAR.
- DELETE `/deploy/chunk/:sessionId`, which nothing in the repository calls, and
  the retries of the hash request, which end with hashes or with a full upload.
- `waitForBootDeploySettled` and `deployToHost` within a rollout: one step each. The
  WAR deployed at start-up and the readiness probe of exec mode are one step of
  `PayaraLifecycle`.
- `checkIncompleteDeployment` of the journal, which has no caller; `executeStrategy`,
  which `deploy run` does not use.
- The expiry of a database lease, tunnels, TLS set-up, the mode that hands over the key in a file, and the status
  cache (see the plan).

## 6. Known divergences without a run

Each can be reproduced by checking the property named under the constants given.

- *Uploads and full deployments take no lock.* `/deploy/upload` and `/deploy/full`
  check `deployLock` and never set it (`war-deployer.ts:390`), so two of them, or
  one and an `applyChanges` that starts later, run side by side, although
  `war-deployer.ts:81` calls it the "Lock to prevent concurrent deployments":
  `NoConcurrentDeployments` fails in `HotDeploy` under the constants of `hot_apply`.
- *A WAR that is destroyed.* The file is rewritten in place (`war-deployer.ts:250,332`,
  `routes/deploy.ts:160`). A write that ends early loses the files of every earlier request,
  those answered "deployed" included: that is the exception `war # Torn` in `ChangesKept`.
  No later POST /deploy can open what is left; `GET /hashes` answers 500, upon which the
  CLI uploads the whole WAR.
- *An older application behind a newer one.* A `/deploy/full` that has read the WAR before an
  `applyChanges` rewrote it may register it afterwards, and so may a command whose child was
  killed after ten minutes (`payara-manager.ts:387`), as nothing calls it back: that is the
  exception `Overtaken` in `NoStaleApplication`.
- *A lock that is left.* `mkdtemp` awaits between the setting of `deployLock` and the `try`
  block (`war-deployer.ts:202`): when it fails, every later request is answered 409 until
  the agent restarts. That is the exception `LostTempDir` in `LockIsAccurate`.
- *POST /deploy is not tracked.* `applyChanges` never touches the tracker
  (`war-deployer.ts:193`): a CLI whose request timed out polls for a completion that is
  never recorded, and reports a failure for a deployment that may have succeeded, or takes
  the completion of an upload for its own.
- *Failures that are none.* A connection that is cut is reported as a failure at once
  (`http-client.ts:230-235`), and the poll gives up after the request's five and its own ten
  minutes, which is less than a deploy of 600 s with a conflict and a second one of
  600 s: the verdict `noAnswer` may hide a success.
- *Partial strategies.* `sequential`, a canary without "R", and a drain that throws leave hosts
  with the old WAR and count no failure (`listr-deploy.ts:176,375-410`, `types.ts:83-88`), and the
  gate opens: the exception `partial` in `PostBehindEveryWar`, which run `rollout_post` shows.
- *Arguments are counted, not classes.* `--class a --class a` in a configuration of two
  classes is not taken for a scoped run (`deploy-run.ts:416`): `PostBehindEveryWar` fails
  in `DeployRun` with `MaxRepeats = 1`, as class b is neither selected nor missed.
- *A file is not an application.* After a deployment that rewrote the WAR and then failed,
  the next run finds no differences, deploys nothing, counts the host as covered and runs
  the post-deploy migrations (`deploy-run.ts:710-731`) while the old application serves.
  `PostBehindEveryWar` is about the file.
- *Success over somebody else's files.* The commit of a client whose differences are older
  than another client's write is applied and reported as success (`deploy.ts:457`): that
  is the exception `overtaken` in `SuccessIsWar`. The agent never compares.
- *Sessions.* The store holds one session more than `maxSessions` (`session-store.ts:69`);
  a commit answered 409 leaves its session until it expires; the age of a session may
  pass between the two reads of one request (`routes/deploy.ts:225-242`), which then
  answers 500.
- *Non-blocking failures.* A run in which only non-blocking classes failed exits 0
  (`deploy-run.ts:1243-1255`); the post-deploy migrations are skipped.
- *Late validation.* In a multi-class configuration a `--host` of another class is refused
  only behind the pre-deploy migrations (`PreFails`).
- *The status mixes two sources.* `deploying` is `deployLock`, the id is the
  tracker's (`war-deployer.ts:496`): an upload shows an id and `deploying: false`.
- *Another client's completion.* `http-client.ts:286` takes any later completion for its own,
  although `http-client.ts:304` says that it confirms "THIS deployment": `SuccessIsOwn` fails
  in `DeployPolling` with `Kinds = {"apply", "upload"}`, `MaxTime = 2`, `Skew = 0`.
- *Two clocks.* The same line compares the CLI's `Date.now()` with the agent's. When the
  former is behind, a completion from before the request counts as one after it:
  `VerdictIsLater` fails with the constants of `polling_clocks`.
- *Eviction.* `session-store.ts:2,23,153` promise LRU eviction. `findOldestSession`
  (`session-store.ts:172-184`) takes the smallest `createdAt`, which `addFiles` does not renew, so
  a session in the middle of its upload is evicted before an idle one that was created
  later. The CLI then finds no session and fails or begins again, which `CommitIsWhole` covers;
  `SessionsAreKept` says when a session may be evicted, not which.
- *Overlapping restarts.* With `Overlap = TRUE` in `FullRestart`: `LockLeavesNothing`
  (`deployment-lock.ts:225,231`: a second acquire saves the deferral handler as if it
  were the agent's; `deployment-lock.ts:157`: a write resurrects a removed file) and
  `SigtermDeferred` (`war-deployer.ts:592,774`).
- *Incomplete deployments are not detected.* `IncompleteDetected` in `FullRestart`
  is violated by a crash: the journal survives it (`deployment-journal.ts:36`), and
  nothing at startup reads it (`index.ts:129`, `war-deployer.ts:109`).
- *A reused pid blocks for ten minutes.* After a restart with the pid of the dead
  process, `isLocked` takes the old file for live until it is 600 s old.
- *A second JVM.* `waitForStopped` is there so that no JVM is started beside one that still
  drains (`payara-manager.ts:538-545`), but after it has timed out, or after a start that
  has, the next plain `start` asks `list-domains` alone (`payara-manager.ts:289`) and
  launches one: that is the exception `Failed` in `OneJvm`. The property itself fails in
  `PayaraLifecycle` with `PgrepFaults = TRUE` (an error of `pgrep` counts as no process,
  `payara-manager.ts:622`), with `Overlap = TRUE`, and with `"normal"` in `Unreliable`.
- *A restart that does nothing.* A `list-domains` that fails counts as "not running"
  (`payara-manager.ts:234`): in normal mode `stop` and `start` may both act on different
  answers, and `RotationReachesJvm` fails with `"normal"` in `Unreliable`. It fails with
  `PgrepFaults = TRUE` (`verifyStopped` finds nobody) and with `Overlap = TRUE`, too.
- *Restart by default.* `README.md:57` says that `restartOnKeyRotation` is false by default;
  `index.ts:245` restarts unless it is false.
- *Boot and deploy.* `waitForBootDeploySettled` takes an empty list for settled after 20 s
  (`payara-manager.ts:821`), also when each `list-applications` failed; and the start-up
  modes that deploy after `postStartDelay` do not wait for it at all.
- *Drains.* `PostAfterEverySwitch` fails in `Rollout` with `Strategies = {"parallel"}`,
  `DrainFaults = {"parallel"}`: a failed drain throws before anything is counted, and
  before `drained` is set, so `RestoredUnlessAborted` fails, too. The former also
  fails with `Strategies = {"canary"}`, a canary that does not end in R.
- *Always restored.* The comment at `listr-deploy.ts:315` says that a drained server is
  always made ready again; `AlwaysRestored` fails with `Strategies = {"canaryRest"}`,
  when `process.exit` ends a sibling's task between drain and ready.
- *Lost commands.* With `LostCommands = TRUE`: `OneBatchOut` (the result of `readyServer`
  is ignored, `listr-deploy.ts:311`) and `RestoredUnlessAborted` (a quiesce whose answer
  is lost is never resumed; the scheduler's own time limit is the backstop).
- *A lock check is not a lock.* `requireLockHeld` is a query before the statement it
  guards (`migration-runner.ts:148`): `NoConcurrentDDL` fails with `Reconnects = TRUE`.
- *Baseline.* `BaselineIsSkipped` is violated by an error or a crash in the middle of the
  seeding (`migration-runner.ts:219-224`): the next run finds a table that is not empty.
- *Postconditions that err.* `NoDoubleApply` fails with `AssertErrors = TRUE`: any error
  of an assertion counts as a postcondition that does not hold
  (`migration-runner.ts:254`).
- *Signals do not wait.* `run-migrations.ts:272` says that the handlers await the revocation
  before exiting; `SignalAwaitsRevoke` in `MigrationLease` is violated, because the flag
  is set before the lease is revoked (`run-migrations.ts:183`): a second signal, or one
  during the `finally` block, exits at once. A signal during the mint leaks the lease, and
  `openDb` ends a session it refuses without the settle delay.

- *Accepted without a word.* A lease whose state is `FAILED` in the body of the vault's answer counts
  as gone and is not logged (`isAlreadyGone`, `dynamic-secrets-client.ts:48-57`). `RevokeRefused`
  leaves this out: `LeaseAccountedFor` is about leases the vault reports otherwise.

## 7. Plan

Written first, because everything else depends on them: the hot deployment, its
refinement and proofs; the polling client; the full restart with lock and journal;
the rollout; the migrations and their lease; the life cycle of the domain; the deploy run
with its classes and gates, and the chunk sessions. In this order, what is left:

1. `BootDeploy`: `waitForBootDeploySettled` with its grace period and limit, beside the
   domain's own deployment of registered applications: is there ever a second writer of
   the application? The abstract specification is the single step `FullRestart` and
   `HotDeploy` take today.
2. `MigrationPlan`: planner, integrity checks and splitter as operators, checked against
   reference definitions over bounded inputs; `status` and `--allow-drift` paths.
3. `StatusCache`: the cache in front of the status commands and the staleness it admits.
4. Proofs: abstract specifications of the migrations (a history that grows in order,
   one file at a time) and of the deployment lock, and that `MigrationRunner` and
   `FullRestart` implement them; that the aggressive stop and start of
   `PayaraLifecycle` are the single steps `FullRestart` takes them for.
