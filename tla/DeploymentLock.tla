--------------------------- MODULE DeploymentLock ---------------------------
(***************************************************************************)
(* DeploymentLock of deployment-lock.ts: the lock file, the deferral of    *)
(* SIGTERM while it is held, and the exchange of the SIGTERM listeners.    *)
(* The file operations are awaited, so each operator below is what happens *)
(* between two awaits; FullRestart puts them in order.  The agent has one  *)
(* DeploymentLock, so memory is one copy, lost when the process ends.      *)
(***************************************************************************)
EXTENDS Agent

VARIABLES
  pid,             \* pid of the agent process
  lockFile,        \* the lock file, None or [pid, id, step]
  expired,         \* deployments that started more than 600 s ago
  acquired,        \* DeploymentLock.acquired
  listeners,       \* SIGTERM listeners of the process
  saved,           \* originalSigtermHandlers
  pendingShutdown, \* DeploymentLock.pendingShutdown
  resend           \* the 100 ms timer that sends SIGTERM again

handlerVars == <<listeners, saved>>
memoryVars  == <<acquired, handlerVars, pendingShutdown, resend>>
lockVars    == <<pid, lockFile, expired, memoryVars>>

FreshMemory ==
  /\ acquired = FALSE
  /\ listeners = {"agent"}
  /\ saved = {}
  /\ pendingShutdown = FALSE
  /\ resend = FALSE

LockInit == pid = 1 /\ lockFile = None /\ expired = {} /\ FreshMemory

\* A new process: FreshMemory for the next state.
ForgetMemory ==
  /\ acquired' = FALSE
  /\ listeners' = {"agent"}
  /\ saved' = {}
  /\ pendingShutdown' = FALSE
  /\ resend' = FALSE

-----------------------------------------------------------------------------
\* isLocked: the file is young and its process answers signal 0.
isLocked == /\ lockFile # None
            /\ lockFile.id \notin expired
            /\ lockFile.pid = pid

isStale == lockFile # None /\ ~isLocked

forceRemove ==
  /\ lockFile' = None
  /\ UNCHANGED <<pid, expired, memoryVars>>

\* Mutated: the agent's listeners stay beside the deferral handler.
registerBeside ==
  /\ saved' = listeners
  /\ listeners' = listeners \cup {"defer"}

\* The end of acquire: the file is written, the listeners are exchanged.
registerSignalHandler ==
  /\ saved' = listeners
  /\ listeners' = {"defer"}

writeLockFile(id) ==
  /\ lockFile' = [pid |-> pid, id |-> id, step |-> 0]
  /\ acquired' = TRUE
  /\ registerSignalHandler
  /\ UNCHANGED <<pid, expired, pendingShutdown, resend>>

\* Mutated: what was read is written back as it was.
writeStepUnchanged(data, step) ==
  /\ lockFile' = data
  /\ UNCHANGED <<pid, expired, memoryVars>>

\* updateStep writes back what it read, whatever happened to the file since.
writeStep(data, step) ==
  /\ \/ lockFile' = [data EXCEPT !.step = step]
     \/ IoFaults /\ lockFile' = lockFile
  /\ UNCHANGED <<pid, expired, memoryVars>>

\* Mutated: the listeners are only removed.
removeSignalHandlers ==
  /\ listeners' = {}
  /\ saved' = {}

restoreSignalHandler ==
  /\ listeners' = saved
  /\ saved' = {}

\* Mutated: the deferred signal is forgotten.
releaseForgetsSigterm ==
  /\ lockFile' = None \/ (IoFaults /\ lockFile' = lockFile)
  /\ acquired' = FALSE
  /\ restoreSignalHandler
  /\ resend' = FALSE
  /\ UNCHANGED <<pid, expired, pendingShutdown>>

\* release, whose removal of the file may fail.
release ==
  /\ lockFile' = None \/ (IoFaults /\ lockFile' = lockFile)
  /\ acquired' = FALSE
  /\ restoreSignalHandler
  /\ resend' = pendingShutdown
  /\ UNCHANGED <<pid, expired, pendingShutdown>>

-----------------------------------------------------------------------------
\* The deferral handler calls the saved handlers when the lock is not held,
\* and exits when there are none; without a listener SIGTERM kills.
Defers == "defer" \in listeners /\ acquired

Terminates ==
  \/ listeners = {}
  \/ "agent" \in listeners
  \/ "defer" \in listeners /\ ~acquired /\ (saved = {} \/ "agent" \in saved)

deferSigterm ==
  /\ Defers
  /\ pendingShutdown' = TRUE

LockExpires ==
  /\ lockFile # None
  /\ lockFile.id \notin expired
  /\ expired' = expired \cup {lockFile.id}
  /\ UNCHANGED <<pid, lockFile, memoryVars>>

LockTypeOK ==
  /\ pid \in Nat
  /\ lockFile \in {None} \cup LockFiles
  /\ expired \subseteq Requests
  /\ {acquired, pendingShutdown, resend} \subseteq BOOLEAN
  /\ listeners \subseteq {"agent", "defer"}
  /\ saved \subseteq {"agent", "defer"}
=============================================================================
