-------------------------------- MODULE Agent --------------------------------
(***************************************************************************)
(* What the modules of an aggressive-mode agent share: its requests, which *)
(* stand for the random deployment ids, and the faults of its file system. *)
(***************************************************************************)
EXTENDS Naturals

CONSTANTS
  Requests,  \* HTTP requests; each one is sent at most once
  None,      \* no file, no checkpoint, no application, no answer
  IoFaults   \* whether a write or removal whose failure is only logged may fail

ASSUME NoneAssumption == None \notin Requests
ASSUME IoFaultsAssumption == IoFaults \in BOOLEAN

\* The steps of deployWithFullRestart, in the order of the code.
warUpdate == 1
undeploy  == 2
stop      == 3
kill      == 4
start     == 5
deploy    == 6
verify    == 7
Steps == 0..verify   \* 0 is init

\* What the lock file and the journal hold.
LockFiles == [pid : Nat, id : Requests, step : Steps]
Checkpoints == [id : Requests, step : Steps]

ASSUME FilesAssumption == None \notin LockFiles \cup Checkpoints
=============================================================================
