-------------------------- MODULE DeploymentJournal --------------------------
(***************************************************************************)
(* DeploymentJournal of deployment-journal.ts: a checkpoint in memory and  *)
(* its copy on disk.  A checkpoint is the deployment's id and its step;    *)
(* paths and file lists are left out.  persist swallows its errors.        *)
(***************************************************************************)
EXTENDS Agent

VARIABLES
  checkpoint,  \* DeploymentJournal.currentCheckpoint
  journalFile  \* the file on disk

journalVars == <<checkpoint, journalFile>>

JournalInit == checkpoint = None /\ journalFile = None

startJournal(id) == checkpoint' = [id |-> id, step |-> 0]

\* Mutated: the step is not recorded.
updateJournalSame(step) == checkpoint' = checkpoint

updateJournal(step) == checkpoint' = [checkpoint EXCEPT !.step = step]

\* What the awaited write leaves on disk: the checkpoint of that moment.
persist ==
  /\ journalFile' = checkpoint \/ (IoFaults /\ journalFile' = journalFile)
  /\ UNCHANGED checkpoint

\* canResume: only init and war-update, the steps without destructive changes.
canResume(c) == c.step \in {0, warUpdate}

JournalTypeOK ==
  /\ checkpoint \in {None} \cup Checkpoints
  /\ journalFile \in {None} \cup Checkpoints
=============================================================================
