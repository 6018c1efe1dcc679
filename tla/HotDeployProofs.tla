--------------------------- MODULE HotDeployProofs ---------------------------
(***************************************************************************)
(* Proofs about HotDeploy, for any set of requests, and about the clients  *)
(* around it, which are DeployPolling.                                     *)
(***************************************************************************)
EXTENDS DeployPolling, TLAPS

-----------------------------------------------------------------------------
(***************************************************************************)
(* Type correctness.                                                       *)
(***************************************************************************)

\* Every step of every request keeps the variables in their types.
LEMMA TypeStep == TypeOK /\ [Next]_vars => TypeOK'
<1> SUFFICES ASSUME TypeOK, [Next]_vars PROVE TypeOK'
  OBVIOUS
<1> USE DEF TypeOK, Labels, Stages, Answers, Content, requestVars, payaraVars,
            trackerVars, appVars, commandVars,
            Goto, At, Reply, Fails, Removes, Stage, NothingRead, Waits
<1>1. CASE UNCHANGED vars
  BY <1>1 DEF vars
<1>2. CASE Lifecycle
  <2>1. CASE DomainStops
    <3>1. command' \in [Requests -> Stages]
      BY <2>1 DEF DomainStops
    <3>2. read' \in [Requests -> Content]
      BY <2>1 DEF DomainStops
    <3> QED BY <2>1, <3>1, <3>2 DEF DomainStops
  <2>2. CASE DomainStarts \/ ApplicationUndeployed
    BY <2>2 DEF DomainStarts, ApplicationUndeployed
  <2> QED BY <1>2, <2>1, <2>2 DEF Lifecycle
<1>3. ASSUME NEW r \in Requests, Route(r) PROVE TypeOK'
  <2>1. CASE checkDeploymentInProgress(r)
    BY <2>1 DEF checkDeploymentInProgress, Send
  <2>2. CASE PostDeploy(r)
    BY <2>2 DEF PostDeploy, Send
  <2>3. CASE PostDeployFull(r)
    BY <2>3 DEF PostDeployFull, Send, markStarted
  <2>4. CASE PostDeployUpload(r)
    BY <2>4 DEF PostDeployUpload, Send
  <2> QED BY <1>3, <2>1, <2>2, <2>3, <2>4 DEF Route
<1>4. ASSUME NEW r \in Requests, Continue(r) PROVE TypeOK'
  <2>1. CASE SaveUpload(r)
    BY <2>1 DEF SaveUpload, markStarted
  <2>19. CASE TruncateWar(r)
    BY <2>19 DEF TruncateWar
  <2>2. CASE SaveUploadFails(r)
    BY <2>2 DEF SaveUploadFails
  <2>3. CASE createTempDir(r)
    BY <2>3 DEF createTempDir
  <2>4. CASE createTempDirFails(r)
    BY <2>4 DEF createTempDirFails
  <2>5. CASE ExtractWar(r)
    BY <2>5 DEF ExtractWar, ContentOf
  <2>20. CASE ExtractWarFails(r)
    BY <2>20 DEF ExtractWarFails
  <2>6. CASE WriteWar(r)
    BY <2>6 DEF WriteWar
  <2>7. CASE WriteWarFails(r)
    BY <2>7 DEF WriteWarFails
  <2>8. CASE warExists(r)
    BY <2>8 DEF warExists, DeployReturns, markCompleted
  <2>9. CASE isRunning(r)
    BY <2>9 DEF isRunning
  <2>10. CASE Start(r)
    BY <2>10 DEF Start
  <2>11. CASE StartFails(r)
    BY <2>11 DEF StartFails, DeployThrows, markCompleted
  <2>12. CASE ListApplications(r)
    BY <2>12 DEF ListApplications
  <2>13. CASE Undeploy(r, "undeploy", "asadmin") \/ Undeploy(r, "cascade", "redeploy")
    BY <2>13 DEF Undeploy
  <2>14. CASE AsadminDeploy(r)
    BY <2>14 DEF AsadminDeploy
  <2>15. CASE AsadminDeployFails(r)
    BY <2>15 DEF AsadminDeployFails, DeployThrows, markCompleted
  <2>16. CASE AsadminDeployConflicts(r)
    BY <2>16 DEF AsadminDeployConflicts
  <2>17. CASE Verify(r)
    BY <2>17 DEF Verify, DeployReturns, markCompleted
  <2>18. CASE Cleanup(r)
    BY <2>18 DEF Cleanup
  <2> QED BY <1>4, <2>1, <2>2, <2>3, <2>4, <2>5, <2>6, <2>7, <2>8, <2>9, <2>10,
             <2>11, <2>12, <2>13, <2>14, <2>15, <2>16, <2>17, <2>18, <2>19, <2>20
          DEF Continue
<1>5. ASSUME NEW r \in Requests, Domain(r) PROVE TypeOK'
  BY <1>5 DEF Domain, ReadWar, Register
<1> QED BY <1>1, <1>2, <1>3, <1>4, <1>5 DEF Next

LEMMA InitTypeOK == Init => TypeOK
<1> SUFFICES ASSUME Init PROVE TypeOK
  OBVIOUS
<1>1. lastCompletedAt \in Nat /\ now \in Nat
  BY DEF Init
<1>2. /\ pc \in [Requests -> Labels]
      /\ kind \in [Requests -> Kinds \cup {None}]
      /\ answer \in [Requests -> Answers \cup {None}]
      /\ extracted \in [Requests -> SUBSET Requests]
  BY DEF Init, Labels
<1>3. command \in [Requests -> Stages] /\ read \in [Requests -> Content]
  BY DEF Init, Stages, Content
<1>4. /\ deployLock \in BOOLEAN /\ war \in Content \cup {Torn}
      /\ app \in Content /\ source \in Requests \cup {None}
      /\ running \in BOOLEAN /\ current \in {None} \cup Requests
      /\ lastResult \in {None, "success", "failure"}
  BY DEF Init, Content
<1> QED BY <1>1, <1>2, <1>3, <1>4 DEF TypeOK

\* HotDeploy's variables keep their types in every behaviour.
THEOREM TypeCorrect == Spec => []TypeOK
BY InitTypeOK, TypeStep, PTL DEF Spec

-----------------------------------------------------------------------------
(***************************************************************************)
(* Mutual exclusion.  ApplyMutex alone is not inductive: a second request  *)
(* is kept out because deployLock is set while one is in flight, and it is *)
(* reset only by the finally block of an applyChanges, which is what the   *)
(* labels tell.                                                            *)
(***************************************************************************)
ApplyLabels == {"tempDir", "extract", "rewrite", "cleanup"}

Exclusion ==
  /\ \A r \in Requests : Applying(r) => deployLock
  /\ \A r \in Requests : pc[r] \in ApplyLabels => kind[r] = "apply"
  /\ \A r \in Requests : pc[r] \in {"save", "writing"} => kind[r] = "upload"
  /\ \A r \in Requests : pc[r] = "idle" => kind[r] = None /\ answer[r] = None
  /\ ApplyMutex

\* Every step keeps the exclusion.
LEMMA ExclusionStep == TypeOK /\ Exclusion /\ [Next]_vars => Exclusion'
<1> SUFFICES ASSUME TypeOK, Exclusion, [Next]_vars PROVE Exclusion'
  OBVIOUS
<1> USE DEF TypeOK, Exclusion, ApplyMutex, Applying, InFlight, ApplyLabels,
            requestVars, trackerVars, appVars, commandVars,
            Goto, At, Reply, Fails, Removes, Stage, NothingRead, Waits
<1>1. CASE UNCHANGED vars
  BY <1>1 DEF vars
<1>2. CASE Lifecycle
  BY <1>2 DEF Lifecycle, DomainStops, DomainStarts, ApplicationUndeployed
<1>3. ASSUME NEW r \in Requests, Route(r) PROVE Exclusion'
  <2>1. CASE checkDeploymentInProgress(r)
    BY <2>1 DEF checkDeploymentInProgress, Send
  <2>2. CASE PostDeploy(r)
    BY <2>2 DEF PostDeploy, Send
  <2>3. CASE PostDeployFull(r)
    BY <2>3 DEF PostDeployFull, Send
  <2>4. CASE PostDeployUpload(r)
    BY <2>4 DEF PostDeployUpload, Send
  <2> QED BY <1>3, <2>1, <2>2, <2>3, <2>4 DEF Route
<1>4. ASSUME NEW r \in Requests, Continue(r) PROVE Exclusion'
  <2>1. CASE SaveUpload(r)
    BY <2>1 DEF SaveUpload
  <2>19. CASE TruncateWar(r)
    BY <2>19 DEF TruncateWar
  <2>2. CASE SaveUploadFails(r)
    BY <2>2 DEF SaveUploadFails
  <2>3. CASE createTempDir(r)
    BY <2>3 DEF createTempDir
  <2>4. CASE createTempDirFails(r)
    BY <2>4 DEF createTempDirFails
  <2>5. CASE ExtractWar(r)
    BY <2>5 DEF ExtractWar
  <2>20. CASE ExtractWarFails(r)
    BY <2>20 DEF ExtractWarFails
  <2>6. CASE WriteWar(r)
    BY <2>6 DEF WriteWar
  <2>7. CASE WriteWarFails(r)
    BY <2>7 DEF WriteWarFails
  <2>8. CASE warExists(r)
    BY <2>8 DEF warExists, DeployReturns, markCompleted
  <2>9. CASE isRunning(r)
    BY <2>9 DEF isRunning
  <2>10. CASE Start(r)
    BY <2>10 DEF Start
  <2>11. CASE StartFails(r)
    BY <2>11 DEF StartFails, DeployThrows, markCompleted
  <2>12. CASE ListApplications(r)
    BY <2>12 DEF ListApplications
  <2>13. CASE Undeploy(r, "undeploy", "asadmin") \/ Undeploy(r, "cascade", "redeploy")
    BY <2>13 DEF Undeploy
  <2>14. CASE AsadminDeploy(r)
    BY <2>14 DEF AsadminDeploy
  <2>15. CASE AsadminDeployFails(r)
    BY <2>15 DEF AsadminDeployFails, DeployThrows, markCompleted
  <2>16. CASE AsadminDeployConflicts(r)
    BY <2>16 DEF AsadminDeployConflicts
  <2>17. CASE Verify(r)
    BY <2>17 DEF Verify, DeployReturns, markCompleted
  <2>18. CASE Cleanup(r)
    BY <2>18 DEF Cleanup
  <2> QED BY <1>4, <2>1, <2>2, <2>3, <2>4, <2>5, <2>6, <2>7, <2>8, <2>9, <2>10,
             <2>11, <2>12, <2>13, <2>14, <2>15, <2>16, <2>17, <2>18, <2>19, <2>20
          DEF Continue
<1>5. ASSUME NEW r \in Requests, Domain(r) PROVE Exclusion'
  BY <1>5 DEF Domain, ReadWar, Register
<1> QED BY <1>1, <1>2, <1>3, <1>4, <1>5 DEF Next

\* At most one applyChanges is in flight, for any number of requests to any of
\* the routes, and whatever fails.
THEOREM MutualExclusion == Spec => []ApplyMutex
<1>1. Init => Exclusion
  BY DEF Init, Exclusion, ApplyMutex, Applying, InFlight, ApplyLabels
<1>2. Exclusion => ApplyMutex
  BY DEF Exclusion
<1> QED BY <1>1, <1>2, TypeCorrect, ExclusionStep, PTL DEF Spec

-----------------------------------------------------------------------------
(***************************************************************************)
(* The lock is never lost, and never left behind but by an applyChanges    *)
(* that found no temporary directory, which skips the finally block.       *)
(***************************************************************************)
LockHasOwner ==
  deployLock => \E r \in Requests : Applying(r) \/ LostTempDir(r)

\* Every step keeps an owner for a lock that is set.
LEMMA OwnerStep ==
  TypeOK /\ Exclusion /\ LockHasOwner /\ [Next]_vars => LockHasOwner'
<1> SUFFICES ASSUME TypeOK, Exclusion, LockHasOwner, [Next]_vars
             PROVE  LockHasOwner'
  OBVIOUS
<1> USE DEF TypeOK, Exclusion, ApplyMutex, LockHasOwner, Applying,
            LostTempDir, InFlight, ApplyLabels, requestVars, appVars, commandVars,
            Goto, At, Reply, Fails, Removes, Stage, NothingRead, Waits
<1>1. CASE UNCHANGED vars
  BY <1>1 DEF vars
<1>2. CASE Lifecycle
  BY <1>2 DEF Lifecycle, DomainStops, DomainStarts, ApplicationUndeployed
<1>3. ASSUME NEW r \in Requests, Route(r) PROVE LockHasOwner'
  <2>1. CASE checkDeploymentInProgress(r)
    BY <2>1 DEF checkDeploymentInProgress, Send
  <2>2. CASE PostDeploy(r)
    BY <2>2 DEF PostDeploy, Send
  <2>3. CASE PostDeployFull(r)
    BY <2>3 DEF PostDeployFull, Send
  <2>4. CASE PostDeployUpload(r)
    BY <2>4 DEF PostDeployUpload, Send
  <2> QED BY <1>3, <2>1, <2>2, <2>3, <2>4 DEF Route
<1>4. ASSUME NEW r \in Requests, Continue(r) PROVE LockHasOwner'
  <2>1. CASE SaveUpload(r)
    BY <2>1 DEF SaveUpload
  <2>19. CASE TruncateWar(r)
    BY <2>19 DEF TruncateWar
  <2>2. CASE SaveUploadFails(r)
    BY <2>2 DEF SaveUploadFails
  <2>3. CASE createTempDir(r)
    BY <2>3 DEF createTempDir
  <2>4. CASE createTempDirFails(r)
    BY <2>4 DEF createTempDirFails
  <2>5. CASE ExtractWar(r)
    BY <2>5 DEF ExtractWar
  <2>20. CASE ExtractWarFails(r)
    BY <2>20 DEF ExtractWarFails
  <2>6. CASE WriteWar(r)
    BY <2>6 DEF WriteWar
  <2>7. CASE WriteWarFails(r)
    BY <2>7 DEF WriteWarFails
  <2>8. CASE warExists(r)
    BY <2>8 DEF warExists, DeployReturns
  <2>9. CASE isRunning(r)
    BY <2>9 DEF isRunning
  <2>10. CASE Start(r)
    BY <2>10 DEF Start
  <2>11. CASE StartFails(r)
    BY <2>11 DEF StartFails, DeployThrows
  <2>12. CASE ListApplications(r)
    BY <2>12 DEF ListApplications
  <2>13. CASE Undeploy(r, "undeploy", "asadmin") \/ Undeploy(r, "cascade", "redeploy")
    BY <2>13 DEF Undeploy
  <2>14. CASE AsadminDeploy(r)
    BY <2>14 DEF AsadminDeploy
  <2>15. CASE AsadminDeployFails(r)
    BY <2>15 DEF AsadminDeployFails, DeployThrows
  <2>16. CASE AsadminDeployConflicts(r)
    BY <2>16 DEF AsadminDeployConflicts
  <2>17. CASE Verify(r)
    BY <2>17 DEF Verify, DeployReturns
  <2>18. CASE Cleanup(r)
    BY <2>18 DEF Cleanup
  <2> QED BY <1>4, <2>1, <2>2, <2>3, <2>4, <2>5, <2>6, <2>7, <2>8, <2>9, <2>10,
             <2>11, <2>12, <2>13, <2>14, <2>15, <2>16, <2>17, <2>18, <2>19, <2>20
          DEF Continue
<1>5. ASSUME NEW r \in Requests, Domain(r) PROVE LockHasOwner'
  BY <1>5 DEF Domain, ReadWar, Register
<1> QED BY <1>1, <1>2, <1>3, <1>4, <1>5 DEF Next

\* deployLock is set while an applyChanges is in flight, and reset at the end
\* of each that had its temporary directory, whatever else fails.
THEOREM LockAccuracy == Spec => []LockIsAccurate
<1>1. Init => Exclusion /\ LockHasOwner
  BY DEF Init, Exclusion, LockHasOwner, ApplyMutex, Applying, InFlight,
         ApplyLabels
<1>2. Exclusion /\ LockHasOwner => LockIsAccurate
  BY DEF Exclusion, LockHasOwner, LockIsAccurate
<1> QED BY <1>1, <1>2, TypeCorrect, ExclusionStep, OwnerStep, PTL DEF Spec

-----------------------------------------------------------------------------
(***************************************************************************)
(* No lost update, as long as no upload replaces the whole WAR: the        *)
(* content a request extracted is still the content of the file when it    *)
(* writes it back, because the file has no other writer in between.        *)
(***************************************************************************)
Written == {"warExists", "isRunning", "start", "list", "undeploy", "asadmin",
            "cascade", "redeploy", "verify"}

FilesInWar ==
  /\ \A r \in Requests : kind[r] = "upload" => pc[r] = "done" /\ answer[r] = "conflict"
  /\ \A r \in Requests : kind[r] = "apply"
                            => (answer[r] = None <=> pc[r] \notin {"cleanup", "done"})
  /\ \A r \in Requests : pc[r] \in {"idle", "tempDir", "extract", "rewrite"}
                            => r \notin ContentOf(war) /\ command[r] = "none"
  /\ \A r \in Requests : pc[r] = "rewrite"
                            => war # Torn /\ extracted[r] = ContentOf(war) \cup {r}
  /\ \A r \in Requests : kind[r] = "apply" /\ pc[r] \in Written => war # None
  /\ \A r \in Requests :
       kind[r] = "apply" /\ war # Torn
         /\ (pc[r] \in Written \/ command[r] = "sent" \/ Deployed(r))
       => r \in ContentOf(war)
  /\ \A r \in Requests :
       kind[r] = "apply" /\ answer[r] = None
         /\ (pc[r] = "verify" \/ command[r] \in {"read", "registered"})
       => war # Torn

(***************************************************************************)
(* What the deploy commands of applyChanges bring to the domain: before    *)
(* the answer, files the answers given so far have promised; after it,     *)
(* only when the request has failed.                                       *)
(***************************************************************************)
Commands ==
  /\ \A r \in Requests : kind[r] = None => pc[r] = "idle"
  /\ \A r \in Requests : command[r] # "none" => kind[r] \in {"apply", "full"}
  /\ \A r \in Requests : command[r] = "registered" => Waits(r)
  /\ \A r \in Requests : kind[r] = "apply" /\ command[r] = "sent"
                            => answer[r] = "failed"
  /\ \A r \in Requests : kind[r] = "apply" /\ command[r] = "read"
                            => Waits(r) \/ answer[r] = "failed"
  /\ \A r, s \in Requests :
       kind[r] = "apply" /\ answer[r] = None /\ command[r] = "read"
         /\ (s = r \/ Deployed(s))
       => s \in read[r]

Served ==
  \A r \in Requests :
    kind[r] = "apply"
      /\ (command[r] = "registered" \/ pc[r] = "verify" \/ answer[r] = "deployed")
    => app = None \/ r \in app \/ Overtaken

\* An upload that was accepted is never refused afterwards.
LEMMA UploadedStays ==
  TypeOK /\ Exclusion /\ [Next]_vars /\ Uploaded => Uploaded'
<1> SUFFICES ASSUME TypeOK, Exclusion, [Next]_vars, Uploaded PROVE Uploaded'
  OBVIOUS
<1>1. PICK u \in Requests : kind[u] = "upload" /\ answer[u] # "conflict"
  BY DEF Uploaded
<1>2. pc[u] # "idle"
  BY <1>1, NoneAssumption DEF Exclusion, Routes
<1> SUFFICES kind'[u] = "upload" /\ answer'[u] # "conflict"
  BY DEF Uploaded
<1> USE <1>1, <1>2 DEF TypeOK, requestVars, trackerVars, appVars, commandVars,
            Goto, At, Reply, Fails, Removes, Stage, NothingRead, Send
<1>3. CASE UNCHANGED vars
  BY <1>3 DEF vars
<1>4. CASE Lifecycle
  BY <1>4 DEF Lifecycle, DomainStops, DomainStarts, ApplicationUndeployed
<1>5. ASSUME NEW r \in Requests, Route(r) PROVE kind'[u] = "upload" /\ answer'[u] # "conflict"
  BY <1>5 DEF Route, checkDeploymentInProgress, PostDeploy, PostDeployFull, PostDeployUpload
<1>6. ASSUME NEW r \in Requests, Continue(r)
      PROVE  kind'[u] = "upload" /\ answer'[u] # "conflict"
  <2>1. CASE TruncateWar(r) \/ SaveUpload(r) \/ SaveUploadFails(r)
    BY <2>1 DEF TruncateWar, SaveUpload, SaveUploadFails
  <2>2. CASE createTempDir(r) \/ createTempDirFails(r) \/ ExtractWar(r)
             \/ ExtractWarFails(r) \/ WriteWar(r) \/ WriteWarFails(r) \/ Cleanup(r)
    BY <2>2 DEF createTempDir, createTempDirFails, ExtractWar, ExtractWarFails, WriteWar,
                WriteWarFails, Cleanup
  <2>3. CASE warExists(r) \/ Verify(r)
    BY <2>3 DEF warExists, Verify, DeployReturns, markCompleted
  <2>4. CASE StartFails(r) \/ AsadminDeployFails(r)
    BY <2>4 DEF StartFails, AsadminDeployFails, DeployThrows, markCompleted
  <2>5. CASE isRunning(r) \/ Start(r) \/ ListApplications(r)
             \/ Undeploy(r, "undeploy", "asadmin")
             \/ Undeploy(r, "cascade", "redeploy")
             \/ AsadminDeploy(r) \/ AsadminDeployConflicts(r)
    BY <2>5 DEF isRunning, Start, ListApplications, Undeploy, AsadminDeploy,
                AsadminDeployConflicts
  <2> QED BY <1>6, <2>1, <2>2, <2>3, <2>4, <2>5 DEF Continue
<1>7. ASSUME NEW r \in Requests, Domain(r) PROVE kind'[u] = "upload" /\ answer'[u] # "conflict"
  BY <1>7 DEF Domain, ReadWar, Register
<1> QED BY <1>3, <1>4, <1>5, <1>6, <1>7 DEF Next

\* Every step keeps the correspondence between the requests and the WAR.
LEMMA UpdatesStep ==
  TypeOK /\ Exclusion /\ FilesInWar /\ [Next]_vars /\ ~Uploaded' => FilesInWar'
<1> SUFFICES ASSUME TypeOK, Exclusion, FilesInWar, [Next]_vars, ~Uploaded'
             PROVE  FilesInWar'
  OBVIOUS
<1> USE NoneAssumption DEF Routes, Answers, TypeOK, Exclusion, ApplyMutex, FilesInWar, Deployed, Applying,
            InFlight, ApplyLabels, Written, ContentOf, Content, requestVars,
            trackerVars, payaraVars, appVars, commandVars,
            Goto, At, Reply, Fails, Removes, Stage, NothingRead, Waits
<1>1. CASE UNCHANGED vars
  BY <1>1 DEF vars
<1>2. CASE Lifecycle
  BY <1>2 DEF Lifecycle, DomainStops, DomainStarts, ApplicationUndeployed
<1>3. ASSUME NEW r \in Requests, Route(r) PROVE FilesInWar'
  <2>1. CASE checkDeploymentInProgress(r)
    BY <2>1 DEF checkDeploymentInProgress, Send
  <2>2. CASE PostDeploy(r)
    BY <2>2 DEF PostDeploy, Send
  <2>3. CASE PostDeployFull(r)
    BY <2>3 DEF PostDeployFull, Send
  <2>4. CASE PostDeployUpload(r)
    BY <2>4 DEF PostDeployUpload, Send, Uploaded
  <2> QED BY <1>3, <2>1, <2>2, <2>3, <2>4 DEF Route
<1>4. ASSUME NEW r \in Requests, Continue(r) PROVE FilesInWar'
  <2>1. CASE SaveUpload(r)
    BY <2>1 DEF SaveUpload
  <2>19. CASE TruncateWar(r)
    BY <2>19 DEF TruncateWar
  <2>2. CASE SaveUploadFails(r)
    BY <2>2 DEF SaveUploadFails
  <2>3. CASE createTempDir(r)
    BY <2>3 DEF createTempDir
  <2>4. CASE createTempDirFails(r)
    BY <2>4 DEF createTempDirFails
  <2>5. CASE ExtractWar(r)
    BY <2>5 DEF ExtractWar
  <2>20. CASE ExtractWarFails(r)
    BY <2>20 DEF ExtractWarFails
  <2>6. CASE WriteWar(r)
    BY <2>6 DEF WriteWar
  <2>7. CASE WriteWarFails(r)
    <3>1. pc[r] = "rewrite" /\ kind[r] = "apply" /\ command[r] = "none"
      BY <2>7 DEF WriteWarFails
    <3>2. CASE Fails(r) /\ UNCHANGED war
      BY <2>7, <3>1, <3>2 DEF WriteWarFails
    <3>3. CASE war' = Torn
      BY <2>7, <3>1, <3>3, TornAssumption DEF WriteWarFails
    <3> QED BY <2>7, <3>2, <3>3 DEF WriteWarFails
  <2>8. CASE warExists(r)
    BY <2>8 DEF warExists, DeployReturns, markCompleted
  <2>9. CASE isRunning(r)
    BY <2>9 DEF isRunning
  <2>10. CASE Start(r)
    BY <2>10 DEF Start
  <2>11. CASE StartFails(r)
    BY <2>11 DEF StartFails, DeployThrows, markCompleted
  <2>12. CASE ListApplications(r)
    BY <2>12 DEF ListApplications
  <2>13. CASE Undeploy(r, "undeploy", "asadmin") \/ Undeploy(r, "cascade", "redeploy")
    BY <2>13 DEF Undeploy
  <2>14. CASE AsadminDeploy(r)
    BY <2>14 DEF AsadminDeploy
  <2>15. CASE AsadminDeployFails(r)
    BY <2>15 DEF AsadminDeployFails, DeployThrows, markCompleted
  <2>16. CASE AsadminDeployConflicts(r)
    BY <2>16 DEF AsadminDeployConflicts
  <2>17. CASE Verify(r)
    BY <2>17 DEF Verify, DeployReturns, markCompleted
  <2>18. CASE Cleanup(r)
    BY <2>18 DEF Cleanup
  <2> QED BY <1>4, <2>1, <2>2, <2>3, <2>4, <2>5, <2>6, <2>7, <2>8, <2>9, <2>10,
             <2>11, <2>12, <2>13, <2>14, <2>15, <2>16, <2>17, <2>18, <2>19, <2>20
          DEF Continue
<1>5. ASSUME NEW r \in Requests, Domain(r) PROVE FilesInWar'
  BY <1>5 DEF Domain, ReadWar, Register
<1> QED BY <1>1, <1>2, <1>3, <1>4, <1>5 DEF Next

\* Before an upload only applyChanges and /deploy/full deploy anything.
LEMMA DeployingKinds ==
  ASSUME TypeOK, FilesInWar, Commands, NEW r \in Requests, pc[r] \in Written
  PROVE  /\ kind[r] \in {"apply", "full"}
         /\ kind[r] = "apply" => answer[r] = None
<1>1. kind[r] \in {"apply", "full", "upload", None}
  BY KindsAssumption DEF TypeOK, Routes
<1>2. kind[r] # "upload"
  BY DEF FilesInWar, Written
<1>3. kind[r] # None
  BY DEF Commands, Written
<1>4. kind[r] = "apply" => answer[r] = None
  BY DEF FilesInWar, Written
<1> QED BY <1>1, <1>2, <1>3, <1>4

\* Every step keeps what the commands in flight carry.
LEMMA CommandsStep ==
  TypeOK /\ Exclusion /\ FilesInWar /\ Commands /\ [Next]_vars /\ ~Uploaded' => Commands'
<1> SUFFICES ASSUME TypeOK, Exclusion, FilesInWar, Commands, [Next]_vars,
                    ~Uploaded'
             PROVE  Commands'
  OBVIOUS
<1> USE NoneAssumption, KindsAssumption DEF Routes, Answers, TypeOK, Exclusion, ApplyMutex, FilesInWar, Deployed, Commands,
            Applying, InFlight, ApplyLabels, Written, ContentOf, Content,
            requestVars, trackerVars, payaraVars, appVars, commandVars,
            Goto, At, Reply, Fails, Removes, Stage, NothingRead, Waits
<1>1. CASE UNCHANGED vars
  BY <1>1 DEF vars
<1>2. CASE Lifecycle
  BY <1>2 DEF Lifecycle, DomainStops, DomainStarts, ApplicationUndeployed
<1>3. ASSUME NEW r \in Requests, Route(r) PROVE Commands'
  <2>1. CASE checkDeploymentInProgress(r)
    BY <2>1 DEF checkDeploymentInProgress, Send
  <2>2. CASE PostDeploy(r)
    BY <2>2 DEF PostDeploy, Send
  <2>3. CASE PostDeployFull(r)
    BY <2>3 DEF PostDeployFull, Send
  <2>4. CASE PostDeployUpload(r)
    BY <2>4 DEF PostDeployUpload, Send
  <2> QED BY <1>3, <2>1, <2>2, <2>3, <2>4 DEF Route
<1>4. ASSUME NEW r \in Requests, Continue(r) PROVE Commands'
  <2>1. CASE SaveUpload(r)
    BY <2>1 DEF SaveUpload
  <2>19. CASE TruncateWar(r)
    BY <2>19 DEF TruncateWar
  <2>2. CASE SaveUploadFails(r)
    BY <2>2 DEF SaveUploadFails
  <2>3. CASE createTempDir(r)
    BY <2>3 DEF createTempDir
  <2>4. CASE createTempDirFails(r)
    BY <2>4 DEF createTempDirFails
  <2>5. CASE ExtractWar(r)
    BY <2>5 DEF ExtractWar
  <2>20. CASE ExtractWarFails(r)
    BY <2>20 DEF ExtractWarFails
  <2>6. CASE WriteWar(r)
    BY <2>6 DEF WriteWar
  <2>7. CASE WriteWarFails(r)
    BY <2>7 DEF WriteWarFails
  <2>8. CASE warExists(r)
    BY <2>8 DEF warExists, DeployReturns, markCompleted
  <2>9. CASE isRunning(r)
    BY <2>9 DEF isRunning
  <2>10. CASE Start(r)
    BY <2>10 DEF Start
  <2>11. CASE StartFails(r)
    BY <2>11 DEF StartFails, DeployThrows, markCompleted
  <2>12. CASE ListApplications(r)
    BY <2>12 DEF ListApplications
  <2>13. CASE Undeploy(r, "undeploy", "asadmin") \/ Undeploy(r, "cascade", "redeploy")
    BY <2>13 DEF Undeploy
  <2>14. CASE AsadminDeploy(r)
    BY <2>14 DEF AsadminDeploy
  <2>15. CASE AsadminDeployFails(r)
    <3>1. CASE kind[r] = "apply"
      BY <2>15, <3>1 DEF AsadminDeployFails, DeployThrows
    <3>2. CASE kind[r] # "apply"
      <4>1. /\ pc' = [pc EXCEPT ![r] = "done"] /\ UNCHANGED <<kind, read>>
            /\ answer' = [answer EXCEPT ![r] = "error"]
            /\ Waits(r)
        BY <2>15, <3>2 DEF AsadminDeployFails, DeployThrows
      <4>2. \/ command[r] = "read" /\ UNCHANGED command
            \/ command' = [command EXCEPT ![r] = "sent"]
            \/ command' = [command EXCEPT ![r] = "none"]
        BY <2>15 DEF AsadminDeployFails
      <4>3. kind[r] = "full"
        BY <3>2, <4>1, DeployingKinds
      <4>4. command'[r] # "registered"
            /\ \A s \in Requests : s # r =>
                 command'[s] = command[s] /\ answer'[s] = answer[s] /\ pc'[s] = pc[s]
        BY <4>1, <4>2
      <4> QED BY <4>1, <4>3, <4>4
    <3> QED BY <3>1, <3>2
  <2>16. CASE AsadminDeployConflicts(r)
    BY <2>16 DEF AsadminDeployConflicts
  <2>17. CASE Verify(r)
    BY <2>17 DEF Verify, DeployReturns, markCompleted
  <2>18. CASE Cleanup(r)
    BY <2>18 DEF Cleanup
  <2> QED BY <1>4, <2>1, <2>2, <2>3, <2>4, <2>5, <2>6, <2>7, <2>8, <2>9, <2>10,
             <2>11, <2>12, <2>13, <2>14, <2>15, <2>16, <2>17, <2>18, <2>19, <2>20
          DEF Continue
<1>5. ASSUME NEW r \in Requests, Domain(r) PROVE Commands'
  <2>1. CASE ReadWar(r)
    <3>1. Waits(r) \/ command[r] = "sent"
      BY <2>1 DEF ReadWar
    <3>2. kind[r] \in {"apply", "full"}
      BY <3>1, DeployingKinds
    <3>3. kind[r] = "apply" => Waits(r) \/ answer[r] = "failed"
      BY <3>1
    <3>4. kind[r] = "apply" => r \in war /\ \A s \in Requests : Deployed(s) => s \in war
      BY <2>1, <3>1 DEF ReadWar
    <3> QED BY <2>1, <3>2, <3>3, <3>4 DEF ReadWar
  <2>2. CASE Register(r)
    BY <2>2 DEF Register
  <2> QED BY <1>5, <2>1, <2>2 DEF Domain
<1> QED BY <1>1, <1>2, <1>3, <1>4, <1>5 DEF Next

\* An answer given at the end of deploy() leaves an overtaken application one.
LEMMA OvertakenStays ==
  ASSUME TypeOK, FilesInWar, Commands, NEW r \in Requests, pc[r] \in Written,
         UNCHANGED <<kind, source>>,
         \A s \in Requests : s # r => answer'[s] = answer[s],
         Overtaken
  PROVE  Overtaken'
<1>1. source \in Requests
  BY DEF TypeOK, Overtaken
<1>2. CASE source = r
  <2>1. kind[r] = "full"
    BY <1>1, <1>2, DeployingKinds, NoneAssumption DEF Overtaken, Answers
  <2> QED BY <1>1, <1>2, <2>1, NoneAssumption DEF Overtaken
<1>3. CASE source # r
  BY <1>1, <1>3, NoneAssumption DEF Overtaken
<1> QED BY <1>2, <1>3

\* Every step keeps the application as new as the answers given.
LEMMA ServedStep ==
  TypeOK /\ Exclusion /\ FilesInWar /\ Commands /\ Served
    /\ [Next]_vars => Served'
<1> SUFFICES ASSUME TypeOK, Exclusion, FilesInWar, Commands, Served,
                    [Next]_vars
             PROVE  Served'
  OBVIOUS
<1> USE NoneAssumption, KindsAssumption DEF Routes, Answers, TypeOK, Exclusion, ApplyMutex, FilesInWar, Deployed, Commands, Served,
            Overtaken,
            Applying, InFlight, ApplyLabels, Written, ContentOf, Content,
            requestVars, trackerVars, payaraVars, appVars, commandVars,
            Goto, At, Reply, Fails, Removes, Stage, NothingRead, Waits
<1>1. CASE UNCHANGED vars
  BY <1>1 DEF vars
<1>2. CASE Lifecycle
  BY <1>2 DEF Lifecycle, DomainStops, DomainStarts, ApplicationUndeployed
<1>3. ASSUME NEW r \in Requests, Route(r) PROVE Served'
  <2>1. CASE checkDeploymentInProgress(r)
    BY <2>1 DEF checkDeploymentInProgress, Send
  <2>2. CASE PostDeploy(r)
    BY <2>2 DEF PostDeploy, Send
  <2>3. CASE PostDeployFull(r)
    BY <2>3 DEF PostDeployFull, Send
  <2>4. CASE PostDeployUpload(r)
    BY <2>4 DEF PostDeployUpload, Send
  <2> QED BY <1>3, <2>1, <2>2, <2>3, <2>4 DEF Route
<1>4. ASSUME NEW r \in Requests, Continue(r) PROVE Served'
  <2>1. CASE SaveUpload(r)
    BY <2>1 DEF SaveUpload
  <2>19. CASE TruncateWar(r)
    BY <2>19 DEF TruncateWar
  <2>2. CASE SaveUploadFails(r)
    BY <2>2 DEF SaveUploadFails
  <2>3. CASE createTempDir(r)
    BY <2>3 DEF createTempDir
  <2>4. CASE createTempDirFails(r)
    BY <2>4 DEF createTempDirFails
  <2>5. CASE ExtractWar(r)
    BY <2>5 DEF ExtractWar
  <2>20. CASE ExtractWarFails(r)
    BY <2>20 DEF ExtractWarFails
  <2>6. CASE WriteWar(r)
    BY <2>6 DEF WriteWar
  <2>7. CASE WriteWarFails(r)
    BY <2>7 DEF WriteWarFails
  <2>8. CASE warExists(r)
    BY <2>8 DEF warExists, DeployReturns, markCompleted
  <2>9. CASE isRunning(r)
    BY <2>9 DEF isRunning
  <2>10. CASE Start(r)
    BY <2>10 DEF Start
  <2>11. CASE StartFails(r)
    <3>1. UNCHANGED appVars
      BY <2>11 DEF StartFails
    <3>2. /\ pc[r] \in Written /\ UNCHANGED <<kind, command>>
          /\ pc'[r] \in {"cleanup", "done"} /\ answer'[r] \in {"failed", "error"}
          /\ \A s \in Requests : s # r => pc'[s] = pc[s] /\ answer'[s] = answer[s]
      <4>1. pc[r] = "start" /\ UNCHANGED <<kind, command>> /\ DeployThrows(r)
        BY <2>11 DEF StartFails
      <4>3. PICK a \in {"failed", "error"}, l \in {"cleanup", "done"} :
              Goto(r, l) /\ Reply(r, a)
        BY <4>1, Zenon DEF DeployThrows
      <4> QED BY <4>1, <4>3
    <3> QED BY <3>1, <3>2, OvertakenStays
  <2>12. CASE ListApplications(r)
    BY <2>12 DEF ListApplications
  <2>13. CASE Undeploy(r, "undeploy", "asadmin") \/ Undeploy(r, "cascade", "redeploy")
    BY <2>13 DEF Undeploy
  <2>14. CASE AsadminDeploy(r)
    BY <2>14 DEF AsadminDeploy
  <2>15. CASE AsadminDeployFails(r)
    <3>1. UNCHANGED appVars \/ app' = None
      BY <2>15 DEF AsadminDeployFails
    <3>2. /\ pc[r] \in Written /\ UNCHANGED kind
          /\ pc'[r] \in {"cleanup", "done"} /\ answer'[r] \in {"failed", "error"}
          /\ command'[r] # "registered"
          /\ \A s \in Requests : s # r =>
               pc'[s] = pc[s] /\ answer'[s] = answer[s] /\ command'[s] = command[s]
      <4>1. Waits(r) /\ UNCHANGED kind /\ DeployThrows(r)
        BY <2>15 DEF AsadminDeployFails
      <4>2. \/ command[r] = "read" /\ UNCHANGED command
            \/ command' = [command EXCEPT ![r] = "sent"]
            \/ command' = [command EXCEPT ![r] = "none"]
        BY <2>15 DEF AsadminDeployFails
      <4>3. PICK a \in {"failed", "error"}, l \in {"cleanup", "done"} :
              Goto(r, l) /\ Reply(r, a)
        BY <4>1, Zenon DEF DeployThrows
      <4> QED BY <4>1, <4>2, <4>3
    <3> QED BY <3>1, <3>2, OvertakenStays
  <2>16. CASE AsadminDeployConflicts(r)
    BY <2>16 DEF AsadminDeployConflicts
  <2>17. CASE Verify(r)
    <3>1. UNCHANGED appVars
      BY <2>17 DEF Verify
    <3>2. /\ pc[r] = "verify" /\ UNCHANGED <<kind, command>>
          /\ pc'[r] \in {"cleanup", "done"}
          /\ \A s \in Requests : s # r => pc'[s] = pc[s] /\ answer'[s] = answer[s]
      BY <2>17 DEF Verify, DeployReturns
    <3>3. Overtaken => Overtaken'
      BY <3>1, <3>2, OvertakenStays
    <3> QED BY <3>1, <3>2, <3>3
  <2>18. CASE Cleanup(r)
    BY <2>18 DEF Cleanup
  <2> QED BY <1>4, <2>1, <2>2, <2>3, <2>4, <2>5, <2>6, <2>7, <2>8, <2>9, <2>10,
             <2>11, <2>12, <2>13, <2>14, <2>15, <2>16, <2>17, <2>18, <2>19, <2>20
          DEF Continue
<1>5. ASSUME NEW r \in Requests, Domain(r) PROVE Served'
  <2>1. CASE ReadWar(r)
    BY <2>1 DEF ReadWar
  <2>2. CASE Register(r)
    <3>1. app' = read[r] /\ source' = r /\ command[r] = "read"
          /\ UNCHANGED <<pc, kind, answer>>
      BY <2>2 DEF Register
    <3>2. CASE kind[r] = "full" \/ answer[r] = "failed"
      BY <3>1, <3>2
    <3>3. CASE kind[r] = "apply" /\ answer[r] = None
      <4>1. \A s \in Requests : s = r \/ Deployed(s) => s \in app'
        BY <3>1, <3>3
      <4>2. \A s \in Requests :
              kind[s] = "apply" /\ (command'[s] = "registered" \/ pc[s] = "verify")
              => s = r
        BY <2>2, <3>1, <3>3 DEF Register
      <4> QED BY <3>1, <4>1, <4>2
    <3> QED BY <3>1, <3>2, <3>3
  <2> QED BY <1>5, <2>1, <2>2 DEF Domain
<1> QED BY <1>1, <1>2, <1>3, <1>4, <1>5 DEF Next

\* All that is invariant, the last three until an upload is accepted.
UpdatesInv ==
  TypeOK /\ Exclusion /\ (~Uploaded => FilesInWar /\ Commands /\ Served)

LEMMA UpdatesInvariant == Spec => []UpdatesInv
<1>1. Init => Exclusion /\ FilesInWar /\ Commands /\ Served
  BY NoneAssumption
  DEF Init, Exclusion, FilesInWar, Commands, Served, Deployed, ApplyMutex,
      Applying, InFlight, ApplyLabels, ContentOf, Written, Answers, Routes
<1>2. UpdatesInv /\ TypeOK' /\ [Next]_vars => UpdatesInv'
  BY ExclusionStep, UploadedStays, UpdatesStep, CommandsStep, ServedStep
  DEF UpdatesInv
<1>3. Init => Exclusion /\ (~Uploaded => FilesInWar /\ Commands /\ Served)
  BY <1>1
<1> QED BY <1>2, <1>3, TypeCorrect, PTL DEF Spec, UpdatesInv

\* Changes answered "deployed" stay in the WAR file until one is uploaded: an
\* archive that lacks them is never written, not even over the remains of a
\* rewrite that failed.
THEOREM NoLostUpdate == Spec => []ChangesKept
<1>1. UpdatesInv => ChangesKept
  BY DEF UpdatesInv, FilesInWar, ChangesKept, Deployed
<1> QED BY <1>1, UpdatesInvariant, PTL

\* Until an upload the application falls behind the answers given only through
\* a deploy command that no lock holds back.
THEOREM ApplicationKeepsUp == Spec => []NoStaleApplication
<1>1. UpdatesInv => NoStaleApplication
  BY DEF UpdatesInv, Served, NoStaleApplication, Deployed
<1> QED BY <1>1, UpdatesInvariant, PTL

-----------------------------------------------------------------------------
(***************************************************************************)
(* POST /deploy implements WarUpdates.  Only three kinds of step are not   *)
(* stutters before an upload: the repackaging adds the request's own       *)
(* files, or destroys the WAR, and the replies are given once.             *)
(***************************************************************************)
Abstract == [Updates!Next]_(Updates!vars)

\* A reply to a POST /deploy is a reply of the abstract request.
LEMMA ReplyMaps ==
  ASSUME TypeOK, NEW r \in Requests, NEW a \in Answers,
         kind \in [Requests -> Kinds \cup {None}],
         kind' = [kind EXCEPT ![r] = "apply"], Reply(r, a), UNCHANGED war,
         ApplyAnswer[r] = None,
         a = "deployed" => r \in ContentOf(war),
         a = "conflict" => r \notin ContentOf(war), ~Uploaded, ~Uploaded'
  PROVE  Abstract
<1>1. ApplyAnswer' = [ApplyAnswer EXCEPT ![r] = a]
  BY DEF TypeOK, ApplyAnswer, Reply
<1>2. Updates!Reply(r)
  BY <1>1, NoneAssumption
  DEF Updates!Reply, Updates!Holds, Updates!Answers, Answers, ContentOf, Uploaded
<1> QED BY <1>2 DEF Abstract, Updates!Next

\* A step that changes neither the file nor an answer to POST /deploy stutters.
LEMMA StutterMaps ==
  ASSUME UNCHANGED <<war, ApplyAnswer>>, ~Uploaded, ~Uploaded'
  PROVE  Abstract
<1>1. Uploaded' = Uploaded
  BY DEF Uploaded
<1> QED BY <1>1 DEF Abstract, Updates!vars

\* From the first upload on, the abstract specification allows every step.
LEMMA UploadMaps ==
  ASSUME TypeOK', Uploaded'
  PROVE  Abstract
<1>1. Uploaded' = TRUE
  BY DEF Uploaded
<1>2. war' \in {None, Torn} \cup SUBSET Requests
  BY DEF TypeOK, Content
<1>3. ApplyAnswer' \in [Requests -> {None} \cup Updates!Answers]
  BY DEF TypeOK, ApplyAnswer, Answers, Updates!Answers
<1>4. Updates!Uploads
  BY <1>1, <1>2, <1>3 DEF Updates!Uploads
<1> QED BY <1>4 DEF Abstract, Updates!Next

\* Before an upload every step is an abstract step or a stutter.
LEMMA RefinementStep ==
  ASSUME UpdatesInv, [Next]_vars, ~Uploaded, ~Uploaded'
  PROVE  Abstract
<1> USE NoneAssumption DEF UpdatesInv, TypeOK, FilesInWar, ApplyAnswer, Answers,
        Routes, Goto, At, requestVars
<1>1. CASE UNCHANGED vars
  BY <1>1, StutterMaps DEF vars
<1>2. CASE Lifecycle
  BY <1>2, StutterMaps DEF Lifecycle, DomainStops, DomainStarts, ApplicationUndeployed
<1>3. ASSUME NEW r \in Requests, Route(r) PROVE Abstract
  <2>1. CASE checkDeploymentInProgress(r)
    <3>1. PICK k \in Kinds : Send(r, k)
      BY <2>1 DEF checkDeploymentInProgress
    <3>2. CASE k = "apply"
      <4>1. kind' = [kind EXCEPT ![r] = "apply"] /\ Reply(r, "conflict")
            /\ UNCHANGED war /\ ApplyAnswer[r] = None /\ r \notin ContentOf(war)
        BY <2>1, <3>1, <3>2 DEF checkDeploymentInProgress, Send, Exclusion
      <4> QED BY <4>1, ReplyMaps
    <3>3. CASE k # "apply"
      BY <2>1, <3>1, <3>3, StutterMaps
        DEF checkDeploymentInProgress, Send, Reply, Exclusion
    <3> QED BY <3>2, <3>3
  <2>2. CASE PostDeploy(r)
    BY <2>2, StutterMaps DEF PostDeploy, Send, Exclusion
  <2>3. CASE PostDeployFull(r)
    BY <2>3, StutterMaps DEF PostDeployFull, Send, Exclusion
  <2>4. CASE PostDeployUpload(r)
    BY <2>4 DEF PostDeployUpload, Send, Uploaded, Exclusion
  <2> QED BY <1>3, <2>1, <2>2, <2>3, <2>4 DEF Route
<1>4. ASSUME NEW r \in Requests, Continue(r) PROVE Abstract
  <2>1. CASE TruncateWar(r) \/ SaveUpload(r) \/ SaveUploadFails(r)
    BY <2>1 DEF TruncateWar, SaveUpload, SaveUploadFails, Exclusion
  <2>2. CASE createTempDirFails(r)
    <3>1. kind' = [kind EXCEPT ![r] = "apply"] /\ ApplyAnswer[r] = None
      BY <2>2 DEF createTempDirFails, Exclusion, ApplyLabels
    <3> QED BY <2>2, <3>1, ReplyMaps DEF createTempDirFails
  <2>3. CASE WriteWarFails(r) \/ ExtractWarFails(r)
    <3>1. kind[r] = "apply" /\ UNCHANGED kind /\ answer[r] = None
      BY <2>3 DEF WriteWarFails, ExtractWarFails, Exclusion, ApplyLabels
    <3>2. CASE UNCHANGED war /\ Reply(r, "failed")
      BY <3>1, <3>2, ReplyMaps
    <3>3. CASE war' = Torn /\ (UNCHANGED answer \/ Reply(r, "failed"))
      <4>1. ApplyAnswer' \in {ApplyAnswer, [ApplyAnswer EXCEPT ![r] = "failed"]}
        BY <3>1, <3>3 DEF Reply
      <4>2. Updates!Tear(r)
        BY <3>1, <3>3, <4>1 DEF Updates!Tear, Uploaded
      <4> QED BY <4>2 DEF Abstract, Updates!Next
    <3> QED BY <2>3, <3>2, <3>3 DEF WriteWarFails, ExtractWarFails, Fails
  <2>4. CASE WriteWar(r)
    <3>1. kind[r] = "apply"
      BY <2>4 DEF WriteWar, Exclusion, ApplyLabels
    <3>2. UNCHANGED ApplyAnswer /\ ApplyAnswer[r] = None
      BY <2>4, <3>1 DEF WriteWar
    <3>3. Updates!Update(r)
      BY <2>4, <3>2
      DEF WriteWar, Updates!Update, Updates!Holds, ContentOf, Uploaded
    <3> QED BY <3>3 DEF Abstract, Updates!Next
  <2>5. CASE warExists(r) \/ Verify(r)
    <3>1. PICK listed \in BOOLEAN : UNCHANGED <<kind, war>>
            /\ (DeployReturns(r, listed) \/ UNCHANGED answer)
            /\ pc[r] \in Written
      BY <2>5 DEF warExists, Verify, Written
    <3>2. CASE kind[r] = "apply" /\ DeployReturns(r, listed)
      <4>1. kind' = [kind EXCEPT ![r] = "apply"] /\ ApplyAnswer[r] = None
            /\ Reply(r, "deployed")
        BY <3>1, <3>2 DEF Written, DeployReturns
      <4>2. war # Torn
        BY <2>5, <3>1, <3>2 DEF warExists, Verify, DeployReturns, Goto, Written
      <4>3. r \in ContentOf(war)
        BY <3>1, <3>2, <4>2
      <4> QED BY <3>1, <4>1, <4>3, ReplyMaps
    <3>3. CASE kind[r] # "apply" \/ UNCHANGED answer
      BY <3>1, <3>3, StutterMaps DEF DeployReturns, Reply
    <3> QED BY <3>1, <3>2, <3>3
  <2>6. CASE StartFails(r) \/ AsadminDeployFails(r)
    <3>1. DeployThrows(r) /\ UNCHANGED <<kind, war>> /\ pc[r] \in Written
      BY <2>6 DEF StartFails, AsadminDeployFails, Written, Waits
    <3>2. CASE kind[r] = "apply"
      <4>1. kind' = [kind EXCEPT ![r] = "apply"] /\ ApplyAnswer[r] = None
            /\ Reply(r, "failed")
        BY <3>1, <3>2 DEF Written, DeployThrows
      <4> QED BY <3>1, <4>1, ReplyMaps
    <3>3. CASE kind[r] # "apply"
      BY <3>1, <3>3, StutterMaps DEF DeployThrows, Reply, markCompleted
    <3> QED BY <3>2, <3>3
  <2>7. CASE UNCHANGED <<kind, answer, war>>
    BY <2>7, StutterMaps
  <2> QED
    <3>1. CASE createTempDir(r) \/ ExtractWar(r) \/ isRunning(r) \/ Start(r)
                 \/ ListApplications(r) \/ AsadminDeploy(r)
                 \/ AsadminDeployConflicts(r) \/ Cleanup(r)
                 \/ Undeploy(r, "undeploy", "asadmin")
                 \/ Undeploy(r, "cascade", "redeploy")
      BY <3>1, <2>7
      DEF createTempDir, ExtractWar, isRunning, Start, ListApplications,
          AsadminDeploy, AsadminDeployConflicts, Cleanup, Undeploy
    <3> QED BY <1>4, <2>1, <2>2, <2>3, <2>4, <2>5, <2>6, <3>1 DEF Continue
<1>5. ASSUME NEW r \in Requests, Domain(r) PROVE Abstract
  BY <1>5, StutterMaps DEF Domain, ReadWar, Register
<1> QED BY <1>1, <1>2, <1>3, <1>4, <1>5 DEF Next

\* What clients see of the WAR file and of the answers to POST /deploy is a
\* behaviour of the specification with indivisible updates.
THEOREM Refinement == Spec => IndivisibleUpdates
<1>1. Init => Updates!Init
  BY NoneAssumption DEF Init, Updates!Init, ApplyAnswer, Uploaded, Routes
<1>2. UpdatesInv /\ TypeOK' /\ [Next]_vars => Abstract
  <2> SUFFICES ASSUME UpdatesInv, TypeOK', [Next]_vars PROVE Abstract
    OBVIOUS
  <2>1. CASE Uploaded'
    BY <2>1, UploadMaps
  <2>2. CASE ~Uploaded'
    BY <2>2, UploadedStays, RefinementStep DEF UpdatesInv
  <2> QED BY <2>1, <2>2
<1> QED BY <1>1, <1>2, UpdatesInvariant, TypeCorrect, PTL
        DEF Spec, IndivisibleUpdates, Updates!Spec, Abstract

-----------------------------------------------------------------------------
(***************************************************************************)
(* The status tracker.  That some deployAuto is in flight does not say     *)
(* which; the invariant does: the deployment shown is one that has started *)
(* and not completed, although the tracker keeps one id for all of them.   *)
(***************************************************************************)
Shown ==
  current # None => kind[current] \in {"full", "upload"} /\ pc[current] \in Written

\* Every step keeps the deployment shown one that is under way.
LEMMA ShownStep == TypeOK /\ Exclusion /\ Shown /\ [Next]_vars => Shown'
<1> SUFFICES ASSUME TypeOK, Exclusion, Shown, [Next]_vars PROVE Shown'
  OBVIOUS
<1> USE NoneAssumption
    DEF TypeOK, Exclusion, Shown, ApplyLabels, Written, Routes, requestVars,
        trackerVars, appVars, commandVars,
            Goto, At, Reply, Fails, Removes, Stage, NothingRead, Waits
<1>1. CASE UNCHANGED vars
  BY <1>1 DEF vars
<1>2. CASE Lifecycle
  BY <1>2 DEF Lifecycle, DomainStops, DomainStarts, ApplicationUndeployed
<1>3. ASSUME NEW r \in Requests, Route(r) PROVE Shown'
  <2>1. CASE checkDeploymentInProgress(r)
    BY <2>1 DEF checkDeploymentInProgress, Send
  <2>2. CASE PostDeploy(r)
    BY <2>2 DEF PostDeploy, Send
  <2>3. CASE PostDeployFull(r)
    BY <2>3 DEF PostDeployFull, Send, markStarted
  <2>4. CASE PostDeployUpload(r)
    BY <2>4 DEF PostDeployUpload, Send
  <2> QED BY <1>3, <2>1, <2>2, <2>3, <2>4 DEF Route
<1>4. ASSUME NEW r \in Requests, Continue(r) PROVE Shown'
  <2>1. CASE TruncateWar(r) \/ SaveUpload(r) \/ SaveUploadFails(r)
    BY <2>1 DEF TruncateWar, SaveUpload, SaveUploadFails, markStarted
  <2>2. CASE createTempDir(r) \/ createTempDirFails(r) \/ ExtractWar(r)
             \/ ExtractWarFails(r) \/ WriteWar(r) \/ WriteWarFails(r) \/ Cleanup(r)
    BY <2>2 DEF createTempDir, createTempDirFails, ExtractWar, ExtractWarFails, WriteWar,
                WriteWarFails, Cleanup
  <2>3. CASE warExists(r) \/ Verify(r)
    BY <2>3 DEF warExists, Verify, DeployReturns, markCompleted
  <2>4. CASE StartFails(r) \/ AsadminDeployFails(r)
    BY <2>4 DEF StartFails, AsadminDeployFails, DeployThrows, markCompleted
  <2>5. CASE isRunning(r) \/ Start(r) \/ ListApplications(r)
             \/ Undeploy(r, "undeploy", "asadmin")
             \/ Undeploy(r, "cascade", "redeploy")
             \/ AsadminDeploy(r) \/ AsadminDeployConflicts(r)
    BY <2>5 DEF isRunning, Start, ListApplications, Undeploy, AsadminDeploy,
                AsadminDeployConflicts
  <2> QED BY <1>4, <2>1, <2>2, <2>3, <2>4, <2>5 DEF Continue
<1>5. ASSUME NEW r \in Requests, Domain(r) PROVE Shown'
  BY <1>5 DEF Domain, ReadWar, Register
<1> QED BY <1>1, <1>2, <1>3, <1>4, <1>5 DEF Next

\* No deployment id outlives the requests that run deployAuto, in whatever
\* order they start, fail and complete.
THEOREM TrackerSettles == Spec => []NoPhantomDeployment
<1>1. Init => Exclusion /\ Shown
  BY DEF Init, Exclusion, Shown, ApplyMutex, Applying, InFlight, ApplyLabels
<1>2. TypeOK /\ Shown => NoPhantomDeployment
  BY DEF TypeOK, Shown, NoPhantomDeployment, InFlight, Written
<1> QED BY <1>1, <1>2, TypeCorrect, ExclusionStep, ShownStep, PTL DEF Spec


-----------------------------------------------------------------------------
(***************************************************************************)
(* The clients, however their requests overlap and whatever their clocks   *)
(* show.  The tracker keeps one time and one result for all requests; both *)
(* are those of the request that recorded last, and that one has ended, so *)
(* that no later step changes what a verdict was drawn from.               *)
(***************************************************************************)
ClientStates == {"idle", "waiting", "polling"} \cup Verdicts

PollingTypeOK ==
  /\ client \in [Requests -> ClientStates]
  /\ requestStartTime \in [Requests -> Int]
  /\ sentAt \in [Requests -> Nat]
  /\ recordedAt \in [Requests -> Nat]
  /\ now # 0

Ended(r) == pc[r] = "done" /\ answer[r] # None

\* The clocks differ by at most Skew, and an ended request has its answer.
Clocks ==
  /\ \A r \in Requests : requestStartTime[r] >= sentAt[r] - Skew
  /\ \A r \in Requests : pc[r] \in {"cleanup", "done"} => answer[r] # None

Is(result, s) ==
  IF result = "success" THEN answer[s] = "deployed"
                        ELSE answer[s] \in {"failed", "error"}

LastRecorded ==
  lastCompletedAt # 0 =>
    /\ lastResult \in {"success", "failure"}
    /\ \E s \in Requests : /\ recordedAt[s] = lastCompletedAt
                           /\ Ended(s) /\ Is(lastResult, s)

Fresh(r) ==
  client[r] \in {"success", "failure"} =>
    \/ Ended(r) /\ Is(client[r], r)
    \/ \E s \in Requests : /\ recordedAt[s] # 0
                           /\ recordedAt[s] > sentAt[r] - Skew
                           /\ Ended(s) /\ Is(client[r], s)

AgentInv == TypeOK /\ Exclusion

PollingInv ==
  /\ AgentInv /\ PollingTypeOK /\ Clocks /\ LastRecorded
  /\ \A r \in Requests : Fresh(r)

\* The agent itself moves in HotDeploy's steps only.
LEMMA PollingAgent == PollingNext => Tick \/ [Next]_vars
BY DEF PollingNext, AgentStep, AgentWorks, SendRequest, ClientStep,
       ReceiveAnswer, RequestTimesOut, ConnectionFails, pollDeploymentStatus,
       PollTimesOut, Next

LEMMA AgentInvStep == AgentInv /\ [PollingNext]_pollingVars => AgentInv'
<1>1. AgentInv /\ [Next]_vars => AgentInv'
  BY TypeStep, ExclusionStep DEF AgentInv
<1>2. ASSUME AgentInv, Tick PROVE AgentInv'
  <2>1. now' \in Nat
    BY <1>2 DEF Tick, AgentInv, TypeOK
  <2>2. TypeOK'
    BY <1>2, <2>1 DEF Tick, AgentInv, TypeOK, requestVars, payaraVars, appVars,
                      commandVars
  <2>3. Exclusion'
    BY <1>2 DEF Tick, AgentInv, Exclusion, requestVars, ApplyMutex, Applying,
                InFlight
  <2> QED BY <2>2, <2>3 DEF AgentInv
<1> QED BY <1>1, <1>2, PollingAgent DEF pollingVars

\* A step of request r leaves the others alone; it records nothing, or it ends
\* r and records what r is answered.
LEMMA ContinueEffect ==
  ASSUME AgentInv, NEW r \in Requests, Continue(r)
  PROVE  /\ pc[r] # "done" /\ now' = now
         /\ \A s \in Requests : s # r => pc'[s] = pc[s] /\ answer'[s] = answer[s]
         /\ pc'[r] \in {"cleanup", "done"} => answer'[r] # None \/ answer'[r] = answer[r]
         /\ pc'[r] \in {"cleanup", "done"} /\ pc[r] # "cleanup" => answer'[r] # None
         /\ \/ ~Recorded(r) /\ UNCHANGED <<lastCompletedAt, lastResult>>
            \/ /\ Recorded(r) /\ lastCompletedAt' = now
               /\ lastResult' \in {"success", "failure"}
               /\ IF lastResult' = "success" THEN answer'[r] = "deployed"
                                             ELSE answer'[r] \in {"failed", "error"}
<1> USE NoneAssumption
    DEF AgentInv, TypeOK, Exclusion, ApplyLabels, Deploying, Recorded, Answers,
        requestVars, trackerVars, Goto, At, Reply, Fails, Waits
<1>1. CASE TruncateWar(r) \/ SaveUpload(r) \/ SaveUploadFails(r)
  BY <1>1 DEF TruncateWar, SaveUpload, SaveUploadFails, markStarted
<1>2. CASE createTempDir(r) \/ createTempDirFails(r) \/ ExtractWar(r)
           \/ ExtractWarFails(r) \/ WriteWar(r) \/ WriteWarFails(r) \/ Cleanup(r)
  BY <1>2 DEF createTempDir, createTempDirFails, ExtractWar, ExtractWarFails,
              WriteWar, WriteWarFails, Cleanup
<1>3. CASE warExists(r) \/ Verify(r)
  BY <1>3 DEF warExists, Verify, DeployReturns, markCompleted
<1>4. CASE StartFails(r) \/ AsadminDeployFails(r)
  BY <1>4 DEF StartFails, AsadminDeployFails, DeployThrows, markCompleted
<1>5. CASE isRunning(r) \/ Start(r) \/ ListApplications(r)
           \/ Undeploy(r, "undeploy", "asadmin")
           \/ Undeploy(r, "cascade", "redeploy")
           \/ AsadminDeploy(r) \/ AsadminDeployConflicts(r)
  BY <1>5 DEF isRunning, Start, ListApplications, Undeploy, AsadminDeploy,
              AsadminDeployConflicts
<1> QED BY <1>1, <1>2, <1>3, <1>4, <1>5 DEF Continue

\* A request that arrives touches none that has ended, and records nothing.
LEMMA RouteEffect ==
  ASSUME AgentInv, NEW r \in Requests, Route(r)
  PROVE  /\ pc[r] = "idle" /\ ~Recorded(r)
         /\ pc'[r] \in {"cleanup", "done"} => answer'[r] # None
         /\ \A s \in Requests : s # r => pc'[s] = pc[s] /\ answer'[s] = answer[s]
         /\ UNCHANGED <<lastCompletedAt, lastResult, now>>
<1> USE NoneAssumption
    DEF AgentInv, TypeOK, Exclusion, Recorded, Deploying, Answers, requestVars,
        trackerVars, Goto, Reply, Send
<1>1. CASE checkDeploymentInProgress(r)
  BY <1>1 DEF checkDeploymentInProgress
<1>2. CASE PostDeploy(r)
  BY <1>2 DEF PostDeploy
<1>3. CASE PostDeployFull(r)
  BY <1>3 DEF PostDeployFull, markStarted
<1>4. CASE PostDeployUpload(r)
  BY <1>4 DEF PostDeployUpload
<1> QED BY <1>1, <1>2, <1>3, <1>4 DEF Route

LEMMA SurroundingsEffect ==
  ASSUME TypeOK, now # 0,
         Lifecycle \/ \E r \in Requests : Domain(r)
  PROVE  UNCHANGED <<pc, answer, lastCompletedAt, lastResult>> /\ now' # 0
BY DEF Lifecycle, DomainStops, DomainStarts, ApplicationUndeployed, Domain, ReadWar,
       Register, requestVars, trackerVars

\* A step after which ended requests are as they were, and which records
\* nothing, keeps what was drawn from them.
LEMMA NothingRecorded ==
  ASSUME PollingInv, UNCHANGED <<lastCompletedAt, lastResult, recordedAt>>,
         \A s \in Requests : Ended(s) => Ended(s)' /\ answer'[s] = answer[s]
  PROVE  /\ LastRecorded'
         /\ \A r \in Requests : client'[r] = client[r] /\ sentAt'[r] = sentAt[r]
                                => Fresh(r)'
BY DEF PollingInv, LastRecorded, Fresh, Is

\* What a client does keeps the verdicts.
LEMMA ClientKeeps ==
  ASSUME PollingInv, NEW r \in Requests, ClientStep(r)
  PROVE  PollingTypeOK' /\ Clocks' /\ LastRecorded' /\ \A s \in Requests : Fresh(s)'
<1>1. UNCHANGED <<vars, requestStartTime, historyVars>>
  BY DEF ClientStep, ReceiveAnswer, RequestTimesOut, ConnectionFails,
         pollDeploymentStatus, PollTimesOut
<1>2. UNCHANGED <<pc, answer, lastCompletedAt, lastResult, now, sentAt,
                  recordedAt, requestStartTime>>
  BY <1>1 DEF vars, requestVars, trackerVars, historyVars
<1>3. PICK state : Becomes(r, state) /\ state \in Verdicts \cup {"polling"}
               /\ (state \in {"success", "failure"} =>
                     \/ Ended(r) /\ Is(state, r)
                     \/ \E s \in Requests : /\ recordedAt[s] # 0
                                            /\ recordedAt[s] > sentAt[r] - Skew
                                            /\ Ended(s) /\ Is(state, s))
  <2>1. CASE ReceiveAnswer(r)
    <3>1. Ended(r) /\ answer[r] \in Answers
      BY <2>1 DEF ReceiveAnswer, PollingInv, AgentInv, TypeOK, Clocks, Ended
    <3> QED BY <2>1, <3>1 DEF ReceiveAnswer, Verdicts, Is, Answers
  <2>2. CASE RequestTimesOut(r) \/ ConnectionFails(r) \/ PollTimesOut(r)
    BY <2>2 DEF RequestTimesOut, ConnectionFails, PollTimesOut, Verdicts
  <2>3. CASE pollDeploymentStatus(r)
    <3>1. /\ Becomes(r, lastResult) /\ lastCompletedAt # 0
          /\ lastCompletedAt > requestStartTime[r]
      BY <2>3 DEF pollDeploymentStatus
    <3>2. PICK s \in Requests : /\ recordedAt[s] = lastCompletedAt
                                /\ Ended(s) /\ Is(lastResult, s)
      BY <3>1 DEF PollingInv, LastRecorded
    <3>3. lastCompletedAt > sentAt[r] - Skew
      BY <3>1, TimeAssumption
      DEF PollingInv, AgentInv, TypeOK, PollingTypeOK, Clocks
    <3>4. lastResult \in {"success", "failure"}
      BY <3>1 DEF PollingInv, LastRecorded
    <3> QED BY <3>1, <3>2, <3>3, <3>4 DEF Verdicts
  <2> QED BY <2>1, <2>2, <2>3 DEF ClientStep
<1>4. PollingTypeOK' /\ Clocks'
  BY <1>2, <1>3 DEF PollingInv, PollingTypeOK, ClientStates, Clocks, Becomes
<1>5. LastRecorded' /\ \A s \in Requests : s # r => Fresh(s)'
  BY <1>2, <1>3, NothingRecorded DEF PollingInv, PollingTypeOK, Ended, Becomes
<1>6. Fresh(r)'
  <2>1. client'[r] = state
    BY <1>3 DEF PollingInv, PollingTypeOK, Becomes
  <2> QED BY <1>2, <1>3, <2>1 DEF Fresh, Ended, Is
<1> QED BY <1>4, <1>5, <1>6

\* A request that is sent has no verdict yet.
LEMMA SendKeeps ==
  ASSUME PollingInv, TypeOK', NEW r \in Requests, SendRequest(r)
  PROVE  PollingTypeOK' /\ Clocks' /\ LastRecorded' /\ \A s \in Requests : Fresh(s)'
<1>1. PICK offset \in -Skew..Skew :
        /\ client' = [client EXCEPT ![r] = "waiting"]
        /\ requestStartTime' = [requestStartTime EXCEPT ![r] = now + offset]
        /\ sentAt' = [sentAt EXCEPT ![r] = now]
  BY DEF SendRequest, Becomes
<1>2. /\ pc[r] = "idle" /\ ~Recorded(r)
      /\ pc'[r] \in {"cleanup", "done"} => answer'[r] # None
      /\ \A s \in Requests : s # r => pc'[s] = pc[s] /\ answer'[s] = answer[s]
      /\ UNCHANGED <<lastCompletedAt, lastResult, now>>
  BY RouteEffect DEF SendRequest, PollingInv
<1>3. recordedAt' = recordedAt
  BY <1>2 DEF SendRequest, Stamped, Recorded, Deploying, PollingInv, PollingTypeOK
<1>4. PollingTypeOK'
  <2>1. now \in Nat /\ offset \in Int /\ now + offset \in Int
    BY TimeAssumption DEF PollingInv, AgentInv, TypeOK
  <2> QED BY <1>1, <1>2, <1>3, <2>1 DEF PollingInv, PollingTypeOK, ClientStates
<1>5. Clocks'
  <2>1. now + offset >= now - Skew
    BY TimeAssumption DEF PollingInv, AgentInv, TypeOK
  <2>2. \A s \in Requests : (requestStartTime[s] >= sentAt[s] - Skew)'
    BY <1>1, <2>1 DEF PollingInv, PollingTypeOK, Clocks
  <2> QED BY <1>2, <2>2 DEF PollingInv, Clocks
<1>6. LastRecorded' /\ \A s \in Requests : s # r => Fresh(s)'
  BY <1>1, <1>2, <1>3, NothingRecorded DEF PollingInv, PollingTypeOK, Ended
<1>7. Fresh(r)'
  BY <1>1 DEF Fresh, PollingInv, PollingTypeOK
<1> QED BY <1>4, <1>5, <1>6, <1>7

\* What the agent does keeps them: it changes no ended request, and records a
\* result and its time together.
LEMMA AgentKeeps ==
  ASSUME PollingInv, AgentStep
  PROVE  PollingTypeOK' /\ Clocks' /\ LastRecorded' /\ \A s \in Requests : Fresh(s)'
<1>1. UNCHANGED <<client, requestStartTime, sentAt>> /\ Stamped
  BY DEF AgentStep, AgentWorks, Unseen, clientVars
<1>2. CASE Lifecycle \/ \E r \in Requests : Domain(r)
  <2>1. UNCHANGED <<pc, answer, lastCompletedAt, lastResult>> /\ now' # 0
    BY <1>2, SurroundingsEffect DEF PollingInv, AgentInv, PollingTypeOK
  <2>2. recordedAt' = recordedAt
    BY <1>1, <2>1 DEF Stamped, Recorded, Deploying, PollingInv, PollingTypeOK
  <2>3. PollingTypeOK' /\ Clocks'
    BY <1>1, <2>1, <2>2 DEF PollingInv, PollingTypeOK, Clocks
  <2>4. LastRecorded' /\ \A s \in Requests : Fresh(s)'
    BY <1>1, <2>1, <2>2, NothingRecorded DEF Ended
  <2> QED BY <2>3, <2>4
<1>3. ASSUME NEW r \in Requests, Continue(r)
      PROVE  PollingTypeOK' /\ Clocks' /\ LastRecorded' /\ \A s \in Requests : Fresh(s)'
  <2>1. /\ pc[r] # "done" /\ now' = now
        /\ \A s \in Requests : s # r => pc'[s] = pc[s] /\ answer'[s] = answer[s]
        /\ pc'[r] \in {"cleanup", "done"} => answer'[r] # None \/ answer'[r] = answer[r]
        /\ pc'[r] \in {"cleanup", "done"} /\ pc[r] # "cleanup" => answer'[r] # None
    BY <1>3, ContinueEffect DEF PollingInv
  <2>2. \A s \in Requests : s # r => ~Recorded(s)
    BY <2>1 DEF Recorded, Deploying
  <2>3. \A s \in Requests : Ended(s) => s # r /\ Ended(s)' /\ answer'[s] = answer[s]
    BY <2>1 DEF Ended
  <2>4. Clocks'
    BY <1>1, <2>1 DEF PollingInv, Clocks
  <2>5. CASE ~Recorded(r) /\ UNCHANGED <<lastCompletedAt, lastResult>>
    <3>1. recordedAt' = recordedAt
      BY <1>1, <2>2, <2>5 DEF Stamped, PollingInv, PollingTypeOK
    <3>2. PollingTypeOK'
      BY <1>1, <2>1, <3>1 DEF PollingInv, PollingTypeOK
    <3> QED BY <1>1, <2>3, <2>4, <2>5, <3>1, <3>2, NothingRecorded
  <2>6. CASE /\ Recorded(r) /\ lastCompletedAt' = now
             /\ lastResult' \in {"success", "failure"}
             /\ IF lastResult' = "success" THEN answer'[r] = "deployed"
                                           ELSE answer'[r] \in {"failed", "error"}
    <3>1. recordedAt' = [recordedAt EXCEPT ![r] = now]
      BY <1>1, <2>2, <2>6 DEF Stamped, PollingInv, PollingTypeOK
    <3>2. PollingTypeOK'
      BY <1>1, <2>1, <3>1 DEF PollingInv, PollingTypeOK, AgentInv, TypeOK
    <3>3. Ended(r)' /\ Is(lastResult, r)'
      BY <2>1, <2>6 DEF Ended, Is, Recorded, Deploying
    <3>4. LastRecorded'
      BY <2>6, <3>1, <3>3 DEF LastRecorded, PollingInv, PollingTypeOK
    <3>5. \A s \in Requests : Ended(s) => recordedAt'[s] = recordedAt[s]
      BY <2>3, <3>1 DEF PollingInv, PollingTypeOK
    <3>6. \A s \in Requests : Fresh(s)'
      BY <1>1, <2>3, <3>5 DEF PollingInv, Fresh, Is
    <3> QED BY <2>4, <3>2, <3>4, <3>6
  <2> QED BY <1>3, <2>5, <2>6, ContinueEffect DEF PollingInv
<1> QED BY <1>2, <1>3 DEF AgentStep, AgentWorks

\* Time passes without touching what was recorded.
LEMMA TickKeeps ==
  ASSUME PollingInv, Tick
  PROVE  PollingTypeOK' /\ Clocks' /\ LastRecorded' /\ \A s \in Requests : Fresh(s)'
<1>1. /\ UNCHANGED <<pc, answer, lastCompletedAt, lastResult, recordedAt, client,
                     requestStartTime, sentAt>>
      /\ now' # 0
  BY DEF Tick, requestVars, clientVars, historyVars, PollingInv, AgentInv, TypeOK
<1>2. PollingTypeOK' /\ Clocks'
  BY <1>1 DEF PollingInv, PollingTypeOK, Clocks
<1>3. LastRecorded' /\ \A s \in Requests : Fresh(s)'
  BY <1>1, NothingRecorded DEF Ended
<1> QED BY <1>2, <1>3

LEMMA PollingInvariant == PollingSpec => []PollingInv
<1>1. PollingInit => PollingInv
  <2> SUFFICES ASSUME PollingInit PROVE PollingInv
    OBVIOUS
  <2>1. TypeOK
    BY InitTypeOK DEF PollingInit
  <2>2. Exclusion
    BY DEF PollingInit, Init, Exclusion, ApplyMutex, Applying, InFlight,
           ApplyLabels
  <2>3. PollingTypeOK /\ Clocks
    BY TimeAssumption DEF PollingInit, Init, PollingTypeOK, ClientStates, Clocks
  <2>4. LastRecorded /\ \A r \in Requests : Fresh(r)
    BY DEF PollingInit, Init, LastRecorded, Fresh
  <2> QED BY <2>1, <2>2, <2>3, <2>4 DEF PollingInv, AgentInv
<1>2. PollingInv /\ [PollingNext]_pollingVars => PollingInv'
  <2> SUFFICES ASSUME PollingInv, [PollingNext]_pollingVars PROVE PollingInv'
    OBVIOUS
  <2>1. AgentInv'
    BY AgentInvStep DEF PollingInv
  <2>2. CASE UNCHANGED pollingVars
    <3>1. UNCHANGED <<pc, answer, lastCompletedAt, lastResult, now, client,
                      requestStartTime, sentAt, recordedAt>>
      BY <2>2 DEF pollingVars, clientVars, historyVars, vars, requestVars,
                  trackerVars
    <3>2. PollingTypeOK' /\ Clocks'
      BY <3>1 DEF PollingInv, PollingTypeOK, Clocks
    <3>3. LastRecorded' /\ \A s \in Requests : Fresh(s)'
      BY <3>1, NothingRecorded DEF Ended
    <3> QED BY <2>1, <3>2, <3>3 DEF PollingInv
  <2>3. CASE PollingNext
    BY <2>1, <2>3, TickKeeps, AgentKeeps, SendKeeps, ClientKeeps
    DEF PollingNext, PollingInv, AgentInv
  <2> QED BY <2>2, <2>3
<1> QED BY <1>1, <1>2, PTL DEF PollingSpec

\* Any number of clients, of any routes, at the same time, with clocks that
\* differ from the agent's by up to Skew: a verdict is the agent's own answer,
\* or the result of one deployment that ended less than Skew before the request.
THEOREM FreshVerdicts == PollingSpec => []VerdictIsFresh
<1>1. PollingInv => VerdictIsFresh
  BY DEF PollingInv, Fresh, Is, VerdictIsFresh, FreshWithin, Agrees
<1> QED BY <1>1, PollingInvariant, PTL

=============================================================================
