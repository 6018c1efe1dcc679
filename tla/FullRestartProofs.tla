-------------------------- MODULE FullRestartProofs --------------------------
(***************************************************************************)
(* Proofs about FullRestart, for any number of requests, crashes and       *)
(* signals.                                                                *)
(***************************************************************************)
EXTENDS FullRestart, TLAPS

-----------------------------------------------------------------------------
(***************************************************************************)
(* Types, and where a request may be, whatever overlaps or fails.          *)
(***************************************************************************)
\* Between the end of acquire and the finally block.
Working(r) == Protected(r) /\ pc[r] # "release"

\* The route a request was sent to and the step it is in go with its await.
RequestShape(r) ==
  /\ pc[r] # "idle" => kind[r] \in {"apply", "auto"}
  /\ pc[r] # "idle" /\ kind[r] = "auto" =>
       pc[r] \in {"body", "done"} /\ (pc[r] = "body" => step[r] >= kill)
  /\ pc[r] \in {"lockRead", "lockWrite", "journal", "body"} => step[r] >= warUpdate
  /\ pc[r] = "body" => step[r] # stop
  /\ pc[r] = "rewrite" => step[r] = warUpdate
  /\ pc[r] = "complete" => step[r] = verify
  /\ pc[r] \in {"idle", "isLocked", "forceRemove", "acquire", "startJournal", "release",
                "done"} => step[r] = 0
  /\ pc[r] = "lockWrite" => seen[r] # None

Shape == TypeOK /\ \A r \in Requests : RequestShape(r)

LEMMA ShapeInit == Init => Shape
<1> SUFFICES ASSUME Init PROVE Shape
  OBVIOUS
<1> USE DEF Init
<1>1. LockTypeOK /\ JournalTypeOK
  <2>1. JournalTypeOK
    BY DEF JournalInit, JournalTypeOK
  <2>2. {acquired, pendingShutdown, resend} \subseteq BOOLEAN
    BY DEF LockInit, FreshMemory
  <2> QED
    BY <2>1, <2>2 DEF LockInit, FreshMemory, LockTypeOK
<1>2. TypeOK
  <2>1. pc \in [Requests -> Labels] /\ step \in [Requests -> Steps]
    BY DEF Labels, Steps, verify
  <2>2. extracted \in [Requests -> SUBSET Requests] /\ war \in Content /\ app \in Content
    BY DEF Content
  <2> QED
    BY <1>1, <2>1, <2>2 DEF TypeOK
<1>3. ASSUME NEW r \in Requests PROVE RequestShape(r)
  BY DEF RequestShape
<1> QED
  BY <1>2, <1>3 DEF Shape

\* A step of one request leaves the others where they are, and the process.
LEMMA RequestFrame ==
  ASSUME Shape, NEW r \in Requests, Route(r) \/ Continue(r)
  PROVE  /\ pc' = [pc EXCEPT ![r] = pc'[r]]
         /\ kind' = [kind EXCEPT ![r] = kind'[r]]
         /\ step' = [step EXCEPT ![r] = step'[r]]
         /\ seen' = [seen EXCEPT ![r] = seen'[r]]
         /\ answer' = [answer EXCEPT ![r] = answer'[r]]
         /\ extracted' = [extracted EXCEPT ![r] = extracted'[r]]
         /\ UNCHANGED <<agentVars, pid>>
<1> USE DEF Shape, TypeOK, Goto, Forget, Reply, Answer, Finally, Throw, NextStep,
            requestVars, payaraVars, agentVars, lockVars, journalVars
<1>1. CASE Route(r)
  BY <1>1 DEF Route, checkDeploymentInProgress, PostDeploy, PostDeployFull, Send
<1>2. CASE CheckLockFile(r) \/ RemoveStaleLock(r) \/ Acquire(r) \/ AcquireFails(r)
  BY <1>2 DEF CheckLockFile, RemoveStaleLock, Acquire, AcquireFails, forceRemove, writeLockFile
<1>3. CASE StartJournal(r) \/ ReadLockFile(r) \/ WriteLockFile(r) \/ PersistStep(r)
  BY <1>3 DEF StartJournal, ReadLockFile, WriteLockFile, PersistStep, UpdateJournal, writeStep
<1>4. CASE ExtractWar(r) \/ WriteWar(r) \/ Undeploy(r) \/ Kill(r)
  BY <1>4 DEF ExtractWar, WriteWar, Undeploy, Kill, InBody
<1>5. CASE Start(r) \/ Deploy(r) \/ Verify(r)
  BY <1>5 DEF Start, Deploy, Verify, InBody
<1>6. CASE Complete(r) \/ Release(r)
  BY <1>6 DEF Complete, Release, release
<1> QED
  BY <1>1, <1>2, <1>3, <1>4, <1>5, <1>6 DEF Continue

\* The two ways on from an await in the middle of a request.
Thrown(r) ==
  /\ pc'[r] \in {"release", "done"} /\ (kind[r] = "auto" => pc'[r] = "done")
  /\ step'[r] = 0 /\ answer'[r] \in Answers /\ deployLock' \in BOOLEAN

Proceeds(r) ==
  /\ pc'[r] = IF kind[r] = "auto" THEN "body" ELSE "lockRead"
  /\ step'[r] = step[r] + 1 /\ answer'[r] = answer[r] /\ deployLock' = deployLock

LEMMA WaysOn ==
  ASSUME TypeOK, NEW r \in Requests
  PROVE  /\ \A a \in Answers : Answer(r, a) => Thrown(r)
         /\ \A a \in Answers : Finally(r, a) /\ kind[r] # "auto" => Thrown(r)
         /\ Throw(r) => Thrown(r)
         /\ NextStep(r) => Thrown(r) \/ Proceeds(r)
<1> USE DEF TypeOK, Thrown, Proceeds, Goto, Forget, Reply, Answer, Finally, Answers
<1>1. \A a \in Answers : Answer(r, a) => Thrown(r)
  OBVIOUS
<1>2. \A a \in Answers : Finally(r, a) /\ kind[r] # "auto" => Thrown(r)
  OBVIOUS
<1>3. Throw(r) => Thrown(r)
  BY DEF Throw
<1> QED
  BY <1>1, <1>2, <1>3 DEF NextStep

\* Where a step takes the request itself.
OwnShape(r) ==
  /\ pc'[r] \in Labels /\ kind'[r] \in Kinds \cup {None} /\ step'[r] \in Steps
  /\ answer'[r] \in Answers \cup {None}
  /\ seen'[r] \in {None} \cup LockFiles /\ extracted'[r] \in SUBSET Requests
  /\ deployLock' \in BOOLEAN
  /\ RequestShape(r)'

LEMMA WaysOnShape ==
  ASSUME Shape, NEW r \in Requests, pc[r] # "idle", kind'[r] = kind[r],
         seen'[r] \in {None} \cup LockFiles, extracted'[r] \in SUBSET Requests
  PROVE  /\ Thrown(r) => OwnShape(r)
         /\ /\ Proceeds(r) /\ step[r] < verify
            /\ kind[r] = "auto" => step[r] >= kill
            => OwnShape(r)
<1> USE DEF Shape, TypeOK, RequestShape, OwnShape, Labels, Steps, Thrown, Proceeds,
            warUpdate, undeploy, stop, kill, verify
<1>1. Thrown(r) => OwnShape(r)
  OBVIOUS
<1>2. ASSUME Proceeds(r), step[r] < verify, kind[r] = "auto" => step[r] >= kill
      PROVE  OwnShape(r)
  <2>1. step'[r] \in 1..verify /\ step'[r] \in Steps
    BY <1>2
  <2>2. kind[r] \in {"apply", "auto"}
    OBVIOUS
  <2>3. CASE kind[r] = "auto"
    BY <1>2, <2>1, <2>3
  <2>4. CASE kind[r] = "apply"
    BY <1>2, <2>1, <2>4
  <2> QED
    BY <2>2, <2>3, <2>4
<1> QED
  BY <1>1, <1>2

LEMMA StepShape ==
  ASSUME Shape, NEW r \in Requests, Route(r) \/ Continue(r)
  PROVE  OwnShape(r)
<1>1. ASSUME pc[r] # "idle", kind'[r] = kind[r],
             \/ Throw(r)
             \/ NextStep(r) /\ step[r] < verify /\ (kind[r] = "auto" => step[r] >= kill),
             seen'[r] \in {None} \cup LockFiles, extracted'[r] \in SUBSET Requests
      PROVE  OwnShape(r)
  BY <1>1, WaysOn, WaysOnShape DEF Shape
<1>2. /\ pc[r] \in Labels /\ kind[r] \in Kinds \cup {None} /\ step[r] \in Steps
      /\ answer[r] \in Answers \cup {None} /\ deployLock \in BOOLEAN
      /\ seen[r] \in {None} \cup LockFiles /\ extracted[r] \in SUBSET Requests
      /\ war \in Content \cup {Torn} /\ lockFile \in {None} \cup LockFiles
      /\ RequestShape(r)
  BY DEF Shape, TypeOK, LockTypeOK
<1>4. /\ pc \in [Requests -> Labels] /\ kind \in [Requests -> Kinds \cup {None}]
      /\ step \in [Requests -> Steps] /\ answer \in [Requests -> Answers \cup {None}]
      /\ seen \in [Requests -> {None} \cup LockFiles]
      /\ extracted \in [Requests -> SUBSET Requests]
  BY DEF Shape, TypeOK
<1> USE <1>2, <1>4 DEF RequestShape, Goto, Forget, Reply, Answer, Labels, requestVars, InBody
<1>5. CASE Route(r)
  <2> USE KindsAssumption DEF OwnShape, Answers, Steps, kill, verify, Send
  <2>1. CASE checkDeploymentInProgress(r)
    BY <2>1 DEF checkDeploymentInProgress
  <2>2. CASE PostDeploy(r)
    BY <2>2 DEF PostDeploy
  <2>3. CASE PostDeployFull(r)
    BY <2>3 DEF PostDeployFull, stop, warUpdate
  <2> QED
    BY <1>5, <2>1, <2>2, <2>3 DEF Route
<1>6. CASE CheckLockFile(r) \/ RemoveStaleLock(r) \/ Acquire(r) \/ AcquireFails(r)
  BY <1>6 DEF CheckLockFile, RemoveStaleLock, Acquire, AcquireFails, OwnShape, Answers, Steps,
              verify
<1>7. CASE StartJournal(r)
  <2>1. step[r] < verify /\ kind[r] # "auto" /\ NextStep(r)
    BY <1>7 DEF StartJournal, verify
  <2> QED
    BY <1>1, <1>7, <2>1 DEF StartJournal
<1>8. ASSUME pc[r] \in {"lockRead", "lockWrite"}, UpdateJournal(r),
             kind'[r] = kind[r], seen'[r] \in {None} \cup LockFiles,
             extracted'[r] = extracted[r]
      PROVE  OwnShape(r)
  <2>1. CASE Throw(r)
    BY <1>1, <1>8, <2>1
  <2>2. CASE ~Throw(r)
    BY <1>8, <2>2 DEF UpdateJournal, OwnShape
  <2> QED
    BY <2>1, <2>2
<1>9. CASE ReadLockFile(r)
  <2>1. CASE lockFile = None
    BY <1>8, <1>9, <2>1 DEF ReadLockFile
  <2>2. CASE lockFile # None
    BY <1>9, <2>2 DEF ReadLockFile, OwnShape
  <2> QED
    BY <2>1, <2>2
<1>10. CASE WriteLockFile(r)
  BY <1>8, <1>10 DEF WriteLockFile
<1>11. CASE PersistStep(r)
  <2>0. kind[r] # "auto" /\ pc[r] # "idle" /\ UNCHANGED <<kind, seen, extracted>>
    BY <1>11 DEF PersistStep
  <2>1. CASE Throw(r) \/ (NextStep(r) /\ step[r] = stop)
    BY <1>1, <2>0, <2>1 DEF stop, verify
  <2>2. CASE ~ (Throw(r) \/ (NextStep(r) /\ step[r] = stop))
    BY <1>11, <2>2 DEF PersistStep, OwnShape
  <2> QED
    BY <2>1, <2>2
<1>12. CASE ExtractWar(r)
  <2>1. pc[r] # "idle" /\ kind' = kind /\ seen' = seen /\ extracted'[r] \in SUBSET Requests
    BY <1>12 DEF ExtractWar, ContentOf, Content
  <2>2. CASE Throw(r)
    BY <1>1, <2>1, <2>2
  <2>3. CASE ~Throw(r)
    BY <1>12, <2>1, <2>3 DEF ExtractWar, OwnShape, kill, warUpdate
  <2> QED
    BY <2>2, <2>3
<1>13. CASE WriteWar(r)
  <2>1. extracted'[r] \in SUBSET Requests
    BY <1>13 DEF WriteWar
  <2> QED
    BY <1>1, <1>13, <2>1 DEF WriteWar, warUpdate, verify
<1>14. CASE Undeploy(r) \/ Kill(r) \/ Start(r) \/ Deploy(r)
  <2>1. /\ pc[r] # "idle" /\ UNCHANGED <<kind, seen, extracted>>
        /\ Throw(r) \/ NextStep(r)
        /\ step[r] \in {undeploy, kill, start, deploy}
    BY <1>14 DEF Undeploy, Kill, Start, Deploy
  <2>2. step[r] < verify /\ (kind[r] = "auto" => step[r] >= kill)
    BY <2>1 DEF undeploy, kill, start, deploy, verify, Undeploy
  <2> QED
    BY <1>1, <2>1, <2>2
<1>15. CASE Verify(r)
  <2>1. /\ kind'[r] = kind[r] /\ UNCHANGED <<seen, extracted>>
        /\ Thrown(r) \/ (Goto(r, "complete") /\ UNCHANGED <<step, answer, deployLock>>)
    BY <1>15, WaysOn DEF Verify, Answers, Shape
  <2>2. CASE Thrown(r)
    BY <1>15, <2>1, <2>2, WaysOnShape DEF Verify
  <2>3. CASE Goto(r, "complete") /\ UNCHANGED <<step, answer, deployLock>>
    BY <1>15, <2>1, <2>3 DEF Verify, OwnShape
  <2> QED
    BY <2>1, <2>2, <2>3
<1>16. CASE Complete(r)
  <2>1. Thrown(r) /\ kind'[r] = kind[r] /\ UNCHANGED <<seen, extracted>>
    BY <1>16, WaysOn DEF Complete, Answers, Shape
  <2> QED
    BY <1>16, <2>1, WaysOnShape DEF Complete
<1>17. CASE Release(r)
  BY <1>17 DEF Release, OwnShape
<1> QED
  BY <1>5, <1>6, <1>7, <1>9, <1>10, <1>11, <1>12, <1>13, <1>14, <1>15, <1>16, <1>17
     DEF Continue

\* What a step of a request leaves of the WAR, the application and the files.
LEMMA OtherTypes ==
  ASSUME Shape, NEW r \in Requests, Route(r) \/ Continue(r)
  PROVE  war' \in Content \cup {Torn} /\ app' \in Content /\ running' \in BOOLEAN
         /\ LockTypeOK' /\ JournalTypeOK'
<1> USE DEF Shape, TypeOK, requestVars, payaraVars, agentVars, lockVars, memoryVars,
        handlerVars, journalVars, LockTypeOK, JournalTypeOK
<1>1. CASE Route(r)
  BY <1>1 DEF Route, checkDeploymentInProgress, PostDeploy, PostDeployFull, Send
<1>2. CASE CheckLockFile(r) \/ RemoveStaleLock(r) \/ AcquireFails(r)
  BY <1>2 DEF CheckLockFile, RemoveStaleLock, AcquireFails, forceRemove
<1>3. CASE Acquire(r)
  BY <1>3 DEF Acquire, writeLockFile, registerSignalHandler, startJournal, LockFiles,
              Checkpoints, Steps, verify
<1>4. CASE StartJournal(r) \/ PersistStep(r)
  BY <1>4 DEF StartJournal, PersistStep, persist
<1>5. ASSUME UpdateJournal(r) PROVE JournalTypeOK'
  BY <1>5 DEF UpdateJournal, updateJournal, Checkpoints
<1>6. CASE ReadLockFile(r)
  BY <1>5, <1>6 DEF ReadLockFile
<1>7. CASE WriteLockFile(r)
  <2>1. seen[r] \in LockFiles
    BY <1>7 DEF WriteLockFile, RequestShape
  <2> QED
    BY <1>5, <1>7, <2>1 DEF WriteLockFile, writeStep, LockFiles
<1>8. CASE ExtractWar(r) \/ WriteWar(r)
  BY <1>8 DEF ExtractWar, WriteWar, Content
<1>9. CASE Undeploy(r) \/ Kill(r) \/ Start(r) \/ Deploy(r)
  BY <1>9 DEF Undeploy, Kill, Start, Deploy, Content
<1>10. CASE Verify(r) \/ Complete(r) \/ Release(r)
  BY <1>10 DEF Verify, Complete, Release, release, restoreSignalHandler
<1> QED
  BY <1>1, <1>2, <1>3, <1>4, <1>6, <1>7, <1>8, <1>9, <1>10 DEF Continue

LEMMA RequestKeepsShape ==
  ASSUME Shape, NEW r \in Requests, Route(r) \/ Continue(r)
  PROVE  Shape'
<1>1. /\ pc' = [pc EXCEPT ![r] = pc'[r]] /\ kind' = [kind EXCEPT ![r] = kind'[r]]
      /\ step' = [step EXCEPT ![r] = step'[r]] /\ seen' = [seen EXCEPT ![r] = seen'[r]]
      /\ answer' = [answer EXCEPT ![r] = answer'[r]]
      /\ extracted' = [extracted EXCEPT ![r] = extracted'[r]]
      /\ UNCHANGED <<agentVars, pid>>
  BY RequestFrame
<1>2. OwnShape(r)
  BY StepShape
<1>3. TypeOK'
  BY <1>1, <1>2, OtherTypes DEF Shape, TypeOK, OwnShape, agentVars
<1>4. ASSUME NEW s \in Requests, s # r PROVE RequestShape(s)'
  <2>1. pc'[s] = pc[s] /\ kind'[s] = kind[s] /\ step'[s] = step[s] /\ seen'[s] = seen[s]
    BY <1>1, <1>4 DEF Shape, TypeOK
  <2> QED
    BY <2>1 DEF Shape, RequestShape
<1> QED
  BY <1>2, <1>3, <1>4 DEF Shape, OwnShape

\* The end of the process ends every request.
LEMMA DeathShape ==
  ASSUME Shape, Dies, crashes' \in Nat, sigterms' \in Nat, war' \in {war, Torn}
  PROVE  Shape'
<1> USE DEF Shape, TypeOK
<1>1. \A r \in Requests :
        /\ pc'[r] = IF InFlight(r) THEN "done" ELSE pc[r]
        /\ kind'[r] = kind[r] /\ step'[r] = 0 /\ seen'[r] = None
  BY DEF Dies
<1>2. LockTypeOK' /\ JournalTypeOK'
  BY DEF Dies, ForgetMemory, LockTypeOK, JournalTypeOK
<1>3. TypeOK'
  <2>1. pc' \in [Requests -> Labels] /\ answer' \in [Requests -> Answers \cup {None}]
    BY DEF Dies, Labels, Answers
  <2>2. step' \in [Requests -> Steps]
    BY DEF Dies, Steps, verify
  <2>3. /\ seen' \in [Requests -> {None} \cup LockFiles]
        /\ extracted' \in [Requests -> SUBSET Requests]
        /\ deployLock' \in BOOLEAN /\ agent' \in {"up", "down"}
        /\ UNCHANGED <<kind, app, running>>
    BY DEF Dies, payaraVars
  <2> QED
    BY <1>2, <2>1, <2>2, <2>3
<1>4. ASSUME NEW r \in Requests PROVE RequestShape(r)'
  BY <1>1 DEF RequestShape, InFlight
<1> QED
  BY <1>3, <1>4

LEMMA ShapeStep == Shape /\ [Next]_vars => Shape'
<1> SUFFICES ASSUME Shape, [Next]_vars PROVE Shape'
  OBVIOUS
<1> USE DEF flowVars, requestVars, payaraVars, agentVars, lockVars, memoryVars, handlerVars,
            journalVars
<1>1. CASE UNCHANGED vars
  BY <1>1 DEF vars, Shape, TypeOK, RequestShape, LockTypeOK, JournalTypeOK
<1>2. ASSUME NEW r \in Requests, Route(r) \/ Continue(r) PROVE Shape'
  BY <1>2, RequestKeepsShape
<1>3. CASE Sigterm \/ ResendSigterm \/ Crash
  <2>1. crashes' \in Nat /\ sigterms' \in Nat
    BY <1>3 DEF Sigterm, ResendSigterm, Crash, Shape, TypeOK
  <2>2. CASE Dies
    <3>1. war' \in {war, Torn}
      BY <1>3, <2>2 DEF Sigterm, ResendSigterm, Crash, ReceiveSigterm
    <3> QED
      BY <2>1, <2>2, <3>1, DeathShape
  <2>3. CASE ~Dies
    <3>1. /\ UNCHANGED <<flowVars, requestVars, war, payaraVars, agent, pid, lockFile,
                         expired, acquired, handlerVars, journalVars>>
          /\ pendingShutdown' = TRUE /\ resend' \in BOOLEAN
      BY <1>3, <2>3 DEF Sigterm, ResendSigterm, Crash, ReceiveSigterm, deferSigterm, Shape,
                        TypeOK, LockTypeOK
    <3> QED
      BY <2>1, <3>1 DEF Shape, TypeOK, RequestShape, LockTypeOK, JournalTypeOK
  <2> QED
    BY <2>2, <2>3
<1>4. CASE Restart
  <2>1. running' \in BOOLEAN /\ app' \in Content
    BY <1>4 DEF Restart, Startup, Shape, TypeOK
  <2>2. pid' \in Nat
    BY <1>4 DEF Restart, Shape, TypeOK, LockTypeOK
  <2>3. /\ UNCHANGED <<flowVars, requestVars, war, crashes, sigterms, lockFile, expired,
                      memoryVars, journalVars>>
        /\ agent' = "up"
    BY <1>4 DEF Restart
  <2>4. TypeOK'
    BY <2>1, <2>2, <2>3 DEF Shape, TypeOK, LockTypeOK, JournalTypeOK
  <2>5. \A r \in Requests : RequestShape(r)'
    BY <2>3 DEF Shape, RequestShape
  <2> QED
    BY <2>4, <2>5 DEF Shape
<1>5. CASE Expire
  BY <1>5 DEF Expire, LockExpires, Shape, TypeOK, RequestShape, LockTypeOK, JournalTypeOK,
              LockFiles
<1> QED
  BY <1>1, <1>2, <1>3, <1>4, <1>5 DEF Next

LEMMA ShapeAlways == Spec => []Shape
BY ShapeInit, ShapeStep, PTL DEF Spec

\* The variables of the agent have their types.
THEOREM TypeCorrect == Spec => []TypeOK
<1>1. Shape => TypeOK
  BY DEF Shape
<1> QED
  BY <1>1, ShapeAlways, PTL


-----------------------------------------------------------------------------
(***************************************************************************)
(* deployLock, whatever overlaps or fails.                                 *)
(***************************************************************************)
Settling == deployLock => \E r \in Requests : Working(r)

\* A deployment that holds the lock leaves it only through its finally block.
LEMMA WorkingStep ==
  ASSUME Shape, NEW r \in Requests, Route(r) \/ Continue(r), deployLock'
  PROVE  Working(r) \/ ~deployLock => Working(r)'
<1>1. /\ kind[r] \in Kinds \cup {None} /\ RequestShape(r)
      /\ pc \in [Requests -> Labels]
  BY DEF Shape, TypeOK
<1> USE <1>1 DEF Working, Protected, InFlight, Goto, Finally, RequestShape, requestVars
<1>2. Throw(r) => kind[r] = "auto"
  BY DEF Throw
<1>3. ASSUME NextStep(r), kind[r] # "auto" PROVE pc'[r] = "lockRead"
  BY <1>2, <1>3 DEF NextStep
<1>4. ASSUME kind'[r] = "apply",
             pc'[r] \in {"startJournal", "lockRead", "lockWrite", "journal", "body",
                         "rewrite", "complete"}
      PROVE  Working(r)'
  BY <1>4
<1>5. CASE Route(r)
  BY <1>5 DEF Route, checkDeploymentInProgress, PostDeploy, PostDeployFull, Send, Answer
<1>6. CASE CheckLockFile(r) \/ RemoveStaleLock(r) \/ AcquireFails(r) \/ Release(r)
  BY <1>6 DEF CheckLockFile, RemoveStaleLock, AcquireFails, Release, Answer
<1>7. CASE Acquire(r)
  BY <1>4, <1>7 DEF Acquire
<1>8. ASSUME UpdateJournal(r), kind[r] # "auto" PROVE pc'[r] = "journal"
  BY <1>2, <1>8 DEF UpdateJournal
<1>9. CASE StartJournal(r) \/ ReadLockFile(r) \/ WriteLockFile(r) \/ PersistStep(r)
  BY <1>2, <1>3, <1>4, <1>8, <1>9 DEF StartJournal, ReadLockFile, WriteLockFile, PersistStep
<1>10. CASE ExtractWar(r) \/ WriteWar(r)
  <2>1. kind' = kind /\ kind[r] # "auto" /\ pc[r] \in {"body", "rewrite"}
    <3>1. kind' = kind /\ (InBody(r, warUpdate) \/ pc[r] = "rewrite")
      BY <1>10 DEF ExtractWar, WriteWar
    <3> QED
      BY <3>1 DEF InBody, kill, warUpdate
  <2>2. Throw(r) => ~deployLock'
    BY <2>1 DEF Throw
  <2>3. CASE pc'[r] = "rewrite" \/ NextStep(r)
    BY <1>3, <1>4, <2>1, <2>3
  <2> QED
    BY <1>10, <2>2, <2>3 DEF ExtractWar, WriteWar
<1>11. CASE Undeploy(r) \/ Kill(r) \/ Start(r) \/ Deploy(r)
  <2>1. kind'[r] = kind[r] /\ (Throw(r) \/ NextStep(r)) /\ pc[r] = "body"
    BY <1>11 DEF Undeploy, Kill, Start, Deploy, InBody
  <2>2. kind[r] = "auto" => deployLock' = deployLock
    BY <2>1 DEF Throw, NextStep, Answer
  <2> QED
    BY <1>2, <1>3, <1>4, <2>1, <2>2
<1>12. CASE Verify(r)
  BY <1>2, <1>4, <1>12 DEF Verify, InBody, Answer
<1>13. CASE Complete(r)
  BY <1>13 DEF Complete
<1> QED
  BY <1>5, <1>6, <1>7, <1>9, <1>10, <1>11, <1>12, <1>13 DEF Continue

LEMMA SettlingStep == Shape /\ Settling /\ [Next]_vars => Settling'
<1> SUFFICES ASSUME Shape, Settling, [Next]_vars, deployLock'
             PROVE  \E r \in Requests : Working(r)'
  BY DEF Settling
<1>1. ASSUME NEW r \in Requests, Route(r) \/ Continue(r)
      PROVE  \E s \in Requests : Working(s)'
  <2>1. CASE Working(r) \/ ~deployLock
    BY <1>1, <2>1, WorkingStep
  <2>2. CASE ~Working(r) /\ deployLock
    <3>1. PICK s \in Requests : Working(s) /\ s # r
      BY <2>2 DEF Settling
    <3>2. pc'[s] = pc[s] /\ kind'[s] = kind[s]
      BY <1>1, <3>1, RequestFrame DEF Shape, TypeOK
    <3> QED
      BY <3>1, <3>2 DEF Working, Protected, InFlight
  <2> QED
    BY <2>1, <2>2
<1>2. CASE UNCHANGED <<pc, kind, deployLock>>
  BY <1>2 DEF Settling, Working, Protected, InFlight
<1> QED
  BY <1>1, <1>2 DEF Next, vars, flowVars, requestVars, Sigterm, ResendSigterm, Crash,
                    ReceiveSigterm, Dies, Restart, Expire

\* Whatever fails or overlaps, the agent does not answer 409 for ever.
THEOREM LockSettles == Spec => []DeployLockSettles
<1>1. Init => Settling
  BY DEF Init, Settling
<1>2. Settling => DeployLockSettles
  BY DEF Settling, DeployLockSettles, Working, Protected
<1> QED
  BY <1>1, <1>2, SettlingStep, ShapeAlways, PTL DEF Spec


-----------------------------------------------------------------------------
(***************************************************************************)
(* The lock, when no request comes in the windows beside deployLock.       *)
(***************************************************************************)
Deploying(r) == kind[r] = "apply" /\ InFlight(r)

\* Memory of a process between acquire and the end of release.
HeldBy(r) ==
  /\ acquired /\ listeners = {"defer"} /\ saved = {"agent"}
  /\ deployLock <=> pc[r] # "release"
  /\ pc[r] \notin {"complete", "release"} => checkpoint # None

Alone == \A r, s \in Requests : Deploying(r) /\ Deploying(s) => r = s
Held == \A r \in Requests : Protected(r) => HeldBy(r)
Unheld ==
  (\A r \in Requests : ~Protected(r)) => ~acquired /\ listeners = {"agent"} /\ saved = {}
Gone == agent = "down" => \A r \in Requests : ~InFlight(r)

\* Every step of a deployment before its release keeps what it holds.
LEMMA HolderStep ==
  ASSUME Shape, NEW r \in Requests, Continue(r), Working(r), HeldBy(r)
  PROVE  /\ kind'[r] = "apply" /\ UNCHANGED <<acquired, listeners, saved>>
         /\ pc'[r] \in {"release", "lockRead", "lockWrite", "journal", "body", "rewrite",
                        "complete"}
         /\ HeldBy(r)'
<1>1. /\ kind[r] = "apply" /\ RequestShape(r) /\ deployLock /\ acquired
      /\ pc \in [Requests -> Labels] /\ kind \in [Requests -> Kinds \cup {None}]
      /\ pc[r] \notin {"idle", "isLocked", "forceRemove", "acquire", "release", "done"}
      /\ pc[r] # "complete" => checkpoint # None
      /\ listeners = {"defer"} /\ saved = {"agent"}
  BY DEF Shape, TypeOK, HeldBy, Working, Protected, InFlight
<1> USE <1>1 DEF Goto, Finally, requestVars, lockVars, memoryVars, handlerVars, journalVars
<1>2. ASSUME Throw(r) PROVE pc'[r] = "release" /\ ~deployLock'
  BY <1>2 DEF Throw
<1>3. ASSUME NextStep(r) PROVE pc'[r] = "lockRead" /\ deployLock' = deployLock
  BY <1>3 DEF NextStep
<1>4. ASSUME UpdateJournal(r)
      PROVE  \/ pc'[r] = "release" /\ ~deployLock'
             \/ pc'[r] = "journal" /\ deployLock' = deployLock /\ checkpoint' # None
  <2>1. CASE checkpoint # None
    <3>1. checkpoint' \in Checkpoints
      BY <1>4, <2>1, OtherTypes DEF UpdateJournal, updateJournal, Shape, TypeOK,
                                    JournalTypeOK, Checkpoints, Steps
    <3> QED
      BY <1>4, <2>1, <3>1, FilesAssumption DEF UpdateJournal
  <2>2. CASE checkpoint = None
    BY <1>2, <1>4, <2>2 DEF UpdateJournal
  <2> QED
    BY <2>1, <2>2
<1>5. CASE StartJournal(r) \/ PersistStep(r)
  BY <1>2, <1>3, <1>5 DEF StartJournal, PersistStep, persist, HeldBy
<1>6. CASE ReadLockFile(r)
  BY <1>2, <1>4, <1>6 DEF ReadLockFile, HeldBy
<1>7. CASE WriteLockFile(r)
  BY <1>2, <1>4, <1>7 DEF WriteLockFile, writeStep, HeldBy
<1>8. CASE ExtractWar(r) \/ WriteWar(r)
  <2>1. CASE ExtractWar(r)
    BY <1>2, <2>1 DEF ExtractWar, InBody, HeldBy
  <2>2. CASE WriteWar(r)
    BY <1>2, <1>3, <2>2 DEF WriteWar, HeldBy
  <2> QED
    BY <1>8, <2>1, <2>2
<1>9. CASE Undeploy(r) \/ Kill(r) \/ Start(r) \/ Deploy(r)
  BY <1>2, <1>3, <1>9 DEF Undeploy, Kill, Start, Deploy, InBody, HeldBy
<1>10. CASE Verify(r) \/ Complete(r)
  BY <1>2, <1>10 DEF Verify, Complete, InBody, HeldBy
<1>11. ~ (CheckLockFile(r) \/ RemoveStaleLock(r) \/ Acquire(r) \/ AcquireFails(r) \/ Release(r))
  BY DEF CheckLockFile, RemoveStaleLock, Acquire, AcquireFails, Release
<1> QED
  BY <1>5, <1>6, <1>7, <1>8, <1>9, <1>10, <1>11 DEF Continue

LEMMA ContinueInFlight == ASSUME NEW r \in Requests, Continue(r) PROVE InFlight(r)
BY DEF Continue, InFlight, CheckLockFile, RemoveStaleLock, Acquire, AcquireFails, StartJournal,
       ReadLockFile, WriteLockFile, PersistStep, ExtractWar, WriteWar, Undeploy, Kill, Start,
       Deploy, Verify, Complete, Release, InBody

LEMMA Others ==
  ASSUME Shape, NEW r \in Requests, Route(r) \/ Continue(r), NEW s \in Requests, s # r
  PROVE  /\ pc'[s] = pc[s] /\ kind'[s] = kind[s] /\ step'[s] = step[s] /\ seen'[s] = seen[s]
         /\ Deploying(s)' <=> Deploying(s)
         /\ Protected(s)' <=> Protected(s)
<1>1. pc'[s] = pc[s] /\ kind'[s] = kind[s] /\ step'[s] = step[s] /\ seen'[s] = seen[s]
  BY RequestFrame DEF Shape, TypeOK
<1> QED
  BY <1>1 DEF Deploying, Protected, InFlight

\* The parts of Owned that speak of memory and of who holds the lock.
Exclusive == Alone /\ Held /\ Unheld /\ Gone

\* A step of a request that neither takes, uses nor gives back the lock.
Beside(r) ==
  /\ UNCHANGED <<acquired, listeners, saved, deployLock, checkpoint>>
  /\ ~Protected(r) /\ ~Protected(r)'
  /\ Deploying(r)' => Deploying(r) \/ \A s \in Requests : ~Deploying(s)

LEMMA BesideKeeps ==
  ASSUME Shape, Exclusive, NEW r \in Requests, Route(r) \/ Continue(r), Beside(r)
  PROVE  Alone' /\ Held' /\ Unheld'
<1>1. Alone'
  BY Others DEF Exclusive, Alone, Beside
<1>2. Held'
  <2> SUFFICES ASSUME NEW s \in Requests, Protected(s)' PROVE HeldBy(s)'
    BY DEF Held
  <2>1. Protected(s) /\ pc'[s] = pc[s]
    BY Others DEF Beside
  <2> QED
    BY <2>1 DEF Beside, Exclusive, Held, HeldBy
<1>3. Unheld'
  BY Others DEF Exclusive, Unheld, Beside
<1> QED
  BY <1>1, <1>2, <1>3

\* Routes and the steps of deployAuto.
LEMMA RouteBeside ==
  ASSUME Shape, Exclusive, ~Overlap, NEW r \in Requests, Route(r)
  PROVE  Beside(r) /\ agent = "up"
<1>1. /\ pc \in [Requests -> Labels] /\ kind \in [Requests -> Kinds \cup {None}]
      /\ pc[r] = "idle" /\ ~InFlight(r) /\ ~Protected(r) /\ agent = "up"
  BY DEF Route, checkDeploymentInProgress, PostDeploy, PostDeployFull, Send, Shape, TypeOK,
         InFlight, Protected
<1>2. UNCHANGED <<acquired, listeners, saved, deployLock, checkpoint>>
  BY DEF Route, checkDeploymentInProgress, PostDeploy, PostDeployFull, Send, Answer, lockVars,
         memoryVars, handlerVars, journalVars
<1> USE <1>1 DEF Send, Goto, Answer, Deploying, Protected, InFlight
<1>3. CASE checkDeploymentInProgress(r)
  BY <1>2, <1>3 DEF checkDeploymentInProgress, Beside
<1>4. CASE PostDeploy(r)
  BY <1>2, <1>4 DEF PostDeploy, Beside, Quiet
<1>5. CASE PostDeployFull(r)
  BY <1>2, <1>5 DEF PostDeployFull, Beside
<1> QED
  BY <1>1, <1>3, <1>4, <1>5 DEF Route

LEMMA AutoBeside ==
  ASSUME Shape, NEW r \in Requests, Continue(r), kind[r] = "auto"
  PROVE  Beside(r)
<1>1. /\ pc[r] = "body" /\ step[r] >= kill /\ kind' = kind
      /\ UNCHANGED <<acquired, listeners, saved, deployLock, checkpoint>>
  <2>1. pc[r] = "body" /\ step[r] >= kill
    BY ContinueInFlight DEF Shape, RequestShape, InFlight
  <2>2. Kill(r) \/ Start(r) \/ Deploy(r) \/ Verify(r)
    BY <2>1 DEF Continue, CheckLockFile, RemoveStaleLock, Acquire, AcquireFails, StartJournal,
                ReadLockFile, WriteLockFile, PersistStep, ExtractWar, WriteWar, Undeploy,
                Complete, Release, InBody, kill, warUpdate, undeploy
  <2>3. Kill(r) \/ Start(r) \/ Deploy(r) =>
          /\ Throw(r) \/ NextStep(r)
          /\ UNCHANGED <<kind, acquired, listeners, saved, checkpoint>>
    BY DEF Kill, Start, Deploy, requestVars, lockVars, memoryVars, handlerVars, journalVars
  <2>4. Throw(r) \/ NextStep(r) => deployLock' = deployLock
    BY DEF Throw, NextStep, Answer
  <2>5. Verify(r) => UNCHANGED <<kind, acquired, listeners, saved, checkpoint, deployLock>>
    BY DEF Verify, Answer, requestVars, lockVars, memoryVars, handlerVars
  <2> QED
    BY <2>1, <2>2, <2>3, <2>4, <2>5
<1> QED
  BY <1>1 DEF Beside, Protected, Deploying

\* The two ends of the protected region.
LEMMA TakesLock ==
  ASSUME Shape, Exclusive, Settling, NEW r \in Requests, Continue(r), Deploying(r), ~Protected(r)
  PROVE  /\ ~deployLock /\ \A s \in Requests : ~Protected(s)
         /\ Beside(r) \/ (Protected(r)' /\ HeldBy(r)' /\ Acquire(r))
<1>1. /\ pc[r] \in {"isLocked", "forceRemove", "acquire"} /\ kind[r] = "apply"
      /\ pc \in [Requests -> Labels] /\ kind \in [Requests -> Kinds \cup {None}]
      /\ step[r] = 0
  BY DEF Protected, Deploying, Shape, TypeOK, RequestShape
<1>2. \A s \in Requests : ~Protected(s)
  BY DEF Exclusive, Alone, Deploying, Protected
<1>3. ~deployLock /\ listeners = {"agent"}
  BY <1>2 DEF Settling, Working, Exclusive, Unheld
<1>4. CheckLockFile(r) \/ RemoveStaleLock(r) \/ Acquire(r) \/ AcquireFails(r)
  BY <1>1 DEF Continue, StartJournal, ReadLockFile, WriteLockFile, PersistStep, ExtractWar,
              WriteWar, Undeploy, Kill, Start, Deploy, Verify, Complete, Release, InBody
<1> USE <1>1, <1>2, <1>3 DEF Goto, Answer, requestVars, lockVars, memoryVars, handlerVars,
                             journalVars, Deploying, Protected, InFlight
<1>5. CASE CheckLockFile(r) \/ RemoveStaleLock(r) \/ AcquireFails(r)
  BY <1>5 DEF CheckLockFile, RemoveStaleLock, AcquireFails, forceRemove, Beside
<1>6. CASE Acquire(r)
  <2>1. checkpoint' \in Checkpoints
    BY <1>6 DEF Acquire, startJournal, Checkpoints, Steps, verify
  <2>2. checkpoint' # None
    BY <2>1, FilesAssumption
  <2> QED
    BY <1>6, <2>2 DEF Acquire, writeLockFile, registerSignalHandler, HeldBy
<1> QED
  BY <1>4, <1>5, <1>6

LEMMA GivesLockBack ==
  ASSUME Shape, Exclusive, NEW r \in Requests, Continue(r), Protected(r), ~Working(r)
  PROVE  /\ Release(r) /\ ~InFlight(r)' /\ deployLock' = deployLock
         /\ ~acquired' /\ listeners' = {"agent"} /\ saved' = {}
<1>1. pc[r] = "release" /\ pc \in [Requests -> Labels]
  BY DEF Working, Shape, TypeOK
<1>2. Release(r)
  BY <1>1 DEF Continue, CheckLockFile, RemoveStaleLock, Acquire, AcquireFails, StartJournal,
              ReadLockFile, WriteLockFile, PersistStep, ExtractWar, WriteWar, Undeploy, Kill,
              Start, Deploy, Verify, Complete, InBody
<1>3. saved = {"agent"}
  BY DEF Exclusive, Held, HeldBy
<1> QED
  BY <1>1, <1>2, <1>3 DEF Release, release, restoreSignalHandler, Goto, InFlight

LEMMA RequestKeepsExclusive ==
  ASSUME Shape, Exclusive, Settling, ~Overlap, NEW r \in Requests, Route(r) \/ Continue(r)
  PROVE  Exclusive'
<1>1. Gone'
  <2>1. agent = "up"
    BY RouteBeside, ContinueInFlight DEF Exclusive, Gone, Shape, TypeOK
  <2>2. agent' = agent
    BY RequestFrame DEF agentVars
  <2> QED
    BY <2>1, <2>2 DEF Gone
<1>2. CASE Beside(r)
  BY <1>1, <1>2, BesideKeeps DEF Exclusive
<1>3. CASE Continue(r) /\ Deploying(r) /\ ~Protected(r) /\ ~Beside(r)
  <2>1. Protected(r)' /\ HeldBy(r)' /\ \A s \in Requests : ~Protected(s)
    BY <1>3, TakesLock
  <2>2. \A s \in Requests : Protected(s)' => s = r
    BY <2>1, Others
  <2>3. Alone'
    BY <1>3, Others DEF Exclusive, Alone
  <2> QED
    BY <1>1, <2>1, <2>2, <2>3 DEF Exclusive, Held, Unheld
<1>4. CASE Continue(r) /\ Working(r)
  <2>1. HeldBy(r)
    BY <1>4 DEF Exclusive, Held, Working
  <2>2. HeldBy(r)' /\ Protected(r)'
    <3>1. /\ kind'[r] = "apply" /\ HeldBy(r)'
          /\ pc'[r] \in {"release", "lockRead", "lockWrite", "journal", "body", "rewrite",
                         "complete"}
      BY <1>4, <2>1, HolderStep
    <3> QED
      BY <3>1 DEF Protected, InFlight
  <2>3. Deploying(r) /\ \A s \in Requests : Protected(s)' => s = r
    BY <1>4, Others DEF Exclusive, Alone, Working, Protected, Deploying
  <2>4. Alone'
    BY <2>3, Others DEF Exclusive, Alone
  <2> QED
    BY <1>1, <2>2, <2>3, <2>4 DEF Exclusive, Held, Unheld
<1>5. CASE Continue(r) /\ Protected(r) /\ ~Working(r)
  <2>1. /\ ~InFlight(r)' /\ ~acquired' /\ listeners' = {"agent"} /\ saved' = {}
    BY <1>5, GivesLockBack
  <2>2. \A s \in Requests : ~Protected(s)'
    BY <1>5, <2>1, Others DEF Exclusive, Alone, Protected, Deploying
  <2>3. Alone'
    BY <2>1, Others DEF Exclusive, Alone, Deploying
  <2> QED
    BY <1>1, <2>1, <2>2, <2>3 DEF Exclusive, Held, Unheld
<1>6. Continue(r) => kind[r] = "auto" \/ Deploying(r)
  BY ContinueInFlight DEF Deploying, Shape, RequestShape, InFlight
<1> QED
  BY <1>2, <1>3, <1>4, <1>5, <1>6, RouteBeside, AutoBeside

LEMMA ExclusiveStep == Shape /\ Exclusive /\ Settling /\ ~Overlap /\ [Next]_vars => Exclusive'
<1> SUFFICES ASSUME Shape, Exclusive, Settling, ~Overlap, [Next]_vars PROVE Exclusive'
  OBVIOUS
<1>1. ASSUME UNCHANGED <<pc, kind, deployLock, checkpoint, acquired, handlerVars>>,
             agent' = "down" => agent = "down"
      PROVE  Exclusive'
  BY <1>1 DEF Exclusive, Alone, Held, Unheld, Gone, HeldBy, Deploying, Protected, InFlight,
              handlerVars
<1>2. ASSUME Dies PROVE Exclusive'
  <2>1. \A r \in Requests : ~InFlight(r)'
    BY <1>2 DEF Dies, InFlight, Shape, TypeOK
  <2> QED
    BY <1>2, <2>1 DEF Dies, ForgetMemory, Exclusive, Alone, Held, Unheld, Gone, Deploying, Protected
<1>3. CASE Sigterm \/ ResendSigterm \/ Crash
  BY <1>1, <1>2, <1>3 DEF Sigterm, ResendSigterm, Crash, ReceiveSigterm, flowVars, requestVars,
                          journalVars
<1>4. CASE Restart \/ Expire
  BY <1>1, <1>4 DEF Restart, Expire, LockExpires, flowVars, requestVars, journalVars,
                    memoryVars, agentVars
<1>5. CASE UNCHANGED vars
  BY <1>1, <1>5 DEF vars, flowVars, requestVars, journalVars, memoryVars, agentVars, lockVars
<1> QED
  BY <1>3, <1>4, <1>5, RequestKeepsExclusive DEF Next

Owned == Shape /\ Settling /\ Exclusive

LEMMA OwnedAlways == ASSUME ~Overlap PROVE Spec => []Owned
<1>1. Init => Owned
  <2> SUFFICES ASSUME Init PROVE Owned
    OBVIOUS
  <2>1. ~deployLock /\ agent = "up" /\ \A r \in Requests : ~InFlight(r)
    BY DEF Init, InFlight
  <2> QED
    BY <2>1, ShapeInit DEF Init, LockInit, FreshMemory, Owned, Settling, Exclusive, Alone, Held,
                           Unheld, Gone, Deploying, Protected
<1>2. Owned /\ [Next]_vars => Owned'
  BY ShapeStep, SettlingStep, ExclusiveStep DEF Owned
<1> QED
  BY <1>1, <1>2, PTL DEF Spec

\* When the two windows beside deployLock see no request, one deployment at a time
\* is between acquire and release.
THEOREM SoleRestart == ASSUME ~Overlap PROVE Spec => []OneRestartAtATime
<1>1. Owned => OneRestartAtATime
  BY DEF Owned, Exclusive, Alone, OneRestartAtATime, Protected, Deploying
<1> QED
  BY <1>1, OwnedAlways, PTL

\* And SIGTERM, sent or sent again, does not end the agent between the two.
THEOREM Deferred == ASSUME ~Overlap PROVE Spec => SigtermDeferred
<1> DEFINE Deferring ==
      (Sigterm \/ ResendSigterm) /\ (\E r \in Requests : Protected(r)) => agent' = "up"
<1>1. Owned /\ [Next]_vars => [Deferring]_vars
  <2> SUFFICES ASSUME Owned, Sigterm \/ ResendSigterm, NEW r \in Requests, Protected(r)
               PROVE  agent' = "up"
    OBVIOUS
  <2>1. acquired /\ listeners = {"defer"} /\ saved = {"agent"}
    BY DEF Owned, Exclusive, Held, HeldBy
  <2>2. ~Terminates
    BY <2>1 DEF Terminates
  <2> QED
    BY <2>2 DEF Sigterm, ResendSigterm, ReceiveSigterm
<1> QED
  BY <1>1, OwnedAlways, PTL DEF Spec, SigtermDeferred


-----------------------------------------------------------------------------
(***************************************************************************)
(* The two files, when writing and removing them does not fail.            *)
(***************************************************************************)
\* The step the files name: updateStep writes before the body of the step.
RecordedStep(r) == IF pc[r] \in {"lockRead", "lockWrite"} THEN step[r] - 1 ELSE step[r]

Recorded(r) ==
  /\ lockFile = [pid |-> pid, id |-> r, step |-> RecordedStep(r)]
  /\ pc[r] = "lockWrite" => seen[r] = lockFile
  /\ pc[r] # "complete" => checkpoint = [id |-> r, step |-> RecordedStep(r)]
  /\ pc[r] \notin {"startJournal", "journal", "complete"} => journalFile = checkpoint

Truthful == \A r \in Requests : Working(r) => Recorded(r)

LEMMA RecordIsFile ==
  ASSUME Shape, NEW r \in Requests, Working(r), Recorded(r)
  PROVE  RecordedStep(r) \in Steps /\ lockFile # None /\ (pc[r] # "complete" => checkpoint # None)
<1>1. RecordedStep(r) \in Steps
  BY DEF Shape, TypeOK, RequestShape, RecordedStep, Steps, verify, warUpdate
<1>2. pid \in Nat
  BY DEF Shape, TypeOK, LockTypeOK
<1>3. lockFile \in LockFiles /\ (pc[r] # "complete" => checkpoint \in Checkpoints)
  BY <1>1, <1>2 DEF Recorded, LockFiles, Checkpoints
<1> QED
  BY <1>1, <1>3, FilesAssumption

LEMMA WorkerRecords ==
  ASSUME Shape, ~IoFaults, NEW r \in Requests, Continue(r), Working(r), HeldBy(r), Recorded(r),
         Working(r)'
  PROVE  Recorded(r)'
<1>1. /\ kind[r] = "apply" /\ RequestShape(r) /\ acquired /\ step[r] \in Steps
      /\ pc \in [Requests -> Labels] /\ step \in [Requests -> Steps]
      /\ pc[r] \notin {"idle", "isLocked", "forceRemove", "acquire", "release", "done"}
      /\ pc'[r] \notin {"release", "done"}
      /\ seen \in [Requests -> {None} \cup LockFiles]
      /\ lockFile # None /\ (pc[r] # "complete" => checkpoint # None)
  BY RecordIsFile DEF Shape, TypeOK, HeldBy, Working, Protected, InFlight
<1> USE <1>1 DEF requestVars, lockVars, memoryVars, handlerVars, journalVars
<1>2. ~Throw(r) /\ \A a \in Answers : ~Finally(r, a)
  BY DEF Throw, Finally, Goto
<1>3. ASSUME NextStep(r) PROVE pc'[r] = "lockRead" /\ step'[r] = step[r] + 1
  BY <1>2, <1>3 DEF NextStep, Goto
<1>4. /\ Recorded(r)
      /\ step[r] \in Nat
  BY DEF Steps, verify
\* The way to the next step leaves the files.
<1>5. ASSUME NextStep(r), UNCHANGED <<pid, lockFile, checkpoint>>, journalFile' = checkpoint,
             pc[r] \in {"startJournal", "journal", "rewrite", "body"}
      PROVE  Recorded(r)'
  BY <1>3, <1>4, <1>5 DEF Recorded, RecordedStep
<1>6. CASE StartJournal(r)
  BY <1>5, <1>6 DEF StartJournal, persist
<1>7. CASE ReadLockFile(r)
  BY <1>4, <1>7 DEF ReadLockFile, Goto, Recorded, RecordedStep
<1>8. CASE WriteLockFile(r)
  <2>1. /\ lockFile' = [lockFile EXCEPT !.step = step[r]] /\ pid' = pid
        /\ pc'[r] = "journal" /\ step'[r] = step[r]
        /\ checkpoint' = [checkpoint EXCEPT !.step = step[r]]
    BY <1>2, <1>4, <1>8 DEF WriteLockFile, writeStep, UpdateJournal, updateJournal, Goto, Recorded
  <2> QED
    BY <1>4, <1>8, <2>1 DEF WriteLockFile, Recorded, RecordedStep
<1>9. CASE PersistStep(r)
  <2>1. CASE NextStep(r)
    BY <1>5, <1>9, <2>1 DEF PersistStep, persist
  <2>2. CASE ~NextStep(r)
    BY <1>2, <1>4, <1>9, <2>2 DEF PersistStep, persist, Goto, Recorded, RecordedStep
  <2> QED
    BY <2>1, <2>2
<1>10. CASE ExtractWar(r)
  BY <1>2, <1>4, <1>10 DEF ExtractWar, InBody, Goto, Recorded, RecordedStep
<1>11. CASE WriteWar(r)
  BY <1>2, <1>4, <1>5, <1>11 DEF WriteWar, Recorded
<1>12. CASE Undeploy(r) \/ Kill(r) \/ Start(r) \/ Deploy(r)
  BY <1>2, <1>4, <1>5, <1>12 DEF Undeploy, Kill, Start, Deploy, InBody, Recorded
<1>13. CASE Verify(r)
  <2>1. /\ pc'[r] = "complete" /\ step'[r] = step[r] /\ UNCHANGED lockVars
        /\ pc[r] = "body"
    BY <1>2, <1>13 DEF Verify, InBody, Goto, Answers
  <2> QED
    BY <1>4, <2>1 DEF Recorded, RecordedStep
<1>14. ~Complete(r)
  BY <1>2 DEF Complete, Answers
<1>15. ~ (CheckLockFile(r) \/ RemoveStaleLock(r) \/ Acquire(r) \/ AcquireFails(r) \/ Release(r))
  BY DEF CheckLockFile, RemoveStaleLock, Acquire, AcquireFails, Release
<1> QED
  BY <1>6, <1>7, <1>8, <1>9, <1>10, <1>11, <1>12, <1>13, <1>14, <1>15 DEF Continue

\* What a request outside the lock does to the files: only a stale lock file
\* goes, and only while nobody holds the lock.
LEMMA OutsiderFiles ==
  ASSUME Shape, Exclusive, Settling, NEW r \in Requests, Route(r) \/ Continue(r), ~Protected(r)
  PROVE  /\ pid' = pid
         /\ \/ UNCHANGED <<lockFile, checkpoint, journalFile>>
            \/ /\ \A s \in Requests : ~Protected(s)
               /\ lockFile' \in {lockFile, None} \/ Acquire(r)
<1>1. CASE Route(r)
  BY <1>1 DEF Route, checkDeploymentInProgress, PostDeploy, PostDeployFull, Send, lockVars,
              journalVars
<1>2. CASE Continue(r) /\ kind[r] = "auto"
  <2>1. pc[r] = "body" /\ step[r] >= kill
    BY <1>2, ContinueInFlight DEF Shape, RequestShape, InFlight
  <2>2. Kill(r) \/ Start(r) \/ Deploy(r) \/ Verify(r)
    BY <1>2, <2>1 DEF Continue, CheckLockFile, RemoveStaleLock, Acquire, AcquireFails,
                StartJournal, ReadLockFile, WriteLockFile, PersistStep, ExtractWar, WriteWar,
                Undeploy, Complete, Release, InBody, kill, warUpdate, undeploy
  <2> QED
    BY <1>2, <2>2 DEF Kill, Start, Deploy, Verify, lockVars, journalVars
<1>3. CASE Continue(r) /\ Deploying(r)
  <2>1. \A s \in Requests : ~Protected(s)
    BY <1>3, TakesLock
  <2>2. pc[r] \in {"isLocked", "forceRemove", "acquire"}
    BY <1>3 DEF Protected, Deploying
  <2>3. CheckLockFile(r) \/ RemoveStaleLock(r) \/ Acquire(r) \/ AcquireFails(r)
    BY <1>3, <2>2 DEF Continue, StartJournal, ReadLockFile, WriteLockFile, PersistStep,
                ExtractWar, WriteWar, Undeploy, Kill, Start, Deploy, Verify, Complete, Release,
                InBody
  <2> QED
    BY <2>1, <2>3 DEF CheckLockFile, RemoveStaleLock, Acquire, AcquireFails, forceRemove,
                      writeLockFile, lockVars
<1>4. Continue(r) => kind[r] = "auto" \/ Deploying(r)
  BY ContinueInFlight DEF Deploying, Shape, RequestShape, InFlight
<1> QED
  BY <1>1, <1>2, <1>3, <1>4

LEMMA RequestKeepsTruth ==
  ASSUME Owned, Owned', Truthful, ~Overlap, ~IoFaults, NEW r \in Requests, Route(r) \/ Continue(r)
  PROVE  Truthful'
<1> SUFFICES ASSUME NEW s \in Requests, Working(s)' PROVE Recorded(s)'
  BY DEF Truthful
<1>1. CASE Working(r)
  <2>1. s = r
    <3>1. Deploying(r) /\ Deploying(s)'
      BY <1>1 DEF Working, Protected, Deploying
    <3> QED
      BY <3>1, Others DEF Owned, Exclusive, Alone
  <2>2. Continue(r) /\ HeldBy(r) /\ Recorded(r)
    BY <1>1, RouteBeside DEF Owned, Exclusive, Held, Working, Truthful, Beside
  <2> QED
    BY <1>1, <2>1, <2>2, WorkerRecords DEF Owned
<1>2. CASE Protected(r) /\ ~Working(r)
  <2>1. Continue(r)
    BY <1>2, RouteBeside DEF Owned, Beside
  <2>2. ~Protected(r)' /\ \A q \in Requests : q # r => ~Protected(q)
    BY <1>2, <2>1, GivesLockBack DEF Owned, Exclusive, Alone, Protected, Deploying
  <2> QED
    BY <2>2, Others DEF Working, Owned
<1>3. CASE ~Protected(r) /\ s # r
  <2>1. /\ Protected(s) /\ pc'[s] = pc[s] /\ step'[s] = step[s] /\ seen'[s] = seen[s]
        /\ Recorded(s)
    BY <1>3, Others DEF Owned, Working, Truthful
  <2>2. UNCHANGED <<pid, lockFile, checkpoint, journalFile>>
    BY <1>3, <2>1, OutsiderFiles DEF Owned
  <2> QED
    BY <2>1, <2>2 DEF Recorded, RecordedStep
<1>4. CASE ~Protected(r) /\ s = r
  <2>1. Acquire(r) /\ step[r] = 0 /\ pc[r] = "acquire" /\ kind[r] = kind'[r]
    <3>1. Continue(r) /\ Deploying(r)
      BY <1>4, RouteBeside, AutoBeside, ContinueInFlight
         DEF Owned, Beside, Working, Shape, RequestShape, InFlight, Deploying
    <3>2. Acquire(r)
      BY <1>4, <3>1, TakesLock DEF Owned, Beside, Working
    <3> QED
      BY <3>2 DEF Owned, Acquire, Shape, RequestShape, requestVars
  <2>2. pc'[r] = "startJournal" /\ step'[r] = 0 /\ pid' = pid
    BY <2>1 DEF Acquire, writeLockFile, Goto, Owned, Shape, TypeOK
  <2> QED
    BY <1>4, <2>1, <2>2 DEF Acquire, writeLockFile, startJournal, Recorded, RecordedStep
<1> QED
  BY <1>1, <1>2, <1>3, <1>4 DEF Working

LEMMA TruthStep ==
  Owned /\ Owned' /\ Truthful /\ ~Overlap /\ ~IoFaults /\ [Next]_vars => Truthful'
<1> SUFFICES ASSUME Owned, Owned', Truthful, ~Overlap, ~IoFaults, [Next]_vars PROVE Truthful'
  OBVIOUS
<1>1. ASSUME UNCHANGED <<flowVars, requestVars, pid, lockFile, journalVars>> PROVE Truthful'
  BY <1>1 DEF Truthful, Recorded, RecordedStep, Working, Protected, InFlight, flowVars,
              requestVars, journalVars
<1>2. ASSUME Dies PROVE Truthful'
  BY <1>2 DEF Dies, Truthful, Working, Protected, InFlight, Owned, Shape, TypeOK
<1>3. CASE Sigterm \/ ResendSigterm \/ Crash
  BY <1>1, <1>2, <1>3 DEF Sigterm, ResendSigterm, Crash, ReceiveSigterm
<1>4. CASE Restart
  <2>1. \A r \in Requests : ~InFlight(r)
    BY <1>4 DEF Restart, Owned, Exclusive, Gone
  <2> QED
    BY <1>4, <2>1 DEF Restart, flowVars, requestVars, Truthful, Working, Protected, InFlight
<1>5. CASE Expire \/ UNCHANGED vars
  BY <1>1, <1>5 DEF Expire, LockExpires, vars, lockVars
<1> QED
  BY <1>3, <1>4, <1>5, RequestKeepsTruth DEF Next

LEMMA TruthAlways == ASSUME ~Overlap, ~IoFaults PROVE Spec => []Truthful
<1>1. Init => Truthful
  BY DEF Init, Truthful, Working, Protected, InFlight
<1> QED
  BY <1>1, TruthStep, OwnedAlways, PTL DEF Spec

\* A deployment in its steps holds deployLock, the memory of the lock and a lock
\* file that tells its own id, process and step.
THEOREM FileTruth == ASSUME ~Overlap, ~IoFaults PROVE Spec => []LockFileTellsTheTruth
<1>1. Owned /\ Truthful => LockFileTellsTheTruth
  <2> SUFFICES ASSUME Owned, Truthful, NEW r \in Requests, Protected(r), pc[r] # "release"
               PROVE  /\ deployLock /\ acquired /\ lockFile # None
                      /\ lockFile.id = r /\ lockFile.pid = pid
                      /\ lockFile.step \in {step[r], step[r] - 1}
    BY DEF LockFileTellsTheTruth
  <2>1. Recorded(r) /\ lockFile # None
    BY RecordIsFile DEF Owned, Truthful, Working
  <2>2. deployLock /\ acquired
    BY DEF Owned, Exclusive, Held, HeldBy
  <2> QED
    BY <2>1, <2>2 DEF Recorded, RecordedStep
<1> QED
  BY <1>1, TruthAlways, OwnedAlways, PTL

\* A crash between any two awaits leaves a journal that does not promise a safe
\* resume once the domain may have been touched.
THEOREM Journaled == ASSUME ~Overlap, ~IoFaults PROVE Spec => []DamageIsJournaled
<1>1. Owned /\ Truthful => DamageIsJournaled
  <2> SUFFICES ASSUME Owned, Truthful, NEW r \in Requests, pc[r] = "body", kind[r] = "apply",
                      step[r] >= undeploy
               PROVE  journalFile # None /\ journalFile.id = r /\ ~canResume(journalFile)
    BY DEF DamageIsJournaled
  <2>1. Working(r)
    BY DEF Working, Protected, InFlight
  <2>2. checkpoint # None /\ journalFile = [id |-> r, step |-> step[r]]
    BY <2>1, RecordIsFile DEF Owned, Truthful, Recorded, RecordedStep
  <2>3. step[r] \in Nat
    BY DEF Owned, Shape, TypeOK, Steps, verify
  <2> QED
    BY <2>1, <2>2, <2>3 DEF Owned, Truthful, Recorded, canResume, undeploy, warUpdate
<1> QED
  BY <1>1, TruthAlways, OwnedAlways, PTL

\* A lock file without a holder is of an earlier process.
Older ==
  /\ lockFile # None => lockFile.pid <= pid
  /\ agent = "up" /\ (\A r \in Requests : ~Protected(r)) /\ lockFile # None =>
       lockFile.pid < pid

LEMMA WorkerKeepsPid ==
  ASSUME Shape, ~IoFaults, NEW r \in Requests, Continue(r), Working(r), Recorded(r)
  PROVE  lockFile'.pid = lockFile.pid
<1>1. CASE WriteLockFile(r)
  <2>1. lockFile' = [lockFile EXCEPT !.step = step[r]]
    BY <1>1 DEF WriteLockFile, writeStep, Recorded
  <2> QED
    BY <2>1 DEF Recorded
<1>2. ~ (CheckLockFile(r) \/ RemoveStaleLock(r) \/ Acquire(r) \/ AcquireFails(r) \/ Release(r))
  BY DEF Working, Protected, CheckLockFile, RemoveStaleLock, Acquire, AcquireFails, Release
<1>3. CASE ~WriteLockFile(r)
  BY <1>2, <1>3 DEF Continue, StartJournal, ReadLockFile, PersistStep, ExtractWar, WriteWar,
                    Undeploy, Kill, Start, Deploy, Verify, Complete, lockVars
<1> QED
  BY <1>1, <1>3

LEMMA RequestKeepsOlder ==
  ASSUME Owned, Owned', Truthful, Truthful', Older, ~Overlap, ~IoFaults, NEW r \in Requests,
         Route(r) \/ Continue(r)
  PROVE  Older'
<1>1. pid \in Nat /\ pid' = pid /\ agent' = agent
  BY RequestFrame DEF Owned, Shape, TypeOK, LockTypeOK, agentVars
<1>2. CASE \E s \in Requests : Working(s)'
  <2>1. PICK s \in Requests : Working(s)' /\ Recorded(s)'
    BY <1>2 DEF Truthful
  <2> QED
    BY <1>1, <2>1 DEF Recorded, Older, Working
<1>3. CASE Working(r)
  <2>1. Continue(r) /\ HeldBy(r) /\ Recorded(r)
    BY <1>3, RouteBeside DEF Owned, Exclusive, Held, Beside, Truthful, Working
  <2>2. Protected(r)'
    BY <1>3, <2>1, HolderStep DEF Protected, InFlight, Owned
  <2>3. lockFile'.pid = pid
    BY <1>3, <2>1, WorkerKeepsPid DEF Owned, Recorded
  <2> QED
    BY <1>1, <2>2, <2>3 DEF Older
<1>4. CASE Protected(r) /\ ~Working(r)
  <2>1. Release(r)
    BY <1>4, RouteBeside, GivesLockBack DEF Owned, Beside
  <2> QED
    BY <2>1 DEF Release, release, Older
<1>5. CASE ~Protected(r) /\ ~Protected(r)'
  <2>1. (\A s \in Requests : ~Protected(s)') => \A s \in Requests : ~Protected(s)
    BY <1>5, Others DEF Owned
  <2>2. ~Acquire(r)
    BY <1>5 DEF Acquire, Protected, InFlight, Goto, Owned, Shape, TypeOK, RequestShape,
                requestVars
  <2>3. lockFile' \in {lockFile, None}
    BY <1>5, <2>2, OutsiderFiles DEF Owned
  <2> QED
    BY <1>1, <2>1, <2>3 DEF Older
<1>6. CASE ~Protected(r) /\ Protected(r)' /\ ~Working(r)'
  <2>1. Continue(r) /\ Deploying(r)
    BY <1>6, RouteBeside, AutoBeside, ContinueInFlight
       DEF Owned, Beside, Shape, RequestShape, InFlight, Deploying
  <2>2. Acquire(r)
    BY <1>6, <2>1, TakesLock DEF Owned, Beside
  <2> QED
    BY <1>6, <2>2 DEF Acquire, Goto, Working, Owned, Shape, TypeOK
<1> QED
  BY <1>2, <1>3, <1>4, <1>5, <1>6

LEMMA OlderStep ==
  /\ Owned /\ Owned' /\ Truthful /\ Truthful' /\ Older
  /\ ~Overlap /\ ~IoFaults /\ ~PidReuse /\ [Next]_vars
  => Older'
<1> SUFFICES ASSUME Owned, Owned', Truthful, Truthful', Older, ~Overlap, ~IoFaults, ~PidReuse,
                    [Next]_vars
             PROVE  Older'
  OBVIOUS
<1>1. ASSUME UNCHANGED <<flowVars, requestVars, pid, lockFile, agent>> PROVE Older'
  BY <1>1 DEF Older, Protected, InFlight, flowVars, requestVars
<1>2. ASSUME Dies PROVE Older'
  BY <1>2 DEF Dies, Older
<1>3. CASE Sigterm \/ ResendSigterm \/ Crash
  BY <1>1, <1>2, <1>3 DEF Sigterm, ResendSigterm, Crash, ReceiveSigterm
<1>4. CASE Restart
  <2>1. pid' = pid + 1 /\ lockFile' = lockFile
    BY <1>4 DEF Restart
  <2>2. pid \in Nat /\ lockFile \in {None} \cup LockFiles
    BY DEF Owned, Shape, TypeOK, LockTypeOK
  <2> QED
    BY <2>1, <2>2 DEF Older, LockFiles
<1>5. CASE Expire \/ UNCHANGED vars
  BY <1>1, <1>5 DEF Expire, LockExpires, vars, lockVars, agentVars
<1> QED
  BY <1>3, <1>4, <1>5, RequestKeepsOlder DEF Next

\* When every process has a pid of its own, a deployment that is over leaves no lock
\* file that would refuse the next one, and the agent's own SIGTERM listener.
THEOREM NothingLeft ==
  ASSUME ~Overlap, ~IoFaults, ~PidReuse PROVE Spec => []LockLeavesNothing
<1>1. Init => Older
  BY DEF Init, LockInit, Older
<1>2. Owned /\ Older => LockLeavesNothing
  BY DEF Owned, Older, LockLeavesNothing, Exclusive, Unheld, Shape, TypeOK, LockTypeOK, LockFiles
<1> QED
  BY <1>1, <1>2, OlderStep, TruthAlways, OwnedAlways, PTL DEF Spec

=============================================================================
