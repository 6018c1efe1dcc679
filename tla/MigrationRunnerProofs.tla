------------------------ MODULE MigrationRunnerProofs ------------------------
(***************************************************************************)
(* Proofs about MigrationRunner, for any number of runs, files and faults. *)
(***************************************************************************)
EXTENDS MigrationRunner, WellFoundedInduction, TLAPS

-----------------------------------------------------------------------------
(***************************************************************************)
(* The least file of a set, and the file a run is at.                      *)
(***************************************************************************)
LEMMA LeastFile ==
  ASSUME NEW T \in SUBSET Files, T # {}
  PROVE  Min(T) \in T /\ \A f \in T : Min(T) <= f
<1>1. T \subseteq Nat
  BY FilesAssumption DEF Files
<1> DEFINE Less == OpToRel(<, Nat)
<1>2. Less = {p \in Nat \X Nat : p[1] < p[2]}
  BY DEF OpToRel
<1>3. IsWellFoundedOn(Less, Nat)
  BY NatLessThanWellFounded
<1> HIDE DEF Less
<1>4. PICK x \in T : \A y \in T : ~ (<<y, x>> \in Less)
  BY <1>1, <1>3, WFMin
<1>5. ASSUME NEW y \in T PROVE x <= y
  <2>1. x \in Nat /\ y \in Nat
    BY <1>1, <1>4
  <2>2. y < x => <<y, x>> \in Less
    BY <1>2, <2>1
  <2>3. ~ (y < x)
    BY <1>4, <2>2
  <2> QED
    BY <2>1, <2>3
<1> QED
  BY <1>5 DEF Min

LEMMA LargerOf ==
  ASSUME NEW a \in Nat, NEW b \in Nat
  PROVE  Max({a, b}) \in {a, b} /\ Max({a, b}) >= a /\ Max({a, b}) >= b
<1>1. \E x \in {a, b} : \A y \in {a, b} : x >= y
  OBVIOUS
<1> QED
  BY <1>1 DEF Max

\* What a run has still to do.
Left(r) == reconcile[r] \cup pending[r]

LEMMA CurrentFile ==
  ASSUME TypeOK, NEW r \in Runners, Left(r) # {}
  PROVE  /\ Current(r) \in Left(r) /\ Current(r) \in Files
         /\ reconcile[r] # {} => Current(r) \in reconcile[r]
         /\ reconcile[r] = {} => \A f \in pending[r] : Current(r) <= f
<1>1. reconcile[r] \in SUBSET Files /\ pending[r] \in SUBSET Files
  BY DEF TypeOK
<1>2. CASE reconcile[r] # {}
  BY <1>1, <1>2, LeastFile DEF Current, Left
<1>3. CASE reconcile[r] = {}
  BY <1>1, <1>3, LeastFile DEF Current, Left
<1> QED
  BY <1>2, <1>3

-----------------------------------------------------------------------------
(***************************************************************************)
(* Type correctness.  A run between its first file and its last has one at *)
(* hand.                                                                   *)
(***************************************************************************)
AtFile(r) == pc[r] \in {"held", "assert", "claim", "body", "recheck", "mark"}

HasFile == \A r \in Runners : AtFile(r) => Left(r) # {}

HasStatement ==
  \A r \in Runners : pc[r] \in {"claim", "assert", "body"} => stmt[r] \in 1..NumStmts

Typed == TypeOK /\ HasFile /\ HasStatement

\* Whatever happens to one run.
Move(r) == Start(r) \/ Step(r) \/ KillSession(r) \/ Crash(r)

LEMMA NextIsMove == Next <=> \E r \in Runners : Move(r)
BY DEF Next, Move

\* Every step of a run keeps the variables in their types.
LEMMA TypedStep ==
  ASSUME Typed, NEW r \in Runners, Move(r)
  PROVE  Typed'
<1> USE FilesAssumption DEF Typed, HasFile, HasStatement, AtFile, Left, Labels,
        TypeOK, Goto, At, Throw, Answered, localVars, planVars, sessionVars,
        dbVars, boundVars
<1>1. CASE Start(r)
  BY <1>1 DEF Start
<1>2. CASE Acquire(r)
  BY <1>2 DEF Acquire
<1>3. CASE EndsEarly(r)
  BY <1>3 DEF EndsEarly
<1>4. CASE ReadTable(r)
  <2>1. seeding' \in [Runners -> SUBSET Files]
    BY <1>4, MarkerAssumption DEF ReadTable, Files
  <2>2. /\ At(r, "virgin", "seed")
        /\ UNCHANGED <<planVars, stmt, primary, result, sessionVars, dbVars,
                       boundVars>>
    BY <1>4 DEF ReadTable
  <2> QED
    BY <2>1, <2>2
<1>5. CASE Seed(r)
  <2>1. Min(seeding[r]) \in Files
    BY <1>5, LeastFile DEF Seed
  <2>2. row' \in [Files -> {None, "claimed", "applied", "baselined"}]
    BY <1>5, <2>1 DEF Seed, Put
  <2>3. seeding' \in [Runners -> SUBSET Files]
    BY <1>5 DEF Seed
  <2>4. Answered(r, "seed") \/ Throw(r)
    BY <1>5 DEF Seed
  <2>5. pc[r] = "seed" /\ UNCHANGED <<planVars, stmt, result, sessionVars, done, boundVars>>
    BY <1>5 DEF Seed
  <2> QED
    BY <2>2, <2>3, <2>4, <2>5
<1>6. CASE Plan(r)
  BY <1>6 DEF Plan, Loop
<1>7. CASE requireLockHeld(r)
  <2>1. pc'[r] \in {"claim", "assert", "body", "release"}
    BY <1>7 DEF requireLockHeld
  <2>2. pc' = [pc EXCEPT ![r] = pc'[r]] /\ primary' \in [Runners -> BOOLEAN]
    BY <1>7 DEF requireLockHeld
  <2>3. stmt' = [stmt EXCEPT ![r] = 1] \/ (stmt' = stmt /\ pc'[r] = "release")
    BY <1>7 DEF requireLockHeld
  <2> HIDE DEF Goto
  <2> QED
    BY <1>7, <2>1, <2>2, <2>3 DEF requireLockHeld
<1>8. CASE Assert(r)
  <2>1. Goto(r, "recheck") \/ Goto(r, "body")
    BY <1>8 DEF Assert
  <2>2. /\ pc[r] = "assert" /\ stmt[r] \in 1..NumStmts
        /\ UNCHANGED <<localVars, primary, result, sessionVars, dbVars, boundVars>>
    BY <1>8 DEF Assert
  <2> QED
    BY <2>1, <2>2
<1>9. CASE Claim(r)
  <2>1. row' \in [Files -> {None, "claimed", "applied", "baselined"}]
    BY <1>9, CurrentFile DEF Claim, Put
  <2>2. Answered(r, "body") \/ Throw(r)
    BY <1>9 DEF Claim
  <2>3. /\ pc[r] = "claim" /\ stmt[r] \in 1..NumStmts
        /\ UNCHANGED <<localVars, result, sessionVars, done, boundVars>>
    BY <1>9 DEF Claim
  <2> QED
    BY <2>1, <2>2, <2>3
<1>10. CASE Execute(r)
  <2>1. Current(r) \in Files
    BY <1>10, CurrentFile DEF Execute
  <2> DEFINE c == Current(r)
             m == Max({done[c], stmt[r]})
  <2>2. stmt[r] \in 1..NumStmts /\ done[c] \in 0..NumStmts
    BY <1>10, <2>1 DEF Execute
  <2>3. m \in 0..NumStmts
    BY <2>2, LargerOf
  <2> HIDE DEF m
  <2>4. done' = [done EXCEPT ![c] = m]
    BY <1>10 DEF Execute, m
  <2>5. done' \in [Files -> 0..NumStmts]
    BY <2>3, <2>4
  <2>6. Answered(r, IF stmt[r] = NumStmts THEN "recheck" ELSE "body")
    BY <1>10 DEF Execute
  <2>7. stmt' = [stmt EXCEPT ![r] = IF @ = NumStmts THEN 0 ELSE @ + 1]
    BY <1>10 DEF Execute
  <2>8. /\ pc[r] = "body"
        /\ UNCHANGED <<seeding, planVars, result, sessionVars, row, boundVars>>
    BY <1>10 DEF Execute
  <2>9. stmt' \in [Runners -> 0..NumStmts]
    BY <2>2, <2>7
  <2>10. pc'[r] = "body" => stmt'[r] \in 1..NumStmts
    BY <2>2, <2>6, <2>7
  <2>11. pc' = [pc EXCEPT ![r] = pc'[r]] /\ pc'[r] \in {"body", "recheck", "release"}
    BY <2>6
  <2>12. primary' \in [Runners -> BOOLEAN]
    BY <2>6
  <2>13. \A s \in Runners : s # r => stmt'[s] = stmt[s]
    BY <2>7
  <2> HIDE DEF c, Answered, Goto
  <2>14. TypeOK'
    <3>1. pc' \in [Runners -> Labels]
      BY <2>11
    <3> QED
      BY <3>1, <2>5, <2>8, <2>9, <2>11, <2>12
  <2>15. HasFile'
    BY <2>8, <2>11
  <2>16. HasStatement'
    BY <2>8, <2>10, <2>11, <2>13
  <2> QED
    BY <2>14, <2>15, <2>16
<1>11. CASE requireLockStillHeld(r)
  BY <1>11 DEF requireLockStillHeld
<1>12. CASE MarkSuccess(r)
  <2>1. Current(r) \in Files
    BY <1>12, CurrentFile DEF MarkSuccess
  <2> DEFINE c == Current(r)
  <2>2. /\ reconcile' = [reconcile EXCEPT ![r] = @ \ {c}]
        /\ pending' = [pending EXCEPT ![r] = @ \ {c}]
        /\ row' = [row EXCEPT ![c] = "applied"]
        /\ Answered(r, Loop(Left(r) \ {c}))
        /\ pc[r] = "mark" /\ alive[r]
        /\ UNCHANGED <<seeding, stmt, result, sessionVars, done, boundVars>>
    BY <1>12 DEF MarkSuccess, Put
  <2> HIDE DEF c
  <2>3. row' \in [Files -> {None, "claimed", "applied", "baselined"}]
    BY <2>2
  <2>4. Left(r)' = Left(r) \ {c}
    BY <2>2
  <2>5. pc'[r] \in {"held", "release"} /\ (pc'[r] = "held" => Left(r)' # {})
    BY <2>2, <2>4 DEF Loop
  <2>6. TypeOK'
    BY <2>2, <2>3 DEF Loop
  <2> QED
    BY <2>2, <2>5, <2>6
<1>13. CASE QueryFails(r)
  BY <1>13 DEF QueryFails
<1>14. CASE Release(r)
  BY <1>14 DEF Release, Forget
<1>15. CASE KillSession(r)
  BY <1>15, ReconnectsAssumption DEF KillSession, Freed
<1>16. CASE Crash(r)
  BY <1>16 DEF Crash, Freed, Forget
<1> QED
  BY <1>1, <1>2, <1>3, <1>4, <1>5, <1>6, <1>7, <1>8, <1>9, <1>10, <1>11, <1>12,
     <1>13, <1>14, <1>15, <1>16 DEF Move, Step

\* The variables of every run have their types.
THEOREM TypeCorrect == Spec => []TypeOK
<1>1. Init => Typed
  BY FilesAssumption DEF Init, Typed, TypeOK, HasFile, HasStatement, AtFile, Labels
<1>2. Typed /\ [Next]_vars => Typed'
  <2>1. Typed /\ UNCHANGED vars => Typed'
    BY DEF Typed, TypeOK, HasFile, HasStatement, AtFile, Left, vars, localVars,
           planVars, sessionVars, dbVars, boundVars
  <2> QED
    BY <2>1, TypedStep, NextIsMove
<1>3. Typed => TypeOK
  BY DEF Typed
<1> QED
  BY <1>1, <1>2, <1>3, PTL DEF Spec

-----------------------------------------------------------------------------
(***************************************************************************)
(* What a step of one run leaves alone: the variables of the other runs,   *)
(* the lock of another session, and every row and statement that is in     *)
(* effect.                                                                 *)
(***************************************************************************)
Complete(f) == row[f] \in {"applied", "baselined"}

LEMMA Others ==
  ASSUME Typed, NEW r \in Runners, Move(r), NEW s \in Runners, s # r
  PROVE  /\ pc'[s] = pc[s] /\ seeding'[s] = seeding[s]
         /\ reconcile'[s] = reconcile[s] /\ pending'[s] = pending[s]
         /\ stmt'[s] = stmt[s] /\ primary'[s] = primary[s]
         /\ result'[s] = result[s] /\ alive'[s] = alive[s]
         /\ lost'[s] = lost[s] /\ (lock' = s <=> lock = s)
<1> USE NoneAssumption DEF Typed, TypeOK, Goto, At, Throw, Answered, localVars, planVars,
        sessionVars, dbVars, boundVars, Forget, Freed
<1>1. CASE Start(r) \/ Acquire(r) \/ EndsEarly(r) \/ ReadTable(r)
  BY <1>1 DEF Start, Acquire, EndsEarly, ReadTable
<1>2. CASE Seed(r)
  BY <1>2 DEF Seed
<1>3. CASE Plan(r)
  BY <1>3 DEF Plan
<1>4. CASE requireLockHeld(r)
  BY <1>4 DEF requireLockHeld
<1>5. CASE Assert(r) \/ Claim(r)
  BY <1>5 DEF Assert, Claim
<1>6. CASE Execute(r)
  BY <1>6 DEF Execute
<1>7. CASE requireLockStillHeld(r) \/ QueryFails(r)
  BY <1>7 DEF requireLockStillHeld, QueryFails
<1>8. CASE MarkSuccess(r)
  BY <1>8 DEF MarkSuccess
<1>9. CASE Release(r)
  BY <1>9 DEF Release
<1>10. CASE KillSession(r) \/ Crash(r)
  BY <1>10 DEF KillSession, Crash
<1> QED
  BY <1>1, <1>2, <1>3, <1>4, <1>5, <1>6, <1>7, <1>8, <1>9, <1>10 DEF Move, Step

\* The steps that do not write to the database.
Reads(r) ==
  \/ Start(r) \/ Acquire(r) \/ EndsEarly(r) \/ ReadTable(r) \/ Plan(r)
  \/ requireLockHeld(r) \/ Assert(r) \/ requireLockStillHeld(r) \/ QueryFails(r)
  \/ Release(r) \/ KillSession(r) \/ Crash(r)

LEMMA MoveKinds ==
  ASSUME NEW r \in Runners
  PROVE  /\ Move(r) <=> Reads(r) \/ Seed(r) \/ Claim(r) \/ Execute(r) \/ MarkSuccess(r)
         /\ Reads(r) => UNCHANGED dbVars
<1>1. Reads(r) => UNCHANGED dbVars
  BY DEF Reads, dbVars, Start, Acquire, EndsEarly, ReadTable, Plan, requireLockHeld,
         Assert, requireLockStillHeld, QueryFails, Release, KillSession, Crash
<1> QED
  BY <1>1 DEF Move, Step, Reads

\* How a step writes to the database.
LEMMA SeedWrites ==
  ASSUME Typed, NEW r \in Runners, Seed(r)
  PROVE  /\ seeding[r] # {} /\ Min(seeding[r]) \in seeding[r]
         /\ \A f \in seeding[r] : Min(seeding[r]) <= f
         /\ done' = done
         /\ \/ /\ row[Min(seeding[r])] = None
               /\ row' = [row EXCEPT ![Min(seeding[r])] = "baselined"]
            \/ row' = row
<1>1. seeding[r] # {} /\ seeding[r] \in SUBSET Files
  BY DEF Seed, Typed, TypeOK
<1> QED
  BY <1>1, LeastFile DEF Seed, Put

LEMMA ClaimWrites ==
  ASSUME Typed, NEW r \in Runners, Claim(r)
  PROVE  /\ Current(r) \in Files /\ done' = done
         /\ \/ /\ row[Current(r)] = None
               /\ row' = [row EXCEPT ![Current(r)] = "claimed"]
            \/ row' = row
<1>1. Left(r) # {}
  BY DEF Claim, Typed, HasFile, AtFile
<1> QED
  BY <1>1, CurrentFile DEF Typed, Claim, Put

LEMMA ExecuteWrites ==
  ASSUME Typed, NEW r \in Runners, Execute(r)
  PROVE  /\ Current(r) \in Files /\ row' = row
         /\ done' = [done EXCEPT ![Current(r)] = done'[Current(r)]]
         /\ done'[Current(r)] \in {done[Current(r)], stmt[r]}
         /\ done'[Current(r)] >= done[Current(r)] /\ done'[Current(r)] >= stmt[r]
<1> DEFINE c == Current(r)
           m == Max({done[c], stmt[r]})
<1>1. Left(r) # {} /\ stmt[r] \in Nat
  BY FilesAssumption DEF Execute, Typed, HasFile, AtFile, HasStatement
<1>2. c \in Files
  BY <1>1, CurrentFile DEF Typed
<1>3. done[c] \in Nat /\ done \in [Files -> 0..NumStmts]
  BY <1>2, FilesAssumption DEF Typed, TypeOK
<1>4. m \in {done[c], stmt[r]} /\ m >= done[c] /\ m >= stmt[r]
  BY <1>1, <1>3, LargerOf
<1>5. done' = [done EXCEPT ![c] = m] /\ row' = row
  BY DEF Execute
<1> HIDE DEF c, m
<1>6. done'[c] = m
  BY <1>2, <1>3, <1>5
<1> QED
  BY <1>2, <1>4, <1>5, <1>6 DEF c

LEMMA MarkWrites ==
  ASSUME Typed, NEW r \in Runners, MarkSuccess(r)
  PROVE  /\ Current(r) \in Files /\ Current(r) \in Left(r) /\ done' = done
         /\ row' = [row EXCEPT ![Current(r)] = "applied"]
<1>1. Left(r) # {}
  BY DEF MarkSuccess, Typed, HasFile, AtFile
<1> QED
  BY <1>1, CurrentFile DEF Typed, MarkSuccess, Put

\* A file that is recorded stays recorded, and no statement is undone.
LEMMA Grows ==
  ASSUME Typed, NEW r \in Runners, Move(r), NEW f \in Files
  PROVE  /\ Complete(f) => Complete(f)'
         /\ row[f] # None => row'[f] # None
         /\ done'[f] >= done[f]
<1> USE FilesAssumption, NoneAssumption DEF Complete
<1>1. /\ row \in [Files -> {None, "claimed", "applied", "baselined"}]
      /\ done \in [Files -> 0..NumStmts]
  BY DEF Typed, TypeOK
<1>2. CASE Reads(r)
  BY <1>1, <1>2, MoveKinds DEF dbVars
<1>3. CASE Seed(r)
  BY <1>1, <1>3, SeedWrites
<1>4. CASE Claim(r)
  BY <1>1, <1>4, ClaimWrites
<1>5. CASE Execute(r)
  BY <1>1, <1>5, ExecuteWrites
<1>6. CASE MarkSuccess(r)
  BY <1>1, <1>6, MarkWrites
<1> QED
  BY <1>2, <1>3, <1>4, <1>5, <1>6, MoveKinds

-----------------------------------------------------------------------------
(***************************************************************************)
(* The inductive invariant, for any number of reconnecting sessions: what  *)
(* the history tells about the schema, and what a run may rely on at each  *)
(* of its queries.                                                         *)
(***************************************************************************)
\* What is recorded is in effect, what is in effect has a row, and only the
\* last row is a claim.
Effects ==
  \A f \in Files :
    /\ f <= Marker \/ Complete(f) => done[f] = NumStmts
    /\ f > Marker /\ row[f] = None => done[f] = 0

LastIsClaim == \A f, g \in Files : f < g /\ row[g] # None => Complete(f)

History == Effects /\ LastIsClaim

\* The lock of a session, and the loss of it.
LockOf(r) ==
  /\ lock = r => pc[r] \notin {"idle", "acquire", "done"} /\ alive[r]
  /\ lost[r] => lock # r /\ pc[r] \notin {"idle", "acquire"}

\* A run that ends, or is about to end, without an error has seen all files.
Ending(r) ==
  /\ result[r] # None => pc[r] = "done"
  /\ result[r] = "ok" => ~lost[r] /\ \A f \in Files : Complete(f)
  /\ pc[r] = "release" /\ ~primary[r] => \A f \in Files : Complete(f)

\* The baseline is seeded in order.
Seeding(r) ==
  /\ seeding[r] \subseteq 1..Marker
  /\ pc[r] = "seed" /\ seeding[r] # {} =>
       \A f \in (1..Marker) \ seeding[r] : Complete(f)

\* What a run does not have before it is complete.
Covered(r) == AtFile(r) => \A f \in Files \ Left(r) : Complete(f)

\* The file a run executes has a row, and pending files wait for the others.
Claimed(r) ==
  /\ \A f \in reconcile[r] : row[f] # None
  /\ pc[r] \in {"assert", "body", "recheck", "mark"} => row[Current(r)] # None
  /\ pc[r] = "claim" => reconcile[r] = {}

\* The statements before the one at hand are in effect.
Executed(r) ==
  /\ pc[r] \in {"claim", "assert"} => stmt[r] = 1
  /\ pc[r] = "body" => done[Current(r)] + 1 >= stmt[r]
  /\ pc[r] \in {"recheck", "mark"} => done[Current(r)] = NumStmts

Own(r) ==
  LockOf(r) /\ Ending(r) /\ Seeding(r) /\ Covered(r) /\ Claimed(r) /\ Executed(r)

Inv == Typed /\ History /\ \A r \in Runners : Own(r)

LEMMA InitInv == Init => Inv
<1> SUFFICES ASSUME Init PROVE Inv
  OBVIOUS
<1> USE FilesAssumption, MarkerAssumption, NoneAssumption DEF Init
<1>1. Typed
  BY DEF Typed, TypeOK, HasFile, HasStatement, AtFile, Labels
<1>2. History
  BY DEF History, Effects, LastIsClaim, Complete, Files
<1>3. ASSUME NEW r \in Runners PROVE Own(r)
  BY <1>3 DEF Own, LockOf, Ending, Seeding, Covered, Claimed, Executed, AtFile
<1> QED
  BY <1>1, <1>2, <1>3 DEF Inv

\* A step of one run takes nothing from another.
LEMMA OthersKeep ==
  ASSUME Typed, Typed', NEW r \in Runners, Move(r), NEW s \in Runners, s # r, Own(s)
  PROVE  Own(s)'
<1>1. /\ pc'[s] = pc[s] /\ seeding'[s] = seeding[s]
      /\ reconcile'[s] = reconcile[s] /\ pending'[s] = pending[s]
      /\ stmt'[s] = stmt[s] /\ primary'[s] = primary[s]
      /\ result'[s] = result[s] /\ alive'[s] = alive[s]
      /\ lost'[s] = lost[s] /\ (lock' = s <=> lock = s)
  BY Others
<1>2. \A f \in Files : /\ Complete(f) => Complete(f)'
                       /\ row[f] # None => row'[f] # None
                       /\ done'[f] >= done[f]
  BY Grows
<1>3. Current(s)' = Current(s) /\ (Left(s)' = Left(s))
  BY <1>1 DEF Current, Left
<1>4. AtFile(s) => Current(s) \in Files
  BY CurrentFile DEF Typed, HasFile
<1>5. \A f \in Files : done[f] \in 0..NumStmts /\ done'[f] \in 0..NumStmts
  BY DEF Typed, TypeOK
<1>6. LockOf(s)'
  BY <1>1 DEF Own, LockOf
<1>7. Ending(s)'
  BY <1>1, <1>2 DEF Own, Ending
<1>8. Seeding(s)'
  BY <1>1, <1>2, MarkerAssumption, FilesAssumption DEF Own, Seeding, Files
<1>9. Covered(s)'
  BY <1>1, <1>2, <1>3 DEF Own, Covered, AtFile
<1>10. Claimed(s)'
  BY <1>1, <1>2, <1>3, <1>4 DEF Own, Claimed, AtFile, Typed, TypeOK
<1>11. Executed(s)'
  <2>1. CASE AtFile(s)
    <3> DEFINE c == Current(s)
    <3>1. c \in Files
      BY <1>4, <2>1
    <3>2. done'[c] >= done[c] /\ done[c] \in 0..NumStmts /\ done'[c] \in 0..NumStmts
      BY <1>2, <1>5, <3>1
    <3>3. stmt[s] \in 0..NumStmts
      BY DEF Typed, TypeOK
    <3> QED
      BY <1>1, <1>3, <3>2, <3>3, FilesAssumption DEF Own, Executed
  <2> QED
    BY <1>1, <2>1 DEF Executed, AtFile
<1> QED
  BY <1>6, <1>7, <1>8, <1>9, <1>10, <1>11 DEF Own

\* The history after a step.
LEMMA HistoryKeeps ==
  ASSUME Typed, Typed', History, NEW r \in Runners, Own(r), Move(r)
  PROVE  History'
<1> USE FilesAssumption, MarkerAssumption, NoneAssumption DEF Complete
<1>1. /\ row \in [Files -> {None, "claimed", "applied", "baselined"}]
      /\ done \in [Files -> 0..NumStmts] /\ done' \in [Files -> 0..NumStmts]
  BY DEF Typed, TypeOK
<1>2. Files \subseteq Nat
  BY DEF Files
<1>3. CASE Reads(r)
  BY <1>3, MoveKinds DEF dbVars, History, Effects, LastIsClaim
<1>4. CASE Seed(r)
  <2> DEFINE c == Min(seeding[r])
  <2>1. /\ c \in 1..Marker /\ c \in Files
        /\ \A f \in Files : f < c => Complete(f)
    <3>1. c \in seeding[r] /\ c \in 1..Marker /\ \A f \in seeding[r] : c <= f
      BY <1>4, SeedWrites DEF Own, Seeding
    <3>2. pc[r] = "seed" /\ seeding[r] # {}
      BY <1>4 DEF Seed
    <3>3. \A f \in (1..Marker) \ seeding[r] : Complete(f)
      BY <3>2 DEF Own, Seeding
    <3>4. c \in Files
      BY <3>1 DEF Files
    <3>5. ASSUME NEW f \in Files, f < c PROVE f \in (1..Marker) \ seeding[r]
      BY <3>1, <3>4, <3>5, <1>2 DEF Files
    <3> HIDE DEF Complete, c
    <3> QED
      BY <3>1, <3>3, <3>4, <3>5
  <2>2. done' = done /\ (row' = row \/ (row[c] = None /\ row' = [row EXCEPT ![c] = "baselined"]))
    BY <1>4, SeedWrites
  <2> HIDE DEF c
  <2>3. Effects'
    BY <1>1, <2>1, <2>2 DEF History, Effects
  <2>4. LastIsClaim'
    BY <1>1, <2>1, <2>2 DEF History, LastIsClaim
  <2> QED
    BY <2>3, <2>4 DEF History
<1>5. CASE Claim(r)
  <2> DEFINE c == Current(r)
  <2>1. c \in Files /\ \A f \in Files : f < c => Complete(f)
    <3>1. pc[r] = "claim" /\ reconcile[r] = {} /\ Left(r) = pending[r] /\ Left(r) # {}
      BY <1>5 DEF Claim, Own, Claimed, Typed, HasFile, AtFile, Left
    <3>2. c \in Files /\ \A f \in Left(r) : c <= f
      BY <3>1, CurrentFile DEF Typed
    <3>3. \A f \in Files \ Left(r) : Complete(f)
      BY <3>1 DEF Own, Covered, AtFile
    <3> HIDE DEF Complete, c
    <3> QED
      BY <1>2, <3>2, <3>3
  <2>2. done' = done /\ (row' = row \/ (row[c] = None /\ row' = [row EXCEPT ![c] = "claimed"]))
    BY <1>5, ClaimWrites
  <2> HIDE DEF c
  <2>3. Effects'
    BY <1>1, <2>1, <2>2 DEF History, Effects
  <2>4. LastIsClaim'
    BY <1>1, <1>2, <2>1, <2>2 DEF History, LastIsClaim
  <2> QED
    BY <2>3, <2>4 DEF History
<1>6. CASE Execute(r)
  <2> DEFINE c == Current(r)
  <2>1. /\ c \in Files /\ row' = row /\ row[c] # None
        /\ done' = [done EXCEPT ![c] = done'[c]] /\ done'[c] >= done[c]
    BY <1>6, ExecuteWrites DEF Own, Claimed, Execute
  <2> HIDE DEF c
  <2>2. Effects'
    BY <1>1, <2>1 DEF History, Effects
  <2> QED
    BY <2>1, <2>2 DEF History, LastIsClaim
<1>7. CASE MarkSuccess(r)
  <2> DEFINE c == Current(r)
  <2>1. /\ c \in Files /\ done' = done /\ row' = [row EXCEPT ![c] = "applied"]
        /\ row[c] # None /\ done[c] = NumStmts
    BY <1>7, MarkWrites DEF Own, Claimed, Executed, MarkSuccess
  <2> HIDE DEF c
  <2>2. Effects'
    BY <1>1, <2>1 DEF History, Effects
  <2>3. LastIsClaim'
    BY <1>1, <2>1 DEF History, LastIsClaim
  <2> QED
    BY <2>2, <2>3 DEF History
<1> QED
  BY <1>3, <1>4, <1>5, <1>6, <1>7, MoveKinds

\* Where requireLockHeld sends a run.
LEMMA LockHeldGoes ==
  ASSUME NEW r \in Runners, requireLockHeld(r)
  PROVE  \/ /\ Throw(r)
         \/ /\ stmt' = [stmt EXCEPT ![r] = 1]
            /\ \/ reconcile[r] = {} /\ Goto(r, "claim")
               \/ reconcile[r] # {} /\ Current(r) \in Asserted /\ Goto(r, "assert")
               \/ reconcile[r] # {} /\ Current(r) \notin Asserted /\ Goto(r, "body")
BY DEF requireLockHeld

\* What a run relies on after a step of its own.
LEMMA OwnKeeps ==
  ASSUME Typed, Typed', History, NEW r \in Runners, Own(r), Move(r)
  PROVE  Own(r)'
<1> USE FilesAssumption, MarkerAssumption, NoneAssumption
<1> USE DEF Own, LockOf, Ending, Seeding, Covered, Claimed, Executed, AtFile, Left,
            Goto, At, Throw, Answered, localVars, planVars, sessionVars, dbVars,
            boundVars, Typed, TypeOK
<1>1. CASE Start(r)
  BY <1>1 DEF Start, Current, Complete
<1>2. CASE Acquire(r)
  BY <1>2 DEF Acquire, Current, Complete
<1>3. CASE EndsEarly(r)
  BY <1>3 DEF EndsEarly, Current, Complete
<1>4. CASE ReadTable(r)
  BY <1>4 DEF ReadTable, Current, Complete
<1>5. CASE Plan(r)
  BY <1>5 DEF Plan, Loop, Current, Complete
<1>6. CASE requireLockStillHeld(r) \/ QueryFails(r)
  BY <1>6 DEF requireLockStillHeld, QueryFails, Current, Complete
<1>7. CASE Release(r)
  BY <1>7 DEF Release, Forget, Current, Complete
<1>8. CASE KillSession(r)
  BY <1>8 DEF KillSession, Freed, Current, Complete
<1>9. CASE Crash(r)
  BY <1>9 DEF Crash, Freed, Forget, Current, Complete
<1>10. CASE Seed(r)
  <2> DEFINE c == Min(seeding[r])
  <2>1. c \in seeding[r] /\ c \in 1..Marker /\ c \in Files
    BY <1>10, SeedWrites
  <2>2. \A f \in Files : Complete(f) => Complete(f)'
    BY <1>10, Grows, MoveKinds
  <2>3. \A f \in Files : row[f] # None => row'[f] # None
    BY <1>10, Grows, MoveKinds
  <2>4. pc[r] = "seed" /\ seeding' = [seeding EXCEPT ![r] = @ \ {c}]
    BY <1>10 DEF Seed
  <2>5. \/ row' = [row EXCEPT ![c] = "baselined"] /\ (Goto(r, "seed") \/ Throw(r))
        \/ Throw(r)
    BY <1>10 DEF Seed, Put
  <2>6. UNCHANGED <<planVars, stmt, result, sessionVars, done>>
    BY <1>10 DEF Seed
  <2>7. pc'[r] = "seed" => row'[c] = "baselined"
    BY <2>1, <2>4, <2>5
  <2> HIDE DEF c
  <2>8. pc'[r] \in {"seed", "release"} /\ (pc'[r] = "release" => primary'[r])
    BY <2>4, <2>5
  <2>9. Seeding(r)'
    <3>1. seeding'[r] = seeding[r] \ {c}
      BY <2>4
    <3>2. seeding'[r] \subseteq 1..Marker
      BY <3>1
    <3>3. ASSUME pc'[r] = "seed", NEW f \in (1..Marker) \ seeding'[r]
          PROVE  Complete(f)'
      <4>1. f \in Files
        BY DEF Files
      <4>2. CASE f = c
        BY <2>7, <3>3, <4>2 DEF Complete
      <4>3. CASE f # c
        BY <2>1, <2>2, <2>4, <3>1, <4>1, <4>3
      <4> QED
        BY <4>2, <4>3
    <3> QED
      BY <3>2, <3>3
  <2>10. LockOf(r)' /\ Ending(r)'
    BY <2>4, <2>6, <2>8
  <2>11. Covered(r)' /\ Claimed(r)' /\ Executed(r)'
    BY <2>3, <2>6, <2>8
  <2> QED
    BY <2>9, <2>10, <2>11
<1>11. CASE requireLockHeld(r)
  <2>1. /\ pc[r] = "held" /\ Left(r) # {}
        /\ UNCHANGED <<seeding, planVars, result, sessionVars, dbVars>>
    BY <1>11 DEF requireLockHeld, HasFile
  <2>2. \/ pc'[r] = "claim" /\ reconcile[r] = {} /\ stmt'[r] = 1
        \/ pc'[r] \in {"assert", "body"} /\ reconcile[r] # {} /\ stmt'[r] = 1
        \/ pc'[r] = "release" /\ primary'[r]
    BY <1>11, LockHeldGoes
  <2>3. Current(r)' = Current(r) /\ (reconcile[r] # {} => Current(r) \in reconcile[r])
    BY <2>1, CurrentFile DEF Current
  <2>4. Current(r) \in Files
    BY <2>1, CurrentFile
  <2>5. pc'[r] \in {"assert", "body"} => row'[Current(r)] # None
    BY <2>1, <2>2, <2>3
  <2>6. Executed(r)'
    BY <2>1, <2>2, <2>3, <2>4
  <2>7. Covered(r)' /\ Claimed(r)'
    BY <2>1, <2>2, <2>3, <2>5 DEF Complete
  <2> QED
    BY <2>1, <2>2, <2>6, <2>7
<1>12. CASE Assert(r)
  <2>1. /\ pc[r] = "assert" /\ Left(r) # {}
        /\ UNCHANGED <<localVars, primary, result, sessionVars, dbVars>>
        /\ \/ pc'[r] = "recheck" /\ done[Current(r)] = NumStmts
           \/ pc'[r] = "body"
    BY <1>12 DEF Assert, HasFile
  <2>2. Current(r)' = Current(r) /\ Current(r) \in Files
    BY <2>1, CurrentFile DEF Current
  <2>3. stmt[r] = 1 /\ done[Current(r)] \in Nat
    BY <2>1, <2>2
  <2>4. Executed(r)'
    BY <2>1, <2>2, <2>3
  <2>5. Claimed(r)' /\ Covered(r)'
    BY <2>1, <2>2 DEF Complete
  <2> QED
    BY <2>1, <2>4, <2>5
<1>13. CASE Claim(r)
  <2> DEFINE c == Current(r)
  <2>1. pc[r] = "claim" /\ stmt[r] = 1 /\ c \in Files
    BY <1>13, ClaimWrites DEF Claim
  <2>2. UNCHANGED <<localVars, result, sessionVars, done>>
    BY <1>13 DEF Claim
  <2>3. Current(r)' = c
    BY <2>2 DEF Current
  <2>4. \/ row' = [row EXCEPT ![c] = "claimed"] /\ pc'[r] = "body"
        \/ pc'[r] = "release" /\ primary'[r]
    BY <1>13 DEF Claim, Put
  <2>5. \A f \in Files : /\ Complete(f) => Complete(f)'
                         /\ row[f] # None => row'[f] # None
    BY <1>13, Grows, MoveKinds
  <2> HIDE DEF c
  <2>6. Executed(r)'
    BY <2>1, <2>2, <2>3, <2>4
  <2>7. Claimed(r)'
    BY <2>1, <2>2, <2>3, <2>4, <2>5
  <2>8. Covered(r)'
    BY <2>1, <2>2, <2>4, <2>5
  <2> QED
    BY <2>1, <2>2, <2>4, <2>6, <2>7, <2>8
<1>14. CASE Execute(r)
  <2> DEFINE c == Current(r)
  <2>1. pc[r] = "body" /\ c \in Files /\ row' = row /\ done'[c] >= stmt[r]
    BY <1>14, ExecuteWrites DEF Execute
  <2>2. UNCHANGED <<seeding, planVars, result, sessionVars>>
    BY <1>14 DEF Execute
  <2>3. Current(r)' = c
    BY <2>2 DEF Current
  <2>4. \/ pc'[r] = "recheck" /\ stmt[r] = NumStmts
        \/ pc'[r] = "body" /\ stmt[r] # NumStmts
        \/ pc'[r] = "release" /\ primary'[r]
    BY <1>14 DEF Execute
  <2>5. stmt[r] # NumStmts => stmt'[r] = stmt[r] + 1
    BY <1>14 DEF Execute
  <2>6. done'[c] \in 0..NumStmts /\ stmt[r] \in 0..NumStmts
    BY <2>1
  <2> HIDE DEF c
  <2>7. Executed(r)'
    BY <2>1, <2>3, <2>4, <2>5, <2>6
  <2>8. Claimed(r)'
    BY <2>1, <2>2, <2>3, <2>4 DEF c
  <2>9. Covered(r)'
    BY <2>1, <2>2, <2>4 DEF Complete
  <2> QED
    BY <2>1, <2>2, <2>4, <2>7, <2>8, <2>9 DEF Complete
<1>15. CASE MarkSuccess(r)
  <2> DEFINE c == Current(r)
  <2>1. pc[r] = "mark" /\ c \in Files /\ row' = [row EXCEPT ![c] = "applied"]
    BY <1>15, MarkWrites DEF MarkSuccess
  <2>2. UNCHANGED <<seeding, stmt, result, sessionVars, done>>
    BY <1>15 DEF MarkSuccess
  <2>3. \A f \in Files : /\ Complete(f) => Complete(f)'
                         /\ row[f] # None => row'[f] # None
    BY <1>15, Grows, MoveKinds
  <2>4. /\ reconcile' = [reconcile EXCEPT ![r] = @ \ {c}]
        /\ pending' = [pending EXCEPT ![r] = @ \ {c}]
        /\ Answered(r, Loop(Left(r) \ {c}))
    BY <1>15 DEF MarkSuccess
  <2>5. row'[c] = "applied"
    BY <2>1
  <2> HIDE DEF c
  <2>6. Left(r)' = Left(r) \ {c} /\ reconcile'[r] \subseteq reconcile[r]
    BY <2>4
  <2>7. \A f \in Files \ Left(r) : Complete(f)
    BY <2>1
  <2> HIDE DEF Left
  <2>8. \A f \in Files \ (Left(r)') : Complete(f)'
    BY <2>3, <2>5, <2>6, <2>7 DEF Complete
  <2>9. \/ pc'[r] = "held"
        \/ pc'[r] = "release" /\ Left(r)' = {}
        \/ pc'[r] = "release" /\ primary'[r]
    BY <2>4, <2>6 DEF Loop
  <2>10. Covered(r)'
    BY <2>8
  <2>11. Claimed(r)' /\ Executed(r)'
    BY <2>3, <2>6, <2>9
  <2>12. Ending(r)'
    BY <2>1, <2>2, <2>8, <2>9
  <2>13. LockOf(r)' /\ Seeding(r)'
    BY <2>1, <2>2, <2>3, <2>9
  <2> QED
    BY <2>10, <2>11, <2>12, <2>13
<1> QED
  BY <1>1, <1>2, <1>3, <1>4, <1>5, <1>6, <1>7, <1>8, <1>9, <1>10, <1>11, <1>12,
     <1>13, <1>14, <1>15 DEF Move, Step

LEMMA InvStep == Inv /\ [Next]_vars => Inv'
<1>1. ASSUME Inv, NEW r \in Runners, Move(r) PROVE Inv'
  <2> USE <1>1 DEF Inv
  <2>1. Typed'
    BY TypedStep
  <2>2. History'
    BY <2>1, HistoryKeeps
  <2>3. ASSUME NEW s \in Runners PROVE Own(s)'
    BY <2>1, OwnKeeps, OthersKeep
  <2> QED
    BY <2>1, <2>2, <2>3
<1>2. ASSUME Inv, UNCHANGED vars PROVE Inv'
  <2>1. UNCHANGED <<pc, seeding, reconcile, pending, stmt, primary, result, alive,
                    lost, lock, row, done, kills, crashes>>
    BY <1>2 DEF vars, localVars, planVars, sessionVars, dbVars, boundVars
  <2>2. Typed'
    BY <1>2, <2>1 DEF Inv, Typed, TypeOK, HasFile, HasStatement, AtFile, Left
  <2>3. History'
    BY <1>2, <2>1 DEF Inv, History, Effects, LastIsClaim, Complete
  <2>4. ASSUME NEW r \in Runners PROVE Own(r)'
    BY <1>2, <2>1 DEF Inv, Own, LockOf, Ending, Seeding, Covered, Claimed, Executed,
                      AtFile, Left, Current, Complete
  <2> QED
    BY <2>2, <2>3, <2>4 DEF Inv
<1> QED
  BY <1>1, <1>2, NextIsMove

\* The invariant holds of any number of runs, whatever is killed or dies, and
\* even when a proxy hides that a session was replaced.
THEOREM Invariant == Spec => []Inv
BY InitInv, InvStep, PTL DEF Spec

\* A row with success=1 is the truth, also when two runs execute a body at once.
THEOREM SuccessTold == Spec => []SuccessIsComplete
<1>1. Inv => SuccessIsComplete
  BY DEF Inv, History, Effects, Complete, SuccessIsComplete
<1> QED
  BY <1>1, Invariant, PTL

\* A run that ends well leaves no file behind.
THEOREM UpToDate == Spec => []OkMeansUpToDate
<1>1. Inv => OkMeansUpToDate
  BY DEF Inv, Own, Ending, Complete, OkMeansUpToDate
<1> QED
  BY <1>1, Invariant, PTL

\* A run that lost the lock on the way never reports success.
THEOREM LostLockTold == Spec => []LostLockIsReported
<1>1. Inv => LostLockIsReported
  BY DEF Inv, Own, Ending, LostLockIsReported
<1> QED
  BY <1>1, Invariant, PTL

\* A file begins when all before it are complete.
THEOREM Ordered == Spec => []InOrder
<1>1. ASSUME Inv, NEW f \in Files, NEW g \in Files, f < g, done[g] > 0
      PROVE  done[f] = NumStmts
  <2>1. Effects /\ LastIsClaim
    BY <1>1 DEF Inv, History
  <2>2. f \in Nat /\ g \in Nat /\ Marker \in Nat
    BY FilesAssumption, MarkerAssumption DEF Files
  <2>3. CASE f <= Marker
    BY <1>1, <2>1, <2>3 DEF Effects
  <2>4. CASE f > Marker
    <3>1. row[g] # None
      BY <1>1, <2>1, <2>2, <2>4 DEF Effects
    <3> QED
      BY <1>1, <2>1, <3>1 DEF Effects, LastIsClaim
  <2> QED
    BY <2>2, <2>3, <2>4
<1>2. Inv => InOrder
  BY <1>1 DEF InOrder
<1> QED
  BY <1>2, Invariant, PTL

-----------------------------------------------------------------------------
(***************************************************************************)
(* What holds as long as a killed session stays dead: a run whose          *)
(* connection works holds the lock, and the postconditions are a           *)
(* sufficient reason not to execute a body.                                *)
(***************************************************************************)
Owner(r) == alive[r] /\ pc[r] \notin {"idle", "acquire", "done"} => lock = r

\* A body in execution was not in effect, and still is not.
NotYet(r) ==
  alive[r] /\ pc[r] = "body" /\ Current(r) \in Asserted /\ Current(r) > Marker
    => done[Current(r)] < NumStmts

Sole == \A r \in Runners : Owner(r) /\ (~AssertErrors => NotYet(r))

LEMMA SoleInit == Init => Sole
BY DEF Init, Sole, Owner, NotYet

LEMMA OwnerKeeps ==
  ASSUME ~Reconnects, Inv, Sole, NEW r \in Runners, Move(r), NEW s \in Runners
  PROVE  Owner(s)'
<1> USE NoneAssumption DEF Sole, Owner, Goto, At, Throw, Answered, Freed, localVars,
        planVars, sessionVars, dbVars, boundVars
<1>1. CASE s # r
  BY <1>1, Others DEF Inv
<1>2. CASE s = r
  <2>0. /\ pc \in [Runners -> Labels] /\ alive \in [Runners -> BOOLEAN]
        /\ lock = r => pc[r] \notin {"idle", "acquire", "done"} /\ alive[r]
    BY DEF Inv, Typed, TypeOK, Own, LockOf
  <2>1. CASE Start(r) \/ Acquire(r) \/ EndsEarly(r) \/ ReadTable(r)
    BY <1>2, <2>0, <2>1 DEF Start, Acquire, EndsEarly, ReadTable
  <2>2. CASE Seed(r) \/ Plan(r)
    BY <1>2, <2>0, <2>2 DEF Seed, Plan
  <2>3. CASE requireLockHeld(r)
    BY <1>2, <2>0, <2>3 DEF requireLockHeld
  <2>4. CASE Assert(r) \/ Claim(r) \/ Execute(r)
    BY <1>2, <2>0, <2>4 DEF Assert, Claim, Execute
  <2>5. CASE requireLockStillHeld(r) \/ QueryFails(r) \/ MarkSuccess(r)
    BY <1>2, <2>0, <2>5 DEF requireLockStillHeld, QueryFails, MarkSuccess
  <2>6. CASE Release(r)
    BY <1>2, <2>0, <2>6 DEF Release
  <2>7. CASE KillSession(r) \/ Crash(r)
    BY <1>2, <2>0, <2>7 DEF KillSession, Crash
  <2> QED
    BY <2>1, <2>2, <2>3, <2>4, <2>5, <2>6, <2>7 DEF Move, Step
<1> QED
  BY <1>1, <1>2

LEMMA NotYetKeeps ==
  ASSUME ~Reconnects, ~AssertErrors, Inv, Inv', Sole, NEW r \in Runners, Move(r),
         NEW s \in Runners
  PROVE  NotYet(s)'
<1> DEFINE c == Current(s)
<1> SUFFICES ASSUME alive'[s], pc'[s] = "body", Current(s)' \in Asserted,
                    Current(s)' > Marker
             PROVE  done'[Current(s)'] < NumStmts
  BY DEF NotYet
<1>0. /\ alive \in [Runners -> BOOLEAN]
      /\ pc \in [Runners -> Labels] /\ done \in [Files -> 0..NumStmts]
      /\ stmt[s] \in 0..NumStmts /\ row \in [Files -> {None, "claimed", "applied", "baselined"}]
  BY DEF Inv, Typed, TypeOK
<1>1. CASE s # r
  <2>1. /\ pc'[s] = pc[s] /\ alive'[s] = alive[s]
        /\ reconcile'[s] = reconcile[s] /\ pending'[s] = pending[s]
    BY <1>1, Others DEF Inv
  <2>2. pc[s] = "body" /\ alive[s] /\ Current(s)' = c
    BY <2>1 DEF Current
  <2>3. done[c] < NumStmts
    BY <2>2 DEF Sole, NotYet
  <2>4. ~Execute(r)
    <3>1. lock = s
      BY <2>2 DEF Sole, Owner
    <3>2. Execute(r) => lock = r
      BY DEF Sole, Owner, Execute
    <3> QED
      BY <1>1, <3>1, <3>2
  <2>5. done' = done
    <3>1. CASE Reads(r)
      BY <3>1, MoveKinds DEF dbVars
    <3>2. CASE Seed(r) \/ Claim(r) \/ MarkSuccess(r)
      BY <3>2 DEF Seed, Claim, MarkSuccess
    <3> QED
      BY <2>4, <3>1, <3>2, MoveKinds
  <2> QED
    BY <2>2, <2>3, <2>5
<1>2. CASE s = r
  <2>1. CASE requireLockHeld(r)
    <3>1. UNCHANGED <<reconcile, pending>> /\ Current(r)' = Current(r)
      BY <2>1 DEF requireLockHeld, planVars, Current
    <3>2. pc'[r] # "body"
      BY <1>0, <1>2, <2>1, <3>1, LockHeldGoes DEF Goto, Throw
    <3> QED
      BY <1>2, <3>2
  <2>2. CASE Assert(r)
    <3>1. UNCHANGED <<reconcile, pending, done>> /\ Current(r)' = Current(r)
      BY <2>2 DEF Assert, planVars, localVars, dbVars, Current
    <3>2. done[Current(r)] < NumStmts
      BY <1>0, <1>2, <2>2 DEF Assert, Goto
    <3> QED
      BY <1>2, <3>1, <3>2
  <2>3. CASE Claim(r)
    <3>1. UNCHANGED <<reconcile, pending, done>> /\ Current(r)' = Current(r)
      BY <2>3 DEF Claim, planVars, localVars, dbVars, Current
    <3>2. row[c] = None
      BY <1>0, <1>2, <2>3 DEF Claim, Answered, Goto, Throw
    <3>3. c \in Files
      BY <1>2, <2>3, ClaimWrites DEF Inv
    <3>4. done[c] = 0
      BY <1>2, <3>1, <3>2, <3>3 DEF Inv, History, Effects
    <3> QED
      BY <1>2, <3>1, <3>4, FilesAssumption
  <2>4. CASE Execute(r)
    <3>1. UNCHANGED <<reconcile, pending>> /\ Current(r)' = Current(r)
      BY <2>4 DEF Execute, planVars, Current
    <3>2. done[c] < NumStmts
      BY <1>2, <2>4, <3>1 DEF Sole, NotYet, Execute
    <3>3. stmt[r] # NumStmts
      BY <1>0, <1>2, <2>4 DEF Execute, Answered, Goto, Throw
    <3>4. done'[c] \in {done[c], stmt[r]}
      BY <1>2, <2>4, ExecuteWrites DEF Inv
    <3> QED
      BY <1>0, <1>2, <3>1, <3>2, <3>3, <3>4, FilesAssumption
  <2>5. CASE ~ (requireLockHeld(r) \/ Assert(r) \/ Claim(r) \/ Execute(r))
    <3>1. pc'[r] # "body"
      <4> USE DEF At, Goto, Throw, Answered, Loop
      <4>1. CASE Start(r) \/ Acquire(r) \/ EndsEarly(r) \/ ReadTable(r)
        BY <1>0, <4>1 DEF Start, Acquire, EndsEarly, ReadTable
      <4>2. CASE Seed(r) \/ Plan(r)
        BY <1>0, <4>2 DEF Seed, Plan
      <4>3. CASE requireLockStillHeld(r) \/ QueryFails(r)
        BY <1>0, <4>3 DEF requireLockStillHeld, QueryFails
      <4>4. CASE MarkSuccess(r)
        BY <1>0, <4>4 DEF MarkSuccess
      <4>5. CASE Release(r) \/ Crash(r)
        BY <1>0, <4>5 DEF Release, Crash
      <4>6. CASE KillSession(r)
        BY <1>0, <1>2, <4>6 DEF KillSession
      <4> QED
        BY <2>5, <4>1, <4>2, <4>3, <4>4, <4>5, <4>6 DEF Move, Step
    <3> QED
      BY <1>2, <3>1
  <2> QED
    BY <2>1, <2>2, <2>3, <2>4, <2>5
<1> QED
  BY <1>1, <1>2

LEMMA SoleStep ==
  ASSUME ~Reconnects
  PROVE  Inv /\ Sole /\ [Next]_vars => Sole'
<1>1. ASSUME Inv, Sole, NEW r \in Runners, Move(r) PROVE Sole'
  <2>1. Inv'
    BY <1>1, InvStep, NextIsMove
  <2>2. ASSUME NEW s \in Runners PROVE Owner(s)' /\ (~AssertErrors => NotYet(s)')
    BY <1>1, <2>1, OwnerKeeps, NotYetKeeps
  <2> QED
    BY <2>2 DEF Sole
<1>2. ASSUME Sole, UNCHANGED vars PROVE Sole'
  BY <1>2 DEF Sole, Owner, NotYet, Current, vars, localVars, planVars, sessionVars,
              dbVars
<1> QED
  BY <1>1, <1>2, NextIsMove

LEMMA SoleAlways ==
  ASSUME ~Reconnects
  PROVE  Spec => []Sole
BY SoleInit, SoleStep, Invariant, PTL DEF Spec

\* No two processes run DDL or write the history at the same time, as long as a
\* killed session stays dead.
THEOREM SoleWriter ==
  ASSUME ~Reconnects
  PROVE  Spec => []NoConcurrentDDL
<1>1. Sole => NoConcurrentDDL
  BY DEF Sole, Owner, NoConcurrentDDL, Writing
<1> QED
  BY <1>1, SoleAlways, PTL

\* A body whose postconditions hold is not executed again, as long as a killed
\* session stays dead and a postcondition that holds does not fail.
THEOREM NoSecondApply ==
  ASSUME ~Reconnects, ~AssertErrors
  PROVE  Spec => NoDoubleApply
<1>1. Sole => \A r \in Runners, f \in Asserted :
                Execute(r) /\ f = Current(r) /\ f > Marker => done[f] < NumStmts
  BY DEF Sole, NotYet, Execute
<1> QED
  BY <1>1, SoleAlways, PTL DEF NoDoubleApply

=============================================================================
