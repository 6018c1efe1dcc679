--------------------------- MODULE MigrationRunner ---------------------------
(***************************************************************************)
(* MigrationRunner.run of migrate/migration-runner.ts: several CLI         *)
(* processes against one database, each under the GET_LOCK of its session, *)
(* with the planner, the seeding of the baseline, the reconciliation of a  *)
(* migration that stopped half-way and the table schema_migrations.        *)
(*                                                                         *)
(* A step is one query.  A query may fail, with or without its effect; a   *)
(* session may be killed, which frees its lock; a process may die.  MySQL  *)
(* is external.  The 0000_ helper files, which no step of run applies, and *)
(* the integrity errors of the planner, which end a run before it writes   *)
(* anything but the baseline, are left out: the files do not change.       *)
(***************************************************************************)
EXTENDS Naturals, FiniteSets, FiniteSetsExt

CONSTANTS
  Runners,     \* processes, each of which calls run once
  NumFiles,    \* migration files, numbered in the order of their versions
  NumStmts,    \* SQL statements of a file's body
  Asserted,    \* files that end in CALL zn_assert_* postconditions
  Marker,      \* the last file the baseline schema contains, 0 without one
  AssertErrors, \* whether a postcondition may fail although it holds
  Reconnects,  \* whether a proxy keeps a killed session's connection usable
  MaxKills,    \* bound on killed sessions
  MaxCrashes,  \* bound on dead processes
  None

Files == 1..NumFiles

ASSUME FilesAssumption == NumFiles \in Nat /\ NumStmts \in Nat \ {0}
ASSUME AssertedAssumption == Asserted \subseteq Files
ASSUME MarkerAssumption == Marker \in 0..NumFiles
ASSUME BoundsAssumption == MaxKills \in Nat /\ MaxCrashes \in Nat
ASSUME ReconnectsAssumption == {Reconnects, AssertErrors} \subseteq BOOLEAN
ASSUME NoneAssumption ==
  None \notin Runners \cup {"claimed", "applied", "baselined", "ok", "error", "lost"}

VARIABLES
  pc,       \* pc[r]: the query runner r awaits
  seeding,  \* seeding[r]: baseline files still to be seeded
  reconcile, pending,  \* the buckets of r's plan, less what r has done
  stmt,     \* stmt[r]: the statement of the body r executes
  primary,  \* primary[r]: whether an error is on its way
  result,   \* result[r]: how run ended
  alive,    \* alive[r]: whether r's connection can be used
  lost,     \* lost[r]: whether r's session lost the lock before releasing it
  lock,     \* the session GET_LOCK was granted to
  row,      \* row[f]: the row of f in schema_migrations
  done,     \* done[f]: how many statements of f are in effect
  kills, crashes

planVars == <<reconcile, pending>>
localVars == <<seeding, planVars, stmt>>
sessionVars == <<alive, lost, lock>>
dbVars == <<row, done>>
boundVars == <<kills, crashes>>
vars == <<pc, localVars, primary, result, sessionVars, dbVars, boundVars>>

Init ==
  /\ pc = [r \in Runners |-> "idle"]
  /\ seeding = [r \in Runners |-> {}]
  /\ reconcile = [r \in Runners |-> {}]
  /\ pending = [r \in Runners |-> {}]
  /\ stmt = [r \in Runners |-> 0]
  /\ primary = [r \in Runners |-> FALSE]
  /\ result = [r \in Runners |-> None]
  /\ alive = [r \in Runners |-> TRUE]
  /\ lost = [r \in Runners |-> FALSE]
  /\ lock = None
  /\ row = [f \in Files |-> None]
  /\ done = [f \in Files |-> IF f <= Marker THEN NumStmts ELSE 0]
  /\ kills = 0 /\ crashes = 0

Goto(r, label) == pc' = [pc EXCEPT ![r] = label]
At(r, label, next) == pc[r] = label /\ alive[r] /\ Goto(r, next)
Put(f, state) == row' = [row EXCEPT ![f] = state]

\* The local variables of a run that has ended.
Forget(r) ==
  /\ seeding' = [seeding EXCEPT ![r] = {}]
  /\ reconcile' = [reconcile EXCEPT ![r] = {}]
  /\ pending' = [pending EXCEPT ![r] = {}]
  /\ stmt' = [stmt EXCEPT ![r] = 0]

\* The finally block; release is awaited there.
Throw(r) == Goto(r, "release") /\ primary' = [primary EXCEPT ![r] = TRUE]

\* A query's effect is in the table, and its answer arrives or does not.
Answered(r, label) ==
  \/ Goto(r, label) /\ UNCHANGED primary
  \/ Throw(r)

\* Mutated: what is pending comes first.
CurrentPendingFirst(r) ==
  IF pending[r] # {} THEN Min(pending[r]) ELSE Min(reconcile[r])

\* The reconcile bucket comes before the pending one, each in file order.
Current(r) == IF reconcile[r] # {} THEN Min(reconcile[r]) ELSE Min(pending[r])

\* Where the loops go when these files are left.
Loop(files) == IF files = {} THEN "release" ELSE "held"

-----------------------------------------------------------------------------
(***************************************************************************)
(* preflight, ensureTable, the lock, the baseline and the plan.            *)
(***************************************************************************)
Start(r) ==
  /\ At(r, "idle", "acquire")
  /\ UNCHANGED <<localVars, primary, result, sessionVars, dbVars, boundVars>>

\* An error before the try block: a replica, a busy lock, a dead connection.
EndsEarly(r) ==
  /\ pc[r] = "acquire"
  /\ Goto(r, "done")
  /\ result' = [result EXCEPT ![r] = "error"]
  /\ UNCHANGED <<localVars, primary, sessionVars, dbVars, boundVars>>

\* Mutated: what GET_LOCK returned is not looked at.
AcquireAnyway(r) ==
  /\ At(r, "acquire", "virgin")
  /\ lock' = IF lock = None THEN r ELSE lock
  /\ UNCHANGED <<localVars, primary, result, alive, lost, dbVars, boundVars>>

Acquire(r) ==
  /\ At(r, "acquire", "virgin")
  /\ lock = None
  /\ lock' = r
  /\ UNCHANGED <<localVars, primary, result, alive, lost, dbVars, boundVars>>

ReadTable(r) ==
  /\ At(r, "virgin", "seed")
  /\ seeding' = [seeding EXCEPT ![r] =
                   IF \A f \in Files : row[f] = None THEN 1..Marker ELSE {}]
  /\ UNCHANGED <<planVars, stmt, primary, result, sessionVars, dbVars, boundVars>>

\* seedBaseline inserts one row; a row that is there already is an error.
Seed(r) ==
  /\ pc[r] = "seed" /\ alive[r] /\ seeding[r] # {}
  /\ LET f == Min(seeding[r])
     IN \/ row[f] = None /\ Put(f, "baselined") /\ Answered(r, "seed")
        \/ row[f] # None /\ UNCHANGED row /\ Throw(r)
  /\ seeding' = [seeding EXCEPT ![r] = @ \ {Min(@)}]
  /\ UNCHANGED <<planVars, stmt, result, sessionVars, done, boundVars>>

\* Mutated: a claimed row counts as applied.
PlanPending(r) ==
  LET unapplied == {f \in Files : row[f] = None}
  IN /\ seeding[r] = {}
     /\ At(r, "seed", Loop(unapplied))
     /\ pending' = [pending EXCEPT ![r] = unapplied]
     /\ UNCHANGED <<seeding, reconcile, stmt, primary, result, sessionVars,
                    dbVars, boundVars>>

\* plan: what has no row is pending, what is claimed is to be reconciled.
Plan(r) ==
  LET unapplied == {f \in Files : row[f] \in {None, "claimed"}}
  IN /\ seeding[r] = {}
     /\ At(r, "seed", Loop(unapplied))
     /\ reconcile' = [reconcile EXCEPT ![r] =
                        {f \in unapplied : row[f] = "claimed"}]
     /\ pending' = [pending EXCEPT ![r] = {f \in unapplied : row[f] = None}]
     /\ UNCHANGED <<seeding, stmt, primary, result, sessionVars, dbVars,
                    boundVars>>

-----------------------------------------------------------------------------
(***************************************************************************)
(* One file of either bucket: requireLockHeld, the postconditions or the   *)
(* claim, the body, requireLockHeld, markSuccess.                          *)
(***************************************************************************)
requireLockHeld(r) ==
  /\ pc[r] = "held" /\ alive[r]
  /\ \/ /\ lock = r
        /\ Goto(r, IF reconcile[r] = {} THEN "claim"
                   ELSE IF Current(r) \in Asserted THEN "assert" ELSE "body")
        /\ stmt' = [stmt EXCEPT ![r] = 1]
        /\ UNCHANGED primary
     \/ /\ lock # r
        /\ Throw(r)
        /\ UNCHANGED stmt
  /\ UNCHANGED <<seeding, planVars, result, sessionVars, dbVars, boundVars>>

\* Mutated: the body is executed without asking.
AssertNothing(r) ==
  /\ pc[r] = "assert" /\ alive[r]
  /\ Goto(r, "body")
  /\ UNCHANGED <<localVars, primary, result, sessionVars, dbVars, boundVars>>

\* The postconditions hold when the whole body is in effect; one that ends in
\* an error, for whatever reason, counts as not holding.
Assert(r) ==
  /\ pc[r] = "assert" /\ alive[r]
  /\ \/ done[Current(r)] = NumStmts /\ Goto(r, "recheck")
     \/ (done[Current(r)] < NumStmts \/ AssertErrors) /\ Goto(r, "body")
  /\ UNCHANGED <<localVars, primary, result, sessionVars, dbVars, boundVars>>

\* Mutated: the claim is inserted with success=1.
ClaimSuccess(r) ==
  /\ pc[r] = "claim" /\ alive[r]
  /\ \/ /\ row[Current(r)] = None
        /\ Put(Current(r), "applied")
        /\ Answered(r, "body")
     \/ row[Current(r)] # None /\ UNCHANGED row /\ Throw(r)
  /\ UNCHANGED <<localVars, result, sessionVars, done, boundVars>>

Claim(r) ==
  /\ pc[r] = "claim" /\ alive[r]
  /\ \/ /\ row[Current(r)] = None
        /\ Put(Current(r), "claimed")
        /\ Answered(r, "body")
     \/ row[Current(r)] # None /\ UNCHANGED row /\ Throw(r)
  /\ UNCHANGED <<localVars, result, sessionVars, done, boundVars>>

\* Statements of a body are idempotent one by one: executing one that is in
\* effect changes nothing.
Execute(r) ==
  /\ pc[r] = "body" /\ alive[r]
  /\ done' = [done EXCEPT ![Current(r)] = Max({@, stmt[r]})]
  /\ Answered(r, IF stmt[r] = NumStmts THEN "recheck" ELSE "body")
  /\ stmt' = [stmt EXCEPT ![r] = IF @ = NumStmts THEN 0 ELSE @ + 1]
  /\ UNCHANGED <<seeding, planVars, result, sessionVars, row, boundVars>>

requireLockStillHeld(r) ==
  /\ pc[r] = "recheck" /\ alive[r]
  /\ \/ lock = r /\ Goto(r, "mark") /\ UNCHANGED primary
     \/ lock # r /\ Throw(r)
  /\ UNCHANGED <<localVars, result, sessionVars, dbVars, boundVars>>

MarkSuccess(r) ==
  /\ pc[r] = "mark" /\ alive[r]
  /\ Put(Current(r), "applied")
  /\ reconcile' = [reconcile EXCEPT ![r] = @ \ {Current(r)}]
  /\ pending' = [pending EXCEPT ![r] = @ \ {Current(r)}]
  /\ Answered(r, Loop((reconcile[r] \cup pending[r]) \ {Current(r)}))
  /\ UNCHANGED <<seeding, stmt, result, sessionVars, done, boundVars>>

\* The query fails without effect, or cannot be sent any more.
QueryFails(r) ==
  /\ pc[r] \in {"virgin", "seed", "held", "assert", "claim", "body", "recheck",
               "mark"}
  /\ Throw(r)
  /\ UNCHANGED <<localVars, result, sessionVars, dbVars, boundVars>>

\* Mutated: a lock that was not held at release is no error.
ReleaseQuietly(r) ==
  /\ pc[r] = "release"
  /\ Goto(r, "done")
  /\ lock' = IF alive[r] /\ lock = r THEN None ELSE lock
  /\ result' = [result EXCEPT ![r] = IF primary[r] THEN "error" ELSE "ok"]
  /\ Forget(r)
  /\ UNCHANGED <<primary, alive, lost, dbVars, boundVars>>

\* RELEASE_LOCK tells whether the session held the lock; if it did not, the
\* run ends in an error.
Release(r) ==
  /\ pc[r] = "release"
  /\ Goto(r, "done")
  /\ \/ /\ alive[r] /\ lock = r
        /\ lock' = None
        /\ result' = [result EXCEPT ![r] = IF primary[r] THEN "error" ELSE "ok"]
     \/ /\ ~alive[r] \/ lock # r
        /\ UNCHANGED lock
        /\ result' = [result EXCEPT ![r] = "error"]
  /\ Forget(r)
  /\ UNCHANGED <<primary, alive, lost, dbVars, boundVars>>

-----------------------------------------------------------------------------
(***************************************************************************)
(* The server and the processes.                                           *)
(***************************************************************************)
InFlight(r) == pc[r] \notin {"idle", "done"}

Freed(r) == lock' = IF lock = r THEN None ELSE lock

\* KILL, wait_timeout or a failover ends r's session.
KillSession(r) ==
  /\ kills < MaxKills /\ InFlight(r) /\ alive[r]
  /\ kills' = kills + 1
  /\ Freed(r)
  /\ lost' = [lost EXCEPT ![r] = @ \/ lock = r]
  /\ alive' = [alive EXCEPT ![r] = Reconnects]
  /\ UNCHANGED <<pc, localVars, primary, result, dbVars, crashes>>

\* The process dies and the server ends its session.
Crash(r) ==
  /\ crashes < MaxCrashes /\ InFlight(r)
  /\ crashes' = crashes + 1
  /\ Goto(r, "done")
  /\ result' = [result EXCEPT ![r] = "lost"]
  /\ Freed(r)
  /\ alive' = [alive EXCEPT ![r] = FALSE]
  /\ Forget(r)
  /\ UNCHANGED <<primary, lost, dbVars, kills>>

-----------------------------------------------------------------------------
Step(r) ==
  \/ Acquire(r) \/ EndsEarly(r) \/ ReadTable(r) \/ Seed(r) \/ Plan(r)
  \/ requireLockHeld(r) \/ Assert(r) \/ Claim(r) \/ Execute(r)
  \/ requireLockStillHeld(r) \/ MarkSuccess(r) \/ QueryFails(r) \/ Release(r)

Next == \E r \in Runners : Start(r) \/ Step(r) \/ KillSession(r) \/ Crash(r)

\* A query is answered, or fails; GET_LOCK waits thirty seconds at most.
Spec == Init /\ [][Next]_vars /\ \A r \in Runners : WF_vars(Step(r))

-----------------------------------------------------------------------------
Labels == {"idle", "acquire", "virgin", "seed", "held", "assert", "claim",
           "body", "recheck", "mark", "release", "done"}

TypeOK ==
  /\ pc \in [Runners -> Labels]
  /\ seeding \in [Runners -> SUBSET Files]
  /\ reconcile \in [Runners -> SUBSET Files]
  /\ pending \in [Runners -> SUBSET Files]
  /\ stmt \in [Runners -> 0..NumStmts]
  /\ primary \in [Runners -> BOOLEAN]
  /\ result \in [Runners -> {None, "ok", "error", "lost"}]
  /\ alive \in [Runners -> BOOLEAN] /\ lost \in [Runners -> BOOLEAN]
  /\ lock \in {None} \cup Runners
  /\ row \in [Files -> {None, "claimed", "applied", "baselined"}]
  /\ done \in [Files -> 0..NumStmts]
  /\ kills \in Nat /\ crashes \in Nat

\* Where a runner writes to the schema or to the history.
Writing(r) == pc[r] \in {"seed", "assert", "claim", "body", "recheck", "mark"}

\* No two processes run DDL or write the history at the same time.
NoConcurrentDDL ==
  \A r, s \in Runners : /\ Writing(r) /\ alive[r]
                        /\ Writing(s) /\ alive[s]
                        => r = s

\* A row with success=1 is the truth: whatever crashed, was killed or ran twice,
\* the whole body of the file is in effect.
SuccessIsComplete ==
  \A f \in Files : row[f] \in {"applied", "baselined"} => done[f] = NumStmts

\* A run that ends well leaves no file behind: all are in effect and recorded,
\* those a dead run left half-way included.
OkMeansUpToDate ==
  \A r \in Runners : result[r] = "ok" =>
    \A f \in Files : row[f] \in {"applied", "baselined"}

\* Migrations take effect in the order of their files: one begins when all
\* before it are complete.
InOrder == \A f, g \in Files : f < g /\ done[g] > 0 => done[f] = NumStmts

\* A run that lost the lock on the way never reports success.
LostLockIsReported == \A r \in Runners : lost[r] => result[r] # "ok"

\* A body whose postconditions hold is not executed again.
NoDoubleApply ==
  [][ \A r \in Runners, f \in Asserted :
        Execute(r) /\ f = Current(r) /\ f > Marker => done[f] < NumStmts ]_vars

\* The baseline is never executed against a database that contains it.
BaselineIsSkipped ==
  [][ \A r \in Runners : Execute(r) => Current(r) > Marker ]_vars

=============================================================================
