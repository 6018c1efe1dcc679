---------------------------- MODULE MigrationLease ----------------------------
(***************************************************************************)
(* runMigrations of run-migrations.ts: one migration phase of a deployment *)
(* with the database credential it leases from the vault, the listeners it *)
(* installs for SIGINT and SIGTERM and the revocation that both its        *)
(* finally block and those listeners ask for.                              *)
(*                                                                         *)
(* The phase and the listener are two flows of one Node process: a step is *)
(* the code between two awaits.  The vault and MySQL are external: an      *)
(* answer may be an error with or without the effect, and a revocation     *)
(* that meets a session MySQL is still closing may leave the lease FAILED, *)
(* which the vault never revokes again.  MigrationRunner models the run.   *)
(***************************************************************************)
EXTENDS Naturals

CONSTANTS
  MaxSignals,  \* bound on the signals sent
  None

Callers == {"phase", "signal"}   \* of revokeOnce
Attempts == 3                    \* 1 + REVOKE_RETRY_DELAYS_MS.length

ASSUME MaxSignalsAssumption == MaxSignals \in Nat
ASSUME NoneAssumption ==
  None \notin {"active", "revoked", "failed", "open", "closing"}

VARIABLES
  pc,        \* the await runMigrations is suspended at
  result,    \* whether runMigrations throws, once that is decided
  db,        \* whether openDb returned a connection
  handlers,  \* whether the SIGINT and SIGTERM listeners are installed
  process,   \* "up", or what ended the process
  revoked,   \* the flag of revokeOnce
  loop,      \* loop[c]: the await of c's revokeOnce, "no" before it is entered
  attempt,   \* attempt[c]: the attempt it makes
  warned,    \* whether the lease left behind was logged
  known,     \* whether issueCredential returned a lease
  lease,     \* the lease at the vault
  session,   \* the session at MySQL
  signals

revokeVars == <<revoked, loop, attempt, warned>>
externalVars == <<lease, session>>
localVars == <<db, handlers>>
vars == <<pc, result, localVars, process, revokeVars, known, externalVars, signals>>

Init ==
  /\ pc = "routines" /\ result = None
  /\ db = FALSE /\ handlers = FALSE /\ process = "up"
  /\ revoked = FALSE /\ warned = FALSE
  /\ loop = [c \in Callers |-> "no"]
  /\ attempt = [c \in Callers |-> 0]
  /\ known = FALSE
  /\ lease = None /\ session = None
  /\ signals = 0

At(label, next) == process = "up" /\ pc = label /\ pc' = next

\* runMigrations throws, and its caller ends the process.
Throws == result' = "error" /\ process' = "failed"

-----------------------------------------------------------------------------
(***************************************************************************)
(* Before the try block: an error leaves nothing to give back that the     *)
(* process knows of.                                                       *)
(***************************************************************************)
applyRoutines ==
  /\ \/ At("routines", "issue") /\ UNCHANGED <<result, process>>
     \/ At("routines", "done") /\ Throws
  /\ UNCHANGED <<localVars, revokeVars, known, externalVars, signals>>

\* The vault makes the lease; its answer is complete and the listeners are
\* installed, or it is lost, or it lacks the host and the lease is revoked
\* without looking at the outcome.
issueCredential ==
  /\ \/ /\ At("issue", "open")
        /\ lease' = "active" /\ known' = TRUE /\ handlers' = TRUE
        /\ UNCHANGED <<result, process>>
     \/ /\ At("issue", "done")
        /\ lease' \in {None, "active", "revoked"}
        /\ Throws
        /\ UNCHANGED <<known, handlers>>
  /\ UNCHANGED <<db, revokeVars, session, signals>>

-----------------------------------------------------------------------------
(***************************************************************************)
(* The try block and its finally.                                          *)
(***************************************************************************)
\* No database name, no connection, or a session openDb refuses and ends.
OpenFails ==
  /\ At("open", "finally")
  /\ result' = "error"
  /\ session' \in {None} \cup {x \in {"closing"} : lease = "active"}
  /\ UNCHANGED <<localVars, process, revokeVars, known, lease, signals>>

openDb ==
  /\ lease = "active"
  /\ At("open", "run")
  /\ session' = "open" /\ db' = TRUE
  /\ UNCHANGED <<result, handlers, process, revokeVars, known, lease, signals>>

Run ==
  /\ At("run", "end")
  /\ \/ session = "open" /\ result' = "ok"
     \/ result' = "error"
  /\ UNCHANGED <<localVars, process, revokeVars, known, externalVars, signals>>

\* db.end sends COM_QUIT; its own error is swallowed.
End ==
  /\ At("end", "settle")
  /\ session' \in {session} \cup {s \in {"closing"} : session = "open"}
  /\ UNCHANGED <<result, localVars, process, revokeVars, known, lease, signals>>

SessionCloses ==
  /\ session = "closing" /\ session' = None
  /\ UNCHANGED <<pc, result, localVars, process, revokeVars, known, lease, signals>>

\* Mutated: the lease is revoked right after db.end.
SettleAtOnce ==
  /\ At("settle", "finally")
  /\ UNCHANGED <<result, localVars, process, revokeVars, known, externalVars, signals>>

\* REVOKE_SETTLE_MS outlasts the closing of the session.
Settle ==
  /\ At("settle", "finally")
  /\ session # "closing"
  /\ UNCHANGED <<result, localVars, process, revokeVars, known, externalVars, signals>>

\* The end of the finally block, with the caller's process.exit on an error.
Returns ==
  /\ pc' = "done" /\ handlers' = FALSE /\ UNCHANGED db
  /\ process' = IF result = "error" THEN "failed" ELSE process

-----------------------------------------------------------------------------
(***************************************************************************)
(* revokeOnce: the first caller makes up to three attempts; to any other   *)
(* it returns at once, even while those attempts are under way.            *)
(***************************************************************************)
Enter(c) ==
  /\ revoked' = TRUE
  /\ loop' = [loop EXCEPT ![c] = "sent"]
  /\ attempt' = [attempt EXCEPT ![c] = 1]

Finally ==
  /\ process = "up" /\ pc = "finally"
  /\ \/ /\ ~revoked
        /\ Enter("phase")
        /\ pc' = "revoke"
        /\ UNCHANGED <<localVars, process>>
     \/ /\ revoked
        /\ Returns
        /\ UNCHANGED <<revoked, loop, attempt>>
  /\ UNCHANGED <<result, warned, known, externalVars, signals>>

Leave(c) == loop' = [loop EXCEPT ![c] = "over"]

\* Mutated: the lease left behind is not logged.
GiveUpQuietly(c) ==
  /\ Leave(c)
  /\ UNCHANGED warned

GiveUp(c) ==
  /\ Leave(c)
  /\ warned' = TRUE

\* The vault revokes the lease and drops its user, or has done so before.
RevokeSucceeds(c) ==
  /\ process = "up" /\ loop[c] = "sent"
  /\ lease \in {"active", "revoked"}
  /\ lease' = "revoked" /\ session' = None
  /\ Leave(c)
  /\ UNCHANGED <<pc, result, localVars, process, revoked, attempt, warned, known,
                 signals>>

\* Mutated: one attempt more than there are delays for.
RevokeFailsOneMore(c) ==
  /\ process = "up" /\ loop[c] = "sent" /\ lease # "failed"
  /\ UNCHANGED externalVars
  /\ \/ /\ attempt[c] <= Attempts
        /\ loop' = [loop EXCEPT ![c] = "backoff"]
        /\ UNCHANGED warned
     \/ attempt[c] > Attempts /\ GiveUp(c)
  /\ UNCHANGED <<pc, result, localVars, process, revoked, attempt, known, signals>>

\* An error, without the effect, with it, or with a lease that is FAILED
\* because its session was killed while it was closing.
RevokeFails(c) ==
  /\ process = "up" /\ loop[c] = "sent" /\ lease # "failed"
  /\ \/ UNCHANGED externalVars
     \/ lease' = "revoked" /\ session' = None
     \/ /\ lease = "active" /\ session = "closing"
        /\ lease' = "failed" /\ UNCHANGED session
  /\ \/ /\ attempt[c] < Attempts
        /\ loop' = [loop EXCEPT ![c] = "backoff"]
        /\ UNCHANGED warned
     \/ attempt[c] = Attempts /\ GiveUp(c)
  /\ UNCHANGED <<pc, result, localVars, process, revoked, attempt, known, signals>>

\* isNonRevocable: no retry can help.
RevokeRefused(c) ==
  /\ process = "up" /\ loop[c] = "sent" /\ lease = "failed"
  /\ GiveUp(c)
  /\ UNCHANGED <<pc, result, localVars, process, revoked, attempt, known,
                 externalVars, signals>>

Retry(c) ==
  /\ process = "up" /\ loop[c] = "backoff"
  /\ loop' = [loop EXCEPT ![c] = "sent"]
  /\ attempt' = [attempt EXCEPT ![c] = @ + 1]
  /\ UNCHANGED <<pc, result, localVars, process, revoked, warned, known,
                 externalVars, signals>>

RevokeReturns ==
  /\ process = "up" /\ pc = "revoke" /\ loop["phase"] = "over"
  /\ Returns
  /\ UNCHANGED <<result, revokeVars, known, externalVars, signals>>

-----------------------------------------------------------------------------
(***************************************************************************)
(* SIGINT and SIGTERM.  Without the listeners the signal ends the process; *)
(* a listener that is not the first caller of revokeOnce ends it at once.  *)
(***************************************************************************)
Signal ==
  /\ signals < MaxSignals /\ process = "up"
  /\ signals' = signals + 1
  /\ \/ /\ ~handlers
        /\ process' = "killed"
        /\ UNCHANGED <<revoked, loop, attempt>>
     \/ /\ handlers /\ revoked
        /\ process' = "interrupted"
        /\ UNCHANGED <<revoked, loop, attempt>>
     \/ /\ handlers /\ ~revoked
        /\ Enter("signal")
        /\ UNCHANGED process
  /\ UNCHANGED <<pc, result, localVars, warned, known, externalVars>>

\* Mutated: the listener awaits revokeOnce itself.
onSignalUncapped ==
  /\ process = "up" /\ loop["signal"] = "over"
  /\ process' = "interrupted"
  /\ UNCHANGED <<pc, result, localVars, revokeVars, known, externalVars, signals>>

\* withTimeout: the listener's revokeOnce returns or five seconds pass.
onSignal ==
  /\ process = "up" /\ loop["signal"] # "no"
  /\ process' = IF loop["signal"] = "over" THEN "interrupted" ELSE "timed out"
  /\ UNCHANGED <<pc, result, localVars, revokeVars, known, externalVars, signals>>

-----------------------------------------------------------------------------
Phase ==
  \/ applyRoutines \/ issueCredential \/ OpenFails \/ openDb \/ Run \/ End
  \/ Settle \/ Finally \/ RevokeReturns

Revoke(c) == RevokeSucceeds(c) \/ RevokeFails(c) \/ RevokeRefused(c) \/ Retry(c)

Next ==
  \/ Phase \/ SessionCloses \/ Signal \/ onSignal
  \/ \E c \in Callers : Revoke(c)

\* Timers fire.  Nothing is assumed of the vault, which may never answer.
Spec == Init /\ [][Next]_vars /\ WF_vars(onSignal)

-----------------------------------------------------------------------------
TypeOK ==
  /\ pc \in {"routines", "issue", "open", "run", "end", "settle", "finally",
             "revoke", "done"}
  /\ result \in {None, "ok", "error"}
  /\ db \in BOOLEAN /\ handlers \in BOOLEAN /\ revoked \in BOOLEAN
  /\ warned \in BOOLEAN /\ known \in BOOLEAN
  /\ process \in {"up", "failed", "killed", "interrupted", "timed out"}
  /\ loop \in [Callers -> {"no", "sent", "backoff", "over"}]
  /\ attempt \in [Callers -> 0..Attempts]
  /\ lease \in {None, "active", "revoked", "failed"}
  /\ session \in {None, "open", "closing"}
  /\ signals \in 0..MaxSignals

\* A phase that reaches its end has revoked its lease or logged that it did
\* not, whatever failed: the routines, the connection, the run, every attempt.
LeaseAccountedFor ==
  pc = "done" /\ known /\ loop["signal"] = "no" => lease = "revoked" \/ warned

\* The settle delay does what it is for: the vault kills no session that is
\* closing and loses no lease by it, unless a signal revokes without the delay
\* (or openDb ended the session itself: then there is no delay).
CleanSlate == db /\ lease = "failed" => loop["signal"] # "no"

\* A signal that the listener takes ends the process, even when the vault never
\* answers and whatever the phase does meanwhile.
SignalExits == loop["signal"] # "no" ~> process # "up"

\* The listeners await the revocation, five seconds at most, before the process
\* exits.
SignalAwaitsRevoke ==
  process = "interrupted" =>
    \A c \in Callers : loop[c] \in {"no", "over"}

=============================================================================
