----------------------------- MODULE ChunkUpload -----------------------------
(***************************************************************************)
(* CLIs that bring the WAR of one agent to their own: deployToHost of      *)
(* cli/commands/deploy.ts reads the hashes, computes the differences and   *)
(* sends them in chunks, in one request or as a whole WAR; the agent       *)
(* collects chunks in the sessions of session-store.ts until the last      *)
(* commits them (routes/deploy.ts, routes/status.ts).                      *)
(*                                                                         *)
(* Applying changes is one step under the deployment lock, its insides are *)
(* HotDeploy's, and what a CLI learns by polling is DeployPolling's.  A    *)
(* session is named by the upload that opened it, uploads of a client are  *)
(* numbered.                                                               *)
(***************************************************************************)
EXTENDS Naturals, Sequences, FiniteSets, SequencesExt

CONSTANTS
  Clients,      \* CLIs, each with a WAR of its own
  NumFiles,     \* the paths are 1..NumFiles, in the order of the local hashes
  MinFiles,     \* the least files of a client's WAR
  ChunkSize,    \* CHUNK_SIZE, how many files a request holds
  MaxSessions,  \* maxSessions of the session store
  MaxUploads,   \* bound on the uploads of a client
  MaxRestarts,  \* bound on the restarts of the agent
  Absent, Old,  \* no file, and a file of none of the clients
  Torn,         \* a WAR file cut short, which nothing can read
  None

Files == 1..NumFiles

ASSUME ChunkAssumption == {MinFiles, ChunkSize, MaxSessions} \subseteq Nat \ {0}
ASSUME BoundsAssumption == {NumFiles, MaxUploads, MaxRestarts} \subseteq Nat
ASSUME NoneAssumption == None \notin Clients \X Nat
ASSUME TornAssumption == \A w \in [Files -> {Absent, Old} \cup Clients] : w # Torn

VARIABLES
  local,      \* local[c]: the WAR of client c
  war,        \* the WAR of the agent
  sessions,   \* the session store, oldest first
  commit,     \* the changes being applied under deployLock, or None
  pc,         \* what deployToHost of client c awaits, or how it ended
  uploads,    \* uploads[c]: uploads c has begun
  diff,       \* diff[c]: the differences c computed
  left,       \* left[c]: changed files c has still to send
  known,      \* known[c]: whether c has learned the id of its session
  restarts,
  overtaken   \* clients behind whose reading of the hashes another wrote, or
              \* the WAR was destroyed

agentVars == <<war, sessions, commit, restarts>>
clientVars == <<local, pc, uploads, diff, left, known, overtaken>>
vars == <<agentVars, clientVars>>

Wars == [Files -> {Absent, Old} \cup Clients]
NoDiff == [changed |-> {}, deleted |-> {}]

id(c) == <<c, uploads[c]>>

Goto(c, label) == pc' = [pc EXCEPT ![c] = label]

\* The chunks are sent, or given up.
LeaveChunks(c, label) ==
  /\ Goto(c, label)
  /\ left' = [left EXCEPT ![c] = {}]
  /\ known' = [known EXCEPT ![c] = FALSE]

-----------------------------------------------------------------------------
(* The session store                                                       *)

\* get: a session past its age is gone, however lately it was used.
Live(s) == \E i \in DOMAIN sessions : sessions[i].id = s /\ ~sessions[i].expired

Without(s) ==
  LET places == {i \in DOMAIN sessions : sessions[i].id = s}
  IN  IF places = {} THEN sessions ELSE RemoveAt(sessions, CHOOSE i \in places : TRUE)

\* The sessions that have not expired; those that have are the oldest.
fresh == SubSeq(sessions, 1 + Cardinality({i \in DOMAIN sessions : sessions[i].expired}),
                Len(sessions))

\* Mutated: a session goes when the limit is reached, and not exceeded.
cleanupAtLimit ==
  SubSeq(fresh, 1 + (IF Len(fresh) >= MaxSessions THEN Len(fresh) - MaxSessions + 1 ELSE 0),
         Len(fresh))

\* Mutated: only expired sessions go.
cleanupExpired == fresh

\* Expired sessions go, then the oldest until there are maxSessions.
cleanup ==
  SubSeq(fresh, 1 + (IF Len(fresh) > MaxSessions THEN Len(fresh) - MaxSessions ELSE 0), Len(fresh))

create(s, files, deletions) ==
  sessions' = Append(cleanup, [id |-> s, files |-> files, deletions |-> deletions,
                               expired |-> FALSE])

addFiles(s, files) ==
  sessions' = [ i \in DOMAIN sessions |->
                  IF sessions[i].id = s
                  THEN [sessions[i] EXCEPT !.files = @ \cup files]
                  ELSE sessions[i] ]

\* Mutated: a session that is gone is opened again.
ReceiveChunkAnew(c, files) ==
  IF known[c] /\ Live(id(c)) THEN addFiles(id(c), files)
  ELSE create(id(c), files, diff[c].deleted)

\* The first half of POST /deploy/chunk: the session c's chunk is added to.
ReceiveChunk(c, files) ==
  IF known[c] THEN Live(id(c)) /\ addFiles(id(c), files)
              ELSE create(id(c), files, diff[c].deleted)

\* Sessions pass their age in the order of their creation.
Expire ==
  /\ \E i \in DOMAIN sessions :
       /\ ~sessions[i].expired
       /\ \A j \in 1..i-1 : sessions[j].expired
       /\ sessions' = [sessions EXCEPT ![i].expired = TRUE]
  /\ UNCHANGED <<war, commit, restarts, clientVars>>

-----------------------------------------------------------------------------
(* The client reads the hashes                                             *)

Init ==
  /\ local \in {w \in [Clients -> Wars] : \A c \in Clients :
                  /\ w[c] \in [Files -> {Absent, c}]
                  /\ Cardinality({f \in Files : w[c][f] = c}) >= MinFiles}
  /\ war \in [Files -> {Absent, Old}]
  /\ sessions = <<>> /\ commit = None
  /\ pc = [c \in Clients |-> "idle"]
  /\ uploads = [c \in Clients |-> 0]
  /\ diff = [c \in Clients |-> NoDiff]
  /\ left = [c \in Clients |-> {}]
  /\ known = [c \in Clients |-> FALSE]
  /\ restarts = 0
  /\ overtaken = {}

Ended == {"idle", "ok", "failed", "polls"}

\* A WAR that is not there has no hashes, and one that is torn none to read.
Hashes == IF war = Torn THEN {} ELSE {f \in Files : war[f] # Absent}

calculateDiff(c) ==
  [ changed |-> {f \in Files : local[c][f] # Absent /\ (f \in Hashes => local[c][f] # war[f])},
    deleted |-> {f \in Hashes : local[c][f] = Absent} ]

\* The remote is empty, its hashes cannot be read, or --force is given: the
\* whole WAR goes.  Otherwise the number of changes decides.
Plan(c, d) ==
  {"upload"} \cup
    IF Hashes = {} THEN {}
    ELSE IF d = NoDiff THEN {"ok"}
    ELSE IF Cardinality(d.changed) > ChunkSize THEN {"chunk"}
    ELSE {"single"}

deployToHost(c) ==
  /\ pc[c] \in Ended /\ uploads[c] < MaxUploads
  /\ uploads' = [uploads EXCEPT ![c] = @ + 1]
  /\ LET d == calculateDiff(c) IN
       /\ diff' = [diff EXCEPT ![c] = d]
       /\ left' = [left EXCEPT ![c] = d.changed]
       /\ \E label \in Plan(c, d) : Goto(c, label)
  /\ known' = [known EXCEPT ![c] = FALSE]
  /\ overtaken' = overtaken \ {c}
  /\ UNCHANGED <<local, agentVars>>

-----------------------------------------------------------------------------
(* Chunks                                                                  *)

Chunk(c) == {f \in left[c] : Cardinality({g \in left[c] : g < f}) < ChunkSize}

LastChunk(c) == Chunk(c) = left[c]

SendChunk(c) ==
  /\ pc[c] = "chunk" /\ ~LastChunk(c)
  /\ ReceiveChunk(c, Chunk(c))
  /\ left' = [left EXCEPT ![c] = @ \ Chunk(c)]
  /\ known' = [known EXCEPT ![c] = TRUE]
  /\ UNCHANGED <<local, war, commit, restarts, pc, uploads, diff, overtaken>>

\* The chunk or its answer is lost: agentPost throws, there is no retry.
ChunkLost(c) ==
  /\ pc[c] = "chunk"
  /\ ReceiveChunk(c, Chunk(c)) \/ UNCHANGED sessions
  /\ LeaveChunks(c, "failed")
  /\ UNCHANGED <<local, war, commit, restarts, uploads, diff, overtaken>>

\* The session is gone: 404, for a commit as well.
SessionNotFound(c) ==
  /\ pc[c] = "chunk" /\ known[c] /\ ~Live(id(c))
  /\ sessions' = Without(id(c))
  /\ LeaveChunks(c, "failed")
  /\ UNCHANGED <<local, war, commit, restarts, uploads, diff, overtaken>>

\* The last chunk is in the session before the lock refuses the commit: 409,
\* and the session stays.
CommitRefused(c) ==
  /\ pc[c] = "chunk" /\ LastChunk(c) /\ commit # None
  /\ ReceiveChunk(c, Chunk(c))
  /\ LeaveChunks(c, "polls")
  /\ UNCHANGED <<local, war, commit, restarts, uploads, diff, overtaken>>

Received(c) ==
  UNION {sessions'[i].files : i \in {j \in DOMAIN sessions' : sessions'[j].id = id(c)}}

\* POST /deploy/chunk with commit: applyChangesAuto of the whole session.
Commit(c) ==
  /\ pc[c] = "chunk" /\ LastChunk(c) /\ commit = None
  /\ ReceiveChunk(c, Chunk(c))
  /\ commit' = [client |-> c, session |-> id(c), files |-> Received(c),
                deletions |-> diff[c].deleted]
  /\ LeaveChunks(c, "waits")
  /\ UNCHANGED <<local, war, restarts, uploads, diff, overtaken>>

-----------------------------------------------------------------------------
(* One request, and what both wait for                                     *)

PostDeploy(c) ==
  /\ pc[c] = "single"
  /\ IF commit = None
     THEN /\ commit' = [client |-> c, session |-> None, files |-> diff[c].changed,
                        deletions |-> diff[c].deleted]
          /\ Goto(c, "waits")
     ELSE Goto(c, "polls") /\ UNCHANGED commit
  /\ UNCHANGED <<local, war, sessions, restarts, uploads, diff, left, known, overtaken>>

Applied ==
  [ f \in Files |->
      IF f \in commit.files THEN commit.client
      ELSE IF f \in commit.deletions THEN Absent ELSE war[f] ]

\* What a commit that fails or is cut off leaves: a torn WAR cannot be changed,
\* and the file may have been rewritten, or emptied and not filled, before.
Leftovers == IF war = Torn THEN {Torn} ELSE {war, Applied, Torn}

\* Others have read hashes that are no longer those of the WAR.
Overtakes(c) ==
  overtaken' = overtaken \cup {d \in Clients : war' # war /\ (d # c \/ war' = Torn)}

\* The request of c ends, unless the client has given up on it.
Answer(c, label) == pc' = [pc EXCEPT ![c] = IF @ = "waits" THEN label ELSE @]

\* The session is deleted, whatever the result.
Finish ==
  /\ sessions' = Without(commit.session)
  /\ commit' = None
  /\ UNCHANGED <<local, uploads, diff, left, known, restarts>>

applyChanges ==
  /\ commit # None /\ war # Torn
  /\ war' = Applied
  /\ Overtakes(commit.client)
  /\ Answer(commit.client, "ok")
  /\ Finish

ApplyFails ==
  /\ commit # None
  /\ war' \in Leftovers
  /\ Overtakes(commit.client)
  /\ Answer(commit.client, "failed")
  /\ Finish

\* The request takes longer than five minutes.
RequestTimesOut(c) ==
  /\ pc[c] = "waits"
  /\ Goto(c, "polls")
  /\ UNCHANGED <<agentVars, local, uploads, diff, left, known, overtaken>>

-----------------------------------------------------------------------------
(* The whole WAR                                                           *)

UploadStart(c) ==
  /\ pc[c] = "upload"
  /\ Goto(c, IF commit = None THEN "writes" ELSE "polls")
  /\ UNCHANGED <<agentVars, local, uploads, diff, left, known, overtaken>>

\* The route has looked at deployLock and takes none: the file is written
\* while another commit may be applied.
UploadWar(c) ==
  /\ pc[c] = "writes"
  /\ \/ war' = local[c] /\ \E label \in {"ok", "failed"} : Goto(c, label)
     \/ war' \in {war, Torn} /\ Goto(c, "failed")
  /\ Overtakes(c)
  /\ UNCHANGED <<sessions, commit, restarts, local, uploads, diff, left, known>>

-----------------------------------------------------------------------------
\* The agent restarts: sessions and lock are gone, requests are cut off.
Restart ==
  /\ restarts < MaxRestarts
  /\ restarts' = restarts + 1
  /\ sessions' = <<>>
  /\ commit' = None
  /\ war' \in IF commit = None THEN {war} ELSE Leftovers
  /\ overtaken' = overtaken \cup {c \in Clients : war' # war}
  /\ pc' = [c \in Clients |-> IF pc[c] \in {"waits", "writes"} THEN "failed" ELSE pc[c]]
  /\ UNCHANGED <<local, uploads, diff, left, known>>

ClientStep(c) ==
  \/ deployToHost(c) \/ SendChunk(c) \/ ChunkLost(c) \/ SessionNotFound(c)
  \/ CommitRefused(c) \/ Commit(c) \/ PostDeploy(c) \/ RequestTimesOut(c)
  \/ UploadStart(c) \/ UploadWar(c)

Next ==
  \/ \E c \in Clients : ClientStep(c)
  \/ applyChanges \/ ApplyFails \/ Expire \/ Restart

Spec == Init /\ [][Next]_vars

-----------------------------------------------------------------------------
Symmetry == Permutations(Clients)

Labels == Ended \cup {"chunk", "single", "upload", "writes", "waits"}
Names == Clients \X Nat
Changes == SUBSET Files
SessionRecords ==
  [id : Names, files : Changes, deletions : Changes, expired : BOOLEAN]
Commits ==
  [client : Clients, session : Names \cup {None}, files : Changes, deletions : Changes]

TypeOK ==
  /\ local \in [Clients -> Wars] /\ war \in Wars \cup {Torn}
  /\ sessions \in Seq(SessionRecords)
  /\ commit \in Commits \cup {None}
  /\ pc \in [Clients -> Labels]
  /\ uploads \in [Clients -> Nat] /\ restarts \in Nat
  /\ diff \in [Clients -> [changed : Changes, deleted : Changes]]
  /\ left \in [Clients -> Changes]
  /\ known \in [Clients -> BOOLEAN]
  /\ overtaken \subseteq Clients

\* A client that is told of success has its own WAR on the agent, unless
\* another client wrote or a write failed behind its reading of the hashes: no
\* chunk is missing from what was applied, whatever became of the sessions.
SuccessIsWar ==
  \A c \in Clients : pc[c] = "ok" /\ c \notin overtaken => war = local[c]

\* What is applied is all that one client computed, also where it is overtaken.
CommitIsWhole ==
  commit # None /\ commit.session = id(commit.client) =>
    commit.files = diff[commit.client].changed

\* The clean-up precedes the insertion: one session more than the limit.
SessionsBounded == Len(sessions) <= MaxSessions + 1

Goes(i) == \A j \in DOMAIN sessions' : sessions'[j].id # sessions[i].id

\* A session goes with its age, its commit or the agent; otherwise it is evicted,
\* and only where the sessions exceed the limit, as session-store.ts promises,
\* and as few as that takes.  Which one goes is another question.
SessionsAreKept ==
  [][ \A i \in DOMAIN sessions :
        Goes(i) /\ ~sessions[i].expired =>
          \/ commit # None /\ commit.session = sessions[i].id
          \/ restarts' # restarts
          \/ Len(sessions') = MaxSessions + 1 ]_vars

=============================================================================
