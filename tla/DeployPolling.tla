---------------------------- MODULE DeployPolling ----------------------------
(***************************************************************************)
(* The CLIs around one agent: cli/commands/deploy.ts sends a request, and  *)
(* when it times out or gets a 409 asks GET /deploy/status until a         *)
(* deployment has completed since the request was sent                     *)
(* (pollDeploymentStatus of cli/http-client.ts).  HotDeploy is the agent.  *)
(* The time of the request is the CLI's Date.now(), the time of the        *)
(* completion the agent's; the two clocks differ by at most Skew.          *)
(***************************************************************************)
EXTENDS HotDeploy, Integers

CONSTANTS
  Skew,    \* how far the clock of a CLI may be from the agent's
  MaxTime  \* bound on the agent's clock

ASSUME TimeAssumption == Skew \in Nat /\ MaxTime \in Nat

VARIABLES
  client,           \* client[r]: idle, waiting, polling or a verdict
  requestStartTime, \* requestStartTime[r]: the CLI's clock when r was sent
  sentAt,           \* history: the agent's clock when r was sent
  recordedAt        \* history: the agent's clock when r's result was recorded

clientVars  == <<client, requestStartTime>>
historyVars == <<sentAt, recordedAt>>
pollingVars == <<vars, clientVars, historyVars>>

\* The agent's answer or a recorded result, or that there was none.
Verdicts == {"success", "failure", "noAnswer"}
Finished(r) == client[r] \in Verdicts

PollingInit ==
  /\ Init
  /\ client = [r \in Requests |-> "idle"]
  /\ requestStartTime = [r \in Requests |-> 0]
  /\ sentAt = [r \in Requests |-> 0]
  /\ recordedAt = [r \in Requests |-> 0]

Becomes(r, state) == client' = [client EXCEPT ![r] = state]

Recorded(r) == Deploying(r) /\ pc'[r] = "done"
Stamped == recordedAt' = [r \in Requests |->
                            IF Recorded(r) THEN now ELSE recordedAt[r]]

SendRequest(r) ==
  /\ client[r] = "idle"
  /\ Route(r)
  /\ Becomes(r, "waiting")
  /\ \E offset \in -Skew..Skew :
       requestStartTime' = [requestStartTime EXCEPT ![r] = now + offset]
  /\ sentAt' = [sentAt EXCEPT ![r] = now]
  /\ Stamped

\* A 409 is not an error: the CLI waits for the deployment in progress.
ReceiveAnswer(r) ==
  /\ client[r] = "waiting" /\ pc[r] = "done"
  /\ Becomes(r, CASE answer[r] = "deployed" -> "success"
                  [] answer[r] = "conflict" -> "polling"
                  [] OTHER -> "failure")
  /\ UNCHANGED <<vars, requestStartTime, historyVars>>

\* DEPLOYMENT_TIMEOUT_MS has passed.
RequestTimesOut(r) ==
  /\ client[r] = "waiting"
  /\ Becomes(r, "polling")
  /\ UNCHANGED <<vars, requestStartTime, historyVars>>

\* Any other network error: the CLI gives up at once.
ConnectionFails(r) ==
  /\ client[r] = "waiting"
  /\ Becomes(r, "noAnswer")
  /\ UNCHANGED <<vars, requestStartTime, historyVars>>

\* Mutated: the last result counts whenever it was recorded.
pollAnyResult(r) ==
  /\ client[r] = "polling"
  /\ lastCompletedAt # 0
  /\ Becomes(r, lastResult)
  /\ UNCHANGED <<vars, requestStartTime, historyVars>>

\* One status request: any completion later than the request counts as its own.
pollDeploymentStatus(r) ==
  /\ client[r] = "polling"
  /\ lastCompletedAt # 0 /\ lastCompletedAt > requestStartTime[r]
  /\ Becomes(r, lastResult)
  /\ UNCHANGED <<vars, requestStartTime, historyVars>>

\* Mutated: the wait is limited only while the agent shows a deployment.
PollTimesOutShown(r) ==
  /\ client[r] = "polling"
  /\ current # None
  /\ Becomes(r, "noAnswer")
  /\ UNCHANGED <<vars, requestStartTime, historyVars>>

\* STATUS_POLL_MAX_WAIT_MS has passed, whatever the agent still does.
PollTimesOut(r) ==
  /\ client[r] = "polling"
  /\ Becomes(r, "noAnswer")
  /\ UNCHANGED <<vars, requestStartTime, historyVars>>

\* A step of the agent that no client sees.
Unseen == UNCHANGED <<clientVars, sentAt>> /\ Stamped

AgentWorks(r) == Continue(r) /\ Unseen

\* Time passes, for the agent and its clients.
Tick ==
  /\ now < MaxTime
  /\ now' = now + 1
  /\ UNCHANGED <<requestVars, deployLock, war, payaraVars, current, lastResult,
                 lastCompletedAt, clientVars, historyVars>>

AgentStep ==
  \/ (Lifecycle \/ \E r \in Requests : Domain(r)) /\ Unseen
  \/ \E r \in Requests : AgentWorks(r)

ClientStep(r) ==
  \/ ReceiveAnswer(r) \/ RequestTimesOut(r) \/ ConnectionFails(r)
  \/ pollDeploymentStatus(r) \/ PollTimesOut(r)

PollingNext ==
  \/ Tick \/ AgentStep
  \/ \E r \in Requests : SendRequest(r) \/ ClientStep(r)

\* The agent's awaits settle, and each of a client's has a time limit: every step
\* that one of the two takes moves its pc, or the client.
PollingSpec ==
  /\ PollingInit /\ [][PollingNext]_pollingVars
  /\ \A r \in Requests : WF_pc(Continue(r)) /\ WF_client(ClientStep(r))

-----------------------------------------------------------------------------
\* A client that reports success sent a request the agent answered "deployed":
\* "We MUST wait for lastCompletedAt > startedAfter to confirm THIS deployment
\* finished."
SuccessIsOwn ==
  \A r \in Requests : client[r] = "success" => answer[r] = "deployed"

Agrees(r, s) ==
  IF client[r] = "success" THEN answer[s] = "deployed"
                           ELSE answer[s] \in {"failed", "error"}

\* Each verdict is the answer to the client's own request, or a result that was
\* recorded, and less than d before r was sent.
FreshWithin(d) ==
  \A r \in Requests : client[r] \in {"success", "failure"} =>
    \/ Agrees(r, r)
    \/ \E s \in Requests : /\ recordedAt[s] # 0 /\ recordedAt[s] > sentAt[r] - d
                           /\ Agrees(r, s)

\* No client mistakes an old result for news by more than the clocks differ,
\* whatever requests overlap, and no verdict is made up of two requests: the
\* time and the result that are recorded are those of one of them.
VerdictIsFresh == FreshWithin(Skew)

\* "Check if deployment completed after our request started": it did.
VerdictIsLater == FreshWithin(0)

\* Every client reaches a verdict, and the agent ends its work on the request.
EventuallyVerdict ==
  \A r \in Requests : client[r] = "waiting" ~> Finished(r) /\ ~InFlight(r)
=============================================================================
