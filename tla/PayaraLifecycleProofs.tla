------------------------ MODULE PayaraLifecycleProofs ------------------------
(***************************************************************************)
(* Proofs about PayaraLifecycle, for any number of JVMs, of operations and *)
(* of new versions of the secrets.                                         *)
(***************************************************************************)
EXTENDS PayaraLifecycle, SequenceTheorems, FiniteSetTheorems, TLAPS

-----------------------------------------------------------------------------
(***************************************************************************)
(* The calls an operation has still to make.  Each call is replaced by the *)
(* calls it turns out to need, so what may follow what is a matter of the  *)
(* pairs of neighbours, and of what each call expands to.                  *)
(***************************************************************************)
\* The call at place i of s, or "end" behind the last one.
Call(s, i) == IF i \in 1 .. Len(s) THEN s[i] ELSE "end"

Has(s, c) == \E i \in 1 .. Len(s) : s[i] = c

\* Whether d, a call or the end, may come right after the call c.
Link(c, d) ==
  /\ d = "startDomain" => c = "writeSetenv"
  /\ d = "restartFresh" => c = "verifyStopped"
  /\ d = "startup" => c = "writeSetenv"
  /\ c = "writeSetenv" =>
       d \in {"startDomain", "startup", "gracefulStop", "stop", "end"}
  /\ c = "gracefulStop" => d = "killProcesses"
  /\ c = "stopDomain" => d \in {"killProcesses", "waitForStopped"}
  /\ c = "sigterm" => d = "checkRemaining"
  /\ c \in {"checkRemaining", "sigkill"} => d = "finalCheck"
  /\ c = "fetchSecrets" => d = "writeSetenv"
  /\ c = "ensureSingleProcess" => d = "fetchSecrets"

\* The setenv.conf written after the secrets is not that of a launch.
LinkedAt(s, i) ==
  /\ Link(s[i], Call(s, i + 1))
  /\ s[i] = "fetchSecrets"
       => Call(s, i + 2) \in {"startup", "gracefulStop", "stop", "end"}

Linked(s) == \A i \in 1 .. Len(s) : LinkedAt(s, i)

\* What each call may be replaced by: nothing, or the calls at these places.
Expands(c, pre) ==
  /\ pre \in Seq(Calls)
  /\ \/ /\ Len(pre) = 0 /\ c \notin {"startDomain", "deploy"}
     \/ /\ c = "start" /\ Len(pre) = 3
        /\ pre[1] = "writeSetenv" /\ pre[2] = "startDomain"
        /\ pre[3] = "waitForHealthy"
     \/ /\ c = "startDomain" /\ Len(pre) = 1 /\ pre[1] = "awaitBoot"
     \/ /\ c = "stop" /\ Len(pre) = 2
        /\ pre[1] = "stopDomain" /\ pre[2] = "waitForStopped"
     \/ /\ c = "ensureSingleProcess" /\ Len(pre) = 4
        /\ pre[1] = "gracefulStop" /\ pre[2] = "killProcesses"
        /\ pre[3] = "verifyStopped" /\ pre[4] = "restartFresh"
     \/ /\ c = "restartFresh" /\ Len(pre) = 4
        /\ pre[1] = "ensureNoJava" /\ pre[2] = "writeSetenv"
        /\ pre[3] = "startDomain" /\ pre[4] = "waitForHealthy"
     \/ /\ c = "gracefulStop" /\ Len(pre) = 1 /\ pre[1] = "stopDomain"
     \/ /\ c = "ensureNoJava" /\ Len(pre) = 1 /\ pre[1] = "killProcesses"
     \/ /\ c = "killProcesses" /\ Len(pre) = 3
        /\ pre[1] = "sigterm" /\ pre[2] = "checkRemaining"
        /\ pre[3] = "finalCheck"
     \/ /\ c = "checkRemaining" /\ Len(pre) = 1 /\ pre[1] = "sigkill"
     \/ /\ c = "startup" /\ Len(pre) = 1 /\ pre[1] \in {"deploy", "start"}
     \/ /\ c = "startup" /\ Len(pre) = 2
        /\ pre[1] = "start" /\ pre[2] = "deploy"
     \/ /\ c = "startup" /\ Len(pre) \in {5, 6}
        /\ pre[1] = "ensureNoJava" /\ pre[2] = "ensureNoJava"
        /\ pre[3] = "writeSetenv" /\ pre[4] = "startDomain"
        /\ pre[5] = "waitForHealthy"
        /\ Len(pre) = 6 => pre[6] = "deploy"
     \/ /\ c = "deploy" /\ Len(pre) = 1 /\ pre[1] = "asadminDeploy"
     \/ /\ c = "deploy" /\ Len(pre) = 2
        /\ pre[1] = "start" /\ pre[2] = "asadminDeploy"

LEMMA Joined ==
  ASSUME NEW s \in Seq(Calls), NEW t \in Seq(Calls)
  PROVE  /\ s \o t \in Seq(Calls)
         /\ Len(s \o t) = Len(s) + Len(t)
         /\ \A i \in 1 .. Len(s) : (s \o t)[i] = s[i]
         /\ \A i \in 1 .. Len(t) : (s \o t)[Len(s) + i] = t[i]
OBVIOUS

\* What is left when the first call of s is replaced is what s has behind it.
LEMMA Replaced ==
  ASSUME NEW s \in Seq(Calls), s # << >>, NEW pre \in Seq(Calls)
  PROVE  /\ Len(s) \in Nat /\ Len(s) > 0 /\ Len(pre) \in Nat
         /\ Tail(s) \in Seq(Calls)
         /\ pre \o Tail(s) \in Seq(Calls)
         /\ Len(Tail(s)) = Len(s) - 1
         /\ Len(pre \o Tail(s)) = Len(pre) + Len(s) - 1
         /\ \A i \in 1 .. Len(pre) : (pre \o Tail(s))[i] = pre[i]
         /\ \A i \in 2 .. Len(s) :
              (pre \o Tail(s))[Len(pre) + i - 1] = s[i]
         /\ Head(s) = s[1]
OBVIOUS

\* Only the first call can be the one that goes.
LEMMA HasKept ==
  ASSUME NEW s \in Seq(Calls), s # << >>, NEW pre \in Seq(Calls), NEW c,
         Has(s, c), Head(s) # c
  PROVE  Has(pre \o Tail(s), c)
<1>1. PICK i \in 1 .. Len(s) : s[i] = c
  BY DEF Has
<1>2. i \in 2 .. Len(s) /\ Len(pre) + i - 1 \in 1 .. Len(pre \o Tail(s))
  BY <1>1, Replaced
<1> QED BY <1>1, <1>2, Replaced DEF Has

\* What is left comes from the expansion or from behind the first call.
LEMMA HasNew ==
  ASSUME NEW s \in Seq(Calls), s # << >>, NEW pre \in Seq(Calls), NEW c,
         Has(pre \o Tail(s), c)
  PROVE  Has(pre, c) \/ \E i \in 2 .. Len(s) : s[i] = c
<1> DEFINE t == pre \o Tail(s)
<1>1. PICK i \in 1 .. Len(t) : t[i] = c
  BY DEF Has
<1>2. CASE i \in 1 .. Len(pre)
  BY <1>1, <1>2, Replaced DEF Has
<1>3. CASE i \notin 1 .. Len(pre)
  <2>1. i - Len(pre) + 1 \in 2 .. Len(s)
    BY <1>1, <1>3, Replaced
  <2>2. Len(pre) + (i - Len(pre) + 1) - 1 = i
    BY Replaced
  <2>3. t[i] = s[i - Len(pre) + 1]
    BY <2>1, <2>2, Replaced
  <2> QED BY <1>1, <2>1, <2>3, Replaced DEF Has
<1> QED BY <1>2, <1>3

\* The calls an expansion may bring.
Brings(c, d) ==
  \/ d \in {"writeSetenv", "startDomain", "awaitBoot", "waitForHealthy",
            "stopDomain", "gracefulStop", "killProcesses", "ensureNoJava",
            "sigterm", "checkRemaining", "sigkill", "finalCheck"}
  \/ c = "ensureSingleProcess" /\ d \in {"verifyStopped", "restartFresh"}
  \/ c = "stop" /\ d = "waitForStopped"
  \/ c = "startup" /\ d \in {"deploy", "start"}
  \/ c = "deploy" /\ d \in {"start", "asadminDeploy"}

LEMMA ExpandsBrings ==
  ASSUME NEW c, NEW pre, Expands(c, pre), NEW d, Has(pre, d)
  PROVE  Brings(c, d)
<1>1. PICK i \in 1 .. Len(pre) : pre[i] = d
  BY DEF Has
<1>2. Len(pre) \in 0 .. 6
  BY DEF Expands
<1>3. i \in 1 .. 6
  BY <1>1, <1>2
<1> QED BY <1>1, <1>2, <1>3 DEF Expands, Brings

\* Within an expansion the neighbours are linked, and its last call is linked
\* to whatever could follow the call that was replaced.
LEMMA ExpandsLinked ==
  ASSUME NEW c, NEW pre, Expands(c, pre)
  PROVE  /\ \A i \in 1 .. Len(pre) : i < Len(pre) => Link(pre[i], pre[i + 1])
         /\ \A d : Len(pre) > 0 /\ Link(c, d) => Link(pre[Len(pre)], d)
<1>1. PICK n \in 0 .. 6 : Len(pre) = n
  BY DEF Expands
<1>2. Len(pre) \in 0 .. 6
  BY <1>1
<1>3. ASSUME NEW i \in 1 .. Len(pre), i < Len(pre)
      PROVE  Link(pre[i], pre[i + 1])
  <2>1. i \in 1 .. n /\ i < n
    BY <1>1, <1>3
  <2>2. i \in 1 .. 5
    BY <2>1
  <2> QED BY <1>2, <1>3, <2>2 DEF Expands, Link
<1>4. ASSUME NEW d, Len(pre) > 0, Link(c, d) PROVE Link(pre[Len(pre)], d)
  BY <1>2, <1>4 DEF Expands, Link
<1> QED BY <1>3, <1>4

\* Where a call of what is left comes from.
LEMMA CallAt ==
  ASSUME NEW s \in Seq(Calls), s # << >>, NEW pre \in Seq(Calls), NEW k \in Nat \ {0}
  PROVE  Call(pre \o Tail(s), k)
           = IF k <= Len(pre) THEN pre[k] ELSE Call(s, k - Len(pre) + 1)
<1> DEFINE t == pre \o Tail(s)
<1>1. Len(t) = Len(pre) + Len(s) - 1 /\ Len(pre) \in Nat /\ Len(s) \in Nat /\ Len(s) > 0
  BY Replaced
<1>2. CASE k <= Len(pre)
  <2>1. k \in 1 .. Len(pre) /\ k \in 1 .. Len(t)
    BY <1>1, <1>2
  <2>2. t[k] = pre[k]
    BY <2>1, Replaced
  <2> QED BY <1>2, <2>1, <2>2 DEF Call
<1>3. CASE Len(pre) < k /\ k <= Len(t)
  <2>1. /\ k - Len(pre) + 1 \in 2 .. Len(s)
        /\ k - Len(pre) + 1 \in 1 .. Len(s)
        /\ k \in 1 .. Len(t)
        /\ Len(pre) + (k - Len(pre) + 1) - 1 = k
        /\ ~(k <= Len(pre))
    BY <1>1, <1>3
  <2>2. t[k] = s[k - Len(pre) + 1]
    BY <2>1, Replaced
  <2> QED BY <2>1, <2>2 DEF Call
<1>4. CASE k > Len(t)
  <2>1. k \notin 1 .. Len(t) /\ k - Len(pre) + 1 \notin 1 .. Len(s)
        /\ ~(k <= Len(pre))
    BY <1>1, <1>4
  <2> QED BY <2>1 DEF Call
<1> QED BY <1>1, <1>2, <1>3, <1>4

\* Replacing the first call by one of its expansions keeps the links.
LEMMA LinkedOn ==
  ASSUME NEW s \in Seq(Calls), s # << >>, NEW pre, Expands(Head(s), pre),
         Linked(s)
  PROVE  Linked(pre \o Tail(s))
<1> DEFINE t == pre \o Tail(s)
<1>1. /\ pre \in Seq(Calls) /\ Len(pre) \in Nat /\ Len(s) \in Nat /\ Len(s) > 0
      /\ Len(t) = Len(pre) + Len(s) - 1 /\ Head(s) = s[1]
  BY Replaced DEF Expands
<1>2. Link(Head(s), Call(s, 2))
  BY <1>1 DEF Linked, LinkedAt
<1> SUFFICES ASSUME NEW i \in 1 .. Len(t) PROVE LinkedAt(t, i)
  BY DEF Linked
<1> HIDE DEF t
<1>3. i \in Nat \ {0} /\ i + 1 \in Nat \ {0} /\ i + 2 \in Nat \ {0}
  BY <1>1
<1>4. \A k \in Nat \ {0} : Call(t, k)
        = IF k <= Len(pre) THEN pre[k] ELSE Call(s, k - Len(pre) + 1)
  BY <1>1, CallAt DEF t
<1>5. t[i] = Call(t, i)
  BY DEF Call
<1>6. CASE i < Len(pre)
  <2>1. t[i] = pre[i] /\ Call(t, i + 1) = pre[i + 1] /\ i \in 1 .. Len(pre)
    BY <1>1, <1>3, <1>4, <1>5, <1>6
  <2>2. t[i] # "fetchSecrets"
    BY <2>1, ExpandsBrings DEF Has, Brings
  <2> QED BY <1>6, <2>1, <2>2, ExpandsLinked DEF LinkedAt
<1>7. CASE i = Len(pre)
  <2>1. t[i] = pre[i] /\ Call(t, i + 1) = Call(s, 2) /\ i \in 1 .. Len(pre)
    BY <1>1, <1>3, <1>4, <1>5, <1>7
  <2>2. t[i] # "fetchSecrets"
    BY <2>1, ExpandsBrings DEF Has, Brings
  <2> QED BY <1>1, <1>2, <1>7, <2>1, <2>2, ExpandsLinked DEF LinkedAt
<1>8. CASE i > Len(pre)
  <2> DEFINE k == i - Len(pre) + 1
  <2>1. /\ k \in 1 .. Len(s)
        /\ t[i] = Call(s, k) /\ Call(t, i + 1) = Call(s, k + 1)
        /\ Call(t, i + 2) = Call(s, k + 2)
    BY <1>1, <1>3, <1>4, <1>5, <1>8
  <2>2. t[i] = s[k]
    BY <2>1 DEF Call
  <2> QED BY <2>1, <2>2 DEF Linked, LinkedAt
<1> QED BY <1>1, <1>3, <1>6, <1>7, <1>8

\* The expansions as the operations write them.
LEMMA Nothing ==
  ASSUME NEW c, c \notin {"startDomain", "deploy"} PROVE Expands(c, << >>)
BY DEF Expands

LEMMA StartExpands ==
  /\ Expands("start", <<"writeSetenv", "startDomain", "waitForHealthy">>)
  /\ Expands("startDomain", <<"awaitBoot">>)
  /\ Expands("stop", <<"stopDomain", "waitForStopped">>)
  /\ Expands("gracefulStop", <<"stopDomain">>)
BY DEF Expands, Calls

LEMMA StopExpands ==
  /\ Expands("ensureNoJava", <<"killProcesses">>)
  /\ Expands("killProcesses", <<"sigterm", "checkRemaining", "finalCheck">>)
  /\ Expands("checkRemaining", <<"sigkill">>)
  /\ Expands("deploy", <<"asadminDeploy">>)
  /\ Expands("deploy", <<"start">> \o <<"asadminDeploy">>)
  /\ Expands("deploy", << >> \o <<"asadminDeploy">>)
BY DEF Expands, Calls

LEMMA AggressiveExpands ==
  /\ Expands("ensureSingleProcess", aggressiveStop \o <<"restartFresh">>)
  /\ Expands("restartFresh", safeStart)
<1>1. aggressiveStop \in Seq(Calls) /\ safeStart \in Seq(Calls)
      /\ <<"restartFresh">> \in Seq(Calls)
  BY DEF Calls, aggressiveStop, safeStart
<1>2. aggressiveStop \o <<"restartFresh">> \in Seq(Calls)
  BY <1>1
<1>3. Expands("ensureSingleProcess", aggressiveStop \o <<"restartFresh">>)
  BY <1>2 DEF Expands, aggressiveStop
<1>4. Expands("restartFresh", safeStart)
  BY <1>1 DEF Expands, safeStart
<1> QED BY <1>3, <1>4

startAlone == <<"ensureNoJava">> \o safeStart

LEMMA StartAlone ==
  /\ startAlone \in Seq(Calls) /\ Len(startAlone) = 5
  /\ startAlone[1] = "ensureNoJava" /\ startAlone[2] = "ensureNoJava"
  /\ startAlone[3] = "writeSetenv" /\ startAlone[4] = "startDomain"
  /\ startAlone[5] = "waitForHealthy"
<1>1. <<"ensureNoJava">> \in Seq(Calls) /\ safeStart \in Seq(Calls)
  BY DEF Calls, safeStart
<1>2. startAlone \in Seq(Calls)
  BY <1>1 DEF startAlone
<1> QED BY <1>2 DEF startAlone, safeStart

LEMMA StartupExpands ==
  ASSUME NEW ready \in BOOLEAN, NEW deploy \in {<< >>, <<"deploy">>},
         mode \in AllModes
  PROVE  Expands("startup", StartupCalls(ready, deploy))
<1>1. << >> \in Seq(Calls) /\ <<"deploy">> \in Seq(Calls)
      /\ <<"start">> \in Seq(Calls)
  BY DEF Calls
<1>2. Expands("startup", << >>) /\ Expands("startup", <<"deploy">>)
      /\ Expands("startup", <<"start">>)
  BY <1>1 DEF Expands
<1>3. /\ << >> \o << >> = << >> /\ << >> \o <<"deploy">> = <<"deploy">>
      /\ <<"start">> \o << >> = <<"start">> /\ startAlone \o << >> = startAlone
  BY <1>1, StartAlone, ConcatEmptySeq
<1>4. Expands("startup", startAlone)
  BY StartAlone DEF Expands
<1>5. Expands("startup", <<"start">> \o <<"deploy">>)
  BY <1>1 DEF Expands
<1>6. Expands("startup", startAlone \o <<"deploy">>)
  <2> DEFINE last == <<"deploy">>
  <2>1. last \in Seq(Calls) /\ Len(last) = 1 /\ last[1] = "deploy"
    BY <1>1
  <2> HIDE DEF last
  <2>2. /\ startAlone \o last \in Seq(Calls)
        /\ Len(startAlone \o last) = 6
        /\ \A i \in 1 .. 5 : (startAlone \o last)[i] = startAlone[i]
        /\ (startAlone \o last)[6] = "deploy"
    <3>1. startAlone \in Seq(Calls) /\ Len(startAlone) = 5
      BY StartAlone
    <3>2. startAlone \o last \in Seq(Calls)
          /\ Len(startAlone \o last) = Len(startAlone) + Len(last)
          /\ \A i \in 1 .. Len(startAlone) : (startAlone \o last)[i] = startAlone[i]
      BY <2>1, <3>1, Joined
    <3>3. (startAlone \o last)[Len(startAlone) + 1] = last[1]
      <4>1. 1 \in 1 .. Len(last)
        BY <2>1
      <4> QED BY <2>1, <3>1, <4>1, Joined
    <3>4. (startAlone \o last)[6] = last[1]
      <4>1. Len(startAlone) + 1 = 6
        BY <3>1
      <4> QED BY <3>3, <4>1
    <3> QED BY <2>1, <3>1, <3>2, <3>4
  <2>3. Expands("startup", startAlone \o last)
    BY <2>2, StartAlone DEF Expands
  <2> QED BY <2>3 DEF last
<1>7. CASE deploy = << >>
  BY <1>2, <1>3, <1>4, <1>7 DEF StartupCalls, AllModes, startAlone
<1>8. CASE deploy = <<"deploy">>
  BY <1>2, <1>3, <1>5, <1>6, <1>8 DEF StartupCalls, AllModes, startAlone
<1> QED BY <1>7, <1>8

-----------------------------------------------------------------------------
(***************************************************************************)
(* The steps of an operation, for the sequence of its calls: the first one *)
(* is replaced by what it expands to, or the whole is dropped.             *)
(***************************************************************************)
Goes(o) ==
  \/ Throw(o)
  \/ \E pre : /\ Expands(Head(todo[o]), pre)
              /\ ProceedIn(o, pre \o Tail(todo[o]), environment')

LEMMA GoesInto ==
  ASSUME NEW o, NEW pre, Expands(Head(todo[o]), pre),
         ProceedIn(o, pre \o Rest(o), environment')
  PROVE  Goes(o)
BY DEF Goes, Rest

LEMMA GoesOn ==
  ASSUME NEW o, todo[o] \in Seq(Calls), todo[o] # << >>,
         Head(todo[o]) \notin {"startDomain", "deploy"},
         \/ ProceedIn(o, Rest(o), environment')
         \/ ProceedIn(o, << >> \o Rest(o), environment')
  PROVE  Goes(o)
<1>1. << >> \o Rest(o) = Rest(o)
  BY Replaced, ConcatEmptySeq DEF Rest
<1>2. Expands(Head(todo[o]), << >>)
  BY Nothing
<1> QED BY <1>1, <1>2, GoesInto

LEMMA Flow ==
  ASSUME TypeOK, NEW o \in Operations, Continue(o)
  PROVE  todo[o] \in Seq(Calls) /\ todo[o] # << >> /\ Goes(o) /\ UNCHANGED beginVars
<1>1. todo[o] \in Seq(Calls) /\ mode \in AllModes
  BY ModesAssumption DEF TypeOK
<1>2. Throw(o) => Goes(o)
  BY DEF Goes
<1> USE DEF At, Proceed, Unchanged, envVars
<1>3. CASE FetchSecrets(o) \/ WriteSetenv(o)
  BY <1>1, <1>2, <1>3, GoesOn DEF FetchSecrets, WriteSetenv
<1>4. CASE Start(o)
  BY <1>1, <1>4, GoesOn, GoesInto, StartExpands DEF Start
<1>5. CASE StartDomain(o)
  BY <1>1, <1>2, <1>5, GoesInto, StartExpands DEF StartDomain
<1>6. CASE AwaitUp(o)
  BY <1>1, <1>2, <1>6, GoesOn DEF AwaitUp
<1>7. CASE Stop(o)
  BY <1>1, <1>7, GoesOn, GoesInto, StartExpands DEF Stop
<1>8. CASE StopDomain(o) \/ WaitForStopped(o)
  BY <1>1, <1>2, <1>8, GoesOn DEF StopDomain, WaitForStopped
<1>9. CASE EnsureSingleProcess(o)
  BY <1>1, <1>9, GoesOn, GoesInto, AggressiveExpands DEF EnsureSingleProcess
<1>10. CASE RestartFresh(o)
  BY <1>1, <1>10, GoesOn, GoesInto, AggressiveExpands DEF RestartFresh, AskProcesses
<1>11. CASE GracefulStop(o)
  BY <1>1, <1>11, GoesOn, GoesInto, StartExpands DEF GracefulStop
<1>12. CASE EnsureNoJava(o)
  BY <1>1, <1>12, GoesOn, GoesInto, StopExpands DEF EnsureNoJava, AskProcesses
<1>13. CASE KillProcesses(o)
  BY <1>1, <1>13, GoesOn, GoesInto, StopExpands DEF KillProcesses, AskProcesses
<1>14. CASE CheckRemaining(o)
  BY <1>1, <1>14, GoesOn, GoesInto, StopExpands DEF CheckRemaining, AskProcesses
<1>15. CASE Sigterm(o) \/ Sigkill(o)
  BY <1>1, <1>2, <1>15, GoesOn DEF Sigterm, Sigkill
<1>16. CASE FinalCheck(o) \/ VerifyStopped(o)
  BY <1>1, <1>2, <1>16, GoesOn DEF FinalCheck, VerifyStopped, FailIfAlive
<1>17. CASE Startup(o)
  BY <1>1, <1>17, GoesInto, StartupExpands DEF Startup
<1>18. CASE Deploy(o)
  BY <1>1, <1>18, GoesInto, StopExpands DEF Deploy
<1>19. CASE AsadminDeploy(o)
  BY <1>1, <1>2, <1>19, GoesOn DEF AsadminDeploy
<1> QED BY <1>3, <1>4, <1>5, <1>6, <1>7, <1>8, <1>9, <1>10, <1>11, <1>12,
           <1>13, <1>14, <1>15, <1>16, <1>17, <1>18, <1>19 DEF Continue

-----------------------------------------------------------------------------
(***************************************************************************)
(* Type correctness.                                                       *)
(***************************************************************************)
JvmTypes ==
  /\ jvm \in [Jvms -> {"none", "booting", "up", "draining"}]
  /\ jvmEnv \in [Jvms -> Versions]
  /\ pids \in [Operations -> SUBSET Jvms]

FlowTypes ==
  /\ answer \in [Operations -> {None, "done", "error"}]
  /\ todo \in [Operations -> Seq(Calls)]
  /\ content \in [Operations -> Versions]

\* The handlers make calls.
LEMMA HandlerType ==
  ASSUME mode \in AllModes, NEW k \in Kinds
  PROVE  Handler(k) \in Seq(Calls) /\ (Handler(k) = << >> => k = "certificate")
<1>1. aggressiveStop \in Seq(Calls) /\ safeStart \in Seq(Calls)
      /\ restart \in Seq(Calls) /\ refreshSecrets \in Seq(Calls)
      /\ <<"ensureSingleProcess">> \in Seq(Calls) /\ <<"startup">> \in Seq(Calls)
      /\ <<"start">> \in Seq(Calls) /\ <<"stop">> \in Seq(Calls)
      /\ << >> \in Seq(Calls)
  BY DEF Calls, aggressiveStop, safeStart, restart, refreshSecrets
<1>2. configuredRestart \in Seq(Calls)
  BY <1>1 DEF configuredRestart, aggressiveRestart, AllModes
<1>3. onKeyRotated \in Seq(Calls) /\ Len(onKeyRotated) >= 2
  BY <1>1, <1>2 DEF onKeyRotated, refreshSecrets
<1>4. onStart \in Seq(Calls) /\ Len(onStart) >= 1
  BY <1>1 DEF onStart, refreshSecrets
<1> QED BY <1>1, <1>2, <1>3, <1>4 DEF Handler, Kinds, restart, refreshSecrets

LEMMA FlowType ==
  ASSUME TypeOK, NEW o \in Operations, todo[o] \in Seq(Calls), todo[o] # << >>,
         Goes(o), environment' \in Versions
  PROVE  FlowTypes'
<1>1. 0 \in Versions
  BY LimitsAssumption DEF Versions
<1>2. ASSUME NEW pre, Expands(Head(todo[o]), pre)
      PROVE  pre \o Tail(todo[o]) \in Seq(Calls)
  BY <1>2, Replaced DEF Expands
<1>3. << >> \in Seq(Calls)
  OBVIOUS
<1>4. CASE Throw(o)
  BY <1>1, <1>3, <1>4 DEF TypeOK, FlowTypes, Throw
<1>5. ASSUME NEW calls \in Seq(Calls), ProceedIn(o, calls, environment')
      PROVE  FlowTypes'
  BY <1>1, <1>5 DEF TypeOK, FlowTypes, ProceedIn
<1> QED BY <1>2, <1>4, <1>5 DEF Goes

\* The environment and the file hold versions of the secrets.
LEMMA EnvType ==
  ASSUME TypeOK, NEW o \in Operations, Continue(o)
  PROVE  {environment', setenv'} \subseteq Versions
<1> USE DEF TypeOK
<1>1. CASE FetchSecrets(o)
  <2>1. since[o] .. vault \subseteq Versions
    BY LimitsAssumption DEF Versions
  <2> QED BY <1>1, <2>1 DEF FetchSecrets
<1>2. CASE WriteSetenv(o)
  BY <1>2 DEF WriteSetenv
<1>3. CASE UNCHANGED envVars
  BY <1>3 DEF envVars
<1>4. CASE StopDomain(o) \/ StartDomain(o) \/ Sigterm(o) \/ Sigkill(o)
  BY <1>3, <1>4 DEF StopDomain, StartDomain, Sigterm, Sigkill
<1>5. CASE RestartFresh(o) \/ EnsureNoJava(o) \/ KillProcesses(o)
             \/ CheckRemaining(o) \/ FinalCheck(o) \/ VerifyStopped(o)
  BY <1>3, <1>5 DEF RestartFresh, EnsureNoJava, KillProcesses, CheckRemaining,
       FinalCheck, VerifyStopped, AskProcesses, FailIfAlive
<1>6. CASE Unchanged
  BY <1>3, <1>6 DEF Unchanged
<1>7. CASE Start(o) \/ AwaitUp(o) \/ Stop(o) \/ WaitForStopped(o)
             \/ EnsureSingleProcess(o) \/ GracefulStop(o) \/ Startup(o)
             \/ Deploy(o) \/ AsadminDeploy(o)
  BY <1>6, <1>7 DEF Start, AwaitUp, Stop, WaitForStopped, EnsureSingleProcess,
       GracefulStop, Startup, Deploy, AsadminDeploy
<1> QED BY <1>1, <1>2, <1>4, <1>5, <1>7 DEF Continue

\* The JVMs an operation starts, stops and kills.
LEMMA JvmType ==
  ASSUME TypeOK, NEW o \in Operations, Continue(o)
  PROVE  JvmTypes'
<1> USE DEF TypeOK, JvmTypes
<1>1. CASE FetchSecrets(o) \/ WriteSetenv(o)
  BY <1>1 DEF FetchSecrets, WriteSetenv, jvmVars
<1>2. CASE StartDomain(o)
  BY <1>2 DEF StartDomain, jvmVars
<1>3. CASE StopDomain(o) \/ Sigterm(o)
  BY <1>3 DEF StopDomain, Sigterm, Shut
<1>4. CASE Sigkill(o)
  BY <1>4 DEF Sigkill
<1>5. CASE RestartFresh(o) \/ EnsureNoJava(o) \/ KillProcesses(o)
             \/ CheckRemaining(o) \/ FinalCheck(o) \/ VerifyStopped(o)
  <2>1. \A seen \in Processes : seen \subseteq Jvms
    BY DEF Processes, Alive
  <2> QED BY <1>5, <2>1 DEF RestartFresh, EnsureNoJava, KillProcesses,
        CheckRemaining, FinalCheck, VerifyStopped, AskProcesses, FailIfAlive, jvmVars
<1>6. CASE Unchanged
  BY <1>6 DEF Unchanged, jvmVars
<1>7. CASE Start(o) \/ AwaitUp(o) \/ Stop(o) \/ WaitForStopped(o)
             \/ EnsureSingleProcess(o) \/ GracefulStop(o) \/ Startup(o)
             \/ Deploy(o) \/ AsadminDeploy(o)
  BY <1>6, <1>7 DEF Start, AwaitUp, Stop, WaitForStopped, EnsureSingleProcess,
       GracefulStop, Startup, Deploy, AsadminDeploy
<1> QED BY <1>1, <1>2, <1>3, <1>4, <1>5, <1>7 DEF Continue

\* What happens without an operation.
Outside == (\E j \in Jvms : Boot(j) \/ Exit(j) \/ ExecStart(j)) \/ Rotate

LEMMA TypeStep == TypeOK /\ [Next]_vars => TypeOK'
<1> SUFFICES ASSUME TypeOK, [Next]_vars PROVE TypeOK'
  OBVIOUS
<1>1. CASE UNCHANGED vars
  BY <1>1 DEF TypeOK, vars, jvmVars, envVars, flowVars, beginVars
<1>2. ASSUME NEW o \in Operations, Continue(o) PROVE TypeOK'
  <2>1. FlowTypes' /\ JvmTypes' /\ {environment', setenv'} \subseteq Versions
        /\ UNCHANGED beginVars
    BY <1>2, Flow, FlowType, EnvType, JvmType
  <2> QED BY <2>1 DEF TypeOK, FlowTypes, JvmTypes, beginVars
<1>3. ASSUME NEW o \in Operations, NEW k \in Kinds, Begin(o, k) PROVE TypeOK'
  <2>1. Handler(k) \in Seq(Calls) /\ 0 \in Versions
    BY HandlerType, ModesAssumption, LimitsAssumption DEF TypeOK, Versions
  <2>2. FlowTypes'
    BY <1>3, <2>1 DEF TypeOK, Begin, Proceed, ProceedIn, FlowTypes
  <2> QED BY <1>3, <2>2 DEF TypeOK, Begin, FlowTypes, jvmVars, envVars
<1>4. ASSUME NEW j \in Jvms, Boot(j) \/ Exit(j) \/ ExecStart(j) PROVE TypeOK'
  BY <1>4 DEF TypeOK, Boot, Exit, ExecStart, OnlyJvm, envVars, flowVars,
              beginVars, Alive
<1>5. CASE Rotate
  <2>1. vault' \in Versions
    BY <1>5, LimitsAssumption DEF TypeOK, Rotate, Versions
  <2> QED BY <1>5, <2>1 DEF TypeOK, Rotate, jvmVars, envVars, flowVars
<1> QED BY <1>1, <1>2, <1>3, <1>4, <1>5 DEF Next

LEMMA TypeInit == Init => TypeOK
<1>1. 0 \in Versions /\ 1 \in Versions
  BY LimitsAssumption DEF Versions
<1>2. << >> \in Seq(Calls)
  OBVIOUS
<1> QED BY <1>1, <1>2 DEF Init, TypeOK

\* The variables of the model keep their types: the calls of an operation are
\* those of the code, and no version is newer than the vault's last.
THEOREM TypeCorrect == Spec => []TypeOK
BY TypeInit, TypeStep, PTL DEF Spec


-----------------------------------------------------------------------------
(***************************************************************************)
(* The shape of what is left of an operation.                              *)
(***************************************************************************)
\* The calls of the aggressive restart, from place n on.
Aggressively(s, n) ==
  /\ Len(s) = n + 6
  /\ s[n] = "gracefulStop" /\ s[n + 1] = "killProcesses"
  /\ s[n + 2] = "verifyStopped" /\ s[n + 3] = "ensureNoJava"
  /\ s[n + 4] = "writeSetenv" /\ s[n + 5] = "startDomain"
  /\ s[n + 6] = "waitForHealthy"

\* The calls each operation begins with, by their places.
Opens(k, s) ==
  /\ s \in Seq(Calls)
  /\ \/ /\ k = "onStart" /\ mode = "exec" /\ Len(s) = 3
        /\ s[1] = "fetchSecrets" /\ s[2] = "writeSetenv" /\ s[3] = "startup"
     \/ /\ k = "onStart" /\ mode # "exec" /\ Len(s) = 4
        /\ s[1] = "ensureSingleProcess" /\ s[2] = "fetchSecrets"
        /\ s[3] = "writeSetenv" /\ s[4] = "startup"
     \/ /\ k = "start" /\ Len(s) = 1 /\ s[1] = "start"
     \/ /\ k = "stop" /\ Len(s) = 1 /\ s[1] = "stop"
     \/ /\ k = "restart" /\ Len(s) = 2 /\ s[1] = "stop" /\ s[2] = "start"
     \/ /\ k = "certificate" /\ mode = "exec" /\ Len(s) = 0
     \/ /\ k = "certificate" /\ mode = "normal" /\ Len(s) = 2
        /\ s[1] = "stop" /\ s[2] = "start"
     \/ /\ k = "certificate" /\ mode = "aggressive" /\ Aggressively(s, 1)
     \/ /\ k = "secretChanged" /\ Len(s) = 2
        /\ s[1] = "fetchSecrets" /\ s[2] = "writeSetenv"
     \/ /\ k = "keyRotated" /\ mode = "exec" /\ Len(s) = 2
        /\ s[1] = "fetchSecrets" /\ s[2] = "writeSetenv"
     \/ /\ k = "keyRotated" /\ mode = "normal" /\ Len(s) = 4
        /\ s[1] = "fetchSecrets" /\ s[2] = "writeSetenv"
        /\ s[3] = "stop" /\ s[4] = "start"
     \/ /\ k = "keyRotated" /\ mode = "aggressive" /\ Aggressively(s, 3)
        /\ s[1] = "fetchSecrets" /\ s[2] = "writeSetenv"

LEMMA HandlerOpens ==
  ASSUME mode \in AllModes, NEW k \in Kinds
  PROVE  Opens(k, Handler(k))
<1>1. Handler(k) \in Seq(Calls)
  BY HandlerType
<1>2. CASE k = "onStart"
  BY <1>1, <1>2 DEF Opens, Handler, onStart, refreshSecrets
<1>3. CASE k \in {"start", "stop", "restart", "secretChanged"}
  BY <1>1, <1>3 DEF Opens, Handler, restart, refreshSecrets
<1>4. CASE k = "certificate"
  BY <1>1, <1>4 DEF Opens, Handler, configuredRestart, aggressiveRestart,
                    aggressiveStop, safeStart, restart, AllModes, Aggressively
<1>5. CASE k = "keyRotated"
  BY <1>1, <1>5 DEF Opens, Handler, onKeyRotated, configuredRestart, aggressiveRestart,
                    aggressiveStop, safeStart, restart, refreshSecrets, AllModes, Aggressively
<1> QED BY <1>2, <1>3, <1>4, <1>5 DEF Kinds

LEMMA OpensLinked ==
  ASSUME mode \in AllModes, NEW k, NEW s, Opens(k, s)
  PROVE  Linked(s)
<1>0. PICK m \in 0 .. 9 : Len(s) = m
  BY DEF Opens, Aggressively
<1>1. Len(s) \in 0 .. 9
  BY <1>0
<1>2. \A n \in 1 .. 11 : Call(s, n) = IF n <= Len(s) THEN s[n] ELSE "end"
  BY <1>1 DEF Call
<1> SUFFICES ASSUME NEW i \in 1 .. Len(s) PROVE LinkedAt(s, i)
  BY DEF Linked
<1>3. i \in 1 .. 9 /\ i + 1 \in 1 .. 11 /\ i + 2 \in 1 .. 11
  BY <1>0
<1>4. /\ Call(s, i + 1) = IF i + 1 <= Len(s) THEN s[i + 1] ELSE "end"
      /\ Call(s, i + 2) = IF i + 2 <= Len(s) THEN s[i + 2] ELSE "end"
  BY <1>2, <1>3
<1>5. CASE mode # "aggressive" \/ k \notin {"certificate", "keyRotated"}
  BY <1>0, <1>3, <1>4, <1>5 DEF Opens, LinkedAt, Link
<1>6. CASE mode = "aggressive" /\ k = "certificate"
  BY <1>0, <1>3, <1>4, <1>6 DEF Opens, Aggressively, LinkedAt, Link
<1>7. CASE mode = "aggressive" /\ k = "keyRotated"
  BY <1>0, <1>3, <1>4, <1>7 DEF Opens, Aggressively, LinkedAt, Link
<1> QED BY <1>5, <1>6, <1>7


\* A handler that fetches the secrets does so first, if it is no onStart; only
\* onStart looks at the processes and starts up, without plain stops and with
\* more to do after each writeSetenv; the aggressive restarts stop and start
\* by methods of their own.
Shaped(o) ==
  /\ Linked(todo[o])
  /\ kind[o] \in {"keyRotated", "secretChanged"} =>
       todo[o] = Handler(kind[o]) \/ ~Has(todo[o], "fetchSecrets")
  /\ o # OnStart =>
       ~Has(todo[o], "startup") /\ ~Has(todo[o], "ensureSingleProcess")
  /\ o = OnStart =>
       ~Has(todo[o], "stop") /\ Call(todo[o], Len(todo[o])) # "writeSetenv"
  /\ Aggressive(o) /\ o # OnStart =>
       /\ ~Has(todo[o], "stop") /\ ~Has(todo[o], "start")
       /\ ~Has(todo[o], "deploy") /\ ~Has(todo[o], "asadminDeploy")

\* The life of an operation: it is busy as long as it has calls to make, and
\* all of them follow a successful onStart.
Lived(o) ==
  /\ Busy(o) <=> todo[o] # << >>
  /\ answer[o] # None => kind[o] # None
  /\ since[o] <= vault
  /\ kind[o] # None => (kind[o] = "onStart" <=> o = OnStart)
  /\ kind[o] # None /\ o # OnStart => answer[OnStart] = "done"

Orderly == \A o \in Operations : Shaped(o) /\ Lived(o)

\* What a step of operation o leaves of o and of the others.
LEMMA GoesEffect ==
  ASSUME TypeOK, NEW o \in Operations, Goes(o)
  PROVE  /\ \A p \in Operations : p # o =>
              /\ todo'[p] = todo[p] /\ answer'[p] = answer[p]
              /\ content'[p] = content[p]
         /\ \/ todo'[o] = << >> /\ answer'[o] \in {"done", "error"}
            \/ todo'[o] # << >> /\ answer'[o] = None
BY DEF TypeOK, Goes, Throw, ProceedIn

LEMMA ShapedOn ==
  ASSUME TypeOK, NEW o \in Operations, Shaped(o), todo[o] # << >>, Goes(o),
         UNCHANGED <<mode, kind>>
  PROVE  Shaped(o)'
<1>1. CASE Throw(o)
  <2>1. todo'[o] = << >>
    BY <1>1 DEF Throw, TypeOK
  <2> QED BY <2>1 DEF Shaped, Linked, Has, Call
<1>2. ASSUME NEW pre, Expands(Head(todo[o]), pre),
             ProceedIn(o, pre \o Tail(todo[o]), environment')
      PROVE  Shaped(o)'
  <2> DEFINE s == todo[o]
             t == pre \o Tail(s)
  <2>1. todo'[o] = t /\ s \in Seq(Calls) /\ s # << >> /\ pre \in Seq(Calls)
        /\ Len(s) \in Nat /\ Len(s) > 0 /\ Head(s) = s[1] /\ mode \in AllModes
    <3>1. s \in Seq(Calls) /\ s # << >> /\ pre \in Seq(Calls) /\ mode \in AllModes
      BY <1>2, ModesAssumption DEF TypeOK, Expands
    <3>2. todo'[o] = t
      BY <1>2 DEF ProceedIn, TypeOK
    <3> QED BY <3>1, <3>2, Replaced
  <2> HIDE DEF s, t
  <2>2. Linked(t)
    BY <1>2, <2>1, LinkedOn DEF Shaped, s, t
  <2>3. ASSUME NEW d, Has(t, d)
        PROVE  Brings(Head(s), d) \/ \E i \in 2 .. Len(s) : s[i] = d
    BY <1>2, <2>1, <2>3, HasNew, ExpandsBrings DEF s, t
  <2>4. \A d : (\E i \in 2 .. Len(s) : s[i] = d) => Has(s, d)
    BY <2>1 DEF Has
  <2>5. Has(s, Head(s))
    BY <2>1 DEF Has
  <2>6. ASSUME kind[o] \in {"keyRotated", "secretChanged"}
        PROVE  ~Has(t, "fetchSecrets")
    <3>1. ~Brings(Head(s), "fetchSecrets")
      BY DEF Brings
    <3>2. CASE ~Has(s, "fetchSecrets")
      BY <2>3, <2>4, <3>1, <3>2
    <3>3. CASE s = Handler(kind[o])
      <4>1. Opens(kind[o], s)
        BY <2>1, <2>6, <3>3, HandlerOpens DEF Kinds
      <4>2. \A i \in 2 .. Len(s) : s[i] # "fetchSecrets"
        BY <2>6, <4>1 DEF Opens, Aggressively
      <4> QED BY <2>3, <3>1, <4>2
    <3> QED BY <2>6, <3>2, <3>3 DEF Shaped, s
  <2>7. ASSUME o # OnStart
        PROVE  ~Has(t, "startup") /\ ~Has(t, "ensureSingleProcess")
    BY <2>3, <2>4, <2>7 DEF Shaped, s, Brings
  <2>8. ASSUME Aggressive(o), o # OnStart
        PROVE  /\ ~Has(t, "stop") /\ ~Has(t, "start")
               /\ ~Has(t, "deploy") /\ ~Has(t, "asadminDeploy")
    BY <2>3, <2>4, <2>5, <2>8 DEF Shaped, s, Brings
  <2>9. ASSUME o = OnStart
        PROVE  ~Has(t, "stop") /\ Call(t, Len(t)) # "writeSetenv"
    <3>1. ~Has(t, "stop")
      BY <2>3, <2>4, <2>9 DEF Shaped, s, Brings
    <3>2. Call(s, Len(s)) # "writeSetenv"
      BY <2>9 DEF Shaped, s
    <3> DEFINE n == Len(t)
               m == Len(pre)
               l == Len(s)
    <3>3. n = m + l - 1 /\ n \in Nat /\ m \in Nat /\ l \in Nat /\ l > 0
      BY <2>1, Replaced DEF t
    <3> SUFFICES Call(t, n) # "writeSetenv"
      BY <3>1
    <3>4. CASE n = 0
      BY <3>4 DEF Call
    <3>5. CASE n > 0
      <4>1. Call(t, n) = IF n <= m THEN pre[n] ELSE Call(s, n - m + 1)
        BY <2>1, <3>3, <3>5, CallAt DEF t
      <4>2. CASE n <= m
        <5>1. n = m /\ m > 0
          BY <3>3, <3>5, <4>2
        <5>2. pre[m] # "writeSetenv"
          BY <1>2, <5>1 DEF Expands
        <5> QED BY <3>3, <4>1, <4>2, <5>1, <5>2
      <4>3. CASE ~(n <= m)
        <5>1. n - m + 1 = l
          BY <3>3
        <5> QED BY <3>2, <3>3, <4>1, <4>3, <5>1
      <4> QED BY <4>2, <4>3
    <3> QED BY <3>3, <3>4, <3>5
  <2> QED BY <2>1, <2>2, <2>6, <2>7, <2>8, <2>9 DEF Shaped, Aggressive
<1> QED BY <1>1, <1>2 DEF Goes

\* An operation that does not move keeps its shape, and its life.
LEMMA ShapedStays ==
  ASSUME NEW p \in Operations, Shaped(p), UNCHANGED <<mode, kind[p], todo[p]>>
  PROVE  Shaped(p)'
<1>1. (Handler(kind[p]))' = Handler(kind[p])
  BY DEF Handler, onStart, onKeyRotated, configuredRestart
<1> QED BY <1>1 DEF Shaped, Aggressive

\* An operation that begins has the shape of its handler.
LEMMA ShapedBegins ==
  ASSUME mode \in AllModes, NEW o \in Operations, NEW k \in Kinds,
         k = "onStart" <=> o = OnStart, UNCHANGED mode,
         kind'[o] = k, todo'[o] = Handler(k)
  PROVE  Shaped(o)'
<1> DEFINE s == Handler(k)
<1>1. Opens(k, s)
  BY HandlerOpens
<1>2. Linked(s)
  BY <1>1, OpensLinked
<1>3. (Handler(kind[o]))' = s
  BY DEF Handler, onStart, onKeyRotated, configuredRestart
<1> HIDE DEF s
<1>4. PICK n \in 0 .. 9 : Len(s) = n
  BY <1>1 DEF Opens, Aggressively
<1>5. ASSUME k # "onStart"
      PROVE  ~Has(s, "startup") /\ ~Has(s, "ensureSingleProcess")
  <2>1. \A i \in 1 .. n : s[i] \notin {"startup", "ensureSingleProcess"}
    BY <1>1, <1>4, <1>5 DEF Opens, Aggressively
  <2> QED BY <1>4, <2>1 DEF Has
<1>6. ASSUME mode = "aggressive", k \in {"certificate", "keyRotated"}
      PROVE  /\ ~Has(s, "stop") /\ ~Has(s, "start")
             /\ ~Has(s, "deploy") /\ ~Has(s, "asadminDeploy")
  <2>1. \A i \in 1 .. n : s[i] \notin {"stop", "start", "deploy", "asadminDeploy"}
    BY <1>1, <1>4, <1>6 DEF Opens, Aggressively
  <2> QED BY <1>4, <2>1 DEF Has
<1>7. ASSUME k = "onStart"
      PROVE  ~Has(s, "stop") /\ Call(s, Len(s)) # "writeSetenv"
  <2>1. \A i \in 1 .. n : s[i] # "stop"
    BY <1>1, <1>4, <1>7 DEF Opens
  <2>2. n \in 1 .. n /\ s[n] = "startup"
    BY <1>1, <1>4, <1>7 DEF Opens
  <2> QED BY <1>4, <2>1, <2>2 DEF Has, Call
<1>8. todo'[o] = s
  BY DEF s
<1> QED BY <1>2, <1>3, <1>5, <1>6, <1>7, <1>8 DEF Shaped, Aggressive

LEMMA OrderlyStep == TypeOK /\ Orderly /\ [Next]_vars => Orderly'
<1> SUFFICES ASSUME TypeOK, Orderly, [Next]_vars PROVE Orderly'
  OBVIOUS
<1> USE DEF Orderly
<1>1. CASE UNCHANGED vars
  BY <1>1, ShapedStays DEF Lived, Busy, vars, beginVars, flowVars
<1>2. ASSUME NEW o \in Operations, Continue(o) PROVE Orderly'
  <2>1. todo[o] # << >> /\ Goes(o) /\ UNCHANGED <<mode, vault, kind, since>>
    BY <1>2, Flow DEF beginVars
  <2>2. \A p \in Operations : Shaped(p)'
    BY <2>1, ShapedOn, ShapedStays, GoesEffect
  <2>3. \A p \in Operations : Lived(p)'
    <3>1. /\ \A p \in Operations : p # o => todo'[p] = todo[p] /\ answer'[p] = answer[p]
          /\ \/ todo'[o] = << >> /\ answer'[o] \in {"done", "error"}
             \/ todo'[o] # << >> /\ answer'[o] = None
      BY <2>1, GoesEffect
    <3>2. kind[o] # None /\ answer[o] = None
      BY <2>1 DEF Lived, Busy
    <3>3. OnStart \in Operations
      BY LimitsAssumption DEF OnStart, Operations
    <3> QED BY <2>1, <3>1, <3>2, <3>3, NoneAssumption DEF Lived, Busy
  <2> QED BY <2>2, <2>3
<1>3. ASSUME NEW o \in Operations, NEW k \in Kinds, Begin(o, k) PROVE Orderly'
  <2>1. /\ kind[o] = None /\ (k = "onStart" <=> o = OnStart)
        /\ o # OnStart => answer[OnStart] = "done"
        /\ kind' = [kind EXCEPT ![o] = k] /\ since' = [since EXCEPT ![o] = vault]
        /\ todo' = [todo EXCEPT ![o] = Handler(k)]
        /\ answer' = [answer EXCEPT ![o] = IF Handler(k) = << >> THEN "done" ELSE None]
        /\ UNCHANGED <<mode, vault>>
    BY <1>3 DEF Begin, Proceed, ProceedIn
  <2>2. mode \in AllModes /\ None \notin Kinds /\ None # "done" /\ None # "error"
    BY ModesAssumption, NoneAssumption DEF TypeOK
  <2>3. \A p \in Operations : Shaped(p)'
    <3>1. Shaped(o)'
      BY <2>1, <2>2, ShapedBegins DEF TypeOK
    <3>2. \A p \in Operations : p # o => UNCHANGED <<mode, kind[p], todo[p]>>
      BY <2>1 DEF TypeOK
    <3> QED BY <3>1, <3>2, ShapedStays
  <2>4. answer[o] = None /\ todo[o] = << >>
    BY <2>1 DEF Lived, Busy
  <2>5. \A p \in Operations : Lived(p)'
    <3>1. vault \in Nat
      BY DEF TypeOK, Versions
    <3>2. Lived(o)'
      BY <2>1, <2>2, <3>1 DEF Lived, Busy, TypeOK
    <3>3. answer[OnStart] = "done" => answer'[OnStart] = "done"
      BY <2>1, <2>2, <2>4 DEF TypeOK
    <3>4. ASSUME NEW p \in Operations, p # o PROVE Lived(p)'
      BY <2>1, <2>2, <3>3, <3>4 DEF Lived, Busy, TypeOK
    <3> QED BY <3>2, <3>4
  <2> QED BY <2>3, <2>5
<1>4. ASSUME NEW j \in Jvms, Boot(j) \/ Exit(j) \/ ExecStart(j) PROVE Orderly'
  BY <1>4, ShapedStays DEF Lived, Busy, Boot, Exit, ExecStart, OnlyJvm, beginVars, flowVars
<1>5. CASE Rotate
  <2>1. UNCHANGED <<mode, kind, since, todo, answer>> /\ vault' = vault + 1
    BY <1>5 DEF Rotate, flowVars
  <2> QED BY <2>1, ShapedStays DEF Lived, Busy, TypeOK, Versions
<1> QED BY <1>1, <1>2, <1>3, <1>4, <1>5 DEF Next

LEMMA OrderlyInit == Init => Orderly
<1> SUFFICES ASSUME Init, NEW o \in Operations PROVE Shaped(o) /\ Lived(o)
  BY DEF Orderly
<1>1. todo[o] = << >> /\ kind[o] = None /\ answer[o] = None /\ since[o] = 0 /\ vault = 1
  BY DEF Init
<1>2. ~Has(<< >>, "fetchSecrets") /\ Linked(<< >>) /\ None \notin Kinds
  BY NoneAssumption DEF Has, Linked
<1> QED BY <1>1, <1>2 DEF Shaped, Lived, Busy, Aggressive, Kinds, Has, Call


-----------------------------------------------------------------------------
(***************************************************************************)
(* The environment.  A launch takes setenv.conf, which start has written   *)
(* again from memory one call before; what is in memory is what the last   *)
(* handler has fetched.  That no handler fetches an older version after a  *)
(* newer one needs them to be one after the other.                         *)
(***************************************************************************)
Alone ==
  \A o, p \in Operations : Busy(o) =>
    /\ Busy(p) => o = p
    /\ kind[p] # None => since[p] <= since[o]

Fetches(o) == kind[o] \in {"onStart", "keyRotated", "secretChanged"}

\* A handler past its fetch has left a version in memory, or a newer one.
Stored ==
  \A o \in Operations :
    Fetches(o) /\ answer[o] # "error" /\ ~Has(todo[o], "fetchSecrets")
      => environment >= since[o]

\* What is written to setenv.conf, and launched with, is what is in memory.
Saved ==
  \A o \in Operations :
    /\ At(o, "writeSetenv") => content[o] = environment
    /\ At(o, "startDomain") => setenv = environment

AloneInv == TypeOK /\ Orderly /\ Alone
EnvInv == AloneInv /\ Stored /\ Saved

LEMMA AloneStep ==
  ASSUME ~Overlap
  PROVE  TypeOK /\ Orderly /\ Alone /\ [Next]_vars => Alone'
<1> SUFFICES ASSUME TypeOK, Orderly, Alone, [Next]_vars PROVE Alone'
  OBVIOUS
<1> USE DEF Alone, Busy
<1>1. CASE UNCHANGED vars
  BY <1>1 DEF vars, beginVars, flowVars
<1>2. ASSUME NEW o \in Operations, Continue(o) PROVE Alone'
  <2>1. todo[o] # << >> /\ Goes(o) /\ UNCHANGED <<kind, since>>
    BY <1>2, Flow DEF beginVars
  <2>2. Busy(o) /\ \A p \in Operations : p # o => answer'[p] = answer[p]
    BY <2>1, GoesEffect DEF Orderly, Lived
  <2> QED BY <2>1, <2>2
<1>3. ASSUME NEW o \in Operations, NEW k \in Kinds, Begin(o, k) PROVE Alone'
  <2>1. /\ \A p \in Operations : ~Busy(p)
        /\ kind' = [kind EXCEPT ![o] = k] /\ since' = [since EXCEPT ![o] = vault]
        /\ \A p \in Operations : p # o => answer'[p] = answer[p]
    BY <1>3 DEF Begin, Proceed, ProceedIn, TypeOK
  <2>2. \A p \in Operations : since[p] <= vault
    BY DEF Orderly, Lived
  <2>3. since'[o] = vault /\ vault <= vault
    BY <2>1 DEF TypeOK, Versions
  <2> QED BY <2>1, <2>2, <2>3 DEF TypeOK
<1>4. ASSUME NEW j \in Jvms, Boot(j) \/ Exit(j) \/ ExecStart(j) PROVE Alone'
  BY <1>4 DEF Boot, Exit, ExecStart, OnlyJvm, beginVars, flowVars
<1>5. CASE Rotate
  BY <1>5 DEF Rotate, flowVars
<1> QED BY <1>1, <1>2, <1>3, <1>4, <1>5 DEF Next

\* Only fetchSecrets changes the memory, and only writeSetenv the file.
LEMMA EnvEffect ==
  ASSUME NEW o \in Operations, Continue(o)
  PROVE  \/ At(o, "fetchSecrets") /\ FetchSecrets(o)
         \/ At(o, "writeSetenv") /\ WriteSetenv(o)
         \/ ~At(o, "fetchSecrets") /\ ~At(o, "writeSetenv") /\ UNCHANGED envVars
<1> USE DEF At
<1>1. CASE FetchSecrets(o) \/ WriteSetenv(o)
  BY <1>1 DEF FetchSecrets, WriteSetenv
<1>2. CASE StopDomain(o) \/ StartDomain(o) \/ Sigterm(o) \/ Sigkill(o)
  BY <1>2 DEF StopDomain, StartDomain, Sigterm, Sigkill
<1>3. CASE RestartFresh(o) \/ EnsureNoJava(o) \/ KillProcesses(o)
             \/ CheckRemaining(o) \/ FinalCheck(o) \/ VerifyStopped(o)
  BY <1>3 DEF RestartFresh, EnsureNoJava, KillProcesses, CheckRemaining,
       FinalCheck, VerifyStopped, AskProcesses, FailIfAlive
<1>4. CASE Start(o) \/ AwaitUp(o) \/ Stop(o) \/ WaitForStopped(o)
             \/ EnsureSingleProcess(o) \/ GracefulStop(o) \/ Startup(o)
             \/ Deploy(o) \/ AsadminDeploy(o)
  BY <1>4 DEF Start, AwaitUp, Stop, WaitForStopped, EnsureSingleProcess,
       GracefulStop, Startup, Deploy, AsadminDeploy, Unchanged
<1> QED BY <1>1, <1>2, <1>3, <1>4 DEF Continue

\* A handler that fetches has the fetch ahead of it when it begins.
LEMMA HandlerFetches ==
  ASSUME mode \in AllModes,
         NEW k \in {"onStart", "keyRotated", "secretChanged"}
  PROVE  Has(Handler(k), "fetchSecrets")
<1>1. Opens(k, Handler(k))
  BY HandlerOpens DEF Kinds
<1>2. \/ Handler(k)[1] = "fetchSecrets" /\ 1 \in 1 .. Len(Handler(k))
      \/ Handler(k)[2] = "fetchSecrets" /\ 2 \in 1 .. Len(Handler(k))
  BY <1>1 DEF Opens, Aggressively
<1> QED BY <1>2 DEF Has

LEMMA StoredStep == AloneInv /\ Stored /\ [Next]_vars => Stored'
<1> SUFFICES ASSUME AloneInv, Stored, [Next]_vars PROVE Stored'
  OBVIOUS
<1>0. TypeOK /\ Orderly /\ Alone /\ mode \in AllModes
  BY ModesAssumption DEF AloneInv, TypeOK
<1>1. CASE UNCHANGED vars
  BY <1>1 DEF Stored, Fetches, vars, beginVars, flowVars, envVars
<1>2. ASSUME NEW o \in Operations, Continue(o) PROVE Stored'
  <2>1. todo[o] \in Seq(Calls) /\ todo[o] # << >> /\ Goes(o) /\ UNCHANGED <<kind, since>>
    BY <1>0, <1>2, Flow DEF beginVars
  <2>2. Busy(o) /\ \A p \in Operations : p # o => answer'[p] = answer[p] /\ todo'[p] = todo[p]
    BY <1>0, <2>1, GoesEffect DEF Orderly, Lived
  <2>3. CASE UNCHANGED environment /\ ~At(o, "fetchSecrets")
    <3>1. ASSUME Fetches(o), answer'[o] # "error", Has(todo[o], "fetchSecrets")
          PROVE  Has(todo'[o], "fetchSecrets")
      <4>1. ~Throw(o)
        BY <1>0, <3>1 DEF Throw, TypeOK
      <4>2. PICK pre : /\ Expands(Head(todo[o]), pre)
                       /\ ProceedIn(o, pre \o Tail(todo[o]), environment')
        BY <2>1, <4>1 DEF Goes
      <4>3. todo'[o] = pre \o Tail(todo[o]) /\ pre \in Seq(Calls)
        BY <1>0, <4>2 DEF ProceedIn, TypeOK, Expands
      <4> QED BY <2>1, <2>3, <3>1, <4>3, HasKept DEF At
    <3>2. answer[o] = None
      BY <2>2 DEF Busy
    <3> QED BY <2>1, <2>2, <2>3, <3>1, <3>2, NoneAssumption DEF Stored, Fetches
  <2>4. CASE FetchSecrets(o) /\ environment' \in since[o] .. vault
    <3>1. \A p \in Operations : kind[p] # None => since[p] <= since[o]
      BY <1>0, <2>2 DEF Alone
    <3>2. since[o] \in Nat /\ vault \in Nat /\ \A p \in Operations : since[p] \in Nat
      BY <1>0 DEF TypeOK, Versions
    <3>3. \A p \in Operations : kind[p] # None => environment' >= since[p]
      BY <2>4, <3>1, <3>2
    <3> QED BY <2>1, <3>3, NoneAssumption DEF Stored, Fetches, Kinds
  <2>5. CASE FetchSecrets(o) /\ UNCHANGED environment /\ Throw(o)
    <3>1. answer'[o] = "error"
      BY <1>0, <2>5 DEF Throw, TypeOK
    <3> QED BY <2>1, <2>2, <2>5, <3>1 DEF Stored, Fetches
  <2> QED BY <1>2, <2>3, <2>4, <2>5, EnvEffect
          DEF FetchSecrets, WriteSetenv, envVars, At
<1>3. ASSUME NEW o \in Operations, NEW k \in Kinds, Begin(o, k) PROVE Stored'
  <2>1. /\ kind' = [kind EXCEPT ![o] = k] /\ since' = [since EXCEPT ![o] = vault]
        /\ todo'[o] = Handler(k) /\ UNCHANGED environment
        /\ \A p \in Operations : p # o => answer'[p] = answer[p] /\ todo'[p] = todo[p]
    BY <1>0, <1>3 DEF Begin, Proceed, ProceedIn, TypeOK, envVars
  <2>2. kind'[o] = k /\ \A p \in Operations : p # o => kind'[p] = kind[p] /\ since'[p] = since[p]
    BY <1>0, <2>1 DEF TypeOK
  <2> QED BY <1>0, <2>1, <2>2, HandlerFetches DEF Stored, Fetches
<1>4. ASSUME NEW j \in Jvms, Boot(j) \/ Exit(j) \/ ExecStart(j) PROVE Stored'
  BY <1>4 DEF Stored, Fetches, Boot, Exit, ExecStart, OnlyJvm, beginVars, flowVars, envVars
<1>5. CASE Rotate
  BY <1>5 DEF Stored, Fetches, Rotate, flowVars, envVars
<1> QED BY <1>1, <1>2, <1>3, <1>4, <1>5 DEF Next


\* The first call of s.
LEMMA FirstCall ==
  ASSUME NEW s \in Seq(Calls), NEW c \in Calls
  PROVE  (s # << >> /\ Head(s) = c) <=> Call(s, 1) = c
<1>1. CASE s = << >>
  BY <1>1 DEF Call, Calls
<1>2. CASE s # << >>
  <2>1. 1 \in 1 .. Len(s) /\ Head(s) = s[1]
    BY <1>2, Replaced
  <2> QED BY <1>2, <2>1 DEF Call
<1> QED BY <1>1, <1>2

\* The call that comes next: the first of the expansion, or the second of all.
LEMMA NextCall ==
  ASSUME NEW s \in Seq(Calls), s # << >>, NEW pre, Expands(Head(s), pre)
  PROVE  /\ Call(pre \o Tail(s), 1) = IF pre = << >> THEN Call(s, 2) ELSE pre[1]
         /\ pre = << >> => Call(pre \o Tail(s), 2) = Call(s, 3)
<1>1. pre \in Seq(Calls) /\ Len(pre) \in Nat /\ (Len(pre) = 0 <=> pre = << >>)
  BY DEF Expands
<1>2. Call(pre \o Tail(s), 1)
        = IF 1 <= Len(pre) THEN pre[1] ELSE Call(s, 1 - Len(pre) + 1)
  BY <1>1, CallAt
<1>3. Call(pre \o Tail(s), 2)
        = IF 2 <= Len(pre) THEN pre[2] ELSE Call(s, 2 - Len(pre) + 1)
  BY <1>1, CallAt
<1> QED BY <1>1, <1>2, <1>3

\* A domain is started only right behind a writeSetenv.
LEMMA LaunchFollows ==
  ASSUME NEW s \in Seq(Calls), s # << >>, Linked(s),
         NEW pre, Expands(Head(s), pre),
         Call(pre \o Tail(s), 1) = "startDomain"
  PROVE  Head(s) = "writeSetenv" /\ pre = << >>
<1>1. pre # << >> => pre[1] # "startDomain"
  BY DEF Expands
<1>2. pre = << >> /\ Call(s, 2) = "startDomain"
  BY <1>1, NextCall
<1>3. Link(Head(s), Call(s, 2))
  BY Replaced DEF Linked, LinkedAt
<1> QED BY <1>2, <1>3 DEF Link

LEMMA SavedStep == AloneInv /\ Saved /\ [Next]_vars => Saved'
<1> SUFFICES ASSUME AloneInv, Saved, [Next]_vars PROVE Saved'
  OBVIOUS
<1>0. TypeOK /\ Orderly /\ Alone /\ mode \in AllModes
  BY ModesAssumption DEF AloneInv, TypeOK
<1>1. CASE UNCHANGED vars
  BY <1>1 DEF Saved, At, vars, flowVars, envVars
<1>2. ASSUME NEW o \in Operations, Continue(o) PROVE Saved'
  <2>1. todo[o] \in Seq(Calls) /\ todo[o] # << >> /\ Goes(o)
        /\ Linked(todo[o])
    BY <1>0, <1>2, Flow DEF Orderly, Shaped
  <2>2. \A p \in Operations : p # o => todo'[p] = << >>
    <3>1. Busy(o) /\ \A p \in Operations : p # o => ~Busy(p)
      BY <1>0, <2>1 DEF Orderly, Lived, Alone
    <3> QED BY <1>0, <2>1, <3>1, GoesEffect DEF Orderly, Lived
  <2>3. CASE Throw(o)
    <3>1. todo'[o] = << >>
      BY <1>0, <2>3 DEF Throw, TypeOK
    <3> QED BY <2>2, <3>1 DEF Saved, At
  <2>4. ASSUME NEW pre, Expands(Head(todo[o]), pre),
               ProceedIn(o, pre \o Tail(todo[o]), environment'), ~Throw(o)
        PROVE  Saved'
    <3>1. /\ todo'[o] = pre \o Tail(todo[o]) /\ todo'[o] \in Seq(Calls)
          /\ content'[o] = IF todo'[o] # << >> /\ Head(todo'[o]) = "writeSetenv"
                           THEN environment' ELSE 0
      BY <1>0, <2>1, <2>4, Replaced DEF ProceedIn, TypeOK, Expands
    <3>2. ASSUME todo'[o] # << >>, Head(todo'[o]) = "startDomain"
          PROVE  setenv' = environment'
      <4>1. Call(todo'[o], 1) = "startDomain"
        BY <3>1, <3>2, FirstCall DEF Calls
      <4>2. Head(todo[o]) = "writeSetenv"
        BY <2>1, <2>4, <3>1, <4>1, LaunchFollows
      <4>3. At(o, "writeSetenv") /\ ~At(o, "fetchSecrets")
        BY <2>1, <4>2 DEF At
      <4>4. WriteSetenv(o)
        BY <1>2, <4>3, EnvEffect
      <4> QED BY <2>4, <4>3, <4>4 DEF WriteSetenv, Saved
    <3> QED BY <2>2, <3>1, <3>2 DEF Saved, At
  <2> QED BY <2>1, <2>3, <2>4 DEF Goes
<1>3. ASSUME NEW o \in Operations, NEW k \in Kinds, Begin(o, k) PROVE Saved'
  <2>1. /\ todo'[o] = Handler(k)
        /\ content'[o] = IF Handler(k) # << >> /\ Head(Handler(k)) = "writeSetenv"
                         THEN environment ELSE 0
        /\ UNCHANGED envVars
        /\ \A p \in Operations : p # o =>
             todo'[p] = todo[p] /\ content'[p] = content[p]
    BY <1>0, <1>3 DEF Begin, Proceed, ProceedIn, TypeOK
  <2>2. Handler(k) \in Seq(Calls) /\ Call(Handler(k), 1) # "startDomain"
    <3>1. Opens(k, Handler(k))
      BY <1>0, HandlerOpens
    <3> QED BY <3>1 DEF Opens, Aggressively, Call
  <2>3. ~(Handler(k) # << >> /\ Head(Handler(k)) = "startDomain")
    BY <2>2, FirstCall DEF Calls
  <2> QED BY <2>1, <2>3 DEF Saved, At, envVars
<1>4. ASSUME NEW j \in Jvms, Boot(j) \/ Exit(j) \/ ExecStart(j) PROVE Saved'
  BY <1>4 DEF Saved, At, Boot, Exit, ExecStart, OnlyJvm, flowVars, envVars
<1>5. CASE Rotate
  BY <1>5 DEF Saved, At, Rotate, flowVars, envVars
<1> QED BY <1>1, <1>2, <1>3, <1>4, <1>5 DEF Next

LEMMA EnvInvariant ==
  ASSUME ~Overlap
  PROVE  Spec => []EnvInv
<1>1. Init => EnvInv
  <2> SUFFICES ASSUME Init PROVE EnvInv
    OBVIOUS
  <2>1. TypeOK /\ Orderly
    BY TypeInit, OrderlyInit
  <2>2. \A o \in Operations : kind[o] = None /\ todo[o] = << >>
    BY DEF Init
  <2> QED BY <2>1, <2>2, NoneAssumption
          DEF EnvInv, AloneInv, Alone, Busy, Stored, Fetches, Saved, At, Kinds
<1>2. EnvInv /\ [Next]_vars => EnvInv'
  BY TypeStep, OrderlyStep, AloneStep, StoredStep, SavedStep DEF EnvInv, AloneInv
<1> QED BY <1>1, <1>2, PTL DEF Spec

\* The operations that these calls of the stops and starts are.
LEMMA StopOnly ==
  ASSUME NEW o \in Operations, Continue(o),
         NEW c \in {"stop", "waitForStopped", "verifyStopped", "startDomain"},
         At(o, c)
  PROVE  /\ c = "stop" => Stop(o)
         /\ c = "waitForStopped" => WaitForStopped(o)
         /\ c = "verifyStopped" => VerifyStopped(o)
         /\ c = "startDomain" => StartDomain(o)
<1> USE DEF At
<1>1. ~FetchSecrets(o) /\ ~WriteSetenv(o) /\ ~Start(o) /\ ~AwaitUp(o)
      /\ ~StopDomain(o) /\ ~EnsureSingleProcess(o) /\ ~GracefulStop(o)
  BY DEF FetchSecrets, WriteSetenv, Start, AwaitUp, StopDomain,
         EnsureSingleProcess, GracefulStop
<1>2. ~RestartFresh(o) /\ ~EnsureNoJava(o) /\ ~KillProcesses(o) /\ ~Sigterm(o)
      /\ ~CheckRemaining(o) /\ ~Sigkill(o) /\ ~FinalCheck(o)
  BY DEF RestartFresh, EnsureNoJava, KillProcesses, Sigterm, CheckRemaining,
         Sigkill, FinalCheck, AskProcesses, FailIfAlive
<1>3. ~Startup(o) /\ ~Deploy(o) /\ ~AsadminDeploy(o)
  BY DEF Startup, Deploy, AsadminDeploy
<1>4. Stop(o) \/ WaitForStopped(o) \/ VerifyStopped(o) \/ StartDomain(o)
  BY <1>1, <1>2, <1>3 DEF Continue
<1> QED BY <1>4 DEF Stop, WaitForStopped, VerifyStopped, StartDomain, FailIfAlive

\* Which step launches a JVM, and which one.
LEMMA LaunchEffect ==
  ASSUME AloneInv, NEW o \in Operations, Launches(o), [Next]_vars
  PROVE  /\ ~Running /\ UNCHANGED <<mode, kind, since, environment, setenv>>
         /\ \E j \in Jvms \ Alive : /\ jvm' = [jvm EXCEPT ![j] = "booting"]
                                    /\ jvmEnv' = [jvmEnv EXCEPT ![j] = setenv]
<1>1. todo[o] # << >> /\ Head(todo[o]) = "startDomain" /\ todo'[o] # todo[o]
  BY DEF Launches, At
<1>2. PICK q \in Operations : Continue(q) \/ \E k \in Kinds : Begin(q, k)
  BY <1>1 DEF Next, vars, flowVars, Boot, Exit, ExecStart, Rotate, OnlyJvm
<1>3. TypeOK /\ Orderly /\ Alone
  BY DEF AloneInv
<1>4. Busy(o) /\ kind[o] # None
  BY <1>1, <1>3 DEF Orderly, Lived, Busy
<1>5. ~\E k \in Kinds : Begin(q, k)
  <2> SUFFICES ASSUME NEW k \in Kinds, Begin(q, k) PROVE FALSE
    OBVIOUS
  <2>1. kind[q] = None /\ \A p \in Operations : p # q => todo'[p] = todo[p]
    BY <1>3 DEF Begin, Proceed, ProceedIn, TypeOK
  <2> QED BY <1>1, <1>4, <2>1
<1>6. Continue(q) /\ q = o
  <2>1. todo[q] # << >>
    BY <1>2, <1>3, <1>5, Flow
  <2> QED BY <1>2, <1>3, <1>4, <1>5, <2>1 DEF Orderly, Lived, Alone
<1>7. StartDomain(o)
  BY <1>1, <1>6, StopOnly DEF At
<1>8. ~Throw(o)
  BY <1>3 DEF Throw, TypeOK, Launches, At
<1> QED BY <1>7, <1>8 DEF StartDomain, envVars, beginVars

\* When the operations come one after the other, a JVM is launched with secrets
\* at least as new as those any earlier handler has stored, whatever fails.
THEOREM SecretsReachLaunch ==
  ASSUME ~Overlap
  PROVE  Spec => FreshLaunch
<1>1. ASSUME EnvInv, [Next]_vars,
             NEW o \in Operations, NEW p \in Operations, Launches(o),
             kind[p] \in {"onStart", "keyRotated", "secretChanged"},
             answer[p] = "done", NEW j \in Alive' \ Alive
      PROVE  jvmEnv'[j] >= since[p]
  <2>1. TypeOK /\ AloneInv /\ Stored /\ Saved /\ Lived(p)
    BY <1>1 DEF EnvInv, AloneInv, Orderly
  <2>2. environment >= since[p]
    <3>1. todo[p] = << >> /\ answer[p] # "error"
      BY <1>1, <2>1, NoneAssumption DEF Lived, Busy
    <3>2. ~Has(todo[p], "fetchSecrets")
      BY <3>1 DEF Has
    <3> QED BY <1>1, <2>1, <3>1, <3>2 DEF Stored, Fetches
  <2>3. setenv = environment
    BY <1>1, <2>1 DEF Launches, Saved
  <2>4. jvmEnv'[j] = setenv
    <3>1. PICK i \in Jvms \ Alive : /\ jvm' = [jvm EXCEPT ![i] = "booting"]
                                    /\ jvmEnv' = [jvmEnv EXCEPT ![i] = setenv]
      BY <1>1, <2>1, LaunchEffect
    <3>2. j = i
      BY <1>1, <2>1, <3>1 DEF Alive, TypeOK
    <3> QED BY <2>1, <3>1, <3>2 DEF TypeOK
  <2> QED BY <2>2, <2>3, <2>4
<1>2. EnvInv /\ [Next]_vars =>
        [ \A o, p \in Operations :
            /\ Launches(o)
            /\ kind[p] \in {"onStart", "keyRotated", "secretChanged"}
            /\ answer[p] = "done"
            => \A j \in Alive' \ Alive : jvmEnv'[j] >= since[p] ]_vars
  BY <1>1
<1> QED BY <1>2, EnvInvariant, PTL DEF Spec, FreshLaunch


-----------------------------------------------------------------------------
(***************************************************************************)
(* One JVM.  A start takes a domain that does not answer for one that does *)
(* not run, so what matters is that, when it is called, no JVM is on its   *)
(* way up or down; each call has a condition of its own on the JVMs, which *)
(* the call before it, or the operation before it, has to establish.       *)
(***************************************************************************)
Calm == \A j \in Alive : jvm[j] = "up"
Lone == \A i, j \in Alive : i = j
OneUp == \A i, j \in Jvms : jvm[i] = "up" /\ jvm[j] = "up" => i = j

\* What the calls of no consequence for the JVMs may count on: an agent that
\* starts aggressively may have found a JVM that boots or drains.
Ready(o) == IF o = OnStart /\ mode = "aggressive" THEN Lone ELSE Failed \/ Calm

NeedsCalm(c, d) ==
  \/ c \in {"start", "stop", "deploy", "asadminDeploy", "startDomain"}
  \/ c = "writeSetenv" /\ d = "startDomain"

NeedsReady(c, d) ==
  \/ c \in {"fetchSecrets", "startup"}
  \/ c = "writeSetenv" /\ d # "startDomain"

\* Whether o may call c, with d after it.
Safe(o, c, d) ==
  /\ c = "restartFresh" => Alive = {}
  /\ NeedsCalm(c, d) => Calm
  /\ c \in {"awaitBoot", "waitForHealthy"} => Lone
  /\ NeedsReady(c, d) => Ready(o)
  /\ c = "ensureSingleProcess" => mode = "aggressive" \/ Calm
  /\ c = "end" => Failed \/ Calm

\* The operations that are to launch no JVM beside another.
Bound(o) == ~Failed \/ Aggressive(o)

Steady ==
  mode # "exec" =>
    /\ \A o \in Operations :
         Busy(o) /\ Bound(o) => Safe(o, Call(todo[o], 1), Call(todo[o], 2))
    /\ (\A o \in Operations : ~Busy(o)) /\ ~Failed =>
         Calm \/ (kind[OnStart] = None /\ mode = "aggressive")

\* With every JVM up there is at most one, and every call but one is safe.
LEMMA CalmSafe ==
  ASSUME OneUp', Calm', NEW o, NEW c, c # "restartFresh", NEW d
  PROVE  Safe(o, c, d)'
BY DEF OneUp, Calm, Lone, Safe, Ready, Alive

LEMMA EmptySafe ==
  ASSUME Alive' = {}, NEW o, NEW c, NEW d
  PROVE  Safe(o, c, d)'
BY DEF Calm, Lone, Safe, Ready

\* The calls that are safe in any state, because they look for themselves.
Looks == {"gracefulStop", "stopDomain", "waitForStopped", "ensureNoJava",
          "killProcesses", "sigterm", "checkRemaining", "sigkill",
          "finalCheck", "verifyStopped"}

LEMMA LooksSafe ==
  ASSUME NEW c \in Looks, NEW o, NEW d
  PROVE  Safe(o, c, d)'
BY DEF Looks, Safe, NeedsCalm, NeedsReady

\* What happens outside the operations makes nothing less safe.
LEMMA OutsideSafe ==
  ASSUME mode # "exec", TypeOK, OneUp, [Next]_vars,
         UNCHANGED <<todo, answer, kind, mode>>,
         NEW o, NEW c, NEW d, Outside \/ UNCHANGED jvm
  PROVE  /\ Safe(o, c, d) => Safe(o, c, d)'
         /\ Calm => Calm'
<1>1. CASE UNCHANGED jvm
  BY <1>1 DEF Safe, Calm, Lone, Ready, Alive, Failed
<1>2. ASSUME NEW j \in Jvms, Boot(j)
      PROVE  (Alive # {} /\ Alive' = Alive /\ ~Calm)
  BY <1>2 DEF Boot, Alive, Calm, TypeOK
<1>3. ASSUME NEW j \in Jvms, Exit(j)
      PROVE  Alive' \subseteq Alive /\ \A i \in Alive' : jvm'[i] = jvm[i]
  BY <1>3 DEF Exit, Alive, TypeOK
<1>4. ASSUME NEW j \in Jvms, Boot(j)
      PROVE  (Safe(o, c, d) => Safe(o, c, d)') /\ (Calm => Calm')
  BY <1>2, <1>4 DEF Safe, Lone, Ready, Failed
<1>5. ASSUME NEW j \in Jvms, Exit(j)
      PROVE  (Safe(o, c, d) => Safe(o, c, d)') /\ (Calm => Calm')
  <2>1. Calm => Calm'
    BY <1>3, <1>5 DEF Calm
  <2>2. Lone => Lone'
    BY <1>3, <1>5 DEF Lone
  <2>3. Alive = {} => Alive' = {}
    BY <1>3, <1>5
  <2> QED BY <2>1, <2>2, <2>3 DEF Safe, Ready, Failed
<1>6. CASE Rotate
  BY <1>1, <1>6 DEF Rotate, jvmVars
<1> QED BY <1>1, <1>4, <1>5, <1>6 DEF Outside, ExecStart


\* Only a JVM itself comes up.
LEMMA NoneUp ==
  ASSUME TypeOK, NEW o \in Operations, Continue(o)
  PROVE  \A j \in Jvms : jvm'[j] = "up" => jvm[j] = "up"
<1> USE DEF TypeOK
<1>1. CASE UNCHANGED jvm
  BY <1>1
<1>2. CASE StartDomain(o)
  BY <1>2 DEF StartDomain, jvmVars
<1>3. CASE StopDomain(o) \/ Sigterm(o)
  BY <1>3 DEF StopDomain, Sigterm, Shut
<1>4. CASE Sigkill(o)
  BY <1>4 DEF Sigkill
<1>5. CASE RestartFresh(o) \/ EnsureNoJava(o) \/ KillProcesses(o)
             \/ CheckRemaining(o) \/ FinalCheck(o) \/ VerifyStopped(o)
  BY <1>1, <1>5 DEF RestartFresh, EnsureNoJava, KillProcesses, CheckRemaining,
       FinalCheck, VerifyStopped, AskProcesses, FailIfAlive, jvmVars
<1>6. CASE FetchSecrets(o) \/ WriteSetenv(o)
  BY <1>1, <1>6 DEF FetchSecrets, WriteSetenv, jvmVars
<1>7. CASE Start(o) \/ AwaitUp(o) \/ Stop(o) \/ WaitForStopped(o)
             \/ EnsureSingleProcess(o) \/ GracefulStop(o) \/ Startup(o)
             \/ Deploy(o) \/ AsadminDeploy(o)
  BY <1>1, <1>7 DEF Start, AwaitUp, Stop, WaitForStopped, EnsureSingleProcess,
       GracefulStop, Startup, Deploy, AsadminDeploy, Unchanged, jvmVars
<1> QED BY <1>2, <1>3, <1>4, <1>5, <1>6, <1>7 DEF Continue

LEMMA OneUpStep == TypeOK /\ OneUp /\ [Next]_vars => OneUp'
<1> SUFFICES ASSUME TypeOK, OneUp, [Next]_vars PROVE OneUp'
  OBVIOUS
<1>1. ASSUME NEW o \in Operations, Continue(o) PROVE OneUp'
  BY <1>1, NoneUp DEF OneUp
<1>2. ASSUME NEW j \in Jvms, Boot(j) \/ Exit(j) \/ ExecStart(j) PROVE OneUp'
  BY <1>2 DEF OneUp, Boot, Exit, ExecStart, Running, Alive, TypeOK
<1>3. CASE UNCHANGED jvm
  BY <1>3 DEF OneUp
<1> QED BY <1>1, <1>2, <1>3 DEF Next, Begin, Rotate, vars, jvmVars

LEMMA FirstOf ==
  ASSUME NEW s \in Seq(Calls), s # << >>, NEW pre, Expands(Head(s), pre),
         Len(pre) > 0
  PROVE  Call(pre \o Tail(s), 1) = pre[1]
<1>1. pre # << >>
  BY DEF Expands
<1> QED BY <1>1, NextCall

\* restartFresh is called only right behind verifyStopped.
LEMMA NotRestartFresh ==
  ASSUME NEW s \in Seq(Calls), s # << >>, Linked(s), Head(s) # "verifyStopped",
         NEW pre, Expands(Head(s), pre)
  PROVE  Call(pre \o Tail(s), 1) # "restartFresh"
<1>1. pre # << >> => pre[1] # "restartFresh"
  BY DEF Expands
<1>2. Link(Head(s), Call(s, 2))
  BY Replaced DEF Linked, LinkedAt
<1> QED BY <1>1, <1>2, NextCall DEF Link

\* onStart is the first operation: nothing has failed before.
LEMMA OnStartFirst ==
  ASSUME TypeOK, Orderly, Busy(OnStart)
  PROVE  ~Failed
BY NoneAssumption DEF Orderly, Lived, Busy, Failed, OnStart, Operations, TypeOK


\* What comes after the first call of o, when it does not throw: the first
\* call of its expansion, or the one that was second.
LEMMA Onward ==
  ASSUME TypeOK, Orderly, NEW o \in Operations, Continue(o), ~Throw(o),
         NEW s, s = todo[o], NEW t, t = todo'[o]
  PROVE  /\ s \in Seq(Calls) /\ s # << >> /\ Linked(s) /\ Call(s, 1) = Head(s)
         /\ Busy(o) /\ UNCHANGED <<mode, kind>> /\ Failed' = Failed
         /\ \E pre : /\ Expands(Head(s), pre) /\ t = pre \o Tail(s)
                     /\ IF pre = << >> THEN /\ Link(Head(s), Call(t, 1))
                                            /\ Call(t, 1) = Call(s, 2)
                                            /\ Call(t, 2) = Call(s, 3)
                                       ELSE Call(t, 1) = pre[1]
         /\ Head(s) # "verifyStopped" => Call(t, 1) # "restartFresh"
<1>1. s \in Seq(Calls) /\ s # << >> /\ Linked(s) /\ Goes(o) /\ UNCHANGED <<mode, kind>>
  BY Flow DEF Orderly, Shaped, beginVars
<1>2. Busy(o)
  BY <1>1 DEF Orderly, Lived
<1>3. Call(s, 1) = Head(s)
  <2>1. Head(s) \in Calls
    BY <1>1
  <2> QED BY <1>1, <2>1, FirstCall
<1>4. PICK pre : /\ Expands(Head(s), pre)
                 /\ ProceedIn(o, pre \o Tail(s), environment')
  BY <1>1 DEF Goes
<1>5. t = pre \o Tail(s) /\ answer'[o] \in {None, "done"}
  BY <1>4 DEF ProceedIn, TypeOK
<1>6. Failed' = Failed
  <2>1. \A p \in Operations : p # o => answer'[p] = answer[p]
    BY <1>1, GoesEffect
  <2> QED BY <1>2, <1>5, <2>1, NoneAssumption DEF Failed, Busy
<1>7. Link(Head(s), Call(s, 2))
  BY <1>1, Replaced DEF Linked, LinkedAt
<1>8. Head(s) # "verifyStopped" => Call(t, 1) # "restartFresh"
  BY <1>1, <1>4, <1>5, NotRestartFresh
<1>9. IF pre = << >> THEN /\ Link(Head(s), Call(t, 1))
                          /\ Call(t, 1) = Call(s, 2)
                          /\ Call(t, 2) = Call(s, 3)
                     ELSE Call(t, 1) = pre[1]
  BY <1>1, <1>4, <1>5, <1>7, NextCall
<1> QED BY <1>1, <1>2, <1>3, <1>4, <1>5, <1>6, <1>8, <1>9

\* There is one process at most if their number is at most one.
LEMMA AliveFew == Cardinality(Alive) <= 1 => Lone
<1> SUFFICES ASSUME Cardinality(Alive) <= 1, NEW i \in Alive, NEW j \in Alive, i # j
             PROVE  FALSE
  BY DEF Lone
<1>1. IsFiniteSet(Alive) /\ {i, j} \subseteq Alive
  BY JvmsAssumption, FS_Subset DEF Alive
<1>2. Cardinality({i, j}) <= Cardinality(Alive)
  BY <1>1, FS_Subset
<1>3. Cardinality({i}) = 1 /\ IsFiniteSet({i})
  BY FS_Singleton
<1>4. Cardinality({i} \cup {j}) = Cardinality({i}) + 1
  BY <1>3, FS_AddElement
<1>5. {i} \cup {j} = {i, j} /\ Cardinality(Alive) \in Nat
  BY <1>1, FS_CardinalityType
<1> QED BY <1>2, <1>3, <1>4, <1>5

\* A call that is safe leaves the next one of its operation safe.
LEMMA OperationSafe ==
  ASSUME ~PgrepFaults, mode # "exec", TypeOK, Orderly, OneUp',
         NEW o \in Operations, Continue(o), ~Throw(o), Bound(o),
         Safe(o, Call(todo[o], 1), Call(todo[o], 2)),
         NEW c, c = Call(todo'[o], 1), NEW d, d = Call(todo'[o], 2)
  PROVE  Safe(o, c, d)'
<1> DEFINE s == todo[o]
           h == Head(s)
<1>1. /\ s \in Seq(Calls) /\ s # << >> /\ Linked(s) /\ Call(s, 1) = h
      /\ Busy(o) /\ UNCHANGED <<mode, kind>> /\ Failed' = Failed
      /\ h # "verifyStopped" => c # "restartFresh"
  BY Onward
<1>2. PICK pre : /\ Expands(h, pre)
                 /\ IF pre = << >> THEN /\ Link(h, c) /\ c = Call(s, 2)
                                        /\ d = Call(s, 3)
                                   ELSE c = pre[1]
  BY Onward
<1>3. Safe(o, h, Call(s, 2))
  BY <1>1
<1> HIDE DEF s, h
<1>4. UNCHANGED jvm => Alive' = Alive /\ (Calm => Calm') /\ (Lone => Lone')
  BY DEF Alive, Calm, Lone
<1>5. ASSUME UNCHANGED jvm, Calm, h # "verifyStopped" PROVE Safe(o, c, d)'
  BY <1>1, <1>4, <1>5, CalmSafe
<1>6. ASSUME UNCHANGED jvm, Alive = {} PROVE Safe(o, c, d)'
  BY <1>4, <1>6, EmptySafe
<1>7. ASSUME c \in Looks PROVE Safe(o, c, d)'
  BY <1>7, LooksSafe
<1>8. Processes = {Alive}
  BY DEF Processes
<1>9. At(o, h) /\ \A call : At(o, call) => call = h
  BY <1>1 DEF At, h, s
<1>10. ASSUME h \in {"gracefulStop", "stopDomain", "sigterm", "checkRemaining", "sigkill"}
       PROVE  Safe(o, c, d)'
  <2>1. c \in Looks
    BY <1>2, <1>10 DEF Expands, Link, Looks
  <2> QED BY <1>7, <2>1
<1>11. ASSUME h \in {"start", "stop", "deploy", "asadminDeploy"}, UNCHANGED jvm
       PROVE  Safe(o, c, d)'
  BY <1>3, <1>5, <1>11 DEF Safe, NeedsCalm
<1>12. CASE FetchSecrets(o)
  <2>1. h = "fetchSecrets" /\ UNCHANGED jvm
    BY <1>9, <1>12 DEF FetchSecrets, jvmVars
  <2>2. c = "writeSetenv" /\ d = Call(s, 3)
    BY <1>2, <2>1 DEF Expands, Link
  <2>3. d # "startDomain"
    <3>1. 1 \in 1 .. Len(s) /\ s[1] = h
      BY <1>1, Replaced DEF h, s
    <3>2. LinkedAt(s, 1)
      BY <1>1, <3>1 DEF Linked
    <3> QED BY <2>1, <2>2, <3>1, <3>2 DEF LinkedAt
  <2>4. Ready(o)
    BY <1>3, <2>1 DEF Safe, NeedsReady
  <2>5. Ready(o)'
    BY <1>1, <1>4, <2>1, <2>4 DEF Ready
  <2> QED BY <2>2, <2>3, <2>5 DEF Safe, NeedsCalm, NeedsReady
<1>13. CASE WriteSetenv(o)
  <2>1. h = "writeSetenv" /\ UNCHANGED jvm
    BY <1>9, <1>13 DEF WriteSetenv, jvmVars
  <2>2. c = Call(s, 2) /\ c \in {"startDomain", "startup", "gracefulStop", "stop", "end"}
    BY <1>2, <2>1 DEF Expands, Link
  <2>3. Calm \/ (c # "startDomain" /\ Ready(o))
    BY <1>3, <2>1, <2>2 DEF Safe, NeedsCalm, NeedsReady
  <2>4. CASE Calm
    BY <1>5, <2>1, <2>4
  <2>5. CASE c = "gracefulStop"
    BY <1>7, <2>5 DEF Looks
  <2>6. CASE c = "startup" /\ Ready(o)
    <3>1. Ready(o)'
      BY <1>1, <1>4, <2>1, <2>6 DEF Ready
    <3> QED BY <2>6, <3>1 DEF Safe, NeedsCalm, NeedsReady
  <2>7. CASE c \in {"stop", "end"} /\ ~Calm /\ Ready(o)
    <3>1. Len(s) \in Nat /\ Len(s) > 0
      BY <1>1, Replaced
    <3>2. o # OnStart
      <4> SUFFICES ASSUME o = OnStart PROVE FALSE
        OBVIOUS
      <4>1. ~Has(s, "stop") /\ Call(s, Len(s)) # "writeSetenv"
        BY DEF Orderly, Shaped, s
      <4>2. CASE c = "stop"
        BY <2>2, <3>1, <4>1, <4>2 DEF Has, Call
      <4>3. CASE c = "end"
        <5>1. 2 \notin 1 .. Len(s) \/ s[2] = "end"
          BY <2>2, <4>3 DEF Call
        <5>2. 2 \in 1 .. Len(s) => s[2] \in Calls
          BY <1>1
        <5>3. 2 \notin 1 .. Len(s)
          BY <5>1, <5>2 DEF Calls
        <5>4. PICK n \in Nat : n = Len(s) /\ n > 0
          BY <3>1
        <5>5. Len(s) = 1
          BY <5>3, <5>4
        <5> QED BY <1>1, <2>1, <4>1, <5>5
      <4> QED BY <2>7, <4>2, <4>3
    <3>3. Failed /\ Aggressive(o)
      BY <2>7, <3>2 DEF Ready, Bound
    <3>4. c # "stop"
      <4>1. ~Has(s, "stop")
        BY <3>2, <3>3 DEF Orderly, Shaped, s
      <4> QED BY <2>2, <3>1, <4>1 DEF Has, Call
    <3> QED BY <1>1, <2>7, <3>3, <3>4 DEF Safe, NeedsCalm, NeedsReady
  <2> QED BY <2>2, <2>3, <2>4, <2>5, <2>6, <2>7
<1>14. CASE Start(o) \/ Stop(o) \/ Deploy(o) \/ AsadminDeploy(o)
  <2>1. h \in {"start", "stop", "deploy", "asadminDeploy"} /\ UNCHANGED jvm
    BY <1>9, <1>14 DEF Start, Stop, Deploy, AsadminDeploy, Unchanged, jvmVars
  <2> QED BY <1>11, <2>1
<1>15. CASE StartDomain(o)
  <2>1. h = "startDomain"
    BY <1>9, <1>15 DEF StartDomain
  <2>2. c = "awaitBoot"
    <3>1. Len(pre) = 1 /\ pre[1] = "awaitBoot"
      BY <1>2, <2>1 DEF Expands
    <3>2. pre # << >>
      <4>1. Len(<< >>) = 0
        OBVIOUS
      <4>2. Len(pre) # Len(<< >>)
        BY <3>1, <4>1
      <4> QED BY <4>2
    <3> QED BY <1>2, <3>1, <3>2
  <2>3. Calm
    BY <1>3, <2>1 DEF Safe, NeedsCalm
  <2>4. ~Running /\ \E j \in Jvms \ Alive : jvm' = [jvm EXCEPT ![j] = "booting"]
    BY <1>15 DEF StartDomain
  <2>5. Alive = {}
    BY <2>3, <2>4 DEF Calm, Running, Alive
  <2>6. Lone'
    BY <2>4, <2>5 DEF Alive, Lone, TypeOK
  <2> QED BY <2>2, <2>6 DEF Safe, NeedsCalm, NeedsReady
<1>16. CASE AwaitUp(o)
  <2>1. h \in {"awaitBoot", "waitForHealthy"} /\ UNCHANGED jvm /\ Running
    BY <1>9, <1>16 DEF AwaitUp, Unchanged, jvmVars
  <2>2. Lone
    BY <1>3, <2>1 DEF Safe
  <2>3. Calm
    BY <2>1, <2>2 DEF Lone, Running, Alive, Calm
  <2> QED BY <1>5, <2>1, <2>3
<1>17. CASE GracefulStop(o) \/ StopDomain(o) \/ Sigterm(o) \/ CheckRemaining(o) \/ Sigkill(o)
  <2>1. h \in {"gracefulStop", "stopDomain", "sigterm", "checkRemaining", "sigkill"}
    BY <1>9, <1>17 DEF GracefulStop, StopDomain, Sigterm, CheckRemaining, Sigkill, AskProcesses
  <2> QED BY <1>10, <2>1
<1>18. CASE WaitForStopped(o) \/ FinalCheck(o) \/ VerifyStopped(o)
  <2>1. UNCHANGED jvm /\ Alive = {}
    BY <1>8, <1>18 DEF WaitForStopped, FinalCheck, VerifyStopped, FailIfAlive,
         Unchanged, jvmVars
  <2> QED BY <1>6, <2>1
<1>19. CASE RestartFresh(o)
  <2>1. h = "restartFresh" /\ UNCHANGED jvm
    BY <1>9, <1>19 DEF RestartFresh, AskProcesses, jvmVars
  <2> QED BY <1>3, <1>6, <2>1 DEF Safe
<1>20. \A q : Proceed(o, q \o Rest(o)) => todo'[o] = q \o Tail(s)
  BY DEF Proceed, ProceedIn, TypeOK, Rest, s
<1>21. CASE EnsureNoJava(o) \/ KillProcesses(o)
  <2>1. h \in {"ensureNoJava", "killProcesses"} /\ UNCHANGED jvm
    BY <1>9, <1>21 DEF EnsureNoJava, KillProcesses, AskProcesses, jvmVars
  <2>2. CASE Alive = {}
    BY <1>6, <2>1, <2>2
  <2>3. ASSUME Alive # {}, EnsureNoJava(o) PROVE c = "killProcesses"
    <3>1. h = "ensureNoJava" /\ todo'[o] = <<"killProcesses">> \o Tail(s)
      BY <1>8, <1>9, <1>20, <2>3 DEF EnsureNoJava, AskProcesses
    <3> QED BY <1>1, <3>1, StopExpands, FirstOf DEF h
  <2>4. ASSUME Alive # {}, KillProcesses(o) PROVE c = "sigterm"
    <3>1. h = "killProcesses"
          /\ todo'[o] = <<"sigterm", "checkRemaining", "finalCheck">> \o Tail(s)
      BY <1>8, <1>9, <1>20, <2>4 DEF KillProcesses, AskProcesses
    <3> QED BY <1>1, <3>1, StopExpands, FirstOf DEF h
  <2> QED BY <1>7, <1>21, <2>2, <2>3, <2>4 DEF Looks
<1>22. CASE EnsureSingleProcess(o)
  <2>1. h = "ensureSingleProcess" /\ UNCHANGED jvm
    BY <1>9, <1>22 DEF EnsureSingleProcess, Unchanged, jvmVars
  <2>2. o = OnStart
    <3>1. Has(s, "ensureSingleProcess")
      BY <1>1, <2>1, Replaced DEF Has, h, s
    <3> QED BY <3>1 DEF Orderly, Shaped, s
  <2>3. mode = "aggressive" \/ Calm
    BY <1>3, <2>1 DEF Safe
  <2>4. CASE Calm
    BY <1>5, <2>1, <2>4
  <2>5. CASE Cardinality(Alive) <= 1 /\ mode = "aggressive"
    <3>1. c = "fetchSecrets" \/ c = "gracefulStop"
      BY <1>2, <2>1 DEF Expands, Link
    <3>2. Lone
      BY <2>5, AliveFew
    <3>3. Ready(o)'
      BY <1>1, <1>4, <2>1, <2>2, <2>5, <3>2 DEF Ready
    <3> QED BY <1>7, <3>1, <3>3 DEF Safe, NeedsCalm, NeedsReady, Looks
  <2>6. CASE ~(Cardinality(Alive) <= 1)
    <3> DEFINE q == aggressiveStop \o <<"restartFresh">>
    <3>1. todo'[o] = q \o Tail(s)
      BY <1>8, <1>20, <1>22, <2>6 DEF EnsureSingleProcess
    <3>2. Expands(h, q) /\ Len(q) > 0 /\ q[1] = "gracefulStop"
      BY <2>1, AggressiveExpands DEF aggressiveStop
    <3> HIDE DEF q
    <3>3. c = "gracefulStop"
      BY <1>1, <3>1, <3>2, FirstOf DEF h
    <3> QED BY <1>7, <3>3 DEF Looks
  <2> QED BY <2>3, <2>4, <2>5, <2>6
<1>23. CASE Startup(o)
  <2>1. h = "startup" /\ UNCHANGED jvm
    BY <1>9, <1>23 DEF Startup, Unchanged, jvmVars
  <2>2. Ready(o)
    BY <1>3, <2>1 DEF Safe, NeedsReady
  <2>3. o = OnStart /\ ~Failed
    <3>1. Has(s, "startup")
      BY <1>1, <2>1, Replaced DEF Has, h, s
    <3>2. o = OnStart
      BY <3>1 DEF Orderly, Shaped, s
    <3> QED BY <1>1, <3>2, OnStartFirst
  <2>4. PICK ready \in BOOLEAN, deploy \in {<< >>, <<"deploy">>} :
          /\ ready => Running
          /\ Proceed(o, StartupCalls(ready, deploy) \o Rest(o))
    BY <1>23 DEF Startup
  <2>5. CASE mode = "aggressive" /\ ~ready
    <3> DEFINE q == startAlone \o deploy
    <3>1. todo'[o] = q \o Tail(s)
      BY <1>20, <2>4, <2>5 DEF StartupCalls, startAlone
    <3>2. Expands(h, q)
      BY <2>1, <2>5, StartupExpands, ModesAssumption DEF StartupCalls, startAlone, AllModes
    <3>3. q[1] = "ensureNoJava" /\ Len(q) > 0
      <4>1. <<"deploy">> \in Seq(Calls) /\ << >> \in Seq(Calls)
        BY DEF Calls
      <4>2. deploy \in Seq(Calls) /\ Len(deploy) \in Nat
        BY <4>1
      <4>3. Len(startAlone) = 5 /\ 1 \in 1 .. 5
        BY StartAlone
      <4> QED BY <4>2, <4>3, StartAlone, Joined
    <3> HIDE DEF q
    <3>4. c = "ensureNoJava"
      BY <1>1, <3>1, <3>2, <3>3, FirstOf DEF h
    <3> QED BY <1>7, <3>4 DEF Looks
  <2>6. CASE mode = "aggressive" /\ ready
    <3>1. Calm
      BY <2>2, <2>3, <2>4, <2>6 DEF Ready, Lone, Calm, Running, Alive
    <3> QED BY <1>5, <2>1, <3>1
  <2>7. CASE mode # "aggressive"
    <3>1. Calm
      BY <2>2, <2>3, <2>7 DEF Ready
    <3> QED BY <1>5, <2>1, <3>1
  <2> QED BY <2>5, <2>6, <2>7
<1> QED BY <1>12, <1>13, <1>14, <1>15, <1>16, <1>17, <1>18, <1>19, <1>21,
           <1>22, <1>23 DEF Continue


\* The first calls of the handlers, for an operation that begins.
LEMMA BeginSafe ==
  ASSUME mode # "exec", TypeOK, Orderly, OneUp, Steady,
         \A p \in Operations : ~Busy(p),
         NEW o \in Operations, NEW k \in Kinds, Begin(o, k),
         NEW c, c = Call(todo'[o], 1), NEW d, d = Call(todo'[o], 2)
  PROVE  /\ Failed' = Failed
         /\ Bound(o)' => Safe(o, c, d)'
         /\ ~Failed => Calm' \/ Busy(o)'
<1>1. /\ kind[o] = None /\ kind'[o] = k /\ UNCHANGED <<mode, jvm>>
      /\ k = "onStart" <=> o = OnStart
      /\ todo'[o] = Handler(k) /\ mode \in AllModes
      /\ answer'[o] = IF Handler(k) = << >> THEN "done" ELSE None
      /\ \A p \in Operations : p # o => answer'[p] = answer[p]
  BY ModesAssumption DEF Begin, Proceed, ProceedIn, TypeOK, jvmVars
<1>2. answer[o] = None /\ answer'[o] \in {None, "done"}
  BY <1>1 DEF Orderly, Lived
<1>3. Failed' = Failed
  BY <1>1, <1>2, NoneAssumption DEF Failed
<1>4. Opens(k, Handler(k))
  BY <1>1, HandlerOpens
<1>5. (Calm => Calm') /\ (OneUp => OneUp')
  BY <1>1 DEF Calm, OneUp, Alive
<1>6. CASE o = OnStart
  <2>1. k = "onStart" /\ kind[OnStart] = None
    BY <1>1, <1>6
  <2>2. ~Failed
    <3> SUFFICES ASSUME NEW p \in Operations, answer[p] = "error" PROVE FALSE
      BY DEF Failed
    <3>1. kind[p] # None
      BY NoneAssumption DEF Orderly, Lived
    <3>2. p # OnStart /\ answer[OnStart] = "done"
      BY <2>1, <3>1 DEF Orderly, Lived
    <3> QED BY <1>2, <1>6, <3>2, NoneAssumption
  <2>3. Calm \/ mode = "aggressive"
    BY <2>2 DEF Steady
  <2>4. c = "ensureSingleProcess" /\ Handler(k) # << >>
    BY <1>1, <1>4, <2>1, NoneAssumption DEF Opens, Call
  <2>5. Safe(o, c, d)'
    BY <1>1, <1>5, <2>3, <2>4 DEF Safe, NeedsCalm, NeedsReady
  <2>6. Busy(o)'
    BY <1>1, <2>4, NoneAssumption DEF Busy
  <2> QED BY <1>3, <2>5, <2>6
<1>7. CASE o # OnStart
  <2>1. kind[OnStart] # None
    BY <1>7, NoneAssumption, LimitsAssumption DEF Begin, Orderly, Lived, OnStart, Operations
  <2>2. ~Failed => Calm
    BY <2>1 DEF Steady
  <2>3. c # "restartFresh"
    BY <1>1, <1>4 DEF Opens, Aggressively, Call
  <2>4. CASE Calm
    BY <1>3, <1>5, <2>3, <2>4, CalmSafe
  <2>5. CASE Failed
    <3>1. ASSUME Bound(o)' PROVE Safe(o, c, d)'
      <4>1. mode = "aggressive" /\ k \in {"certificate", "keyRotated"}
        BY <1>1, <1>3, <1>7, <2>5, <3>1 DEF Bound, Aggressive
      <4>2. c = "gracefulStop" \/ (c = "fetchSecrets" /\ d = "writeSetenv")
        BY <1>1, <1>4, <4>1 DEF Opens, Aggressively, Call
      <4> QED BY <1>3, <1>7, <2>5, <4>2 DEF Safe, NeedsCalm, NeedsReady, Ready
    <3> QED BY <1>3, <2>5, <3>1
  <2> QED BY <2>2, <2>4, <2>5
<1> QED BY <1>6, <1>7

SteadyInv == AloneInv /\ OneUp /\ Steady

LEMMA SteadyStep ==
  ASSUME ~Overlap, ~PgrepFaults
  PROVE  SteadyInv /\ [Next]_vars => Steady'
<1> SUFFICES ASSUME SteadyInv, [Next]_vars PROVE Steady'
  OBVIOUS
<1>0. TypeOK /\ Orderly /\ Alone /\ OneUp /\ Steady
  BY DEF SteadyInv, AloneInv
<1>1. OneUp'
  BY <1>0, OneUpStep
<1>2. UNCHANGED mode
  <2>1. ASSUME NEW o \in Operations, Continue(o) PROVE UNCHANGED mode
    BY <1>0, <2>1, Flow DEF beginVars
  <2> QED BY <2>1 DEF Next, vars, beginVars, Begin, Boot, Exit, ExecStart, Rotate, OnlyJvm
<1> SUFFICES ASSUME mode # "exec"
             PROVE  /\ \A o \in Operations : Busy(o)' /\ Bound(o)' =>
                         Safe(o, Call(todo[o], 1), Call(todo[o], 2))'
                    /\ (\A o \in Operations : ~Busy(o)') /\ ~Failed' =>
                         Calm' \/ (kind'[OnStart] = None /\ mode = "aggressive")
  BY <1>2 DEF Steady
<1>3. CASE UNCHANGED <<todo, answer, kind>> /\ (Outside \/ UNCHANGED jvm)
  <2>1. /\ \A o : Busy(o)' = Busy(o) /\ Bound(o)' = Bound(o)
        /\ Failed' = Failed
    BY <1>2, <1>3 DEF Busy, Bound, Failed, Aggressive
  <2>2. ASSUME NEW o \in Operations, NEW c, NEW d PROVE Safe(o, c, d) => Safe(o, c, d)'
    BY <1>0, <1>2, <1>3, OutsideSafe
  <2>3. Calm => Calm'
    BY <1>0, <1>2, <1>3, OutsideSafe
  <2>4. ASSUME NEW o \in Operations, Busy(o)', Bound(o)',
               NEW c, c = Call(todo[o], 1), NEW d, d = Call(todo[o], 2)
        PROVE  Safe(o, c, d)'
    BY <1>0, <2>1, <2>2, <2>4 DEF Steady
  <2>5. \A o \in Operations : Busy(o)' /\ Bound(o)' =>
          Safe(o, Call(todo[o], 1), Call(todo[o], 2))'
    BY <1>3, <2>4
  <2> QED BY <1>0, <1>3, <2>1, <2>3, <2>5 DEF Steady
<1>4. ASSUME NEW o \in Operations, Continue(o)
      PROVE  /\ \A p \in Operations : Busy(p)' /\ Bound(p)' =>
                  Safe(p, Call(todo[p], 1), Call(todo[p], 2))'
             /\ (\A p \in Operations : ~Busy(p)') /\ ~Failed' => Calm'
  <2>1. todo[o] # << >> /\ Goes(o) /\ UNCHANGED <<mode, kind>>
    BY <1>0, <1>4, Flow DEF beginVars
  <2>2. Busy(o) /\ \A p \in Operations : p # o => ~Busy(p) /\ ~Busy(p)'
    <3>1. Busy(o) /\ \A p \in Operations : p # o => ~Busy(p)
      BY <1>0, <2>1 DEF Orderly, Lived, Alone
    <3> QED BY <1>0, <2>1, <3>1, GoesEffect DEF Busy
  <2>3. CASE Throw(o)
    <3>1. answer'[o] = "error"
      BY <1>0, <2>3 DEF Throw, TypeOK
    <3> QED BY <2>2, <3>1, NoneAssumption DEF Failed, Busy
  <2>4. CASE ~Throw(o)
    <3>1. Failed' = Failed
      BY <1>0, <1>4, <2>4, Onward
    <3>2. Bound(o)' = Bound(o)
      BY <2>1, <3>1 DEF Bound, Aggressive
    <3>3. ASSUME Bound(o), NEW c, c = Call(todo'[o], 1), NEW d, d = Call(todo'[o], 2)
          PROVE  Safe(o, c, d)'
      <4>1. Safe(o, Call(todo[o], 1), Call(todo[o], 2))
        BY <1>0, <2>2, <3>3 DEF Steady
      <4> QED BY <1>0, <1>1, <1>4, <2>4, <3>3, <4>1, OperationSafe
    <3>4. Bound(o)' => Safe(o, Call(todo[o], 1), Call(todo[o], 2))'
      BY <3>2, <3>3
    <3>5. ASSUME ~Busy(o)', ~Failed' PROVE Calm'
      <4>1. todo'[o] = << >> /\ Bound(o)
        BY <1>0, <2>1, <2>2, <3>1, <3>5, GoesEffect DEF Busy, Bound
      <4>2. Call(todo'[o], 1) = "end"
        BY <4>1 DEF Call
      <4>3. ASSUME NEW c, c = Call(todo'[o], 1), NEW d, d = Call(todo'[o], 2)
            PROVE  Calm'
        <5>1. Safe(o, c, d)' /\ c = "end"
          BY <3>3, <4>1, <4>2, <4>3
        <5> QED BY <3>5, <5>1 DEF Safe
      <4> QED BY <4>3
    <3> QED BY <2>2, <3>4, <3>5
  <2> QED BY <2>3, <2>4
<1>5. ASSUME NEW o \in Operations, NEW k \in Kinds, Begin(o, k)
      PROVE  /\ \A p \in Operations : Busy(p)' /\ Bound(p)' =>
                  Safe(p, Call(todo[p], 1), Call(todo[p], 2))'
             /\ (\A p \in Operations : ~Busy(p)') /\ ~Failed' => Calm'
  <2>1. \A p \in Operations : ~Busy(p)
    BY <1>5 DEF Begin
  <2>2. \A p \in Operations : p # o => ~Busy(p)'
    BY <1>0, <1>5, <2>1 DEF Busy, Begin, Proceed, ProceedIn, TypeOK
  <2>3. ASSUME Bound(o)', NEW c, c = Call(todo'[o], 1), NEW d, d = Call(todo'[o], 2)
        PROVE  Safe(o, c, d)'
    BY <1>0, <1>5, <2>1, <2>3, BeginSafe
  <2>4. Bound(o)' => Safe(o, Call(todo[o], 1), Call(todo[o], 2))'
    BY <2>3
  <2>5. ASSUME ~Failed', NEW c, c = Call(todo'[o], 1), NEW d, d = Call(todo'[o], 2)
        PROVE  Calm' \/ Busy(o)'
    BY <1>0, <1>5, <2>1, <2>5, BeginSafe
  <2>6. ~Failed' => Calm' \/ Busy(o)'
    BY <2>5
  <2> QED BY <2>2, <2>4, <2>6
<1>6. CASE \E j \in Jvms : Boot(j) \/ Exit(j) \/ ExecStart(j)
  BY <1>3, <1>6 DEF Outside, Boot, Exit, ExecStart, OnlyJvm, flowVars, beginVars
<1>7. CASE Rotate \/ UNCHANGED vars
  BY <1>3, <1>7 DEF Rotate, flowVars, beginVars, jvmVars, vars
<1> QED BY <1>4, <1>5, <1>6, <1>7 DEF Next

LEMMA SteadyInvariant ==
  ASSUME ~Overlap, ~PgrepFaults, "normal" \notin Unreliable
  PROVE  Spec => []SteadyInv
<1>1. Init => SteadyInv
  <2> SUFFICES ASSUME Init PROVE SteadyInv
    OBVIOUS
  <2>1. TypeOK /\ Orderly
    BY TypeInit, OrderlyInit
  <2>2. \A o \in Operations : ~Busy(o)
    BY DEF Init, Busy
  <2>3. kind[OnStart] = None
    BY LimitsAssumption DEF Init, OnStart, Operations
  <2>4. mode \in AllModes
    BY <2>1, ModesAssumption DEF TypeOK
  <2>5. OneUp /\ (mode = "normal" => Calm)
    BY DEF Init, Found, OneUp, Calm
  <2> QED BY <2>1, <2>2, <2>3, <2>4, <2>5 DEF SteadyInv, AloneInv, Alone, Steady, AllModes
<1>2. SteadyInv /\ [Next]_vars => SteadyInv'
  BY TypeStep, OrderlyStep, AloneStep, OneUpStep, SteadyStep DEF SteadyInv, AloneInv
<1> QED BY <1>1, <1>2, PTL DEF Spec

\* When the operations come one after the other, the list of processes tells
\* the truth and the plain start can ask asadmin, no JVM is launched beside
\* another one, whatever the JVMs do and whatever fails in between.
THEOREM OneProcess ==
  ASSUME ~Overlap, ~PgrepFaults, "normal" \notin Unreliable
  PROVE  Spec => OneJvm
<1>1. ASSUME SteadyInv, [Next]_vars,
             NEW o \in Operations, Launches(o), Alive # {}
      PROVE  mode = "exec" \/ (~Aggressive(o) /\ Failed)
  <2> SUFFICES ASSUME mode # "exec", Bound(o) PROVE FALSE
    BY DEF Bound
  <2>1. ~Running /\ TypeOK /\ Orderly /\ Steady
    BY <1>1, LaunchEffect DEF SteadyInv, AloneInv
  <2>2. todo[o] # << >> /\ Head(todo[o]) = "startDomain" /\ todo[o] \in Seq(Calls)
    BY <1>1, <2>1 DEF Launches, At, TypeOK
  <2>3. Call(todo[o], 1) = "startDomain" /\ Busy(o)
    BY <2>1, <2>2, FirstCall DEF Calls, Orderly, Lived
  <2>4. Safe(o, "startDomain", Call(todo[o], 2))
    BY <2>1, <2>3 DEF Steady
  <2>5. Calm
    BY <2>4 DEF Safe, NeedsCalm
  <2> QED BY <1>1, <2>1, <2>5 DEF Calm, Running, Alive
<1>2. SteadyInv /\ [Next]_vars =>
        [ \A o \in Operations :
            Launches(o) /\ Alive # {}
              => mode = "exec" \/ (~Aggressive(o) /\ Failed) ]_vars
  BY <1>1
<1> QED BY <1>2, SteadyInvariant, PTL DEF Spec, OneJvm



-----------------------------------------------------------------------------
(***************************************************************************)
(* The new key reaches the JVMs.  A handler of a rotated key fetches it,   *)
(* and then goes through a call that returns only when no JVM is left; any *)
(* JVM launched later has the key from memory.                             *)
(***************************************************************************)
Purges == {"fetchSecrets", "stop", "waitForStopped", "verifyStopped"}

\* A handler of a rotated key that has fetched it and emptied the host.
Purging(o) ==
  /\ kind[o] = "keyRotated" /\ answer[o] # "error"
  /\ mode # "exec" /\ (mode = "normal" => ~Failed)
  /\ \A c \in Purges : ~Has(todo[o], c)

Purged ==
  \A o \in Operations :
    Purging(o) => \A j \in Alive : jvmEnv[j] >= since[o]

\* An operation leaves no more JVMs than there were, but for a launch.
LEMMA AliveAfter ==
  ASSUME TypeOK, NEW o \in Operations, Continue(o)
  PROVE  \/ UNCHANGED jvmEnv /\ Alive' \subseteq Alive
         \/ /\ At(o, "startDomain")
            /\ \E j \in Jvms : /\ jvm' = [jvm EXCEPT ![j] = "booting"]
                               /\ jvmEnv' = [jvmEnv EXCEPT ![j] = setenv]
<1> USE DEF TypeOK, Alive
<1>1. CASE UNCHANGED jvmVars
  BY <1>1 DEF jvmVars
<1>2. CASE StartDomain(o)
  BY <1>1, <1>2 DEF StartDomain
<1>3. CASE StopDomain(o) \/ Sigterm(o)
  BY <1>3 DEF StopDomain, Sigterm, Shut
<1>4. CASE Sigkill(o)
  BY <1>4 DEF Sigkill
<1>5. CASE RestartFresh(o) \/ EnsureNoJava(o) \/ KillProcesses(o)
             \/ CheckRemaining(o) \/ FinalCheck(o) \/ VerifyStopped(o)
  BY <1>1, <1>5 DEF RestartFresh, EnsureNoJava, KillProcesses, CheckRemaining,
       FinalCheck, VerifyStopped, AskProcesses, FailIfAlive
<1>6. CASE FetchSecrets(o) \/ WriteSetenv(o)
  BY <1>1, <1>6 DEF FetchSecrets, WriteSetenv
<1>7. CASE Start(o) \/ AwaitUp(o) \/ Stop(o) \/ WaitForStopped(o)
             \/ EnsureSingleProcess(o) \/ GracefulStop(o) \/ Startup(o)
             \/ Deploy(o) \/ AsadminDeploy(o)
  BY <1>1, <1>7 DEF Start, AwaitUp, Stop, WaitForStopped, EnsureSingleProcess,
       GracefulStop, Startup, Deploy, AsadminDeploy, Unchanged
<1> QED BY <1>2, <1>3, <1>4, <1>5, <1>6, <1>7 DEF Continue

\* The call with which a handler has done all it does to empty the host finds
\* no JVM left.
LEMMA PurgeEmpties ==
  ASSUME ~PgrepFaults, "normal" \notin Unreliable, SteadyInv,
         NEW o \in Operations, Continue(o), ~Throw(o),
         ~Purging(o), Purging(o)'
  PROVE  UNCHANGED jvm /\ Alive = {}
<1> DEFINE s == todo[o]
           h == Head(s)
           t == todo'[o]
<1>1. TypeOK /\ Orderly /\ Steady
  BY DEF SteadyInv, AloneInv
<1>2. /\ s \in Seq(Calls) /\ s # << >> /\ Linked(s) /\ Call(s, 1) = h
      /\ Busy(o) /\ UNCHANGED <<mode, kind>> /\ Failed' = Failed
  BY <1>1, Onward
<1>3. PICK pre : Expands(h, pre) /\ t = pre \o Tail(s)
  BY <1>1, Onward
<1>4. /\ kind[o] = "keyRotated" /\ mode # "exec" /\ (mode = "normal" => ~Failed)
      /\ answer[o] = None /\ o # OnStart /\ mode \in AllModes
  BY <1>1, <1>2, ModesAssumption DEF Purging, Busy, Orderly, Lived, TypeOK
<1>5. \A c \in Purges : ~Has(t, c)
  BY DEF Purging
<1>6. PICK c \in Purges : Has(s, c)
  BY <1>2, <1>4, NoneAssumption DEF Purging
<1> HIDE DEF s, t, h
<1>7. h = c
  BY <1>2, <1>3, <1>5, <1>6, HasKept DEF Expands, h
<1>8. At(o, h) /\ \A call : At(o, call) => call = h
  BY <1>2 DEF At, h, s
<1>9. Processes = {Alive}
  BY DEF Processes
<1>10. CASE c = "fetchSecrets"
  <2>1. s = Handler("keyRotated")
    BY <1>1, <1>4, <1>6, <1>10 DEF Orderly, Shaped, s
  <2>2. Opens("keyRotated", s)
    BY <1>4, <2>1, HandlerOpens DEF Kinds
  <2>3. CASE mode = "normal"
    <3>1. s[3] = "stop" /\ Len(s) = 4
      BY <2>2, <2>3 DEF Opens
    <3>2. Has(s, "stop")
      BY <3>1 DEF Has
    <3>3. Has(t, "stop")
      BY <1>2, <1>3, <1>7, <1>10, <3>2, HasKept DEF Expands, h
    <3> QED BY <1>5, <3>3 DEF Purges
  <2>4. CASE mode = "aggressive"
    <3>1. Aggressively(s, 3)
      BY <1>4, <2>2, <2>4 DEF Opens
    <3>2. s[5] = "verifyStopped" /\ Len(s) = 9 /\ 5 \in 1 .. 9
      BY <3>1 DEF Aggressively
    <3>3. Has(s, "verifyStopped")
      BY <3>2 DEF Has
    <3>4. Has(t, "verifyStopped")
      BY <1>2, <1>3, <1>7, <1>10, <3>3, HasKept DEF Expands, h
    <3> QED BY <1>5, <3>4 DEF Purges
  <2> QED BY <1>4, <2>3, <2>4 DEF AllModes
<1>11. CASE c = "stop"
  <2>1. mode = "normal" /\ ~Failed
    <3>1. ~Aggressive(o)
      BY <1>1, <1>4, <1>6, <1>11 DEF Orderly, Shaped, s
    <3> QED BY <1>4, <3>1 DEF Aggressive, AllModes
  <2>2. Calm
    <3>1. Safe(o, Call(s, 1), Call(s, 2))
      BY <1>1, <1>2, <1>4, <2>1 DEF Steady, Bound, s
    <3> QED BY <1>2, <1>7, <1>11, <3>1 DEF Safe, NeedsCalm
  <2>3. Stop(o)
    BY <1>8, <1>7, <1>11, StopOnly
  <2>4. ~Running
    <3> SUFFICES ASSUME Running PROVE FALSE
      OBVIOUS
    <3>1. ListDomains = {TRUE}
      BY <2>1 DEF ListDomains
    <3>2. t = <<"stopDomain", "waitForStopped">> \o Tail(s)
      BY <1>1, <2>3, <3>1 DEF Stop, Proceed, ProceedIn, TypeOK, Rest, s, t
    <3>3. Has(t, "waitForStopped")
      <4> DEFINE q == <<"stopDomain", "waitForStopped">>
      <4>1. q \in Seq(Calls) /\ Len(q) = 2 /\ q[2] = "waitForStopped"
        BY DEF Calls
      <4> HIDE DEF q
      <4>2. /\ Len(q \o Tail(s)) = Len(q) + Len(s) - 1
            /\ \A i \in 1 .. Len(q) : (q \o Tail(s))[i] = q[i]
            /\ Len(s) \in Nat /\ Len(s) > 0
        BY <1>2, <4>1, Replaced
      <4>3. 2 \in 1 .. Len(q \o Tail(s)) /\ 2 \in 1 .. Len(q)
        BY <4>1, <4>2
      <4> QED BY <3>2, <4>1, <4>2, <4>3 DEF Has, q
    <3> QED BY <1>5, <3>3 DEF Purges
  <2>5. UNCHANGED jvm
    BY <2>3 DEF Stop, Unchanged, jvmVars
  <2> QED BY <2>2, <2>4, <2>5 DEF Calm, Running, Alive
<1>12. CASE c \in {"waitForStopped", "verifyStopped"}
  <2>1. WaitForStopped(o) \/ VerifyStopped(o)
    BY <1>7, <1>8, <1>12, StopOnly
  <2> QED BY <1>9, <2>1 DEF WaitForStopped, VerifyStopped, FailIfAlive,
                            Unchanged, jvmVars
<1> QED BY <1>6, <1>10, <1>11, <1>12 DEF Purges

LEMMA PurgedStep ==
  ASSUME ~PgrepFaults, "normal" \notin Unreliable
  PROVE  SteadyInv /\ EnvInv /\ Purged /\ [Next]_vars => Purged'
<1> SUFFICES ASSUME SteadyInv, EnvInv, Purged, [Next]_vars,
                    NEW p \in Operations, Purging(p)', NEW j \in Alive'
             PROVE  jvmEnv'[j] >= since'[p]
  BY DEF Purged
<1>0. TypeOK /\ Orderly /\ Stored /\ Saved
  BY DEF EnvInv, AloneInv
<1>1. ASSUME Purging(p), since'[p] = since[p], UNCHANGED jvmEnv, Alive' \subseteq Alive
      PROVE  jvmEnv'[j] >= since'[p]
  BY <1>1 DEF Purged
<1>2. ASSUME NEW o \in Operations, Continue(o) PROVE jvmEnv'[j] >= since'[p]
  <2>1. /\ todo[o] # << >> /\ Goes(o) /\ UNCHANGED <<mode, kind, since>>
        /\ Busy(o) /\ \A q \in Operations : q # o =>
                        todo'[q] = todo[q] /\ answer'[q] = answer[q]
    <3>1. todo[o] # << >> /\ Goes(o) /\ UNCHANGED <<mode, kind, since>>
      BY <1>0, <1>2, Flow DEF beginVars
    <3> QED BY <1>0, <3>1, GoesEffect DEF Orderly, Lived
  <2>2. ~Throw(o) \/ p # o
    BY <1>0 DEF Throw, Purging, TypeOK
  <2>3. Failed => Failed'
    BY <2>1, NoneAssumption DEF Failed, Busy
  <2>4. Purging(p) \/ (p = o /\ ~Throw(o) /\ Alive = {} /\ UNCHANGED jvm)
    <3>1. CASE p # o
      BY <2>1, <2>3, <3>1 DEF Purging
    <3>2. CASE p = o
      BY <1>2, <2>2, <3>2, PurgeEmpties
    <3> QED BY <3>1, <3>2
  <2>5. CASE UNCHANGED jvmEnv /\ Alive' \subseteq Alive
    BY <1>1, <2>1, <2>4, <2>5
  <2>6. CASE At(o, "startDomain") /\ \E i \in Jvms :
               /\ jvm' = [jvm EXCEPT ![i] = "booting"]
               /\ jvmEnv' = [jvmEnv EXCEPT ![i] = setenv]
    <3>1. PICK i \in Jvms : /\ jvm' = [jvm EXCEPT ![i] = "booting"]
                            /\ jvmEnv' = [jvmEnv EXCEPT ![i] = setenv]
      BY <2>6
    <3>2. Purging(p)
      <4>1. jvm' # jvm \/ Alive # {}
        BY <1>0, <3>1 DEF TypeOK, Alive
      <4> QED BY <2>4, <4>1
    <3>3. setenv = environment /\ environment >= since[p]
      BY <1>0, <2>6, <3>2 DEF Saved, Stored, Purging, Purges, Fetches
    <3>4. CASE j = i
      BY <1>0, <2>1, <3>1, <3>3, <3>4 DEF TypeOK
    <3>5. CASE j # i
      <4>1. jvmEnv'[j] = jvmEnv[j] /\ j \in Alive
        BY <1>0, <3>1, <3>5 DEF TypeOK, Alive
      <4> QED BY <2>1, <3>2, <4>1 DEF Purged
    <3> QED BY <3>4, <3>5
  <2> QED BY <1>0, <1>2, <2>5, <2>6, AliveAfter
<1>3. ASSUME NEW o \in Operations, NEW k \in Kinds, Begin(o, k)
      PROVE  jvmEnv'[j] >= since'[p]
  <2>1. /\ kind'[o] = k /\ todo'[o] = Handler(k) /\ kind[o] = None
        /\ UNCHANGED <<mode, jvm, jvmEnv>> /\ mode \in AllModes
        /\ \A q \in Operations : q # o =>
             /\ todo'[q] = todo[q] /\ answer'[q] = answer[q]
             /\ kind'[q] = kind[q] /\ since'[q] = since[q]
    BY <1>0, <1>3, ModesAssumption
       DEF Begin, Proceed, ProceedIn, TypeOK, jvmVars
  <2>2. p # o
    BY <2>1, HandlerFetches DEF Purging, Purges
  <2>3. Failed => Failed'
    BY <1>0, <2>1, NoneAssumption DEF Failed, Orderly, Lived
  <2> QED BY <1>1, <2>1, <2>2, <2>3 DEF Purging, Alive
<1>4. CASE UNCHANGED <<mode, kind, since, todo, answer>>
  <2>1. Purging(p) /\ since'[p] = since[p]
    BY <1>4 DEF Purging, Failed
  <2>2. ASSUME NEW i \in Jvms, Boot(i) \/ Exit(i) \/ ExecStart(i)
        PROVE  UNCHANGED jvmEnv /\ Alive' \subseteq Alive
    BY <1>0, <2>1, <2>2 DEF Boot, Exit, ExecStart, Alive, TypeOK, Purging
  <2>3. CASE UNCHANGED jvmVars
    BY <1>1, <2>1, <2>3 DEF jvmVars, Alive
  <2> QED BY <1>1, <1>2, <1>3, <2>1, <2>2, <2>3 DEF Next, vars, Rotate
<1>5. CASE (\E i \in Jvms : Boot(i) \/ Exit(i) \/ ExecStart(i)) \/ Rotate \/ UNCHANGED vars
  BY <1>4, <1>5 DEF Boot, Exit, ExecStart, Rotate, OnlyJvm, flowVars, beginVars, vars
<1> QED BY <1>2, <1>3, <1>5 DEF Next

\* Under the same assumptions, when the handler of a rotated key reports that
\* Payara was restarted, no JVM is alive, then or ever after, with an older
\* key; in normal mode, as long as no operation has failed.
THEOREM RotationDone ==
  ASSUME ~Overlap, ~PgrepFaults, "normal" \notin Unreliable
  PROVE  Spec => []RotationReachesJvm
<1>1. Init => Purged
  BY NoneAssumption DEF Init, Purged, Purging, Kinds
<1>2. SteadyInv /\ EnvInv /\ Purged /\ [Next]_vars => Purged'
  BY PurgedStep
<1>3. EnvInv /\ Purged => RotationReachesJvm
  <2> SUFFICES ASSUME EnvInv, Purged, NEW o \in Operations,
                      kind[o] = "keyRotated", answer[o] = "done",
                      mode # "exec", ~(mode = "normal" /\ Failed)
               PROVE  \A j \in Alive : jvmEnv[j] >= since[o]
    BY DEF RotationReachesJvm
  <2>1. todo[o] = << >>
    BY NoneAssumption DEF EnvInv, AloneInv, Orderly, Lived, Busy
  <2>2. Purging(o)
    BY <2>1 DEF Purging, Has
  <2> QED BY <2>2 DEF Purged
<1> QED BY <1>1, <1>2, <1>3, SteadyInvariant, EnvInvariant, PTL DEF Spec

=============================================================================
