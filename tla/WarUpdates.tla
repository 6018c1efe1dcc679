----------------------------- MODULE WarUpdates -----------------------------
(***************************************************************************)
(* What POST /deploy promises about the WAR file: each request adds its    *)
(* own files to the content that was there, in one indivisible step, and a *)
(* request is told "deployed" only if its files are in.  HotDeploy         *)
(* implements it with an extraction, a rewrite and a repackaging.  A       *)
(* request may instead destroy the file, which no other one repairs.       *)
(*                                                                         *)
(* The promise ends with the first upload of a whole WAR that is accepted: *)
(* uploads replace the file without taking the lock.                       *)
(***************************************************************************)

CONSTANTS Requests, None, Torn

VARIABLES
  war,    \* content of the WAR file
  answer, \* the answer of each request, None while it has none
  uploaded \* whether an upload has been accepted

vars == <<war, answer, uploaded>>

Answers == {"deployed", "failed", "conflict", "error"}

Init ==
  /\ war \in {None, {}}
  /\ answer = [r \in Requests |-> None]
  /\ uploaded = FALSE

Holds(r) == war \notin {None, Torn} /\ r \in war

Update(r) ==
  /\ answer[r] = None
  /\ war # Torn
  /\ ~Holds(r)
  /\ war' = {r} \cup (IF war = None THEN {} ELSE war)
  /\ UNCHANGED <<answer, uploaded>>

Tear(r) ==
  /\ answer[r] = None
  /\ war' = Torn
  /\ answer' \in {answer, [answer EXCEPT ![r] = "failed"]}
  /\ UNCHANGED uploaded

Reply(r) ==
  /\ answer[r] = None
  /\ \E a \in Answers :
       /\ a = "deployed" => Holds(r)
       /\ a = "conflict" => ~Holds(r)
       /\ answer' = [answer EXCEPT ![r] = a]
  /\ UNCHANGED <<war, uploaded>>

Uploads ==
  /\ uploaded' = TRUE
  /\ war' \in {None, Torn} \cup SUBSET Requests
  /\ answer' \in [Requests -> {None} \cup Answers]

Next == Uploads \/ \E r \in Requests : Update(r) \/ Tear(r) \/ Reply(r)

Spec == Init /\ [][Next]_vars
=============================================================================
