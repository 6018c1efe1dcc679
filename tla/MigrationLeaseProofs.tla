------------------------- MODULE MigrationLeaseProofs -------------------------
(***************************************************************************)
(* Proofs about MigrationLease, for any number of signals.                 *)
(***************************************************************************)
EXTENDS MigrationLease, TLAPS

-----------------------------------------------------------------------------
(***************************************************************************)
(* The inductive invariant.  Its parts say who is inside revokeOnce at     *)
(* each await of the phase, and what the end of revokeOnce means.          *)
(***************************************************************************)
\* The type invariant in three parts.
States ==
  /\ pc \in {"routines", "issue", "open", "run", "end", "settle", "finally",
             "revoke", "done"}
  /\ result \in {None, "ok", "error"}
  /\ process \in {"up", "failed", "killed", "interrupted", "timed out"}
  /\ loop \in [Callers -> {"no", "sent", "backoff", "over"}]
  /\ lease \in {None, "active", "revoked", "failed"}
  /\ session \in {None, "open", "closing"}

Flags ==
  /\ db \in BOOLEAN /\ handlers \in BOOLEAN /\ revoked \in BOOLEAN
  /\ warned \in BOOLEAN /\ known \in BOOLEAN

Counts == attempt \in [Callers -> 0..Attempts] /\ signals \in 0..MaxSignals

LEMMA TypeParts == TypeOK <=> States /\ Flags /\ Counts
BY DEF TypeOK, States, Flags, Counts

\* An attempt is left for a caller that waits between two of them.
AttemptsLeft == \A c \in Callers : loop[c] = "backoff" => attempt[c] < Attempts

\* The flag tells whether anyone has entered, and nobody has before the lease
\* is known and the listeners are installed.
FlagTells ==
  /\ ~revoked => \A c \in Callers : loop[c] = "no"
  /\ pc \in {"routines", "issue"} => ~revoked /\ ~known /\ ~handlers
  /\ revoked => loop["signal"] # "no" \/ loop["phase"] # "no"

\* The phase enters in its finally block and is not awaited anywhere else.
PhaseInside ==
  /\ loop["phase"] # "no" => pc \in {"revoke", "done"}
  /\ pc = "revoke" => loop["phase"] # "no"

\* Only one of the two is ever inside.
OneRevoker == loop["phase"] = "no" \/ loop["signal"] = "no"

\* Whoever has left has revoked the lease or logged that it did not.
OverIsAccounted ==
  \A c \in Callers : loop[c] = "over" => lease = "revoked" \/ warned

\* The phase leaves its settle delay with the session closed.
Settled ==
  /\ pc \in {"routines", "issue", "open"} => ~db
  /\ db /\ pc \in {"finally", "revoke", "done"} => session # "closing"

Inv ==
  /\ States
  /\ Flags
  /\ Counts
  /\ AttemptsLeft
  /\ FlagTells
  /\ PhaseInside
  /\ OneRevoker
  /\ OverIsAccounted
  /\ Settled
  /\ LeaseAccountedFor
  /\ CleanSlate

LEMMA InitInv == Init => Inv
<1> SUFFICES ASSUME Init PROVE Inv
  OBVIOUS
<1> USE DEF Init
<1>1. States /\ Flags
  BY DEF States, Flags
<1>2. Counts
  BY MaxSignalsAssumption DEF Counts, Attempts
<1>3. AttemptsLeft /\ FlagTells /\ PhaseInside /\ OneRevoker
  BY DEF AttemptsLeft, FlagTells, PhaseInside, OneRevoker, Callers
<1>4. OverIsAccounted /\ Settled /\ LeaseAccountedFor /\ CleanSlate
  BY DEF OverIsAccounted, Settled, LeaseAccountedFor, CleanSlate, Callers
<1> QED BY <1>1, <1>2, <1>3, <1>4 DEF Inv

-----------------------------------------------------------------------------
(***************************************************************************)
(* The steps.                                                              *)
(***************************************************************************)
\* The phase itself, up to the finally block.
LEMMA PhaseStep ==
  ASSUME Inv,
         applyRoutines \/ issueCredential \/ OpenFails \/ openDb \/ Run \/ End
           \/ Settle
  PROVE  Inv'
<1>0. /\ States
      /\ Flags
      /\ Counts
      /\ AttemptsLeft
      /\ FlagTells
      /\ PhaseInside
      /\ OneRevoker
      /\ OverIsAccounted
      /\ Settled
      /\ LeaseAccountedFor
      /\ CleanSlate
  BY DEF Inv
<1>1. States'
  BY <1>0
     DEF applyRoutines, issueCredential, OpenFails, openDb, Run, End, Settle,
         At, Throws, revokeVars, externalVars, localVars, States
<1>2. Flags'
  BY <1>0
     DEF applyRoutines, issueCredential, OpenFails, openDb, Run, End, Settle,
         At, Throws, revokeVars, externalVars, localVars, Flags
<1>3. Counts'
  BY <1>0
     DEF applyRoutines, issueCredential, OpenFails, openDb, Run, End, Settle,
         At, Throws, revokeVars, externalVars, localVars, Counts
<1>4. AttemptsLeft'
  BY <1>0
     DEF applyRoutines, issueCredential, OpenFails, openDb, Run, End, Settle,
         At, Throws, revokeVars, externalVars, localVars, AttemptsLeft
<1>5. FlagTells'
  <2>1. CASE applyRoutines
    BY <1>0, <2>1
       DEF applyRoutines, At, Throws, revokeVars, externalVars, localVars,
           FlagTells, States, Flags
  <2>2. CASE issueCredential
    BY <1>0, <2>2
       DEF issueCredential, At, Throws, revokeVars, externalVars, localVars,
           FlagTells, States, Flags
  <2>3. CASE OpenFails
    BY <1>0, <2>3
       DEF OpenFails, At, revokeVars, externalVars, localVars, FlagTells,
           States, Flags
  <2>4. CASE openDb
    BY <1>0, <2>4
       DEF openDb, At, revokeVars, externalVars, localVars, FlagTells, States,
           Flags
  <2>5. CASE Run
    BY <1>0, <2>5
       DEF Run, At, revokeVars, externalVars, localVars, FlagTells, States,
           Flags
  <2>6. CASE End
    BY <1>0, <2>6
       DEF End, At, revokeVars, externalVars, localVars, FlagTells, States,
           Flags
  <2>7. CASE Settle
    BY <1>0, <2>7
       DEF Settle, At, revokeVars, externalVars, localVars, FlagTells, States,
           Flags
  <2> QED BY <2>1, <2>2, <2>3, <2>4, <2>5, <2>6, <2>7
<1>6. PhaseInside'
  BY <1>0
     DEF applyRoutines, issueCredential, OpenFails, openDb, Run, End, Settle,
         At, Throws, revokeVars, externalVars, localVars, PhaseInside
<1>7. OneRevoker'
  BY <1>0
     DEF applyRoutines, issueCredential, OpenFails, openDb, Run, End, Settle,
         At, Throws, revokeVars, externalVars, localVars, OneRevoker
<1>8. OverIsAccounted'
  BY <1>0
     DEF applyRoutines, issueCredential, OpenFails, openDb, Run, End, Settle,
         At, Throws, revokeVars, externalVars, localVars, OverIsAccounted,
         FlagTells, Flags
<1>9. Settled'
  <2>1. CASE applyRoutines
    BY <1>0, <2>1, NoneAssumption
       DEF applyRoutines, At, Throws, revokeVars, externalVars, localVars,
           Settled, States, Flags
  <2>2. CASE issueCredential
    BY <1>0, <2>2, NoneAssumption
       DEF issueCredential, At, Throws, revokeVars, externalVars, localVars,
           Settled, States, Flags
  <2>3. CASE OpenFails
    BY <1>0, <2>3, NoneAssumption
       DEF OpenFails, At, revokeVars, externalVars, localVars, Settled,
           States, Flags
  <2>4. CASE openDb
    BY <1>0, <2>4, NoneAssumption
       DEF openDb, At, revokeVars, externalVars, localVars, Settled, States,
           Flags
  <2>5. CASE Run
    BY <1>0, <2>5, NoneAssumption
       DEF Run, At, revokeVars, externalVars, localVars, Settled, States,
           Flags
  <2>6. CASE End
    BY <1>0, <2>6, NoneAssumption
       DEF End, At, revokeVars, externalVars, localVars, Settled, States,
           Flags
  <2>7. CASE Settle
    BY <1>0, <2>7, NoneAssumption
       DEF Settle, At, revokeVars, externalVars, localVars, Settled, States,
           Flags
  <2> QED BY <2>1, <2>2, <2>3, <2>4, <2>5, <2>6, <2>7
<1>10. LeaseAccountedFor'
  <2>1. CASE applyRoutines
    BY <1>0, <2>1
       DEF applyRoutines, At, Throws, revokeVars, externalVars, localVars,
           LeaseAccountedFor, States, Flags, FlagTells
  <2>2. CASE issueCredential
    BY <1>0, <2>2
       DEF issueCredential, At, Throws, revokeVars, externalVars, localVars,
           LeaseAccountedFor, States, Flags, FlagTells
  <2>3. CASE OpenFails
    BY <1>0, <2>3
       DEF OpenFails, At, revokeVars, externalVars, localVars,
           LeaseAccountedFor, States, Flags, FlagTells
  <2>4. CASE openDb
    BY <1>0, <2>4
       DEF openDb, At, revokeVars, externalVars, localVars, LeaseAccountedFor,
           States, Flags, FlagTells
  <2>5. CASE Run
    BY <1>0, <2>5
       DEF Run, At, revokeVars, externalVars, localVars, LeaseAccountedFor,
           States, Flags, FlagTells
  <2>6. CASE End
    BY <1>0, <2>6
       DEF End, At, revokeVars, externalVars, localVars, LeaseAccountedFor,
           States, Flags, FlagTells
  <2>7. CASE Settle
    BY <1>0, <2>7
       DEF Settle, At, revokeVars, externalVars, localVars, LeaseAccountedFor,
           States, Flags, FlagTells
  <2> QED BY <2>1, <2>2, <2>3, <2>4, <2>5, <2>6, <2>7
<1>11. CleanSlate'
  BY <1>0, NoneAssumption
     DEF applyRoutines, issueCredential, OpenFails, openDb, Run, End, Settle,
         At, Throws, revokeVars, externalVars, localVars, CleanSlate, States,
         Settled
<1> QED BY <1>1, <1>2, <1>3, <1>4, <1>5, <1>6, <1>7, <1>8, <1>9, <1>10,
       <1>11 DEF Inv

\* The finally block.
LEMMA FinallyStep == ASSUME Inv, Finally \/ RevokeReturns PROVE Inv'
<1>0. /\ States
      /\ Flags
      /\ Counts
      /\ AttemptsLeft
      /\ FlagTells
      /\ PhaseInside
      /\ OneRevoker
      /\ OverIsAccounted
      /\ Settled
      /\ LeaseAccountedFor
      /\ CleanSlate
  BY DEF Inv
<1>1. States'
  BY <1>0
     DEF Finally, RevokeReturns, Enter, Returns, revokeVars, externalVars,
         localVars, States, Callers
<1>2. Flags'
  BY <1>0
     DEF Finally, RevokeReturns, Enter, Returns, revokeVars, externalVars,
         localVars, Flags, Callers
<1>3. Counts'
  BY <1>0
     DEF Finally, RevokeReturns, Enter, Returns, revokeVars, externalVars,
         localVars, Counts, Callers, Attempts
<1>4. AttemptsLeft'
  BY <1>0
     DEF Finally, RevokeReturns, Enter, Returns, revokeVars, externalVars,
         localVars, AttemptsLeft, Callers, States, Counts
<1>5. FlagTells'
  BY <1>0
     DEF Finally, RevokeReturns, Enter, Returns, revokeVars, externalVars,
         localVars, FlagTells, Callers, States, Flags
<1>6. PhaseInside'
  BY <1>0
     DEF Finally, RevokeReturns, Enter, Returns, revokeVars, externalVars,
         localVars, PhaseInside, Callers, States
<1>7. OneRevoker'
  BY <1>0
     DEF Finally, RevokeReturns, Enter, Returns, revokeVars, externalVars,
         localVars, OneRevoker, Callers, States, FlagTells
<1>8. OverIsAccounted'
  BY <1>0
     DEF Finally, RevokeReturns, Enter, Returns, revokeVars, externalVars,
         localVars, OverIsAccounted, Callers, States, FlagTells, Flags
<1>9. Settled'
  BY <1>0
     DEF Finally, RevokeReturns, Enter, Returns, revokeVars, externalVars,
         localVars, Settled
<1>10. LeaseAccountedFor'
  BY <1>0
     DEF Finally, RevokeReturns, Enter, Returns, revokeVars, externalVars,
         localVars, LeaseAccountedFor, Callers, States, OverIsAccounted,
         FlagTells, PhaseInside
<1>11. CleanSlate'
  BY <1>0
     DEF Finally, RevokeReturns, Enter, Returns, revokeVars, externalVars,
         localVars, CleanSlate, Callers, States
<1> QED BY <1>1, <1>2, <1>3, <1>4, <1>5, <1>6, <1>7, <1>8, <1>9, <1>10,
       <1>11 DEF Inv

\* One attempt of either caller, or the delay before it.
LEMMA RevokeStep == ASSUME Inv, NEW c \in Callers, Revoke(c) PROVE Inv'
<1>0. /\ States
      /\ Flags
      /\ Counts
      /\ AttemptsLeft
      /\ FlagTells
      /\ PhaseInside
      /\ OneRevoker
      /\ OverIsAccounted
      /\ Settled
      /\ LeaseAccountedFor
      /\ CleanSlate
  BY DEF Inv
<1>1. States'
  BY <1>0
     DEF Revoke, RevokeSucceeds, RevokeFails, RevokeRefused, Retry, Leave,
         GiveUp, revokeVars, externalVars, localVars, States
<1>2. Flags'
  BY <1>0
     DEF Revoke, RevokeSucceeds, RevokeFails, RevokeRefused, Retry, Leave,
         GiveUp, revokeVars, externalVars, localVars, Flags
<1>3. Counts'
  BY <1>0
     DEF Revoke, RevokeSucceeds, RevokeFails, RevokeRefused, Retry, Leave,
         GiveUp, revokeVars, externalVars, localVars, Counts, AttemptsLeft,
         Attempts
<1>4. AttemptsLeft'
  BY <1>0
     DEF Revoke, RevokeSucceeds, RevokeFails, RevokeRefused, Retry, Leave,
         GiveUp, revokeVars, externalVars, localVars, AttemptsLeft, States,
         Counts
<1>5. FlagTells'
  BY <1>0
     DEF Revoke, RevokeSucceeds, RevokeFails, RevokeRefused, Retry, Leave,
         GiveUp, revokeVars, externalVars, localVars, FlagTells, Callers,
         States, Flags
<1>6. PhaseInside'
  BY <1>0
     DEF Revoke, RevokeSucceeds, RevokeFails, RevokeRefused, Retry, Leave,
         GiveUp, revokeVars, externalVars, localVars, PhaseInside, Callers,
         States
<1>7. OneRevoker'
  BY <1>0
     DEF Revoke, RevokeSucceeds, RevokeFails, RevokeRefused, Retry, Leave,
         GiveUp, revokeVars, externalVars, localVars, OneRevoker, Callers,
         States
<1>8. OverIsAccounted'
  <2>1. CASE RevokeSucceeds(c)
    BY <1>0, <2>1
       DEF RevokeSucceeds, Leave, revokeVars, externalVars, localVars,
           OverIsAccounted, States, Flags
  <2>2. CASE RevokeFails(c)
    BY <1>0, <2>2
       DEF RevokeFails, Leave, GiveUp, revokeVars, externalVars, localVars,
           OverIsAccounted, States, Flags
  <2>3. CASE RevokeRefused(c)
    BY <1>0, <2>3
       DEF RevokeRefused, Leave, GiveUp, revokeVars, externalVars, localVars,
           OverIsAccounted, States, Flags
  <2>4. CASE Retry(c)
    BY <1>0, <2>4
       DEF Retry, revokeVars, externalVars, localVars, OverIsAccounted,
           States, Flags
  <2> QED BY <2>1, <2>2, <2>3, <2>4 DEF Revoke
<1>9. Settled'
  <2>1. CASE RevokeSucceeds(c)
    BY <1>0, <2>1, NoneAssumption
       DEF RevokeSucceeds, Leave, revokeVars, externalVars, localVars,
           Settled, Flags, States
  <2>2. CASE RevokeFails(c)
    BY <1>0, <2>2, NoneAssumption
       DEF RevokeFails, Leave, GiveUp, revokeVars, externalVars, localVars,
           Settled, Flags, States
  <2>3. CASE RevokeRefused(c)
    BY <1>0, <2>3, NoneAssumption
       DEF RevokeRefused, Leave, GiveUp, revokeVars, externalVars, localVars,
           Settled, Flags, States
  <2>4. CASE Retry(c)
    BY <1>0, <2>4, NoneAssumption
       DEF Retry, revokeVars, externalVars, localVars, Settled, Flags, States
  <2> QED BY <2>1, <2>2, <2>3, <2>4 DEF Revoke
<1>10. LeaseAccountedFor'
  BY <1>0
     DEF Revoke, RevokeSucceeds, RevokeFails, RevokeRefused, Retry, Leave,
         GiveUp, revokeVars, externalVars, localVars, LeaseAccountedFor,
         Callers, States
<1>11. CleanSlate'
  BY <1>0, NoneAssumption
     DEF Revoke, RevokeSucceeds, RevokeFails, RevokeRefused, Retry, Leave,
         GiveUp, revokeVars, externalVars, localVars, CleanSlate, Callers,
         States, Settled, PhaseInside
<1> QED BY <1>1, <1>2, <1>3, <1>4, <1>5, <1>6, <1>7, <1>8, <1>9, <1>10,
       <1>11 DEF Inv

\* Signals, their listener, and MySQL.
LEMMA SignalStep == ASSUME Inv, Signal \/ onSignal \/ SessionCloses PROVE Inv'
<1>0. /\ States
      /\ Flags
      /\ Counts
      /\ AttemptsLeft
      /\ FlagTells
      /\ PhaseInside
      /\ OneRevoker
      /\ OverIsAccounted
      /\ Settled
      /\ LeaseAccountedFor
      /\ CleanSlate
  BY DEF Inv
<1>1. States'
  BY <1>0
     DEF Signal, onSignal, SessionCloses, Enter, revokeVars, externalVars,
         localVars, States, Callers
<1>2. Flags'
  BY <1>0
     DEF Signal, onSignal, SessionCloses, Enter, revokeVars, externalVars,
         localVars, Flags, Callers
<1>3. Counts'
  <2>1. CASE Signal
    BY <1>0, <2>1, MaxSignalsAssumption
       DEF Signal, Enter, revokeVars, externalVars, localVars, Counts,
           Callers, Attempts
  <2>2. CASE onSignal
    BY <1>0, <2>2, MaxSignalsAssumption
       DEF onSignal, revokeVars, externalVars, localVars, Counts, Callers,
           Attempts
  <2>3. CASE SessionCloses
    BY <1>0, <2>3, MaxSignalsAssumption
       DEF SessionCloses, revokeVars, externalVars, localVars, Counts,
           Callers, Attempts
  <2> QED BY <2>1, <2>2, <2>3
<1>4. AttemptsLeft'
  BY <1>0
     DEF Signal, onSignal, SessionCloses, Enter, revokeVars, externalVars,
         localVars, AttemptsLeft, Callers, States, Counts
<1>5. FlagTells'
  <2>1. CASE Signal
    BY <1>0, <2>1
       DEF Signal, Enter, revokeVars, externalVars, localVars, FlagTells,
           Callers, States, Flags
  <2>2. CASE onSignal
    BY <1>0, <2>2
       DEF onSignal, revokeVars, externalVars, localVars, FlagTells, Callers,
           States, Flags
  <2>3. CASE SessionCloses
    BY <1>0, <2>3
       DEF SessionCloses, revokeVars, externalVars, localVars, FlagTells,
           Callers, States, Flags
  <2> QED BY <2>1, <2>2, <2>3
<1>6. PhaseInside'
  BY <1>0
     DEF Signal, onSignal, SessionCloses, Enter, revokeVars, externalVars,
         localVars, PhaseInside, Callers, States
<1>7. OneRevoker'
  BY <1>0
     DEF Signal, onSignal, SessionCloses, Enter, revokeVars, externalVars,
         localVars, OneRevoker, Callers, States, FlagTells
<1>8. OverIsAccounted'
  BY <1>0
     DEF Signal, onSignal, SessionCloses, Enter, revokeVars, externalVars,
         localVars, OverIsAccounted, Callers, States, FlagTells, Flags
<1>9. Settled'
  <2>1. CASE Signal
    BY <1>0, <2>1, NoneAssumption
       DEF Signal, Enter, revokeVars, externalVars, localVars, Settled, Flags,
           States
  <2>2. CASE onSignal
    BY <1>0, <2>2, NoneAssumption
       DEF onSignal, revokeVars, externalVars, localVars, Settled, Flags,
           States
  <2>3. CASE SessionCloses
    BY <1>0, <2>3, NoneAssumption
       DEF SessionCloses, revokeVars, externalVars, localVars, Settled, Flags,
           States
  <2> QED BY <2>1, <2>2, <2>3
<1>10. LeaseAccountedFor'
  BY <1>0
     DEF Signal, onSignal, SessionCloses, Enter, revokeVars, externalVars,
         localVars, LeaseAccountedFor, Callers, States
<1>11. CleanSlate'
  BY <1>0, NoneAssumption
     DEF Signal, onSignal, SessionCloses, Enter, revokeVars, externalVars,
         localVars, CleanSlate, Callers, States
<1> QED BY <1>1, <1>2, <1>3, <1>4, <1>5, <1>6, <1>7, <1>8, <1>9, <1>10,
       <1>11 DEF Inv

\* A stutter.
LEMMA StutterStep == ASSUME Inv, UNCHANGED vars PROVE Inv'
<1>0. /\ States
      /\ Flags
      /\ Counts
      /\ AttemptsLeft
      /\ FlagTells
      /\ PhaseInside
      /\ OneRevoker
      /\ OverIsAccounted
      /\ Settled
      /\ LeaseAccountedFor
      /\ CleanSlate
  BY DEF Inv
<1>1. States'
  BY <1>0 DEF vars, revokeVars, externalVars, localVars, States
<1>2. Flags'
  BY <1>0 DEF vars, revokeVars, externalVars, localVars, Flags
<1>3. Counts'
  BY <1>0 DEF vars, revokeVars, externalVars, localVars, Counts
<1>4. AttemptsLeft'
  BY <1>0 DEF vars, revokeVars, externalVars, localVars, AttemptsLeft
<1>5. FlagTells'
  BY <1>0 DEF vars, revokeVars, externalVars, localVars, FlagTells
<1>6. PhaseInside'
  BY <1>0 DEF vars, revokeVars, externalVars, localVars, PhaseInside
<1>7. OneRevoker'
  BY <1>0 DEF vars, revokeVars, externalVars, localVars, OneRevoker
<1>8. OverIsAccounted'
  BY <1>0 DEF vars, revokeVars, externalVars, localVars, OverIsAccounted
<1>9. Settled'
  BY <1>0 DEF vars, revokeVars, externalVars, localVars, Settled
<1>10. LeaseAccountedFor'
  BY <1>0 DEF vars, revokeVars, externalVars, localVars, LeaseAccountedFor
<1>11. CleanSlate'
  BY <1>0 DEF vars, revokeVars, externalVars, localVars, CleanSlate
<1> QED BY <1>1, <1>2, <1>3, <1>4, <1>5, <1>6, <1>7, <1>8, <1>9, <1>10,
       <1>11 DEF Inv

LEMMA NextInv == Inv /\ [Next]_vars => Inv'
<1> SUFFICES ASSUME Inv, [Next]_vars PROVE Inv'
  OBVIOUS
<1>1. CASE UNCHANGED vars
  BY <1>1, StutterStep
<1>2. CASE Next
  BY <1>2, PhaseStep, FinallyStep, RevokeStep, SignalStep DEF Next, Phase
<1> QED BY <1>1, <1>2

\* Every reachable state satisfies the invariant.
THEOREM Invariant == Spec => []Inv
BY InitInv, NextInv, PTL DEF Spec

-----------------------------------------------------------------------------
(***************************************************************************)
(* The theorems.                                                           *)
(***************************************************************************)

\* Every state of a migration phase is well typed: no revocation makes more
\* than the three attempts of revokeOnce.
THEOREM TypeCorrect == Spec => []TypeOK
<1>1. Inv => TypeOK
  BY TypeParts DEF Inv
<1> QED BY <1>1, Invariant, PTL

\* A phase that reaches its end without a signal has revoked its lease or
\* logged that it did not, whichever call failed.
THEOREM LeaseAccounted == Spec => []LeaseAccountedFor
<1>1. Inv => LeaseAccountedFor
  BY DEF Inv
<1> QED BY <1>1, Invariant, PTL

\* After its settle delay a phase never loses its lease to a closing session.
THEOREM SettleSuffices == Spec => []CleanSlate
<1>1. Inv => CleanSlate
  BY DEF Inv
<1> QED BY <1>1, Invariant, PTL

\* However many signals arrive, the finally block and the listener never both
\* send revocations.
THEOREM SingleRevoker == Spec => []OneRevoker
<1>1. Inv => OneRevoker
  BY DEF Inv
<1> QED BY <1>1, Invariant, PTL
=============================================================================
