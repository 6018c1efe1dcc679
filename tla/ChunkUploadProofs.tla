-------------------------- MODULE ChunkUploadProofs --------------------------
(***************************************************************************)
(* Proofs about ChunkUpload, for any number of clients, files, uploads and *)
(* restarts, any chunk size and any limit of the session store.            *)
(***************************************************************************)
EXTENDS ChunkUpload, FiniteSetTheorems, SequenceTheorems, TLAPS

-----------------------------------------------------------------------------
(***************************************************************************)
(* The operations of the session store.                                    *)
(***************************************************************************)
\* Sessions expire from the oldest on.
InAge == \A i, j \in DOMAIN sessions : i < j /\ sessions[j].expired => sessions[i].expired

LEMMA Segment ==
  ASSUME NEW n \in Nat
  PROVE  /\ IsFiniteSet(1..n) /\ Cardinality(1..n) = n
         /\ \A T \in SUBSET (1..n) : IsFiniteSet(T) /\ Cardinality(T) \in 0..n
<1>1. 1 \in Int /\ n \in Int
  OBVIOUS
<1>2. IsFiniteSet(1..n) /\ Cardinality(1..n) = IF 1 > n THEN 0 ELSE n - 1 + 1
  BY <1>1, FS_Interval
<1>3. Cardinality(1..n) = n
  BY <1>2
<1>4. ASSUME NEW T \in SUBSET (1..n) PROVE IsFiniteSet(T) /\ Cardinality(T) \in 0..n
  <2>1. IsFiniteSet(T) /\ Cardinality(T) <= n
    BY <1>2, <1>3, FS_Subset
  <2>2. Cardinality(T) \in Nat
    BY <2>1, FS_CardinalityType
  <2> QED
    BY <2>1, <2>2
<1> QED
  BY <1>2, <1>3, <1>4

LEMMA Slice ==
  ASSUME NEW S, NEW q \in Seq(S), NEW a \in Nat, NEW b \in Nat, a <= b, b <= Len(q)
  PROVE  /\ SubSeq(q, a + 1, b) \in Seq(S) /\ Len(SubSeq(q, a + 1, b)) = b - a
         /\ \A j \in 1..b - a : SubSeq(q, a + 1, b)[j] = q[a + j]
<1>1. a + 1 \in Int /\ b \in Int /\ \A i \in a + 1..b : q[i] \in S
  BY ElementOfSeq
<1>2. /\ SubSeq(q, a + 1, b) \in Seq(S)
      /\ Len(SubSeq(q, a + 1, b)) = IF a + 1 <= b THEN b - (a + 1) + 1 ELSE 0
      /\ \A j \in 1..b - (a + 1) + 1 : SubSeq(q, a + 1, b)[j] = q[a + 1 + j - 1]
  BY <1>1, SubSeqProperties
<1>3. b - (a + 1) + 1 = b - a /\ \A j \in 1..b - a : a + 1 + j - 1 = a + j
  OBVIOUS
<1>4. \A j \in 1..b - a : SubSeq(q, a + 1, b)[j] = q[a + j]
  BY <1>2, <1>3
<1> QED
  BY <1>2, <1>4

\* Deleting by id takes one element out, at position m, or none.
LEMMA RemovalOfOne ==
  ASSUME sessions \in Seq(SessionRecords), NEW k
  PROVE  \E m \in 1..Len(sessions) + 1 :
           /\ m <= Len(sessions) => sessions[m].id = k
           /\ Without(k) \in Seq(SessionRecords)
           /\ Len(Without(k)) = IF m <= Len(sessions) THEN Len(sessions) - 1 ELSE Len(sessions)
           /\ \A j \in 1..Len(Without(k)) :
                Without(k)[j] = IF j < m THEN sessions[j] ELSE sessions[j + 1]
<1> DEFINE n == Len(sessions)
           places == {i \in DOMAIN sessions : sessions[i].id = k}
           m == CHOOSE i \in places : TRUE
<1>1. n \in Nat /\ DOMAIN sessions = 1..n /\ \A i \in 1..n : sessions[i] \in SessionRecords
  BY LenProperties, ElementOfSeq
<1>2. CASE places = {}
  <2>1. Without(k) = sessions
    BY <1>2 DEF Without
  <2>2. n + 1 \in 1..n + 1 /\ ~(n + 1 <= n) /\ \A j \in 1..n : j < n + 1
    BY <1>1
  <2> WITNESS n + 1 \in 1..Len(sessions) + 1
  <2> QED
    BY <1>1, <2>1, <2>2
<1>3. CASE places # {}
  <2>1. m \in 1..n /\ sessions[m].id = k
    BY <1>1, <1>3
  <2>2. Without(k) = SubSeq(sessions, 1, m - 1) \o SubSeq(sessions, m + 1, n)
    BY <1>3 DEF Without, RemoveAt
  <2> HIDE DEF m, n
  <2> DEFINE front == SubSeq(sessions, 1, m - 1)
             back  == SubSeq(sessions, m + 1, n)
  <2>3. /\ front \in Seq(SessionRecords) /\ Len(front) = m - 1
        /\ \A j \in 1..m - 1 : front[j] = sessions[j]
    <3>1. 0 \in Nat /\ m - 1 \in Nat /\ 0 <= m - 1 /\ m - 1 <= Len(sessions)
      BY <1>1, <2>1 DEF n
    <3>2. 0 + 1 = 1 /\ m - 1 - 0 = m - 1 /\ \A j \in 1..m - 1 : 0 + j = j
      BY <1>1, <2>1
    <3> QED
      BY <3>1, <3>2, Slice
  <2>4. /\ back \in Seq(SessionRecords) /\ Len(back) = n - m
        /\ \A j \in 1..n - m : back[j] = sessions[m + j]
    <3>1. m \in Nat /\ n \in Nat /\ m <= n /\ n <= Len(sessions)
      BY <1>1, <2>1 DEF n
    <3> QED
      BY <3>1, Slice
  <2> HIDE DEF front, back
  <2>5. /\ Without(k) \in Seq(SessionRecords) /\ Len(Without(k)) = (m - 1) + (n - m)
        /\ \A j \in 1..(m - 1) + (n - m) :
             Without(k)[j] = IF j <= m - 1 THEN front[j] ELSE back[j - (m - 1)]
    <3>1. Without(k) = front \o back
      BY <2>2 DEF front, back
    <3>2. /\ front \o back \in Seq(SessionRecords)
          /\ Len(front \o back) = Len(front) + Len(back)
          /\ \A j \in 1..Len(front) + Len(back) :
               (front \o back)[j] = IF j <= Len(front) THEN front[j] ELSE back[j - Len(front)]
      BY <2>3, <2>4, ConcatProperties
    <3> QED
      BY <2>3, <2>4, <3>1, <3>2
  <2>6. (m - 1) + (n - m) = n - 1
    BY <1>1, <2>1
  <2>7. ASSUME NEW j \in 1..n - 1
        PROVE  Without(k)[j] = IF j < m THEN sessions[j] ELSE sessions[j + 1]
    <3>1. CASE j <= m - 1
      BY <1>1, <2>1, <2>3, <2>5, <2>6, <3>1
    <3>2. CASE ~(j <= m - 1)
      <4>1. j - (m - 1) \in 1..n - m /\ m + (j - (m - 1)) = j + 1
        BY <1>1, <2>1, <3>2
      <4> QED
        BY <1>1, <2>1, <2>4, <2>5, <2>6, <3>2, <4>1
    <3> QED
      BY <3>1, <3>2
  <2>8. m \in 1..Len(sessions) + 1 /\ m <= Len(sessions)
    BY <1>1, <2>1 DEF n
  <2> USE <2>8
  <2> WITNESS m \in 1..Len(sessions) + 1
  <2> QED
    BY <2>1, <2>5, <2>6, <2>7, <2>8 DEF n
<1> QED
  BY <1>2, <1>3

\* Cleaning up takes the first d sessions out, which are expired, or leaves as many as
\* the limit.
LEMMA CleanupTakesOldest ==
  ASSUME sessions \in Seq(SessionRecords), InAge
  PROVE  \E d \in 0..Len(sessions) :
           /\ \A i \in 1..d : sessions[i].expired \/ Len(sessions) - d = MaxSessions
           /\ cleanup \in Seq(SessionRecords)
           /\ Len(cleanup) = Len(sessions) - d /\ Len(cleanup) <= MaxSessions
           /\ \A j \in 1..Len(cleanup) : cleanup[j] = sessions[d + j] /\ ~cleanup[j].expired
<1> DEFINE n == Len(sessions)
           old == {i \in DOMAIN sessions : sessions[i].expired}
           e == Cardinality(old)
           over == IF n - e > MaxSessions THEN n - e - MaxSessions ELSE 0
<1>1. /\ n \in Nat /\ DOMAIN sessions = 1..n /\ \A i \in 1..n : sessions[i] \in SessionRecords
      /\ MaxSessions \in Nat \ {0}
  BY LenProperties, ElementOfSeq, ChunkAssumption
<1>2. e \in 0..n
  <2>1. old \in SUBSET (1..n)
    BY <1>1
  <2> HIDE DEF old, n
  <2> QED
    BY <1>1, <2>1, Segment
<1>3. ASSUME NEW i \in 1..e PROVE sessions[i].expired
  <2> SUFFICES ASSUME ~sessions[i].expired PROVE FALSE
    OBVIOUS
  <2>1. old \in SUBSET (1..i - 1)
    BY <1>1, <1>2 DEF InAge
  <2>2. i - 1 \in Nat
    BY <1>2
  <2> HIDE DEF old
  <2>3. e <= i - 1
    BY <2>1, <2>2, Segment
  <2> QED
    BY <1>2, <2>3
<1>4. ASSUME NEW i \in e + 1..n PROVE ~sessions[i].expired
  <2> SUFFICES ASSUME sessions[i].expired PROVE FALSE
    OBVIOUS
  <2>1. 1..i \in SUBSET old
    BY <1>1, <1>2 DEF InAge
  <2>2. i \in Nat /\ old \in SUBSET (1..n)
    BY <1>1, <1>2
  <2> HIDE DEF old, n
  <2>3. IsFiniteSet(old) /\ Cardinality(1..i) = i
    BY <1>1, <2>2, Segment
  <2>4. i <= e
    BY <2>1, <2>3, FS_Subset
  <2> QED
    BY <1>2, <2>4
<1> HIDE DEF e, n
<1>5. /\ fresh \in Seq(SessionRecords) /\ Len(fresh) = n - e
      /\ \A j \in 1..n - e : fresh[j] = sessions[e + j]
  <2>1. e \in Nat /\ n \in Nat /\ e <= n /\ n <= Len(sessions) /\ 1 + e = e + 1
    BY <1>1, <1>2 DEF n
  <2>2. fresh = SubSeq(sessions, 1 + e, n)
    BY DEF fresh, e, n
  <2> QED
    BY <2>1, <2>2, Slice
<1>6. over \in 0..n - e
  BY <1>1, <1>2
<1>7. cleanup = SubSeq(fresh, 1 + over, n - e)
  BY <1>5 DEF cleanup
<1> HIDE DEF over
<1>8. /\ cleanup \in Seq(SessionRecords) /\ Len(cleanup) = n - e - over
      /\ \A j \in 1..n - e - over : cleanup[j] = fresh[over + j]
  <2>1. /\ over \in Nat /\ n - e \in Nat /\ over <= n - e /\ n - e <= Len(fresh)
        /\ 1 + over = over + 1
    BY <1>1, <1>2, <1>5, <1>6
  <2> QED
    BY <1>5, <1>7, <2>1, Slice
<1> DEFINE d == e + over
<1>9. d \in 0..n /\ Len(cleanup) = n - d /\ n - d <= MaxSessions
  BY <1>1, <1>2, <1>6, <1>8 DEF over
<1>10. ASSUME NEW j \in 1..n - d PROVE cleanup[j] = sessions[d + j] /\ ~sessions[d + j].expired
  <2>1. /\ j \in 1..n - e - over /\ over + j \in 1..n - e /\ e + (over + j) = d + j
        /\ d + j \in e + 1..n
    BY <1>1, <1>2, <1>6
  <2> QED
    BY <1>4, <1>5, <1>8, <2>1
<1>11. ASSUME NEW i \in 1..d PROVE sessions[i].expired \/ n - d = MaxSessions
  BY <1>1, <1>2, <1>3, <1>6, <1>11 DEF over
<1> QED
  BY <1>8, <1>9, <1>10, <1>11 DEF n

-----------------------------------------------------------------------------
(***************************************************************************)
(* The sessions after a step.                                              *)
(***************************************************************************)
\* The sessions in the order of their age, and not too many of them.
Store == sessions \in Seq(SessionRecords) /\ InAge /\ SessionsBounded

\* Each session is one of before.
OfBefore == \A j \in DOMAIN sessions' : \E i \in DOMAIN sessions : sessions'[j] = sessions[i]

Remains(i) == \E j \in DOMAIN sessions' : sessions'[j].id = sessions[i].id

LEMMA StoreFacts ==
  ASSUME Store
  PROVE  /\ Len(sessions) \in Nat /\ DOMAIN sessions = 1..Len(sessions)
         /\ \A i \in DOMAIN sessions : sessions[i] \in SessionRecords
         /\ MaxSessions \in Nat \ {0}
BY LenProperties, ElementOfSeq, ChunkAssumption DEF Store

LEMMA AfterRemoval ==
  ASSUME Store, NEW k, sessions' = Without(k)
  PROVE  Store' /\ OfBefore /\ \A i \in DOMAIN sessions : sessions[i].id = k \/ Remains(i)
<1> DEFINE n == Len(sessions)
<1>1. PICK m \in 1..n + 1 :
           /\ m <= n => sessions[m].id = k
           /\ sessions' \in Seq(SessionRecords)
           /\ Len(sessions') = IF m <= n THEN n - 1 ELSE n
           /\ \A j \in 1..Len(sessions') :
                sessions'[j] = IF j < m THEN sessions[j] ELSE sessions[j + 1]
  BY RemovalOfOne DEF Store
<1>2. n \in Nat /\ DOMAIN sessions = 1..n /\ DOMAIN sessions' = 1..Len(sessions')
  BY <1>1, StoreFacts, LenProperties
<1> HIDE DEF n
<1>3. ASSUME NEW j \in DOMAIN sessions'
      PROVE  /\ j < m => j \in DOMAIN sessions /\ sessions'[j] = sessions[j]
             /\ j >= m => j + 1 \in DOMAIN sessions /\ sessions'[j] = sessions[j + 1]
  BY <1>1, <1>2
<1>4. OfBefore
  BY <1>1, <1>2, <1>3 DEF OfBefore
<1>5. InAge'
  <2> SUFFICES ASSUME NEW i \in DOMAIN sessions', NEW j \in DOMAIN sessions', i < j,
                      sessions'[j].expired
               PROVE  sessions'[i].expired
    BY DEF InAge
  <2>1. i \in Nat /\ j \in Nat /\ m \in Nat
    BY <1>1, <1>2
  <2> QED
    BY <1>3, <2>1 DEF Store, InAge
<1>6. SessionsBounded'
  <2>1. Len(sessions') \in Int /\ Len(sessions') <= n
    BY <1>1, <1>2
  <2>2. n <= MaxSessions + 1 /\ MaxSessions \in Nat
    BY StoreFacts DEF Store, SessionsBounded, n
  <2> QED
    BY <1>2, <2>1, <2>2 DEF SessionsBounded
<1>7. ASSUME NEW i \in DOMAIN sessions, sessions[i].id # k PROVE Remains(i)
  <2>1. CASE i < m
    BY <1>1, <1>2, <1>3, <2>1 DEF Remains
  <2>2. CASE i > m
    <3>1. i - 1 \in DOMAIN sessions' /\ i - 1 >= m /\ i - 1 + 1 = i
      BY <1>1, <1>2, <2>2
    <3> QED
      BY <1>3, <3>1 DEF Remains
  <2>3. i # m
    BY <1>1, <1>2, <1>7
  <2> QED
    BY <1>1, <1>2, <2>1, <2>2, <2>3
<1> QED
  BY <1>1, <1>4, <1>5, <1>6, <1>7 DEF Store

\* What a chunk of c leaves in the store.
Collects(c, files) ==
  /\ \E j \in DOMAIN sessions' : sessions'[j].id = id(c)
  /\ \A j \in DOMAIN sessions' :
       \/ \E i \in DOMAIN sessions :
            sessions'[j] = sessions[i] /\ (known[c] => sessions[i].id # id(c))
       \/ /\ known[c] /\ sessions'[j].id = id(c)
          /\ \E i \in DOMAIN sessions :
               sessions[i].id = id(c) /\ sessions'[j].files = sessions[i].files \cup files
       \/ ~known[c] /\ sessions'[j].id = id(c) /\ sessions'[j].files = files

LEMMA AfterChunk ==
  ASSUME Store, NEW c, id(c) \in Names, diff[c].deleted \in Changes, NEW files \in Changes,
         ReceiveChunk(c, files)
  PROVE  /\ Store' /\ Collects(c, files)
         /\ \A i \in DOMAIN sessions :
              sessions[i].expired \/ Len(sessions') = MaxSessions + 1 \/ Remains(i)
<1> DEFINE n == Len(sessions)
<1>1. /\ n \in Nat /\ DOMAIN sessions = 1..n
      /\ \A i \in DOMAIN sessions : sessions[i] \in SessionRecords
      /\ MaxSessions \in Nat \ {0}
  BY StoreFacts
<1> HIDE DEF n
<1>2. CASE known[c]
  <2>1. /\ DOMAIN sessions' = 1..n
        /\ \A i \in 1..n : sessions'[i] = IF sessions[i].id = id(c)
                                          THEN [sessions[i] EXCEPT !.files = @ \cup files]
                                          ELSE sessions[i]
        /\ \E i \in 1..n : sessions[i].id = id(c)
        /\ sessions' = [i \in 1..n |-> sessions'[i]]
    BY <1>1, <1>2 DEF ReceiveChunk, addFiles, Live
  <2>2. \A i \in 1..n : /\ sessions'[i] \in SessionRecords
                        /\ sessions'[i].id = sessions[i].id
                        /\ sessions'[i].expired = sessions[i].expired
                        /\ sessions[i].id = id(c) => sessions'[i].files = sessions[i].files \cup files
    BY <1>1, <2>1 DEF SessionRecords, Changes
  <2>3. sessions' \in Seq(SessionRecords) /\ Len(sessions') = n
    <3>1. sessions' \in [1..n -> SessionRecords]
      BY <2>1, <2>2
    <3> QED
      BY <1>1, <3>1
  <2>4. Store'
    BY <1>1, <2>1, <2>2, <2>3 DEF Store, InAge, SessionsBounded, n
  <2>5. Collects(c, files)
    BY <1>1, <1>2, <2>1, <2>2 DEF Collects
  <2> QED
    BY <1>1, <2>1, <2>2, <2>4, <2>5 DEF Remains
<1>3. CASE ~known[c]
  <2> DEFINE new == [id |-> id(c), files |-> files, deletions |-> diff[c].deleted, expired |-> FALSE]
  <2>1. PICK d \in 0..n :
           /\ \A i \in 1..d : sessions[i].expired \/ n - d = MaxSessions
           /\ cleanup \in Seq(SessionRecords)
           /\ Len(cleanup) = n - d /\ Len(cleanup) <= MaxSessions
           /\ \A j \in 1..Len(cleanup) : cleanup[j] = sessions[d + j] /\ ~cleanup[j].expired
    BY CleanupTakesOldest DEF Store, n
  <2>2. new \in SessionRecords /\ sessions' = Append(cleanup, new)
    BY <1>3 DEF SessionRecords, ReceiveChunk, create
  <2> HIDE DEF new
  <2>3. /\ sessions' \in Seq(SessionRecords) /\ Len(sessions') = n - d + 1
        /\ \A j \in 1..n - d : sessions'[j] = cleanup[j]
        /\ sessions'[n - d + 1] = new
    BY <2>1, <2>2, AppendProperties
  <2>4. DOMAIN sessions' = 1..n - d + 1
    BY <2>3, LenProperties
  <2>5. \A j \in 1..n - d : /\ sessions'[j] = sessions[d + j] /\ ~sessions'[j].expired
                            /\ d + j \in DOMAIN sessions
    <3>1. \A j \in 1..n - d : d + j \in 1..n /\ j \in 1..Len(cleanup)
      BY <1>1, <2>1
    <3>2. \A j \in 1..Len(cleanup) : cleanup[j] = sessions[d + j] /\ ~cleanup[j].expired
      BY <2>1
    <3> QED
      BY <1>1, <2>3, <3>1, <3>2
  <2>6. \A j \in DOMAIN sessions' : ~sessions'[j].expired
    BY <1>1, <2>1, <2>3, <2>4, <2>5 DEF new
  <2>7. Store'
    BY <1>1, <2>1, <2>3, <2>6 DEF Store, InAge, SessionsBounded
  <2>8. Collects(c, files)
    <3>1. n - d + 1 \in DOMAIN sessions' /\ \A j \in DOMAIN sessions' : j \in 1..n - d \/ j = n - d + 1
      BY <1>1, <2>1, <2>4
    <3>2. /\ sessions'[n - d + 1].id = id(c) /\ sessions'[n - d + 1].files = files
      BY <2>3 DEF new
    <3> QED
      BY <1>3, <2>5, <3>1, <3>2 DEF Collects
  <2>9. ASSUME NEW i \in DOMAIN sessions
        PROVE  sessions[i].expired \/ Len(sessions') = MaxSessions + 1 \/ Remains(i)
    <3>1. CASE i \in 1..d
      BY <1>1, <2>1, <2>3, <3>1
    <3>2. CASE i \notin 1..d
      <4>1. i - d \in 1..n - d /\ d + (i - d) = i /\ i - d \in DOMAIN sessions'
        BY <1>1, <2>1, <2>4, <3>2
      <4> QED
        BY <2>5, <4>1 DEF Remains
    <3> QED
      BY <3>1, <3>2
  <2> QED
    BY <2>7, <2>8, <2>9 DEF n
<1> QED
  BY <1>2, <1>3

-----------------------------------------------------------------------------
(***************************************************************************)
(* Types and the store.                                                    *)
(***************************************************************************)
\* A client's WAR holds its own files.
OwnWars == \A c \in Clients : local[c] \in [Files -> {Absent, c}]

Typed == TypeOK /\ OwnWars /\ InAge /\ SessionsBounded

LEMMA TypedFacts ==
  ASSUME Typed, NEW c \in Clients
  PROVE  /\ Store /\ id(c) \in Names
         /\ diff[c].changed \in Changes /\ diff[c].deleted \in Changes
         /\ left[c] \in Changes /\ Chunk(c) \in Changes /\ Chunk(c) \subseteq left[c]
         /\ uploads[c] \in Nat /\ pc[c] \in Labels /\ known[c] \in BOOLEAN
<1>1. /\ Store /\ id(c) \in Names /\ diff[c].changed \in Changes /\ diff[c].deleted \in Changes
      /\ left[c] \in Changes /\ uploads[c] \in Nat /\ pc[c] \in Labels /\ known[c] \in BOOLEAN
  BY DEF Typed, TypeOK, Store, id, Names
<1>2. Chunk(c) \subseteq left[c]
  BY DEF Chunk
<1> QED
  BY <1>1, <1>2 DEF Changes

LEMMA TypedInit == Init => Typed
<1> SUFFICES ASSUME Init PROVE Typed
  OBVIOUS
<1> USE DEF Init
<1>1. local \in [Clients -> Wars] /\ OwnWars
  BY DEF OwnWars
<1>2. war \in Wars
  BY DEF Wars
<1>3. sessions \in Seq(SessionRecords) /\ Len(sessions) = 0 /\ DOMAIN sessions = {}
  BY EmptySeq
<1>4. diff \in [Clients -> [changed : Changes, deleted : Changes]]
  BY DEF NoDiff, Changes
<1>5. /\ pc \in [Clients -> Labels] /\ uploads \in [Clients -> Nat] /\ restarts \in Nat
      /\ left \in [Clients -> Changes] /\ known \in [Clients -> BOOLEAN]
      /\ commit \in Commits \cup {None} /\ overtaken \subseteq Clients
  BY DEF Labels, Ended, Changes
<1>6. InAge /\ SessionsBounded
  BY <1>3, ChunkAssumption DEF InAge, SessionsBounded
<1> QED
  BY <1>1, <1>2, <1>3, <1>4, <1>5, <1>6 DEF Typed, TypeOK

\* The store in the next state, and what happens to the sessions of before.
Kept(i) ==
  \/ sessions[i].expired
  \/ Remains(i)
  \/ commit # None /\ commit.session = sessions[i].id
  \/ restarts' # restarts
  \/ Len(sessions') = MaxSessions + 1

LEMMA SameStore ==
  ASSUME Store, UNCHANGED sessions
  PROVE  Store' /\ OfBefore /\ \A i \in DOMAIN sessions : Remains(i)
BY DEF Store, InAge, SessionsBounded, OfBefore, Remains

LEMMA StoreStep ==
  ASSUME Typed, Next
  PROVE  Store' /\ \A i \in DOMAIN sessions : Kept(i)
<1>1. Store
  BY DEF Typed, TypeOK, Store
<1>2. ASSUME UNCHANGED sessions PROVE Store' /\ \A i \in DOMAIN sessions : Kept(i)
  BY <1>1, <1>2, SameStore DEF Kept
<1>3. ASSUME NEW c \in Clients, ReceiveChunk(c, Chunk(c))
      PROVE  Store' /\ \A i \in DOMAIN sessions : Kept(i)
  BY <1>3, TypedFacts, AfterChunk DEF Kept
<1>4. ASSUME NEW c \in Clients, ClientStep(c)
      PROVE  Store' /\ \A i \in DOMAIN sessions : Kept(i)
  <2>1. CASE SessionNotFound(c)
    <3>1. /\ Store' /\ \A i \in DOMAIN sessions : sessions[i].id = id(c) \/ Remains(i)
      BY <1>1, <2>1, AfterRemoval DEF SessionNotFound
    <3> QED
      BY <2>1, <3>1 DEF SessionNotFound, Live, Kept
  <2> QED
    BY <1>2, <1>3, <1>4, <2>1 DEF ClientStep, deployToHost, SendChunk, ChunkLost, CommitRefused,
       Commit, PostDeploy, RequestTimesOut, UploadStart, UploadWar, agentVars
<1>5. CASE applyChanges \/ ApplyFails
  <2>1. commit # None /\ sessions' = Without(commit.session)
    BY <1>5 DEF applyChanges, ApplyFails, Finish
  <2> QED
    BY <1>1, <2>1, AfterRemoval DEF Kept
<1>6. CASE Expire
  <2>1. PICK i \in DOMAIN sessions :
          /\ \A j \in 1..i-1 : sessions[j].expired
          /\ sessions' = [sessions EXCEPT ![i].expired = TRUE]
    BY <1>6 DEF Expire
  <2>2. /\ DOMAIN sessions' = DOMAIN sessions /\ DOMAIN sessions = 1..Len(sessions)
        /\ Len(sessions) \in Nat
        /\ \A j \in DOMAIN sessions : /\ sessions'[j] \in SessionRecords
                                      /\ sessions'[j].id = sessions[j].id
                                      /\ sessions'[j].expired = (j = i \/ sessions[j].expired)
    BY <1>1, <2>1, StoreFacts DEF SessionRecords
  <2>3. sessions' \in Seq(SessionRecords) /\ Len(sessions') = Len(sessions)
    <3> DEFINE e == [sessions[i] EXCEPT !.expired = TRUE]
    <3>1. e \in SessionRecords /\ sessions' = [sessions EXCEPT ![i] = e] /\ i \in 1..Len(sessions)
      BY <1>1, <2>1, <2>2, StoreFacts DEF SessionRecords
    <3> QED
      BY <1>1, <3>1, ExceptSeq DEF Store
  <2>4. InAge'
    BY <1>1, <2>1, <2>2 DEF Store, InAge
  <2> QED
    BY <1>1, <2>2, <2>3, <2>4 DEF Store, SessionsBounded, Kept, Remains
<1>7. CASE Restart
  <2>1. sessions' = <<>> /\ restarts' # restarts
    BY <1>7 DEF Restart, Typed, TypeOK
  <2> QED
    BY <2>1, ChunkAssumption, EmptySeq DEF Store, InAge, SessionsBounded, Kept
<1> QED
  BY <1>4, <1>5, <1>6, <1>7 DEF Next

\* What the clients compute of and do to the WAR.
LEMMA AppliedType == ASSUME Typed, commit # None, war # Torn PROVE Applied \in Wars
<1>1. /\ commit \in Commits /\ war \in Wars
  BY DEF Typed, TypeOK
<1>2. Applied \in [Files -> {Absent, Old} \cup Clients]
  BY <1>1 DEF Applied, Wars, Commits
<1> QED
  BY <1>2 DEF Wars

LEMMA LeftoversType == ASSUME Typed, commit # None PROVE Leftovers \subseteq Wars \cup {Torn}
BY AppliedType DEF Leftovers, Typed, TypeOK

LEMMA CommitType ==
  ASSUME Typed, NEW c \in Clients, Store', NEW s \in Names \cup {None},
         NEW f \in Changes
  PROVE  /\ [client |-> c, session |-> s, files |-> f, deletions |-> diff[c].deleted] \in Commits
         /\ Received(c) \in Changes
<1>1. diff[c].deleted \in Changes
  BY TypedFacts
<1>2. ASSUME NEW j \in DOMAIN sessions' PROVE sessions'[j].files \subseteq Files
  <2>1. DOMAIN sessions' = 1..Len(sessions')
    BY LenProperties DEF Store
  <2>2. sessions'[j] \in SessionRecords
    BY <1>2, <2>1, ElementOfSeq DEF Store
  <2> QED
    BY <2>2 DEF SessionRecords, Changes
<1>3. Received(c) \subseteq Files
  BY <1>2 DEF Received
<1> QED
  BY <1>1, <1>3 DEF Commits, Changes

LEMMA TypedStep == Typed /\ [Next]_vars => Typed'
<1> SUFFICES ASSUME Typed, [Next]_vars PROVE Typed'
  OBVIOUS
<1>1. CASE UNCHANGED vars
  BY <1>1 DEF vars, agentVars, clientVars, Typed, TypeOK, OwnWars, InAge, SessionsBounded
<1>2. CASE Next
  <2>1. Store' /\ Store
    BY <1>2, StoreStep DEF Typed, TypeOK, Store
  <2>2. UNCHANGED local
    BY <1>2 DEF Next, ClientStep, deployToHost, SendChunk, ChunkLost, SessionNotFound,
       CommitRefused, Commit, PostDeploy, RequestTimesOut, UploadStart, UploadWar, applyChanges,
       ApplyFails, Finish, Expire, Restart, clientVars
  <2>3. local \in [Clients -> Wars] /\ OwnWars /\ OwnWars'
    BY <2>2 DEF Typed, TypeOK, OwnWars
  <2> SUFFICES /\ war' \in Wars \cup {Torn} /\ commit' \in Commits \cup {None}
               /\ pc' \in [Clients -> Labels]
               /\ uploads' \in [Clients -> Nat] /\ restarts' \in Nat
               /\ diff' \in [Clients -> [changed : Changes, deleted : Changes]]
               /\ left' \in [Clients -> Changes]
               /\ known' \in [Clients -> BOOLEAN]
               /\ overtaken' \subseteq Clients
    BY <2>1, <2>2, <2>3 DEF Typed, TypeOK, Store
  <2>4. /\ war \in Wars \cup {Torn} /\ commit \in Commits \cup {None}
        /\ pc \in [Clients -> Labels]
        /\ uploads \in [Clients -> Nat] /\ restarts \in Nat
        /\ diff \in [Clients -> [changed : Changes, deleted : Changes]]
        /\ left \in [Clients -> Changes]
        /\ known \in [Clients -> BOOLEAN]
        /\ overtaken \subseteq Clients
    BY DEF Typed, TypeOK
  <2> USE <2>4 DEF Goto, LeaveChunks, agentVars, clientVars
  <2>5. \A l \in Labels, c \in Clients : [pc EXCEPT ![c] = l] \in [Clients -> Labels]
    OBVIOUS
  <2>6. {"ok", "failed", "polls", "single", "chunk", "upload", "writes", "waits"} \subseteq Labels
    BY DEF Labels, Ended
  <2> HIDE DEF Labels
  <2>7. \A c \in Clients : [left EXCEPT ![c] = {}] \in [Clients -> Changes]
    BY DEF Changes
  <2>8. ASSUME NEW c \in Clients, deployToHost(c)
        PROVE  /\ uploads' \in [Clients -> Nat] /\ pc' \in [Clients -> Labels]
               /\ diff' \in [Clients -> [changed : Changes, deleted : Changes]]
               /\ left' \in [Clients -> Changes] /\ known' \in [Clients -> BOOLEAN]
               /\ overtaken' \subseteq Clients
    <3>1. /\ calculateDiff(c) \in [changed : Changes, deleted : Changes]
          /\ calculateDiff(c).changed \in Changes
      BY DEF calculateDiff, Hashes, Changes
    <3>2. Plan(c, calculateDiff(c)) \subseteq Labels
      BY <2>6 DEF Plan
    <3> QED
      BY <2>8, <3>1, <3>2 DEF deployToHost
  <2>9. CASE \E c \in Clients : deployToHost(c) \/ UploadStart(c) \/ UploadWar(c) \/ RequestTimesOut(c)
    BY <2>3, <2>5, <2>6, <2>8, <2>9 DEF deployToHost, UploadStart, UploadWar, RequestTimesOut,
                                  Overtakes
  <2>10. CASE \E c \in Clients : SendChunk(c)
    BY <2>10, TypedFacts DEF SendChunk, Changes
  <2>11. CASE \E c \in Clients : ChunkLost(c) \/ SessionNotFound(c) \/ CommitRefused(c)
    <3>1. PICK c \in Clients : ChunkLost(c) \/ SessionNotFound(c) \/ CommitRefused(c)
      BY <2>11
    <3>2. /\ \E l \in Labels : pc' = [pc EXCEPT ![c] = l]
          /\ left' = [left EXCEPT ![c] = {}] /\ known' = [known EXCEPT ![c] = FALSE]
          /\ UNCHANGED <<war, commit, restarts, uploads, diff, overtaken>>
      BY <2>6, <3>1 DEF ChunkLost, SessionNotFound, CommitRefused
    <3> QED
      BY <2>5, <2>7, <3>2
  <2>12. CASE \E c \in Clients : Commit(c)
    <3>1. PICK c \in Clients : Commit(c)
      BY <2>12
    <3>2. commit' \in Commits
      BY <2>1, <3>1, CommitType, TypedFacts DEF Commit
    <3> QED
      BY <2>5, <2>6, <2>7, <3>1, <3>2 DEF Commit
  <2>13. CASE \E c \in Clients : PostDeploy(c)
    <3>1. PICK c \in Clients : PostDeploy(c)
      BY <2>13
    <3>2. commit' \in Commits \cup {None}
      <4>1. diff[c].changed \in Changes
        BY TypedFacts
      <4>2. [client |-> c, session |-> None, files |-> diff[c].changed,
             deletions |-> diff[c].deleted] \in Commits
        BY <2>1, <4>1, CommitType
      <4> QED
        BY <3>1, <4>2 DEF PostDeploy
    <3> QED
      BY <2>5, <2>6, <3>1, <3>2 DEF PostDeploy
  <2>14. CASE applyChanges \/ ApplyFails
    <3>1. commit' = None /\ war' \in Wars \cup {Torn} /\ overtaken' \subseteq Clients
      BY <2>14, AppliedType, LeftoversType DEF applyChanges, ApplyFails, Finish, Overtakes
    <3>2. pc' \in [Clients -> Labels]
      BY <2>5, <2>6, <2>14 DEF applyChanges, ApplyFails, Answer
    <3> QED
      BY <2>14, <3>1, <3>2 DEF applyChanges, ApplyFails, Finish
  <2>15. CASE Expire
    BY <2>15 DEF Expire
  <2>16. CASE Restart
    BY <2>6, <2>16, LeftoversType DEF Restart
  <2> QED
    BY <1>2, <2>9, <2>10, <2>11, <2>12, <2>13, <2>14, <2>15, <2>16 DEF Next, ClientStep
<1> QED
  BY <1>1, <1>2

LEMMA TypedAlways == Spec => []Typed
BY TypedInit, TypedStep, PTL DEF Spec

\* The variables of the agent and of its clients have their types.
THEOREM TypeCorrect == Spec => []TypeOK
<1>1. Typed => TypeOK
  BY DEF Typed
<1> QED
  BY <1>1, TypedAlways, PTL

\* The store never holds more than one session over its limit.
THEOREM StoreBounded == Spec => []SessionsBounded
<1>1. Typed => SessionsBounded
  BY DEF Typed
<1> QED
  BY <1>1, TypedAlways, PTL

\* A session goes with its age, its commit or the agent; otherwise one is evicted only
\* where the sessions exceed the limit, and no more than that takes.
THEOREM SessionsKept == Spec => SessionsAreKept
<1>1. Typed /\ [Next]_vars => [\A i \in DOMAIN sessions : Kept(i)]_vars
  BY StoreStep
<1>2. (\A i \in DOMAIN sessions : Kept(i)) =>
        \A i \in DOMAIN sessions :
          Goes(i) /\ ~sessions[i].expired =>
            \/ commit # None /\ commit.session = sessions[i].id
            \/ restarts' # restarts
            \/ Len(sessions') = MaxSessions + 1
  BY DEF Kept, Remains, Goes
<1> QED
  BY <1>1, <1>2, TypedAlways, PTL DEF Spec, SessionsAreKept


-----------------------------------------------------------------------------
(***************************************************************************)
(* What is collected, and what is applied.                                 *)
(***************************************************************************)
\* No session, and no commit, is named by an upload that has not begun.
Numbered ==
  /\ \A i \in DOMAIN sessions, c \in Clients, n \in Nat :
       sessions[i].id = <<c, n>> => n <= uploads[c]
  /\ commit # None => \A n \in Nat :
       commit.session = <<commit.client, n>> => n <= uploads[commit.client]

\* While c sends chunks its session holds what it has sent of its changes.
Collected(c) ==
  pc[c] = "chunk" =>
    /\ left[c] \subseteq diff[c].changed
    /\ ~known[c] => left[c] = diff[c].changed
    /\ \A i \in DOMAIN sessions : sessions[i].id = id(c) =>
         known[c] /\ sessions[i].files = diff[c].changed \ left[c]

\* Changes of c bring files of its own WAR, and take files away that it has not.
OfOwnWar(c, changed, deleted) ==
  (\A f \in changed : local[c][f] = c) /\ (\A f \in deleted : local[c][f] = Absent)

OwnDiffs == \A c \in Clients : OfOwnWar(c, diff[c].changed, diff[c].deleted)

Whole ==
  commit # None =>
    LET c == commit.client IN
    /\ OfOwnWar(c, commit.files, commit.deletions)
    /\ commit.session = id(c) => commit.files = diff[c].changed
    /\ pc[c] = "waits" => commit.files = diff[c].changed /\ commit.deletions = diff[c].deleted

Sending == Numbered /\ (\A c \in Clients : Collected(c)) /\ OwnDiffs /\ Whole

\* A step leaves what c sends, but for its own.
Untouched(c) ==
  /\ UNCHANGED <<uploads[c], diff[c], left[c], known[c], pc[c]>>
  /\ \A j \in DOMAIN sessions' : sessions'[j].id = id(c) =>
       \E i \in DOMAIN sessions :
         sessions[i].id = id(c) /\ sessions'[j].files = sessions[i].files

LEMMA UntouchedCollected ==
  ASSUME NEW c \in Clients, Collected(c), Untouched(c)
  PROVE  Collected(c)'
BY DEF Collected, Untouched, id

LEMMA OthersUntouched ==
  ASSUME Typed, NEW c \in Clients, NEW d \in Clients, c # d, ClientStep(c)
  PROVE  Untouched(d)
<1>1. UNCHANGED <<uploads[d], diff[d], left[d], known[d], pc[d]>>
  BY DEF ClientStep, deployToHost, SendChunk, ChunkLost, SessionNotFound, CommitRefused, Commit,
         PostDeploy, RequestTimesOut, UploadStart, UploadWar, Goto, LeaveChunks, agentVars, Typed,
         TypeOK
<1>2. id(c) # id(d)
  BY DEF id
<1>3. CASE UNCHANGED sessions
  BY <1>1, <1>3 DEF Untouched
<1>4. CASE ReceiveChunk(c, Chunk(c))
  <2>1. Collects(c, Chunk(c))
    BY <1>4, TypedFacts, AfterChunk
  <2> QED
    BY <1>1, <1>2, <2>1 DEF Collects, Untouched
<1>5. CASE SessionNotFound(c)
  <2>1. OfBefore
    BY <1>5, TypedFacts, AfterRemoval DEF SessionNotFound
  <2> QED
    BY <1>1, <2>1 DEF OfBefore, Untouched
<1> QED
  BY <1>3, <1>4, <1>5 DEF ClientStep, deployToHost, SendChunk, ChunkLost, CommitRefused, Commit,
     PostDeploy, RequestTimesOut, UploadStart, UploadWar, agentVars

\* Steps of the agent alone.
LEMMA AgentStep ==
  ASSUME Typed, applyChanges \/ ApplyFails \/ Expire \/ Restart, NEW d \in Clients
  PROVE  /\ UNCHANGED <<local, uploads, diff, left, known>> /\ commit' \in {commit, None}
         /\ pc'[d] # pc[d] => pc[d] \in {"waits", "writes"} /\ pc'[d] \in {"ok", "failed"}
         /\ \A j \in DOMAIN sessions' : \E i \in DOMAIN sessions :
              sessions'[j].id = sessions[i].id /\ sessions'[j].files = sessions[i].files
<1>1. CASE applyChanges \/ ApplyFails
  <2>1. sessions' = Without(commit.session)
    BY <1>1 DEF applyChanges, ApplyFails, Finish
  <2>2. OfBefore
    BY <2>1, TypedFacts, AfterRemoval
  <2> QED
    BY <1>1, <2>2 DEF applyChanges, ApplyFails, Finish, Answer, OfBefore, Typed, TypeOK
<1>2. CASE Expire
  <2>1. /\ UNCHANGED <<commit, local, uploads, diff, left, known, pc>>
        /\ \E i \in DOMAIN sessions : sessions' = [sessions EXCEPT ![i].expired = TRUE]
    BY <1>2 DEF Expire, clientVars
  <2>2. \A i \in DOMAIN sessions : sessions[i] \in SessionRecords
    BY TypedFacts, StoreFacts
  <2> QED
    BY <2>1, <2>2 DEF SessionRecords
<1>3. CASE Restart
  <2>1. DOMAIN sessions' = {}
    BY <1>3, EmptySeq DEF Restart
  <2> QED
    BY <1>3, <2>1 DEF Restart, Typed, TypeOK
<1> QED
  BY <1>1, <1>2, <1>3

LEMMA CollectedStep ==
  ASSUME Typed, Numbered, NEW d \in Clients, Collected(d), Next
  PROVE  Collected(d)'
<1> SUFFICES ASSUME pc'[d] = "chunk" PROVE Collected(d)'
  BY DEF Collected
<1>0. /\ pc \in [Clients -> Labels] /\ uploads \in [Clients -> Nat]
      /\ diff \in [Clients -> [changed : Changes, deleted : Changes]]
      /\ left \in [Clients -> Changes] /\ known \in [Clients -> BOOLEAN]
  BY DEF Typed, TypeOK
<1>1. ASSUME NEW c \in Clients, c # d, ClientStep(c) PROVE Collected(d)'
  BY <1>1, OthersUntouched, UntouchedCollected
<1>2. CASE deployToHost(d)
  <2>1. /\ uploads'[d] = uploads[d] + 1 /\ sessions' = sessions /\ known'[d] = FALSE
        /\ left'[d] = diff'[d].changed
    BY <1>0, <1>2 DEF deployToHost, agentVars
  <2>2. ASSUME NEW i \in DOMAIN sessions PROVE sessions[i].id # <<d, uploads[d] + 1>>
    BY <1>0, <2>2 DEF Numbered
  <2> QED
    BY <2>1, <2>2 DEF Collected, id
<1>3. CASE SendChunk(d)
  <2>1. /\ left'[d] = left[d] \ Chunk(d) /\ known'[d] /\ diff' = diff /\ uploads' = uploads
        /\ pc[d] = "chunk" /\ ReceiveChunk(d, Chunk(d))
    BY <1>0, <1>3 DEF SendChunk
  <2>2. Collects(d, Chunk(d))
    BY <2>1, TypedFacts, AfterChunk
  <2>3. Chunk(d) \subseteq left[d] /\ known[d] \in BOOLEAN
    BY TypedFacts
  <2>4. ASSUME NEW j \in DOMAIN sessions', sessions'[j].id = id(d)
        PROVE  sessions'[j].files = diff[d].changed \ (left[d] \ Chunk(d))
    <3>1. CASE known[d]
      BY <2>1, <2>2, <2>3, <2>4, <3>1 DEF Collects, Collected
    <3>2. CASE ~known[d]
      <4>1. \A i \in DOMAIN sessions : sessions[i].id # id(d)
        BY <2>1, <3>2 DEF Collected
      <4>2. sessions'[j].files = Chunk(d)
        BY <2>2, <2>4, <3>2, <4>1 DEF Collects
      <4> QED
        BY <2>1, <2>3, <3>2, <4>2 DEF Collected
    <3> QED
      BY <2>3, <3>1, <3>2
  <2> QED
    BY <2>1, <2>3, <2>4 DEF Collected, id
<1>4. CASE ClientStep(d) /\ ~deployToHost(d) /\ ~SendChunk(d)
  BY <1>0, <1>4 DEF ClientStep, ChunkLost, SessionNotFound, CommitRefused, Commit, PostDeploy,
     RequestTimesOut, UploadStart, UploadWar, Goto, LeaveChunks
<1>5. CASE applyChanges \/ ApplyFails \/ Expire \/ Restart
  <2>1. /\ UNCHANGED <<uploads, diff, left, known>> /\ pc'[d] = pc[d]
        /\ \A j \in DOMAIN sessions' : \E i \in DOMAIN sessions :
              sessions'[j].id = sessions[i].id /\ sessions'[j].files = sessions[i].files
    BY <1>5, AgentStep
  <2> QED
    BY <2>1 DEF Collected, id
<1> QED
  BY <1>1, <1>2, <1>3, <1>4, <1>5 DEF Next

\* A chunk leaves the other sessions their names.
LEMMA NamesStep ==
  ASSUME Typed, NEW c \in Clients, ClientStep(c)
  PROVE  \A j \in DOMAIN sessions' :
           \/ sessions'[j].id = id(c)
           \/ \E i \in DOMAIN sessions : sessions'[j].id = sessions[i].id
<1>1. CASE UNCHANGED sessions
  BY <1>1
<1>2. CASE ReceiveChunk(c, Chunk(c))
  <2>1. Collects(c, Chunk(c))
    BY <1>2, TypedFacts, AfterChunk
  <2> QED
    BY <2>1 DEF Collects
<1>3. CASE SessionNotFound(c)
  <2>1. OfBefore
    BY <1>3, TypedFacts, AfterRemoval DEF SessionNotFound
  <2> QED
    BY <2>1 DEF OfBefore
<1> QED
  BY <1>1, <1>2, <1>3 DEF ClientStep, deployToHost, SendChunk, ChunkLost, CommitRefused, Commit,
     PostDeploy, RequestTimesOut, UploadStart, UploadWar, agentVars

\* What a client's step leaves of the commit, and what it sets.
LEMMA CommitStep ==
  ASSUME Typed, Sending, NEW c \in Clients, ClientStep(c), commit' # commit
  PROVE  /\ commit'.client = c /\ commit'.session \in {id(c), None}
         /\ commit'.files = diff[c].changed /\ commit'.deletions = diff[c].deleted
         /\ UNCHANGED <<uploads, diff, local>>
<1>1. Commit(c) \/ PostDeploy(c)
  BY DEF ClientStep, deployToHost, SendChunk, ChunkLost, SessionNotFound, CommitRefused,
     RequestTimesOut, UploadStart, UploadWar, agentVars
<1>2. CASE PostDeploy(c)
  BY <1>2 DEF PostDeploy
<1>3. CASE Commit(c)
  <2>1. /\ pc[c] = "chunk" /\ Chunk(c) = left[c] /\ ReceiveChunk(c, Chunk(c))
        /\ UNCHANGED <<uploads, diff, local>>
    BY <1>3 DEF Commit, LastChunk
  <2>2. Collects(c, left[c])
    BY <2>1, TypedFacts, AfterChunk
  <2>3. left[c] \subseteq diff[c].changed /\ known[c] \in BOOLEAN
    BY <2>1, TypedFacts DEF Sending, Collected
  <2>4. ASSUME NEW j \in DOMAIN sessions', sessions'[j].id = id(c)
        PROVE  sessions'[j].files = diff[c].changed
    <3>1. CASE known[c]
      <4>1. PICK i \in DOMAIN sessions :
              sessions[i].id = id(c) /\ sessions'[j].files = sessions[i].files \cup left[c]
        BY <2>2, <2>4, <3>1 DEF Collects
      <4>2. sessions[i].files = diff[c].changed \ left[c]
        BY <2>1, <4>1 DEF Sending, Collected
      <4> QED
        BY <2>3, <4>1, <4>2
    <3>2. CASE ~known[c]
      BY <2>1, <2>2, <2>3, <2>4, <3>2 DEF Collects, Sending, Collected
    <3> QED
      BY <2>3, <3>1, <3>2
  <2>5. \E j \in DOMAIN sessions' : sessions'[j].id = id(c)
    BY <2>2 DEF Collects
  <2>6. Received(c) = diff[c].changed
    BY <2>4, <2>5 DEF Received
  <2> QED
    BY <1>3, <2>1, <2>6 DEF Commit
<1> QED
  BY <1>1, <1>2, <1>3

LEMMA NumberedStep == ASSUME Typed, Sending, Next PROVE Numbered'
<1>1. uploads \in [Clients -> Nat] /\ uploads' \in [Clients -> Nat]
  BY TypedStep DEF Typed, TypeOK
<1>2. ASSUME NEW c \in Clients, ClientStep(c) PROVE Numbered'
  <2>1. \A d \in Clients : uploads[d] <= uploads'[d]
    BY <1>1, <1>2 DEF ClientStep, deployToHost, SendChunk, ChunkLost, SessionNotFound,
       CommitRefused, Commit, PostDeploy, RequestTimesOut, UploadStart, UploadWar
  <2>2. ASSUME NEW i \in DOMAIN sessions', NEW d \in Clients, NEW n \in Nat,
               sessions'[i].id = <<d, n>>
        PROVE  n <= uploads'[d]
    <3>1. CASE sessions'[i].id = id(c)
      BY <1>1, <2>1, <2>2, <3>1 DEF id
    <3>2. CASE \E j \in DOMAIN sessions : sessions'[i].id = sessions[j].id
      <4>1. n <= uploads[d]
        BY <2>2, <3>2 DEF Sending, Numbered
      <4> QED
        BY <1>1, <2>1, <4>1
    <3> QED
      BY <1>2, <3>1, <3>2, NamesStep
  <2>3. ASSUME commit' # None, NEW n \in Nat, commit'.session = <<commit'.client, n>>
        PROVE  n <= uploads'[commit'.client]
    <3>1. CASE commit' = commit
      <4>1. commit.client \in Clients /\ n <= uploads[commit.client]
        BY <2>3, <3>1 DEF Sending, Numbered, Typed, TypeOK, Commits
      <4> QED
        BY <1>1, <2>1, <3>1, <4>1
    <3>2. CASE commit' # commit
      <4>1. commit'.client = c /\ commit'.session \in {id(c), None}
        BY <1>2, <3>2, CommitStep
      <4>2. commit'.session = id(c)
        BY <2>3, <4>1, NoneAssumption
      <4> QED
        BY <1>1, <2>1, <2>3, <4>1, <4>2 DEF id
    <3> QED
      BY <3>1, <3>2
  <2> QED
    BY <2>2, <2>3 DEF Numbered
<1>3. CASE applyChanges \/ ApplyFails \/ Expire \/ Restart
  <2>1. \A d \in Clients :
        /\ uploads' = uploads /\ commit' \in {commit, None}
        /\ \A j \in DOMAIN sessions' : \E i \in DOMAIN sessions : sessions'[j].id = sessions[i].id
    BY <1>3, AgentStep
  <2>2. ASSUME NEW d \in Clients PROVE Numbered'
    BY <2>1 DEF Sending, Numbered
  <2>3. CASE Clients = {}
    <3>1. commit' # None => commit'.client \in Clients
      BY <1>3, TypedStep DEF Typed, TypeOK, Commits
    <3> QED
      BY <2>3, <3>1 DEF Numbered
  <2> QED
    BY <2>2, <2>3
<1> QED
  BY <1>2, <1>3 DEF Next

LEMMA WholeStep == ASSUME Typed, Sending, Next PROVE OwnDiffs' /\ Whole'
<1>1. /\ uploads \in [Clients -> Nat] /\ pc \in [Clients -> Labels]
      /\ diff \in [Clients -> [changed : Changes, deleted : Changes]]
      /\ commit # None => commit.client \in Clients
      /\ OwnWars
  BY DEF Typed, TypeOK, Commits
<1>2. ASSUME NEW c \in Clients, ClientStep(c) PROVE OwnDiffs' /\ Whole'
  <2>0. local' = local
    BY <1>2 DEF ClientStep, deployToHost, SendChunk, ChunkLost, SessionNotFound, CommitRefused,
       Commit, PostDeploy, RequestTimesOut, UploadStart, UploadWar
  <2>1. CASE deployToHost(c)
    <3>1. /\ diff' = [diff EXCEPT ![c] = calculateDiff(c)] /\ commit' = commit
          /\ pc'[c] # "waits" /\ \A d \in Clients : d # c => pc'[d] = pc[d] /\ uploads'[d] = uploads[d]
          /\ uploads'[c] = uploads[c] + 1
      BY <1>1, <2>1 DEF deployToHost, Plan, Goto, agentVars
    <3>2. OfOwnWar(c, calculateDiff(c).changed, calculateDiff(c).deleted)
      BY <1>1 DEF OfOwnWar, calculateDiff, OwnWars
    <3>3. OwnDiffs'
      BY <1>1, <2>0, <3>1, <3>2 DEF Sending, OwnDiffs, OfOwnWar
    <3>4. commit # None /\ commit.client = c => commit.session # <<c, uploads[c] + 1>>
      BY <1>1 DEF Sending, Numbered
    <3>5. Whole'
      BY <1>1, <2>0, <3>1, <3>4 DEF Sending, Whole, OfOwnWar, id
    <3> QED
      BY <3>3, <3>5
  <2>2. CASE ~deployToHost(c)
    <3>1. diff' = diff /\ uploads' = uploads
      BY <1>2, <2>2 DEF ClientStep, SendChunk, ChunkLost, SessionNotFound, CommitRefused,
         Commit, PostDeploy, RequestTimesOut, UploadStart, UploadWar
    <3>2. OwnDiffs'
      BY <2>0, <3>1 DEF Sending, OwnDiffs, OfOwnWar
    <3>3. CASE commit' # commit
      <4>1. /\ commit'.client = c /\ commit'.session \in {id(c), None}
            /\ commit'.files = diff[c].changed /\ commit'.deletions = diff[c].deleted
        BY <1>2, <3>3, CommitStep
      <4>2. OfOwnWar(c, diff[c].changed, diff[c].deleted)
        BY DEF Sending, OwnDiffs
      <4> QED
        BY <2>0, <3>1, <3>2, <4>1, <4>2 DEF Whole, OfOwnWar
    <3>4. CASE commit' = commit
      <4>1. ASSUME NEW d \in Clients, pc'[d] = "waits"
            PROVE  pc[d] = "waits" \/ (d = c /\ commit' # commit) \/ commit = None
        BY <1>1, <1>2, <2>2, <4>1 DEF ClientStep, SendChunk, ChunkLost, SessionNotFound,
           CommitRefused, Commit, PostDeploy, RequestTimesOut, UploadStart, UploadWar, Goto,
           LeaveChunks
      <4> QED
        BY <1>1, <2>0, <3>1, <3>2, <3>4, <4>1 DEF Sending, Whole, OfOwnWar, id
    <3> QED
      BY <3>3, <3>4
  <2> QED
    BY <2>1, <2>2
<1>3. CASE applyChanges \/ ApplyFails \/ Expire \/ Restart
  <2>1. ASSUME NEW d \in Clients
        PROVE  /\ UNCHANGED <<local, uploads, diff>> /\ commit' \in {commit, None}
               /\ pc'[d] = "waits" => pc[d] = "waits"
    BY <1>3, <2>1, AgentStep
  <2>2. OwnDiffs'
    BY <2>1 DEF Sending, OwnDiffs, OfOwnWar
  <2>3. CASE commit' = None
    BY <2>2, <2>3 DEF Whole
  <2>4. CASE commit' # None
    <3>1. commit' = commit /\ commit.client \in Clients
      <4>1. commit' \in {commit, None}
        BY <1>3 DEF applyChanges, ApplyFails, Finish, Expire, Restart
      <4> QED
        BY <1>1, <2>4, <4>1
    <3> QED
      BY <2>1, <2>2, <3>1 DEF Sending, Whole, OfOwnWar, id
  <2> QED
    BY <2>3, <2>4
<1> QED
  BY <1>2, <1>3 DEF Next

LEMMA SendingInit == Init => Sending
<1> SUFFICES ASSUME Init PROVE Sending
  OBVIOUS
<1>1. DOMAIN sessions = {}
  BY EmptySeq DEF Init
<1> QED
  BY <1>1 DEF Init, NoDiff, Sending, Numbered, Collected, OwnDiffs, OfOwnWar, Whole

LEMMA SendingStep == Typed /\ Sending /\ [Next]_vars => Sending'
<1> SUFFICES ASSUME Typed, Sending, [Next]_vars PROVE Sending'
  OBVIOUS
<1>1. CASE UNCHANGED vars
  BY <1>1 DEF vars, agentVars, clientVars, Sending, Numbered, Collected, OwnDiffs, OfOwnWar, Whole,
              id
<1>2. CASE Next
  <2>1. \A c \in Clients : Collected(c)'
    BY <1>2, CollectedStep DEF Sending
  <2> QED
    BY <1>2, <2>1, NumberedStep, WholeStep DEF Sending
<1> QED
  BY <1>1, <1>2

LEMMA SendingAlways == Spec => []Sending
BY SendingInit, SendingStep, TypedAlways, PTL DEF Spec

\* Whatever expires, is evicted, lost or refused on the way: what a commit applies is
\* every change that its client computed, and not one of them less.
THEOREM CommitWhole == Spec => []CommitIsWhole
<1>1. Sending => CommitIsWhole
  BY DEF Sending, Whole, CommitIsWhole
<1> QED
  BY <1>1, SendingAlways, PTL

-----------------------------------------------------------------------------
(***************************************************************************)
(* What success means.                                                     *)
(***************************************************************************)
\* Where nobody has written behind its reading of the hashes, what a client has still
\* to change is among the differences it computed, also when an earlier commit of its
\* own, which it gave up on, is applied meanwhile.
Agrees(c) ==
  c \notin overtaken /\ pc[c] # "idle" =>
    /\ war # Torn => \A f \in Files : war[f] # local[c][f] =>
                                    f \in diff[c].changed \cup diff[c].deleted
    /\ pc[c] = "ok" => war = local[c]

LEMMA SameWar ==
  ASSUME Typed, NEW w \in Wars, NEW c \in Clients, \A f \in Files : w[f] = local[c][f]
  PROVE  w = local[c]
BY DEF Typed, TypeOK, Wars

LEMMA AgreesStep ==
  ASSUME Typed, Sending, NEW d \in Clients, Agrees(d), Next
  PROVE  Agrees(d)'
<1>0. /\ pc \in [Clients -> Labels] /\ war \in Wars \cup {Torn} /\ overtaken \subseteq Clients
      /\ local[d] \in [Files -> {Absent, d}] /\ local[d] \in Wars /\ local[d] # Torn
      /\ diff \in [Clients -> [changed : Changes, deleted : Changes]]
      /\ commit # None => commit.client \in Clients
  BY TornAssumption DEF Typed, TypeOK, OwnWars, Commits, Wars
\* The step neither writes the WAR nor begins or ends an upload of d.
<1>1. ASSUME UNCHANGED <<war, local, diff[d]>>, d \notin overtaken' => d \notin overtaken,
             pc'[d] # "idle" => pc[d] # "idle", pc'[d] = "ok" => pc[d] = "ok"
      PROVE  Agrees(d)'
  BY <1>1 DEF Agrees
\* Another one writes it.
<1>2. ASSUME UNCHANGED <<local, diff[d], pc[d]>>, war' # war => d \in overtaken',
             overtaken \subseteq overtaken' \/ d \in overtaken'
      PROVE  Agrees(d)'
  BY <1>2 DEF Agrees
<1>3. ASSUME NEW c \in Clients, c # d, ClientStep(c) PROVE Agrees(d)'
  <2>1. UNCHANGED <<local, diff[d], pc[d]>>
    BY <1>3, OthersUntouched DEF Untouched, ClientStep, deployToHost, SendChunk, ChunkLost,
       SessionNotFound, CommitRefused, Commit, PostDeploy, RequestTimesOut, UploadStart, UploadWar
  <2>2. CASE UploadWar(c)
    BY <1>2, <1>3, <2>1, <2>2 DEF UploadWar, Overtakes
  <2>3. CASE ~UploadWar(c)
    <3>1. war' = war /\ (d \notin overtaken' => d \notin overtaken)
      BY <1>3, <2>3 DEF ClientStep, deployToHost, SendChunk, ChunkLost, SessionNotFound,
         CommitRefused, Commit, PostDeploy, RequestTimesOut, UploadStart, agentVars
    <3> QED
      BY <1>1, <2>1, <3>1
  <2> QED
    BY <2>2, <2>3
<1>4. CASE deployToHost(d)
  <2>1. /\ diff'[d] = calculateDiff(d) /\ war' = war /\ local' = local
        /\ pc'[d] \in Plan(d, calculateDiff(d))
    BY <1>0, <1>4 DEF deployToHost, Goto, agentVars
  <2>2. war # Torn => \A f \in Files : war[f] # local[d][f] =>
          f \in calculateDiff(d).changed \cup calculateDiff(d).deleted
    BY <1>0 DEF calculateDiff, Hashes
  <2>3. pc'[d] = "ok" => calculateDiff(d) = NoDiff /\ war # Torn
    BY <2>1 DEF Plan, Hashes
  <2>4. pc'[d] = "ok" => war = local[d]
    BY <1>0, <2>2, <2>3, SameWar DEF NoDiff
  <2> QED
    BY <2>1, <2>2, <2>4 DEF Agrees
<1>5. CASE UploadWar(d)
  <2>1. local' = local /\ diff' = diff /\ pc[d] = "writes"
    BY <1>5 DEF UploadWar
  <2>2. CASE war' = local[d]
    BY <2>1, <2>2 DEF Agrees
  <2>3. CASE war' = Torn /\ war # Torn
    BY <1>5, <2>3 DEF UploadWar, Overtakes, Agrees
  <2>4. CASE war' = war /\ pc'[d] = "failed"
    BY <1>1, <1>5, <2>1, <2>4 DEF UploadWar, Overtakes
  <2> QED
    BY <1>0, <1>5, <2>2, <2>3, <2>4 DEF UploadWar, Goto
<1>6. CASE ClientStep(d) /\ ~deployToHost(d) /\ ~UploadWar(d)
  <2>1. /\ UNCHANGED <<war, local, diff, overtaken>> /\ pc[d] # "idle" /\ pc'[d] # "ok"
    BY <1>0, <1>6 DEF ClientStep, SendChunk, ChunkLost, SessionNotFound, CommitRefused, Commit,
       PostDeploy, RequestTimesOut, UploadStart, agentVars, Goto, LeaveChunks
  <2> QED
    BY <1>1, <2>1
<1>7. CASE applyChanges \/ ApplyFails
  <2>1. /\ commit # None /\ UNCHANGED <<local, diff>>
        /\ war' \in {war, Torn} \/ (war # Torn /\ war' = Applied)
        /\ overtaken' = overtaken \cup
             {c \in Clients : war' # war /\ (c # commit.client \/ war' = Torn)}
        /\ pc'[d] # pc[d] => commit.client = d /\ pc[d] = "waits"
        /\ ApplyFails => pc'[d] = pc[d] \/ pc'[d] = "failed"
        /\ applyChanges => war # Torn /\ war' = Applied
    BY <1>0, <1>7 DEF applyChanges, ApplyFails, Finish, Overtakes, Answer, Leftovers
  <2>2. CASE commit.client # d
    BY <1>2, <2>1, <2>2
  <2>3. CASE war' = Torn /\ war # Torn
    BY <2>1, <2>3 DEF Agrees
  <2>4. CASE war = Torn
    <3>1. war' = Torn /\ overtaken' = overtaken
      BY <2>1, <2>4
    <3>2. d \notin overtaken /\ pc[d] # "idle" => pc[d] # "ok"
      BY <1>0, <2>4 DEF Agrees
    <3>3. pc'[d] = "ok" \/ pc'[d] = "idle" => pc'[d] = pc[d]
      BY <1>0, <1>7, <2>1, <2>4
    <3> QED
      BY <3>1, <3>2, <3>3 DEF Agrees
  <2>5. CASE commit.client = d /\ war # Torn /\ war' # Torn
    <3>1. OfOwnWar(d, commit.files, commit.deletions)
      BY <2>1, <2>5 DEF Sending, Whole
    <3>2. \A f \in Files : Applied[f] = local[d][f] \/ Applied[f] = war[f]
      BY <2>5, <3>1 DEF Applied, OfOwnWar
    <3>3. \A f \in Files : war'[f] = local[d][f] \/ war'[f] = war[f]
      BY <2>1, <2>5, <3>2
    <3>4. ASSUME d \notin overtaken, pc[d] = "waits" PROVE \A f \in Files : Applied[f] = local[d][f]
      <4>1. commit.files = diff[d].changed /\ commit.deletions = diff[d].deleted
        BY <2>1, <2>5, <3>4 DEF Sending, Whole
      <4> QED
        BY <2>5, <3>1, <3>4, <4>1 DEF Agrees, Applied, OfOwnWar
    <3>5. war' \in Wars
      BY <1>0, <2>1, <2>5, AppliedType
    <3>6. ASSUME d \notin overtaken, pc'[d] = "ok", pc[d] # "idle" PROVE war' = local[d]
      <4>1. CASE pc[d] = "ok"
        <5>1. war = local[d]
          BY <3>6, <4>1 DEF Agrees
        <5> QED
          BY <3>3, <3>5, <5>1, SameWar
      <4>2. CASE pc[d] # "ok"
        <5>1. pc[d] = "waits" /\ war' = Applied
          BY <1>7, <2>1, <3>6, <4>2
        <5> QED
          BY <3>4, <3>5, <3>6, <5>1, SameWar
      <4> QED
        BY <4>1, <4>2
    <3>7. d \notin overtaken' => d \notin overtaken
      BY <2>1
    <3>8. pc'[d] # "idle" => pc[d] # "idle"
      BY <2>1
    <3> QED
      BY <2>1, <3>3, <3>6, <3>7, <3>8 DEF Agrees
  <2> QED
    BY <2>2, <2>3, <2>4, <2>5
<1>8. CASE Expire
  BY <1>1, <1>8 DEF Expire, clientVars
<1>9. CASE Restart
  <2>1. /\ UNCHANGED <<local, diff>> /\ overtaken' = overtaken \cup {c \in Clients : war' # war}
        /\ pc'[d] = pc[d] \/ (pc'[d] = "failed" /\ pc[d] # "idle")
    BY <1>0, <1>9 DEF Restart
  <2>2. CASE war' # war
    BY <2>1, <2>2 DEF Agrees
  <2>3. CASE war' = war
    BY <1>1, <2>1, <2>3
  <2> QED
    BY <2>2, <2>3
<1> QED
  BY <1>3, <1>4, <1>5, <1>6, <1>7, <1>8, <1>9 DEF Next, ClientStep

\* A client that is told of success and that nobody overtook finds its own WAR on the
\* agent, whatever became of sessions, requests and answers in between.
THEOREM SuccessWar == Spec => []SuccessIsWar
<1> DEFINE Agreed == \A c \in Clients : Agrees(c)
<1>1. Init => Agreed
  BY DEF Init, Agrees
<1>2. Typed /\ Sending /\ Agreed /\ [Next]_vars => Agreed'
  <2>1. CASE Next
    BY <2>1, AgreesStep
  <2>2. CASE UNCHANGED vars
    BY <2>2 DEF vars, agentVars, clientVars, Agrees
  <2> QED
    BY <2>1, <2>2
<1>3. Agreed => SuccessIsWar
  BY DEF Agrees, SuccessIsWar
<1> QED
  BY <1>1, <1>2, <1>3, TypedAlways, SendingAlways, PTL DEF Spec

=============================================================================
