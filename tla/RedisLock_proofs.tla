--------------------------- MODULE RedisLock_proofs ---------------------------
(***************************************************************************)
(* Mutual exclusion of the Redis lock, for any number of clients and       *)
(* resources.  TimelyHolds is inductive with the types; MutualExclusion    *)
(* follows, since a key holds one token.                                   *)
(***************************************************************************)
EXTENDS RedisLock, TLAPS

LockInv == LockTypeOK /\ TimelyHolds

LEMMA LockInitInv == LockInit => LockInv
  BY DEF LockInit, LockInv, LockTypeOK, TimelyHolds

\* Taking a lock that is free changes nobody else's section.
LEMMA AcquireStep ==
  ASSUME LockInv, NEW c \in Client, NEW r \in Resource, Acquire(c, r)
  PROVE  LockInv'
  <1>1. LockTypeOK'
    BY DEF LockInv, LockTypeOK, Acquire
  <1>2. TimelyHolds'
    BY MarkAssumption DEF LockInv, LockTypeOK, TimelyHolds, Acquire
  <1> QED
    BY <1>1, <1>2 DEF LockInv

LEMMA AcquireUnansweredStep ==
  ASSUME LockInv, NEW r \in Resource, AcquireUnanswered(r)
  PROVE  LockInv'
  <1>1. LockTypeOK'
    BY DEF LockInv, LockTypeOK, AcquireUnanswered
  <1>2. TimelyHolds'
    BY MarkAssumption DEF LockInv, LockTypeOK, TimelyHolds, AcquireUnanswered
  <1> QED
    BY <1>1, <1>2 DEF LockInv

\* A release frees the key only of the client that leaves.
LEMMA ReleaseStep ==
  ASSUME LockInv, NEW c \in Client, Release(c)
  PROVE  LockInv'
  <1>1. LockTypeOK'
    BY DEF LockInv, LockTypeOK, Release, Exit
  <1>2. TimelyHolds'
    <2> SUFFICES ASSUME NEW d \in Client, inside'[d] # Outside, d \notin overrun'
                 PROVE  lock'[inside'[d]] = d
      BY DEF TimelyHolds
    <2>1. d # c
      BY DEF Release, Exit, LockInv, LockTypeOK
    <2>2. inside'[d] = inside[d] /\ d \notin overrun
      BY <2>1 DEF Release, Exit, LockInv, LockTypeOK
    <2>3. lock[inside[d]] = d
      BY <2>2 DEF LockInv, TimelyHolds
    <2> QED
      BY <2>1, <2>2, <2>3 DEF Release, Exit, Deleted, LockInv, LockTypeOK
  <1> QED
    BY <1>1, <1>2 DEF LockInv

LEMMA AbandonStep ==
  ASSUME LockInv, NEW c \in Client, Abandon(c)
  PROVE  LockInv'
  <1>1. LockTypeOK'
    BY DEF LockInv, LockTypeOK, Abandon, Exit
  <1>2. TimelyHolds'
    <2> SUFFICES ASSUME NEW d \in Client, inside'[d] # Outside, d \notin overrun'
                 PROVE  lock'[inside'[d]] = d
      BY DEF TimelyHolds
    <2>1. d # c
      BY DEF Abandon, Exit, LockInv, LockTypeOK
    <2>2. inside'[d] = inside[d] /\ d \notin overrun
      BY <2>1 DEF Abandon, Exit, LockInv, LockTypeOK
    <2>3. lock[inside[d]] = d
      BY <2>2 DEF LockInv, TimelyHolds
    <2> QED
      BY <2>1, <2>2, <2>3 DEF Abandon, Exit, LockInv, LockTypeOK
  <1> QED
    BY <1>1, <1>2 DEF LockInv

\* The TTL makes the client whose token the key holds an overrun one.
LEMMA ExpireStep ==
  ASSUME LockInv, NEW r \in Resource, Expire(r)
  PROVE  LockInv'
  <1>1. LockTypeOK'
    BY DEF LockInv, LockTypeOK, Expire
  <1>2. TimelyHolds'
    <2> SUFFICES ASSUME NEW d \in Client, inside'[d] # Outside, d \notin overrun'
                 PROVE  lock'[inside'[d]] = d
      BY DEF TimelyHolds
    <2>1. inside[d] # Outside /\ d \notin overrun /\ d # lock[r]
      BY DEF Expire
    <2>2. lock[inside[d]] = d
      BY <2>1 DEF LockInv, TimelyHolds
    <2> QED
      BY <2>1, <2>2 DEF Expire, LockInv, LockTypeOK
  <1> QED
    BY <1>1, <1>2 DEF LockInv

LEMMA LockNextInv == LockInv /\ [LockNext]_lockVars => LockInv'
  <1> SUFFICES ASSUME LockInv, [LockNext]_lockVars
               PROVE  LockInv'
    OBVIOUS
  <1>1. ASSUME NEW r \in Resource, AcquireUnanswered(r) PROVE LockInv'
    BY <1>1, AcquireUnansweredStep
  <1>2. ASSUME NEW r \in Resource, Expire(r) PROVE LockInv'
    BY <1>2, ExpireStep
  <1>3. ASSUME NEW c \in Client, NEW r \in Resource, Acquire(c, r) PROVE LockInv'
    BY <1>3, AcquireStep
  <1>4. ASSUME NEW c \in Client, Release(c) PROVE LockInv'
    BY <1>4, ReleaseStep
  <1>5. ASSUME NEW c \in Client, Abandon(c) PROVE LockInv'
    BY <1>5, AbandonStep
  <1>6. CASE UNCHANGED lockVars
    BY <1>6 DEF lockVars, LockInv, LockTypeOK, TimelyHolds
  <1> QED
    BY <1>1, <1>2, <1>3, <1>4, <1>5, <1>6 DEF LockNext

\* Two timely clients of one section would both be the key's value.
LEMMA TimelyExcludes == TimelyHolds => MutualExclusion
  BY DEF TimelyHolds, MutualExclusion

\* A client inside its TTL holds the lock of its section (releaseLock compares
\* tokens before it deletes the key).
THEOREM LockIsHeld == LockSpec => [](LockTypeOK /\ TimelyHolds)
  <1>1. LockInit => LockInv
    BY LockInitInv
  <1>2. LockInv /\ [LockNext]_lockVars => LockInv'
    BY LockNextInv
  <1> QED
    BY <1>1, <1>2, PTL DEF LockSpec, LockInv

\* withLifecycleLock excludes: of two requests in the section of one resource
\* one has outlived its TTL, whatever crashed, expired or was released late.
THEOREM LockExcludes == LockSpec => []MutualExclusion
  <1>1. LockTypeOK /\ TimelyHolds => MutualExclusion
    BY TimelyExcludes
  <1> QED
    BY <1>1, LockIsHeld, PTL
=============================================================================
