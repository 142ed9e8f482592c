------------------------------ MODULE RedisLock ------------------------------
(***************************************************************************)
(* RedisService.acquireLock and releaseLock, and the way their callers use *)
(* them (both withLifecycleLock, getAccessToken): take the lock or be told *)
(* that it is taken, run the section, and release in a finally block.      *)
(*                                                                         *)
(* lock[r] is the value of the key lock:<r>.  A token is random, so it is  *)
(* named after the client whose current section it was made for; a token   *)
(* nobody will compare with the key any more is Stray.                     *)
(***************************************************************************)
EXTENDS Naturals

CONSTANTS
    Resource,       \* what is locked: charge:<id>, tg:<user>, sub:<id>, ...
    Client,         \* requests, in any process
    Free,           \* the key does not exist
    Stray,          \* the key holds a token that nobody has
    Outside         \* not in a section

ASSUME MarkAssumption ==
    /\ {Free, Stray} \cap Client = {} /\ Free # Stray
    /\ Outside \notin Resource

VARIABLES
    lock,           \* resource -> token in its key
    inside,         \* client -> resource of the section it is in
    overrun         \* history: clients still in a section after its lock's TTL

lockVars == <<lock, inside, overrun>>

LockInit ==
    /\ lock = [r \in Resource |-> Free]
    /\ inside = [c \in Client |-> Outside]
    /\ overrun = {}

\* Mutant: SET without NX.
AcquireOver(c, r) ==
    /\ inside[c] = Outside
    /\ lock' = [lock EXCEPT ![r] = c]
    /\ inside' = [inside EXCEPT ![c] = r]
    /\ UNCHANGED overrun

\* SET key token PX ttl NX answers OK.
Acquire(c, r) ==
    /\ inside[c] = Outside
    /\ lock[r] = Free
    /\ lock' = [lock EXCEPT ![r] = c]
    /\ inside' = [inside EXCEPT ![c] = r]
    /\ UNCHANGED overrun

\* The key is set but the answer is lost: acquireLock reports it as taken.
AcquireUnanswered(r) ==
    /\ lock[r] = Free
    /\ lock' = [lock EXCEPT ![r] = Stray]
    /\ UNCHANGED <<inside, overrun>>

Exit(c) ==
    /\ inside[c] # Outside
    /\ inside' = [inside EXCEPT ![c] = Outside]
    /\ overrun' = overrun \ {c}

\* Mutant: DEL without the comparison.
DeletedAnyway(c, r) == TRUE

\* The Lua script compares the key with the caller's token.
Deleted(c, r) == lock[r] = c

\* The finally block; the section may have returned or thrown.
Release(c) ==
    /\ Exit(c)
    /\ lock' = [lock EXCEPT ![inside[c]] = IF Deleted(c, inside[c]) THEN Free ELSE @]

\* The process dies in the section, or the script fails, which releaseLock
\* logs and swallows: the key stays until its TTL.
Abandon(c) ==
    /\ Exit(c)
    /\ lock' = [lock EXCEPT ![inside[c]] = IF @ = c THEN Stray ELSE @]

\* PX: the key goes, whether or not its client has finished.
Expire(r) ==
    /\ lock[r] # Free
    /\ lock' = [lock EXCEPT ![r] = Free]
    /\ overrun' = overrun \cup ({lock[r]} \cap Client)
    /\ UNCHANGED inside

LockNext ==
    \/ \E r \in Resource : AcquireUnanswered(r) \/ Expire(r)
    \/ \E c \in Client : (\E r \in Resource : Acquire(c, r)) \/ Release(c) \/ Abandon(c)

LockSpec == LockInit /\ [][LockNext]_lockVars

-----------------------------------------------------------------------------
(* Properties                                                              *)

LockTypeOK ==
    /\ lock \in [Resource -> Client \cup {Free, Stray}]
    /\ inside \in [Client -> Resource \cup {Outside}]
    /\ overrun \subseteq Client

\* Of the clients in the section of one resource at most one has not outlived
\* its TTL: the token keeps a client that did from releasing the lock of the
\* client that came after it.
MutualExclusion ==
    \A c, d \in Client :
        c # d /\ inside[c] # Outside /\ inside[c] = inside[d] => {c, d} \cap overrun # {}

\* A client that is in time holds the lock, and nothing but its own exit or
\* the TTL takes it away: no other client's acquire, release or abandon does.
TimelyHolds ==
    \A c \in Client : inside[c] # Outside /\ c \notin overrun => lock[inside[c]] = c
=============================================================================
