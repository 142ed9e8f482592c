----------------------------- MODULE AccessToken -----------------------------
(***************************************************************************)
(* PayPalService.getAccessToken: the OAuth token every call to PayPal      *)
(* needs, cached in Redis for all processes, refreshed under a Redis lock, *)
(* and kept in the memory of each process for when a refresh fails.        *)
(*                                                                         *)
(* One step is one call to Redis or PayPal.  A tick is 30 s: the TTL is    *)
(* expires_in less Margin (60 s), at least MinTtl (30 s).  A token is the  *)
(* number of the grant that made it.                                       *)
(***************************************************************************)
EXTENDS RedisLock

CONSTANTS
    Process, Home,  \* a Client is a call of getAccessToken in process Home[c]
    TokenLock,      \* the resource paypal:token:lock
    NoToken,
    Margin, MinTtl, \* in ticks
    MaxTokens,      \* bound: tokens PayPal grants
    Lifetime,       \* token -> expires_in PayPal grants it for, in ticks
    MaxTime,        \* bound: ticks of the clock
    MaxFaults       \* bound: Redis errors, evictions, crashes, overruns

ASSUME HomeAssumption == Home \in [Client -> Process]
ASSUME TokenLockAssumption == Resource = {TokenLock}
ASSUME TtlAssumption ==
    Margin \in Nat /\ Margin >= 2 /\ MinTtl \in Nat \ {0} /\ Lifetime \in [1..MaxTokens -> Nat]
ASSUME TokenAssumption ==
    MaxTokens \in Nat /\ MaxTime \in Nat /\ MaxFaults \in Nat /\ NoToken \notin Nat

VARIABLES
    cache,          \* Redis paypal:access_token, or NoToken
    until,          \* tick at which Redis drops it
    fallback,       \* process -> fallbackToken
    issued, born,   \* PayPal: tokens granted, and when
    pc,             \* call -> its next step
    held,           \* call -> the token PayPal gave it
    late,           \* call -> a tick went by since it began
    answer,         \* call -> token it is going to return and where it is from
    now, faults,
    \* history
    bypassed        \* a refresh was not protected by the lock and its recheck

cacheVars  == <<cache, until>>
paypalVars == <<issued, born>>
callVars   == <<pc, held, late, answer>>
vars == <<lockVars, cacheVars, fallback, paypalVars, callVars, now, faults, bypassed>>

Token  == 1..MaxTokens
Step   == {"idle", "get", "acquire", "wait", "recheck", "fetch", "store", "return"}
Source == {"none", "redis", "paypal", "memory", "error"}
Unanswered == [token |-> NoToken, from |-> "none"]

Init ==
    /\ LockInit
    /\ cache = NoToken /\ until = 0
    /\ fallback = [p \in Process |-> NoToken]
    /\ issued = 0
    /\ born = [t \in Token |-> 0]
    /\ pc = [c \in Client |-> "idle"]
    /\ held = [c \in Client |-> NoToken]
    /\ late = [c \in Client |-> FALSE]
    /\ answer = [c \in Client |-> Unanswered]
    /\ now = 0 /\ faults = 0
    /\ bypassed = FALSE

Fault == faults < MaxFaults /\ faults' = faults + 1

Goto(c, step) ==
    /\ pc' = [pc EXCEPT ![c] = step]
    /\ UNCHANGED <<held, late, answer>>

\* The call has its answer and is going to return it.
Answer(c, t, from) ==
    /\ answer' = [answer EXCEPT ![c] = [token |-> t, from |-> from]]
    /\ pc' = [pc EXCEPT ![c] = "return"]
    /\ held' = [held EXCEPT ![c] = NoToken]
    /\ UNCHANGED late

\* The call is over, or its process is.
End(c) ==
    /\ pc' = [pc EXCEPT ![c] = "idle"]
    /\ held' = [held EXCEPT ![c] = NoToken]
    /\ late' = [late EXCEPT ![c] = FALSE]
    /\ answer' = [answer EXCEPT ![c] = Unanswered]

-----------------------------------------------------------------------------
Begin(c) ==
    /\ pc[c] = "idle"
    /\ Goto(c, "get")
    /\ UNCHANGED <<lockVars, cacheVars, fallback, paypalVars, now, faults, bypassed>>

\* RedisService.get answers null for a missing key and for an error alike.
Hit(c)  == cache # NoToken /\ Answer(c, cache, "redis") /\ UNCHANGED faults
Miss(c, step) ==
    /\ IF cache = NoToken THEN UNCHANGED faults ELSE Fault
    /\ Goto(c, step)

Get(c) ==
    /\ pc[c] = "get"
    /\ Hit(c) \/ Miss(c, "acquire")
    /\ UNCHANGED <<lockVars, cacheVars, fallback, paypalVars, now, bypassed>>

TakeLock(c) ==
    /\ pc[c] = "acquire"
    /\ Acquire(c, TokenLock)
    /\ Goto(c, "recheck")
    /\ UNCHANGED <<cacheVars, fallback, paypalVars, now, faults, bypassed>>

\* Taken by another call, or Redis fails, before or after it set the key.
NoLock(c) ==
    /\ pc[c] = "acquire"
    /\ \/ lock[TokenLock] # Free /\ UNCHANGED <<lockVars, faults>>
       \/ Fault /\ UNCHANGED lockVars
       \/ Fault /\ AcquireUnanswered(TokenLock)
    /\ Goto(c, "wait")
    /\ UNCHANGED <<cacheVars, fallback, paypalVars, now, bypassed>>

\* Mutant: a waiting call goes on only when there is a token.
WaitForToken(c) ==
    /\ pc[c] = "wait"
    /\ Hit(c)
    /\ UNCHANGED <<lockVars, cacheVars, fallback, paypalVars, now, bypassed>>

\* 300 ms later: whoever has the lock may have stored a token, or else the
\* call refreshes as well, without the lock.
Wait(c) ==
    /\ pc[c] = "wait"
    /\ \/ Hit(c) /\ UNCHANGED bypassed
       \/ Miss(c, "fetch") /\ bypassed' = TRUE
    /\ UNCHANGED <<lockVars, cacheVars, fallback, paypalVars, now>>

\* Mutant: no double check.
RecheckNever(c) ==
    /\ pc[c] = "recheck"
    /\ Goto(c, "fetch")
    /\ UNCHANGED <<lockVars, cacheVars, fallback, paypalVars, now, faults, bypassed>>

\* The double check: another call may have refreshed since the first look.
Recheck(c) ==
    /\ pc[c] = "recheck"
    /\ \/ Hit(c) /\ UNCHANGED bypassed
       \/ Miss(c, "fetch") /\ bypassed' = (bypassed \/ cache # NoToken)
    /\ UNCHANGED <<lockVars, cacheVars, fallback, paypalVars, now>>

\* POST /v1/oauth2/token grants a token.
Fetch(c) ==
    /\ pc[c] = "fetch"
    /\ issued < MaxTokens
    /\ issued' = issued + 1
    /\ born' = [born EXCEPT ![issued + 1] = now]
    /\ pc' = [pc EXCEPT ![c] = "store"]
    /\ held' = [held EXCEPT ![c] = issued + 1]
    /\ UNCHANGED <<lockVars, cacheVars, fallback, late, answer, now, faults, bypassed>>

\* PayPal fails or answers too late (15 s): the process's own last token, of
\* any age, or an error.
FetchFails(c) ==
    /\ pc[c] = "fetch"
    /\ IF fallback[Home[c]] # NoToken
       THEN Answer(c, fallback[Home[c]], "memory")
       ELSE Answer(c, NoToken, "error")
    /\ UNCHANGED <<lockVars, cacheVars, fallback, paypalVars, now, faults, bypassed>>

Dies(t) == born[t] + Lifetime[t]

\* Mutants: the TTL is the token's whole life; it has no minimum.
TtlWhole(l) == IF l > MinTtl THEN l ELSE MinTtl
TtlBare(l)  == l - Margin

Ttl(l) == IF l > Margin + MinTtl THEN l - Margin ELSE MinTtl

\* Redis, where an error is swallowed, and the process's memory.
Store(c) ==
    LET t == held[c] IN
    /\ pc[c] = "store"
    /\ \/ /\ cache' = t
          /\ until' = now + Ttl(Lifetime[t])
          /\ UNCHANGED faults
       \/ Fault /\ UNCHANGED cacheVars
    /\ fallback' = [fallback EXCEPT ![Home[c]] = t]
    /\ Answer(c, t, "paypal")
    /\ UNCHANGED <<lockVars, paypalVars, now, bypassed>>

\* The finally block: an error of the script is swallowed, and the key keeps
\* its token.
Return(c) ==
    /\ pc[c] = "return"
    /\ \/ inside[c] = Outside /\ UNCHANGED <<lockVars, faults>>
       \/ Release(c) /\ UNCHANGED faults
       \/ Abandon(c) /\ Fault
    /\ End(c)
    /\ UNCHANGED <<cacheVars, fallback, paypalVars, now, bypassed>>

-----------------------------------------------------------------------------
\* A process dies, and its fallback with it (bound: with one call under way).
Crash(c) ==
    /\ pc[c] # "idle"
    /\ \A d \in Client \ {c} : Home[d] = Home[c] => pc[d] = "idle"
    /\ Fault
    /\ fallback' = [fallback EXCEPT ![Home[c]] = NoToken]
    /\ End(c)
    /\ IF inside[c] = Outside THEN UNCHANGED lockVars ELSE Abandon(c)
    /\ UNCHANGED <<cacheVars, paypalVars, now, bypassed>>

\* The TTL of 15 s; that of a call still in its section is a fault.
ExpireLock ==
    /\ Expire(TokenLock)
    /\ IF lock[TokenLock] \in Client THEN Fault /\ bypassed' = TRUE ELSE UNCHANGED <<faults, bypassed>>
    /\ UNCHANGED <<cacheVars, fallback, paypalVars, callVars, now>>

\* allkeys-lru: Redis may drop the key before its TTL.
Evict ==
    /\ cache # NoToken
    /\ Fault
    /\ cache' = NoToken /\ until' = 0
    /\ UNCHANGED <<lockVars, fallback, paypalVars, callVars, now, bypassed>>

\* A call is over within a tick of its beginning: its longest wait is the
\* 15 s for PayPal.
Tick ==
    /\ now < MaxTime
    /\ \A c \in Client : ~late[c]
    /\ now' = now + 1
    /\ late' = [c \in Client |-> pc[c] # "idle"]
    /\ IF until <= now + 1 THEN cache' = NoToken /\ until' = 0 ELSE UNCHANGED cacheVars
    /\ UNCHANGED <<lockVars, fallback, paypalVars, pc, held, answer, faults, bypassed>>

CallNext(c) ==
    \/ Get(c) \/ TakeLock(c) \/ NoLock(c) \/ Wait(c) \/ Recheck(c)
    \/ Fetch(c) \/ FetchFails(c) \/ Store(c) \/ Return(c)

Next ==
    \/ \E c \in Client : Begin(c) \/ CallNext(c) \/ Crash(c)
    \/ ExpireLock \/ Evict \/ Tick

Spec == Init /\ [][Next]_vars

\* A call that began goes on.  Nothing is assumed of the lock's TTL.
FairSpec == Spec /\ \A c \in Client : WF_vars(CallNext(c))

-----------------------------------------------------------------------------
(* Properties                                                              *)

TypeOK ==
    /\ LockTypeOK
    /\ cache \in Token \cup {NoToken} /\ until \in Nat
    /\ fallback \in [Process -> Token \cup {NoToken}]
    /\ issued \in 0..MaxTokens
    /\ born \in [Token -> Nat]
    /\ pc \in [Client -> Step]
    /\ held \in [Client -> Token \cup {NoToken}]
    /\ late \in [Client -> BOOLEAN]
    /\ answer \in [Client -> [token : Token \cup {NoToken}, from : Source]]
    /\ now \in Nat /\ faults \in 0..MaxFaults
    /\ bypassed \in BOOLEAN

\* expires_in so small that the minimum TTL outlives the token.
Short(t) == Lifetime[t] < MinTtl + 2

\* A token that Redis or PayPal gave to a call is still valid when the call
\* returns it, however long it was cached and however late the call is: the
\* margin of 60 s covers the refresh and the use.  (Not so the token of the
\* process's memory, nor one granted for less than the minimum TTL.)
AnswersAreAlive ==
    \A c \in Client :
        pc[c] = "return" /\ answer[c].from \in {"redis", "paypal"}
            => now < Dies(answer[c].token) \/ Short(answer[c].token)

\* The processes do not all refresh at once: two calls do only after one of
\* them gave up waiting for the lock or outlived it.
OneRefresh ==
    \A c, d \in Client :
        ~bypassed /\ {pc[c], pc[d]} \subseteq {"fetch", "store"} => c = d

\* PayPal is asked for a token only when none is cached, in spite of the time
\* between the first look at the cache and the lock.
NoNeedlessRefresh ==
    [][issued' # issued => bypassed \/ cache = NoToken]_vars

\* A call ends, even if the lock is held by a process that died.
CallsEnd == \A c \in Client : pc[c] # "idle" ~> pc[c] = "idle"
=============================================================================
