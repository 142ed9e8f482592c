--------------------------- MODULE AccessToken_proofs ---------------------------
(***************************************************************************)
(* The shared access token, for any number of processes, calls, tokens and *)
(* ticks.  The calls refine the lock; what is proved of the lock and the   *)
(* double check give OneRefresh and NoNeedlessRefresh (Protected); the     *)
(* dates of tokens and cache give AnswersAreAlive (Dated).                 *)
(***************************************************************************)
EXTENDS AccessToken, RedisLock_proofs

LockStep == [LockNext]_lockVars

\* As long as no call went round the lock nobody outlives it, a call at its
\* double check or past it is in the section, and a call about to ask PayPal
\* found no token, nor is there one now.
Protected ==
    ~bypassed =>
        /\ overrun = {}
        /\ \A c \in Client :
            /\ pc[c] \in {"recheck", "fetch", "store"} => inside[c] = TokenLock
            /\ pc[c] = "fetch" => cache = NoToken

\* Only tokens PayPal granted are about.
Known ==
    /\ cache # NoToken => cache \in 1..issued
    /\ \A c \in Client :
        /\ pc[c] = "store" => held[c] \in 1..issued
        /\ answer[c].from \in {"redis", "paypal"} => answer[c].token \in 1..issued

\* A cached token has a tick to live when Redis drops it; one in a call's hands
\* was granted within the call.
CacheDated ==
    cache # NoToken => now < until /\ (Short(cache) \/ until < Dies(cache))

CallDated(c) ==
    /\ pc[c] = "store" =>
         /\ now <= born[held[c]] + 1
         /\ ~late[c] => now = born[held[c]]
    /\ pc[c] = "return" /\ answer[c].from \in {"redis", "paypal"} =>
         \/ Short(answer[c].token)
         \/ /\ now < Dies(answer[c].token)
            /\ ~late[c] => now + 1 < Dies(answer[c].token)

Dated == CacheDated /\ \A c \in Client : CallDated(c)

Inv == TypeOK /\ TimelyHolds /\ Protected /\ Known /\ Dated

USE DEF Token, Step, Source, Unanswered

-----------------------------------------------------------------------------
(* The lock                                                                *)

LEMMA ReturnIsLockStep ==
  ASSUME NEW c \in Client, Return(c)
  PROVE  LockStep
  <1>1. CASE inside[c] = Outside
    BY <1>1 DEF Return, LockStep, Release, Abandon, Exit
  <1>2. CASE Release(c) \/ Abandon(c)
    BY <1>2 DEF LockStep, LockNext
  <1> QED
    BY <1>1, <1>2 DEF Return

LEMMA CallIsLockStep ==
  ASSUME NEW c \in Client, CallNext(c)
  PROVE  LockStep
  <1>1. CASE Get(c) \/ Wait(c) \/ Recheck(c) \/ Fetch(c) \/ FetchFails(c) \/ Store(c)
    BY <1>1 DEF Get, Wait, Recheck, Fetch, FetchFails, Store, LockStep
  <1>2. CASE TakeLock(c)
    BY <1>2, TokenLockAssumption DEF TakeLock, LockStep, LockNext
  <1>3. CASE NoLock(c)
    BY <1>3, TokenLockAssumption DEF NoLock, LockStep, LockNext
  <1> QED
    BY <1>1, <1>2, <1>3, ReturnIsLockStep DEF CallNext

LEMMA StepIsLockStep ==
  ASSUME [Next]_vars
  PROVE  LockStep
  <1>1. CASE \E c \in Client : Begin(c)
    BY <1>1 DEF Begin, LockStep
  <1>2. CASE \E c \in Client : CallNext(c)
    BY <1>2, CallIsLockStep
  <1>3. CASE \E c \in Client : Crash(c)
    BY <1>3 DEF Crash, LockStep, LockNext
  <1>4. CASE ExpireLock
    BY <1>4, TokenLockAssumption DEF ExpireLock, LockStep, LockNext
  <1>5. CASE Evict \/ Tick \/ UNCHANGED vars
    BY <1>5 DEF Evict, Tick, vars, LockStep
  <1> QED
    BY <1>1, <1>2, <1>3, <1>4, <1>5 DEF Next

\* getAccessToken (paypal.service.ts:84) uses the lock as redis.service.ts
\* means it: the calls refine LockSpec.
THEOREM TokensUseTheLock == Spec => LockSpec
  <1>1. Init => LockInit
    BY DEF Init
  <1>2. [Next]_vars => [LockNext]_lockVars
    BY StepIsLockStep DEF LockStep
  <1> QED
    BY <1>1, <1>2, PTL DEF Spec, LockSpec

LEMMA LockPart ==
  ASSUME TypeOK, TimelyHolds, [Next]_vars
  PROVE  LockTypeOK' /\ TimelyHolds'
  BY StepIsLockStep, LockNextInv DEF LockStep, LockInv, TypeOK

-----------------------------------------------------------------------------
(* Types                                                                   *)

CallTypeOK ==
    /\ pc \in [Client -> Step]
    /\ held \in [Client -> Token \cup {NoToken}]
    /\ late \in [Client -> BOOLEAN]
    /\ answer \in [Client -> [token : Token \cup {NoToken}, from : Source]]

RestTypeOK ==
    /\ cache \in Token \cup {NoToken} /\ until \in Nat
    /\ fallback \in [Process -> Token \cup {NoToken}]
    /\ issued \in 0..MaxTokens
    /\ born \in [Token -> Nat]
    /\ now \in Nat /\ faults \in 0..MaxFaults
    /\ bypassed \in BOOLEAN

LEMMA TypeParts == TypeOK <=> LockTypeOK /\ CallTypeOK /\ RestTypeOK
  BY DEF TypeOK, CallTypeOK, RestTypeOK

LEMMA GotoTypes ==
  ASSUME CallTypeOK, NEW c \in Client, NEW step \in Step, Goto(c, step)
  PROVE  CallTypeOK'
  BY DEF CallTypeOK, Goto

LEMMA AnswerTypes ==
  ASSUME CallTypeOK, NEW c \in Client, NEW t \in Token \cup {NoToken}, NEW from \in Source,
         Answer(c, t, from)
  PROVE  CallTypeOK'
  BY DEF CallTypeOK, Answer

LEMMA EndTypes ==
  ASSUME CallTypeOK, NEW c \in Client, End(c)
  PROVE  CallTypeOK'
  BY DEF CallTypeOK, End

LEMMA FaultTypes ==
  ASSUME faults \in 0..MaxFaults, Fault \/ UNCHANGED faults
  PROVE  faults' \in 0..MaxFaults
  BY TokenAssumption DEF Fault

\* A look at the cache ends in an answer or a further step.
LEMMA LookTypes ==
  ASSUME TypeOK, NEW c \in Client, NEW step \in Step, Hit(c) \/ Miss(c, step)
  PROVE  CallTypeOK' /\ faults' \in 0..MaxFaults
  <1> USE TypeParts DEF RestTypeOK
  <1>1. CASE Hit(c)
    BY <1>1, AnswerTypes DEF Hit
  <1>2. CASE Miss(c, step)
    BY <1>2, GotoTypes, FaultTypes DEF Miss
  <1> QED
    BY <1>1, <1>2

LEMMA CallTypes ==
  ASSUME TypeOK, Known, NEW c \in Client, CallNext(c)
  PROVE  CallTypeOK' /\ RestTypeOK'
  <1> USE TypeParts
  <1>1. CASE Get(c)
    BY <1>1, LookTypes DEF Get, RestTypeOK, cacheVars, paypalVars
  <1>2. CASE TakeLock(c)
    BY <1>2, GotoTypes DEF TakeLock, RestTypeOK, cacheVars, paypalVars
  <1>3. CASE NoLock(c)
    <2>1. faults' \in 0..MaxFaults
      BY <1>3, FaultTypes DEF NoLock, RestTypeOK
    <2> QED
      BY <1>3, <2>1, GotoTypes DEF NoLock, RestTypeOK, cacheVars, paypalVars
  <1>4. CASE Wait(c)
    <2>1. CallTypeOK' /\ faults' \in 0..MaxFaults
      BY <1>4, LookTypes DEF Wait
    <2>2. bypassed' \in BOOLEAN
      BY <1>4 DEF Wait, RestTypeOK
    <2> QED
      BY <1>4, <2>1, <2>2 DEF Wait, RestTypeOK, cacheVars, paypalVars
  <1>5. CASE Recheck(c)
    <2>1. CallTypeOK' /\ faults' \in 0..MaxFaults
      BY <1>5, LookTypes DEF Recheck
    <2>2. bypassed' \in BOOLEAN
      BY <1>5 DEF Recheck, RestTypeOK
    <2> QED
      BY <1>5, <2>1, <2>2 DEF Recheck, RestTypeOK, cacheVars, paypalVars
  <1>6. CASE Fetch(c)
    <2>1. issued + 1 \in Token /\ issued' \in 0..MaxTokens
      BY <1>6, TokenAssumption DEF Fetch, RestTypeOK
    <2>2. CallTypeOK'
      BY <1>6, <2>1 DEF Fetch, CallTypeOK
    <2>3. born' \in [Token -> Nat]
      BY <1>6, <2>1 DEF Fetch, RestTypeOK
    <2> QED
      BY <1>6, <2>1, <2>2, <2>3 DEF Fetch, RestTypeOK, cacheVars
  <1>7. CASE FetchFails(c)
    <2>1. fallback[Home[c]] \in Token \cup {NoToken}
      BY HomeAssumption DEF RestTypeOK
    <2>2. CallTypeOK'
      BY <1>7, <2>1, AnswerTypes DEF FetchFails
    <2> QED
      BY <1>7, <2>2 DEF FetchFails, RestTypeOK, cacheVars, paypalVars
  <1>8. CASE Store(c)
    <2>1. held[c] \in Token
      BY <1>8, TokenAssumption DEF Known, Store, RestTypeOK
    <2>2. Ttl(Lifetime[held[c]]) \in Nat
      BY <2>1, TtlAssumption DEF Ttl
    <2>3. CallTypeOK'
      BY <1>8, <2>1, AnswerTypes DEF Store
    <2>4. cache' \in Token \cup {NoToken} /\ until' \in Nat /\ faults' \in 0..MaxFaults
      BY <1>8, <2>1, <2>2, FaultTypes DEF Store, RestTypeOK, cacheVars
    <2>5. fallback' \in [Process -> Token \cup {NoToken}]
      BY <1>8, <2>1 DEF Store, RestTypeOK
    <2> QED
      BY <1>8, <2>3, <2>4, <2>5 DEF Store, RestTypeOK, paypalVars
  <1>9. CASE Return(c)
    <2>1. faults' \in 0..MaxFaults
      BY <1>9, FaultTypes DEF Return, RestTypeOK
    <2> QED
      BY <1>9, <2>1, EndTypes DEF Return, RestTypeOK, cacheVars, paypalVars
  <1> QED
    BY <1>1, <1>2, <1>3, <1>4, <1>5, <1>6, <1>7, <1>8, <1>9 DEF CallNext

LEMMA TypesStep ==
  ASSUME TypeOK, TimelyHolds, Known, [Next]_vars
  PROVE  TypeOK'
  <1> USE TypeParts
  <1>1. LockTypeOK'
    BY LockPart
  <1> SUFFICES CallTypeOK' /\ RestTypeOK'
    BY <1>1 DEF TypeOK, CallTypeOK, RestTypeOK
  <1>2. ASSUME NEW c \in Client, Begin(c) PROVE CallTypeOK' /\ RestTypeOK'
    BY <1>2, GotoTypes DEF Begin, RestTypeOK, cacheVars, paypalVars
  <1>3. ASSUME NEW c \in Client, CallNext(c) PROVE CallTypeOK' /\ RestTypeOK'
    BY <1>3, CallTypes
  <1>4. ASSUME NEW c \in Client, Crash(c) PROVE CallTypeOK' /\ RestTypeOK'
    <2>1. CallTypeOK' /\ faults' \in 0..MaxFaults
      BY <1>4, EndTypes, FaultTypes DEF Crash, RestTypeOK
    <2> QED
      BY <1>4, <2>1 DEF Crash, RestTypeOK, cacheVars, paypalVars
  <1>5. CASE ExpireLock
    <2>1. faults' \in 0..MaxFaults /\ bypassed' \in BOOLEAN
      BY <1>5, FaultTypes DEF ExpireLock, RestTypeOK
    <2> QED
      BY <1>5, <2>1 DEF ExpireLock, CallTypeOK, RestTypeOK, cacheVars, paypalVars, callVars
  <1>6. CASE Evict
    <2>1. faults' \in 0..MaxFaults
      BY <1>6, FaultTypes DEF Evict, RestTypeOK
    <2> QED
      BY <1>6, <2>1 DEF Evict, CallTypeOK, RestTypeOK, paypalVars, callVars
  <1>7. CASE Tick
    BY <1>7 DEF Tick, CallTypeOK, RestTypeOK, cacheVars, paypalVars
  <1>8. CASE UNCHANGED vars
    BY <1>8 DEF vars, CallTypeOK, RestTypeOK, cacheVars, paypalVars, callVars
  <1> QED
    BY <1>2, <1>3, <1>4, <1>5, <1>6, <1>7, <1>8 DEF Next

-----------------------------------------------------------------------------
(* Tokens                                                                  *)

\* A look at the cache hands out the cached token or changes neither held nor
\* answer.
LEMMA LookKnown ==
  ASSUME TypeOK, Known, NEW c \in Client, NEW step \in Step \ {"store"},
         Hit(c) \/ Miss(c, step), UNCHANGED <<cache, issued>>
  PROVE  Known'
  <1>1. CASE Hit(c)
    BY <1>1 DEF Known, TypeOK, Hit, Answer
  <1>2. CASE Miss(c, step)
    BY <1>2 DEF Known, TypeOK, Miss, Goto
  <1> QED
    BY <1>1, <1>2

LEMMA KnownStep ==
  ASSUME TypeOK, Known, [Next]_vars
  PROVE  Known'
  <1>1. ASSUME NEW c \in Client, Begin(c) \/ TakeLock(c) \/ NoLock(c) PROVE Known'
    BY <1>1 DEF Known, TypeOK, Begin, TakeLock, NoLock, Goto, cacheVars, paypalVars
  <1>2. ASSUME NEW c \in Client, Get(c) \/ Wait(c) \/ Recheck(c) PROVE Known'
    BY <1>2, LookKnown DEF Get, Wait, Recheck, cacheVars, paypalVars
  <1>3. ASSUME NEW c \in Client, Fetch(c) PROVE Known'
    BY <1>3 DEF Known, TypeOK, Fetch, cacheVars
  <1>4. ASSUME NEW c \in Client, FetchFails(c) PROVE Known'
    BY <1>4 DEF Known, TypeOK, FetchFails, Answer, cacheVars, paypalVars
  <1>5. ASSUME NEW c \in Client, Store(c) PROVE Known'
    BY <1>5 DEF Known, TypeOK, Store, Answer, cacheVars, paypalVars
  <1>6. ASSUME NEW c \in Client, Return(c) \/ Crash(c) PROVE Known'
    BY <1>6 DEF Known, TypeOK, Return, Crash, End, cacheVars, paypalVars
  <1>7. CASE ExpireLock \/ Evict \/ Tick \/ UNCHANGED vars
    BY <1>7 DEF Known, ExpireLock, Evict, Tick, vars, cacheVars, paypalVars, callVars
  <1> QED
    BY <1>1, <1>2, <1>3, <1>4, <1>5, <1>6, <1>7 DEF Next, CallNext

\* What a step leaves alone keeps its dates.
LEMMA SameCall ==
  ASSUME TypeOK, Known, NEW d \in Client, CallDated(d), UNCHANGED now,
         UNCHANGED <<pc[d], held[d], late[d], answer[d]>>,
         \A t \in 1..issued : born'[t] = born[t]
  PROVE  CallDated(d)'
  <1>1. pc[d] = "store" => born'[held[d]] = born[held[d]]
    BY DEF Known
  <1>2. answer[d].from \in {"redis", "paypal"} => Dies(answer[d].token)' = Dies(answer[d].token)
    BY DEF Known, Dies
  <1> QED
    BY <1>1, <1>2 DEF CallDated

LEMMA SameCache ==
  ASSUME Known, CacheDated, UNCHANGED <<cacheVars, now>>, \A t \in 1..issued : born'[t] = born[t]
  PROVE  CacheDated'
  BY DEF Known, CacheDated, Dies, cacheVars

LEMMA OtherCalls ==
  ASSUME TypeOK, NEW c \in Client, Begin(c) \/ CallNext(c) \/ Crash(c), NEW d \in Client \ {c}
  PROVE  UNCHANGED <<pc[d], held[d], late[d], answer[d]>>
  <1>1. CASE Begin(c) \/ Get(c) \/ TakeLock(c) \/ NoLock(c) \/ Wait(c) \/ Recheck(c)
    BY <1>1 DEF Begin, Get, TakeLock, NoLock, Wait, Recheck, Hit, Miss, Goto, Answer, TypeOK
  <1>2. CASE Fetch(c) \/ FetchFails(c) \/ Store(c)
    BY <1>2 DEF Fetch, FetchFails, Store, Answer, TypeOK
  <1>3. CASE Return(c) \/ Crash(c)
    BY <1>3 DEF Return, Crash, End, TypeOK
  <1> QED
    BY <1>1, <1>2, <1>3 DEF CallNext

LEMMA Granted ==
  ASSUME TypeOK, NEW c \in Client, Begin(c) \/ CallNext(c) \/ Crash(c)
  PROVE  UNCHANGED now /\ \A t \in 1..issued : born'[t] = born[t]
  <1>1. CASE Fetch(c)
    BY <1>1 DEF Fetch, TypeOK
  <1>2. CASE ~Fetch(c)
    BY <1>2 DEF Begin, CallNext, Crash, Get, TakeLock, NoLock, Wait, Recheck, FetchFails, Store,
                Return, paypalVars
  <1> QED
    BY <1>1, <1>2

\* A token from the cache: its TTL leaves a tick for the call.
LEMMA LookDated ==
  ASSUME TypeOK, Known, Dated, NEW c \in Client, NEW step \in Step \ {"store", "return"},
         Hit(c) \/ Miss(c, step), UNCHANGED <<born, now>>
  PROVE  CallDated(c)'
  <1>1. CASE Hit(c)
    <2>1. pc'[c] = "return" /\ answer'[c].token = cache /\ cache \in 1..issued
      BY <1>1 DEF Hit, Answer, Known, TypeOK
    <2>2. Short(cache) \/ now + 1 < Dies(cache)
      <3>1. CASE Short(cache)
        BY <3>1
      <3>2. CASE until < Dies(cache)
        <4>1. now < until /\ now \in Nat /\ until \in Nat
          BY <1>1 DEF Hit, Dated, CacheDated, TypeOK
        <4>2. Dies(cache) \in Nat
          BY <2>1, TtlAssumption, TokenAssumption DEF Dies, TypeOK
        <4> QED
          BY <3>2, <4>1, <4>2
      <3> QED
        BY <1>1, <3>1, <3>2 DEF Hit, Dated, CacheDated
    <2>5. now < Dies(cache) \/ Short(cache)
      <3>1. Dies(cache) \in Nat /\ now \in Nat
        BY <2>1, TtlAssumption, TokenAssumption DEF Dies, TypeOK
      <3> QED
        BY <2>2, <3>1
    <2> QED
      BY <2>1, <2>2, <2>5 DEF CallDated, Dies, Short
  <1>2. CASE Miss(c, step)
    BY <1>2 DEF CallDated, TypeOK, Miss, Goto
  <1> QED
    BY <1>1, <1>2

\* What PayPal grants is as old as the call that stores it, and the TTL is
\* shorter than the life that is left.
LEMMA StoreDated ==
  ASSUME TypeOK, Known, Dated, NEW c \in Client, Store(c)
  PROVE  CallDated(c)' /\ CacheDated'
  <1> DEFINE t == held[c]
  <1> USE TtlAssumption, TokenAssumption
  <1>1. /\ t \in 1..issued /\ now \in Nat /\ born[t] \in Nat /\ Lifetime[t] \in Nat
        /\ now <= born[t] + 1
        /\ ~late[c] => now = born[t]
    BY DEF Store, Known, Dated, CallDated, TypeOK
  <1>2. Ttl(Lifetime[t]) \in Nat /\ Ttl(Lifetime[t]) > 0
    <2>1. CASE Lifetime[t] > Margin + MinTtl
      BY <1>1, <2>1 DEF Ttl
    <2>2. CASE ~(Lifetime[t] > Margin + MinTtl)
      BY <1>1, <2>2 DEF Ttl
    <2> QED
      BY <2>1, <2>2
  <1>3. Short(t) \/ now + Ttl(Lifetime[t]) < born[t] + Lifetime[t]
    <2>1. CASE Lifetime[t] > Margin + MinTtl
      <3>1. Ttl(Lifetime[t]) = Lifetime[t] - Margin
        BY <2>1 DEF Ttl
      <3> QED
        BY <1>1, <3>1
    <2>2. CASE ~(Lifetime[t] > Margin + MinTtl)
      BY <1>1, <2>2 DEF Ttl, Short
    <2> QED
      BY <2>1, <2>2
  <1>4. CacheDated'
    <2>1. CASE UNCHANGED cacheVars
      BY <2>1, SameCache DEF Store, Dated, paypalVars
    <2>2. CASE cache' = t /\ until' = now + Ttl(Lifetime[t])
      BY <1>1, <1>2, <1>3, <2>2 DEF Store, CacheDated, Dies, Short, paypalVars
    <2> QED
      BY <2>1, <2>2 DEF Store
  <1>5. CallDated(c)'
    <2>1. pc'[c] = "return" /\ answer'[c].token = t /\ late'[c] = late[c]
      BY DEF Store, Answer, TypeOK
    <2>2. Short(t) \/ (now < born[t] + Lifetime[t] /\ (~late[c] => now + 1 < born[t] + Lifetime[t]))
      BY <1>1 DEF Short
    <2> QED
      BY <2>1, <2>2 DEF Store, CallDated, Dies, Short, paypalVars
  <1> QED
    BY <1>4, <1>5

LEMMA CallStepDated ==
  ASSUME TypeOK, Known, Dated, NEW c \in Client, Begin(c) \/ CallNext(c) \/ Crash(c)
  PROVE  Dated'
  <1>1. \A d \in Client \ {c} : CallDated(d)'
    BY OtherCalls, Granted, SameCall DEF Dated
  <1>2. CASE Store(c)
    BY <1>1, <1>2, StoreDated DEF Dated
  <1>3. CASE ~Store(c)
    <2>1. CacheDated'
      BY <1>3, Granted, SameCache DEF Dated, Begin, CallNext, Crash, Get, TakeLock, NoLock, Wait,
                                      Recheck, Fetch, FetchFails, Return
    <2>2. CallDated(c)'
      <3>1. CASE Begin(c) \/ TakeLock(c) \/ NoLock(c) \/ Return(c) \/ Crash(c)
        BY <3>1 DEF Begin, TakeLock, NoLock, Return, Crash, Goto, End, CallDated, TypeOK
      <3>2. CASE Get(c) \/ Wait(c) \/ Recheck(c)
        BY <3>2, LookDated DEF Get, Wait, Recheck, paypalVars
      <3>3. CASE Fetch(c)
        <4>1. issued + 1 \in Token /\ now \in Nat
          BY <3>3, TokenAssumption DEF Fetch, TypeOK
        <4>2. pc'[c] = "store" /\ held'[c] = issued + 1 /\ born'[issued + 1] = now /\ now' = now
          BY <3>3, <4>1 DEF Fetch, TypeOK
        <4> QED
          BY <4>1, <4>2 DEF CallDated
      <3>4. CASE FetchFails(c)
        BY <3>4 DEF FetchFails, Answer, CallDated, TypeOK
      <3> QED
        BY <1>3, <3>1, <3>2, <3>3, <3>4 DEF CallNext
    <2> QED
      BY <1>1, <2>1, <2>2 DEF Dated
  <1> QED
    BY <1>2, <1>3

\* A tick finds no call late and makes every call late.
LEMMA TickDated ==
  ASSUME TypeOK, Known, Dated, Tick
  PROVE  Dated'
  <1> USE TtlAssumption, TokenAssumption
  <1>1. CacheDated'
    <2>1. CASE until <= now + 1
      BY <2>1 DEF Tick, CacheDated
    <2>2. CASE ~(until <= now + 1)
      BY <2>2 DEF Tick, Dated, CacheDated, TypeOK, Dies, cacheVars, paypalVars
    <2> QED
      BY <2>1, <2>2
  <1>2. ASSUME NEW d \in Client PROVE CallDated(d)'
    <2>1. /\ pc'[d] = pc[d] /\ held'[d] = held[d] /\ answer'[d] = answer[d] /\ born' = born
          /\ ~late[d] /\ now' = now + 1 /\ now \in Nat
          /\ pc[d] = "return" => late'[d]
          /\ pc[d] = "store" => late'[d]
      BY DEF Tick, TypeOK, paypalVars
    <2>2. CallDated(d)
      BY DEF Dated
    <2>3. pc[d] = "store" => now' <= born[held[d]] + 1
      BY <2>1, <2>2 DEF CallDated, Known, TypeOK
    <2> QED
      BY <2>1, <2>2, <2>3 DEF CallDated, Dies, Short
  <1> QED
    BY <1>1, <1>2 DEF Dated

LEMMA DatedStep ==
  ASSUME TypeOK, Known, Dated, [Next]_vars
  PROVE  Dated'
  <1>1. CASE \E c \in Client : Begin(c) \/ CallNext(c) \/ Crash(c)
    BY <1>1, CallStepDated
  <1>2. CASE Tick
    BY <1>2, TickDated
  <1>3. CASE ExpireLock \/ Evict \/ UNCHANGED vars
    <2>1. CASE Evict
      BY <2>1 DEF Evict, Dated, CacheDated, CallDated, paypalVars, callVars, Dies, Short
    <2>2. CASE ExpireLock \/ UNCHANGED vars
      BY <2>2 DEF ExpireLock, vars, Dated, CacheDated, CallDated, cacheVars, paypalVars, callVars,
                  Dies, Short
    <2> QED
      BY <1>3, <2>1, <2>2
  <1> QED
    BY <1>1, <1>2, <1>3 DEF Next

-----------------------------------------------------------------------------
(* The section                                                             *)

\* Within the section nobody else asks PayPal or stores a token.
LEMMA OnlyOne ==
  ASSUME TypeOK, TimelyHolds, Protected, ~bypassed, NEW c \in Client, NEW d \in Client,
         {pc[c], pc[d]} \subseteq {"recheck", "fetch", "store"}
  PROVE  c = d
  BY TokenLockAssumption, MarkAssumption DEF TimelyHolds, Protected

LEMMA ProtectedStep ==
  ASSUME TypeOK, TimelyHolds, Protected, [Next]_vars
  PROVE  Protected'
  <1>1. ASSUME NEW c \in Client, Begin(c) \/ NoLock(c) PROVE Protected'
    BY <1>1 DEF Protected, TypeOK, Begin, NoLock, Goto, AcquireUnanswered, lockVars, cacheVars
  <1>2. ASSUME NEW c \in Client, TakeLock(c) PROVE Protected'
    BY <1>2, TokenLockAssumption
    DEF Protected, TypeOK, LockTypeOK, TakeLock, Goto, Acquire, cacheVars
  <1>3. ASSUME NEW c \in Client, Get(c) \/ Wait(c) \/ Recheck(c) PROVE Protected'
    BY <1>3 DEF Protected, TypeOK, Get, Wait, Recheck, Hit, Miss, Goto, Answer, lockVars, cacheVars
  <1>4. ASSUME NEW c \in Client, Fetch(c) \/ FetchFails(c) PROVE Protected'
    BY <1>4 DEF Protected, TypeOK, Fetch, FetchFails, Answer, lockVars, cacheVars
  <1>5. ASSUME NEW c \in Client, Store(c) PROVE Protected'
    <2>1. \A d \in Client : ~bypassed /\ pc[d] = "fetch" => FALSE
      BY <1>5, OnlyOne DEF Store
    <2> QED
      BY <1>5, <2>1 DEF Protected, TypeOK, Store, Answer, lockVars
  <1>6. ASSUME NEW c \in Client, Return(c) \/ Crash(c) PROVE Protected'
    BY <1>6 DEF Protected, TypeOK, LockTypeOK, Return, Crash, End, Release, Abandon, Exit,
                lockVars, cacheVars
  <1>7. CASE ExpireLock
    BY <1>7 DEF Protected, TypeOK, ExpireLock, Expire, cacheVars, callVars
  <1>8. CASE Evict \/ Tick \/ UNCHANGED vars
    BY <1>8 DEF Protected, Evict, Tick, vars, lockVars, cacheVars, callVars
  <1> QED
    BY <1>1, <1>2, <1>3, <1>4, <1>5, <1>6, <1>7, <1>8 DEF Next, CallNext

-----------------------------------------------------------------------------
(* Theorems                                                                *)

LEMMA InitInv == Init => Inv
  <1> SUFFICES ASSUME Init
               PROVE  Inv
    OBVIOUS
  <1>1. LockTypeOK /\ TimelyHolds
    BY LockInitInv DEF Init, LockInv
  <1>2. TypeOK
    <2>1. CallTypeOK
      <3>1. Unanswered \in [token : Token \cup {NoToken}, from : Source]
        OBVIOUS
      <3>2. answer \in [Client -> [token : Token \cup {NoToken}, from : Source]]
        BY <3>1 DEF Init
      <3>3. pc \in [Client -> Step] /\ held \in [Client -> Token \cup {NoToken}]
        BY DEF Init
      <3>4. late \in [Client -> BOOLEAN]
        BY DEF Init
      <3> QED
        BY <3>2, <3>3, <3>4 DEF CallTypeOK
    <2>2. RestTypeOK
      <3>1. bypassed \in BOOLEAN
        BY DEF Init
      <3>2. fallback \in [Process -> Token \cup {NoToken}] /\ born \in [Token -> Nat]
        BY DEF Init
      <3>3. issued \in 0..MaxTokens /\ faults \in 0..MaxFaults
        BY TokenAssumption DEF Init
      <3> QED
        BY <3>1, <3>2, <3>3 DEF Init, RestTypeOK
    <2> QED
      BY <1>1, <2>1, <2>2, TypeParts
  <1>3. Protected /\ Known /\ Dated
    BY DEF Init, Protected, Known, Dated, CacheDated, CallDated, LockInit
  <1> QED
    BY <1>1, <1>2, <1>3 DEF Inv

LEMMA StepInv == Inv /\ [Next]_vars => Inv'
  BY LockPart, TypesStep, KnownStep, DatedStep, ProtectedStep DEF Inv

LEMMA Invariance == Spec => []Inv
  BY InitInv, StepInv, PTL DEF Spec

\* Type correctness of the token cache and its calls.
THEOREM TokenTypes == Spec => []TypeOK
  <1>1. Inv => TypeOK
    BY DEF Inv
  <1> QED
    BY <1>1, Invariance, PTL

\* getAccessToken hands out no expired token but from the process's memory:
\* the margin of paypal.service.ts:131 covers refresh and use, for every
\* lifetime PayPal may grant.
THEOREM TokensAreAlive == Spec => []AnswersAreAlive
  <1>1. Inv => AnswersAreAlive
    BY DEF Inv, Dated, CallDated, AnswersAreAlive
  <1> QED
    BY <1>1, Invariance, PTL

\* However many processes start at once, one refreshes the token, unless a call
\* gave up waiting or outlived the lock (paypal.service.ts:98).
THEOREM RefreshesExclude == Spec => []OneRefresh
  <1>1. Inv => OneRefresh
    BY OnlyOne DEF Inv, OneRefresh
  <1> QED
    BY <1>1, Invariance, PTL

\* The double check (paypal.service.ts:106) keeps a call that waited for the
\* lock from refreshing again.
THEOREM RefreshesAreNeeded == Spec => NoNeedlessRefresh
  <1>1. Inv /\ [Next]_vars => [issued' # issued => bypassed \/ cache = NoToken]_vars
    <2> SUFFICES ASSUME Inv, [Next]_vars, issued' # issued
                 PROVE  bypassed \/ cache = NoToken
      OBVIOUS
    <2>1. PICK c \in Client : Fetch(c)
      BY DEF Next, CallNext, Begin, Get, TakeLock, NoLock, Wait, Recheck, FetchFails, Store, Return,
             Crash, ExpireLock, Evict, Tick, vars, paypalVars
    <2> QED
      BY <2>1 DEF Inv, Protected, Fetch
  <1> QED
    BY <1>1, Invariance, PTL DEF Spec, NoNeedlessRefresh
=============================================================================
