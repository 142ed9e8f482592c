------------------------ MODULE TelegramPayment_proofs ------------------------
(***************************************************************************)
(* The Telegram endpoints and crons use the locks as RedisLock says: every *)
(* step of TelegramPayment is, for the lock variables, a step of LockNext  *)
(* or a stutter.  What is proved of the lock then holds of the payments,   *)
(* for any number of charges, users and requests.                          *)
(***************************************************************************)
EXTENDS TelegramPayment, RedisLock_proofs

LockStep == [LockNext]_lockVars

\* Acquire of a charge's or a user's lock.
LEMMA AcquireIsLockStep ==
  ASSUME NEW f \in Client, NEW r \in Charge \cup User, Acquire(f, r)
  PROVE  LockStep
  BY ResourceAssumption DEF LockStep, LockNext

\* A request that ends releases its lock or never took one.
LEMMA ReturnIsLockStep ==
  ASSUME NEW f \in Client, Return(f)
  PROVE  LockStep
  <1>1. CASE inside[f] = Outside
    BY <1>1 DEF Return, LockStep
  <1>2. CASE inside[f] # Outside
    BY <1>2 DEF Return, LockStep, LockNext
  <1> QED
    BY <1>1, <1>2

LEMMA RequestIsLockStep ==
  ASSUME NEW f \in Client, RequestNext(f)
  PROVE  LockStep
  <1>1. CASE \E c \in Charge : BeginPayment(f, c)
    BY <1>1, AcquireIsLockStep DEF BeginPayment
  <1>2. CASE \E c \in Charge : BeginRefund(f, c)
    BY <1>2 DEF BeginRefund, LockStep
  <1>3. CASE \E u \in User, on \in BOOLEAN : BeginAutoRenew(f, u, on)
    BY <1>3, AcquireIsLockStep DEF BeginAutoRenew
  <1>4. CASE \E u \in User : BeginInvoice(f, u)
    BY <1>4, AcquireIsLockStep DEF BeginInvoice
  <1> QED
    BY <1>1, <1>2, <1>3, <1>4 DEF RequestNext

\* A handler's step keeps the locks or is its last.
LEMMA HandlerIsLockStep ==
  ASSUME NEW f \in Client, HandlerNext(f)
  PROVE  LockStep
  <1>1. CASE FindCharge(f) \/ FindActive(f) \/ Renew(f) \/ Activate(f) \/ SetAutoRenew(f)
             \/ RefundSub(f) \/ SetExpired(f)
    BY <1>1 DEF FindCharge, FindActive, Renew, Activate, SetAutoRenew, RefundSub, SetExpired, LockStep
  <1>2. CASE Create(f) \/ FindCurrent(f) \/ TakeDeferred(f)
    BY <1>2, ReturnIsLockStep DEF Create, FindCurrent, TakeDeferred, LockStep
  <1>3. CASE Answer(f) \/ Link(f) \/ Done(f) \/ RefundUser(f) \/ DropPro(f)
    BY <1>3, ReturnIsLockStep DEF Answer, Link, Done, RefundUser, DropPro
  <1> QED
    BY <1>1, <1>2, <1>3 DEF HandlerNext

\* One case for each kind of step.
LEMMA StepIsLockStep ==
  ASSUME [Next]_vars
  PROVE  LockStep
  <1>1. CASE \E c \in Charge : Pay(c)
    BY <1>1 DEF Pay, LockStep
  <1>2. CASE \E f \in Client : RequestNext(f) \/ HandlerNext(f)
    BY <1>2, RequestIsLockStep, HandlerIsLockStep
  <1>3. CASE \E f \in Client : CronNext(f)
    BY <1>3 DEF CronNext, FindStale, FindDeferred, LockStep
  <1>4. CASE \E f \in Client : Throw(f)
    BY <1>4, ReturnIsLockStep DEF Throw
  <1>5. CASE \E f \in Client : Crash(f)
    BY <1>5 DEF Crash, LockStep, LockNext
  <1>6. CASE \E r \in Resource : LoseLock(r) \/ ExpireLock(r)
    BY <1>6 DEF LoseLock, ExpireLock, LockStep, LockNext
  <1>7. CASE Tick \/ UNCHANGED vars
    BY <1>7 DEF Tick, vars, LockStep
  <1> QED
    BY <1>1, <1>2, <1>3, <1>4, <1>5, <1>6, <1>7 DEF Next

\* telegram-payment.controller.ts:283 (withLifecycleLock) implements the lock
\* of redis.service.ts: the payments refine LockSpec.
THEOREM PaymentsUseTheLock == Spec => LockSpec
  <1>1. Init => LockInit
    BY DEF Init
  <1>2. [Next]_vars => [LockNext]_lockVars
    BY StepIsLockStep DEF LockStep
  <1> QED
    BY <1>1, <1>2, PTL DEF Spec, LockSpec

\* Of the requests about one charge, or of one user's cancel and auto-renew
\* requests, at most one has not outlived the TTL of its lock.
THEOREM PaymentsExclude == Spec => []MutualExclusion
  BY PaymentsUseTheLock, LockExcludes, PTL

\* A payment handler in time holds the lock of its charge: nothing but its
\* own end or the TTL takes it away.
THEOREM PaymentsHold == Spec => []TimelyHolds
  BY PaymentsUseTheLock, LockIsHeld, PTL
=============================================================================
