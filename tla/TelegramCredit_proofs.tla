------------------------ MODULE TelegramCredit_proofs ------------------------
(***************************************************************************)
(* handleSuccessfulPayment credits a charge once, and the bot hears of it  *)
(* after the user got what it pays for; a card payment extends what the    *)
(* user had; a refund is final; and access ends by a refund or when all    *)
(* that was paid has run out: for any number of charges, users,            *)
(* deliveries, requests and faults.                                        *)
(*                                                                         *)
(* The argument: a handler that keeps to the TTL is alone with its charge  *)
(* (Alone, from the lock).  So a charge it did not find is not credited    *)
(* by another until it is done (UncreditedYet), and one it found belongs   *)
(* to a handler that ended (CreditedIsActivated).  The parts on access     *)
(* (AccessInv, LiveInv) follow further below.                              *)
(***************************************************************************)
EXTENDS TelegramPayment_proofs, FiniteSetTheorems

\* Work on a charge under its lock, and on a charge or document at all.
PaymentStep == {"findCharge", "findActive", "renew", "create", "activate", "answer"}
ChargeStep  == PaymentStep \cup {"refundSub", "refundUser", "setExpired", "takeDeferred", "dropPro"}

Jobs == [user : User, charge : Charge \cup {None}, on : BOOLEAN,
         doc : Charge \cup {None}, until : Nat \cup {NoDate}, late : BOOLEAN]

\* What the lock adds to LockTypeOK and TimelyHolds: a token is in the key of
\* its client's section, and only clients in a section have overrun it.
LockShape ==
    /\ \A r \in Resource : lock[r] \in Client => inside[lock[r]] = r
    /\ \A f \in Client : f \in overrun => inside[f] # Outside

\* What a flow has at hand at each step.
JobShape ==
    \A f \in Client :
        /\ pc[f] # "idle" => work[f] \in Jobs
        /\ pc[f] \in ChargeStep => work[f].charge \in Charge
        /\ pc[f] \in PaymentStep => /\ inside[f] = work[f].charge
                                    /\ paidAt[work[f].charge] # NoDate
        /\ pc[f] \in {"renew", "setAutoRenew"} => /\ work[f].doc \in Charge
                                                  /\ status[work[f].doc] # Absent
        /\ pc[f] \in {"renew", "create"} => work[f].until \in Nat
        /\ pc[f] \in {"setExpired", "takeDeferred", "dropPro"} => status[work[f].charge] # Absent

DocShape ==
    \A d \in Charge :
        IF status[d] = Absent THEN latest[d] = None
                              ELSE latest[d] \in Charge /\ expires[d] \in Nat

LateIsSlipped ==
    \A f \in Client :
        pc[f] \in PaymentStep /\ f \in overrun => work[f].charge \in Slipped("overlapped")

\* The idempotency check looks at telegram_charge_id: a credited charge is
\* there until its document takes a later one.
CreditedIsFound ==
    \A c \in Charge :
        /\ Processed(c) => credits[c] >= 1
        /\ credits[c] >= 1 => Processed(c) \/ c \in Slipped("superseded")

UncreditedYet ==
    \A f \in Client :
        pc[f] \in {"findActive", "renew", "create"} =>
            \/ credits[work[f].charge] = 0
            \/ work[f].charge \in Slipped("overlapped") \cup Slipped("superseded")

\* Activated, or excused by AckedIsActivated.
Settled == activated \cup Slipped("overlapped") \cup Slipped("cutShort")

CreditedIsActivated ==
    \A c \in Charge :
        credits[c] >= 1 => \/ c \in Settled
                           \/ \E f \in Client : pc[f] = "activate" /\ work[f].charge = c

AnswersSettled == \A f \in Client : pc[f] = "answer" => work[f].charge \in Settled

Shape == TypeOK /\ TimelyHolds /\ LockShape /\ JobShape /\ DocShape

CreditInv ==
    /\ LateIsSlipped
    /\ CreditedIsFound /\ UncreditedYet /\ OneCreditPerCharge
    /\ CreditedIsActivated /\ AnswersSettled /\ AckedIsActivated

-----------------------------------------------------------------------------
(* The lock                                                                *)

LEMMA LockShapeNext ==
  ASSUME LockTypeOK, LockShape, [LockNext]_lockVars
  PROVE  LockShape'
  <1>1. ASSUME NEW r \in Resource, AcquireUnanswered(r) PROVE LockShape'
    BY <1>1, MarkAssumption DEF LockShape, LockTypeOK, AcquireUnanswered
  <1>2. ASSUME NEW r \in Resource, Expire(r) PROVE LockShape'
    BY <1>2, MarkAssumption DEF LockShape, LockTypeOK, Expire
  <1>3. ASSUME NEW c \in Client, NEW r \in Resource, Acquire(c, r) PROVE LockShape'
    BY <1>3, MarkAssumption DEF LockShape, LockTypeOK, Acquire
  <1>4. ASSUME NEW c \in Client, Release(c) PROVE LockShape'
    BY <1>4, MarkAssumption DEF LockShape, LockTypeOK, Release, Exit, Deleted
  <1>5. ASSUME NEW c \in Client, Abandon(c) PROVE LockShape'
    BY <1>5, MarkAssumption DEF LockShape, LockTypeOK, Abandon, Exit
  <1>6. CASE UNCHANGED lockVars
    BY <1>6 DEF lockVars, LockShape
  <1> QED
    BY <1>1, <1>2, <1>3, <1>4, <1>5, <1>6 DEF LockNext

\* The lock's part of the invariant, for every step of the payments.
LEMMA LockPart ==
  ASSUME TypeOK, TimelyHolds, LockShape, [Next]_vars
  PROVE  LockTypeOK' /\ TimelyHolds' /\ LockShape'
  <1>1. LockTypeOK
    BY DEF TypeOK
  <1>2. [LockNext]_lockVars
    BY StepIsLockStep DEF LockStep
  <1> QED
    BY <1>1, <1>2, LockNextInv, LockShapeNext DEF LockInv

-----------------------------------------------------------------------------
(* Types and shapes                                                        *)

Shapes == TypeOK /\ JobShape /\ DocShape

\* A flow that returns has nothing at hand; the others keep what they have.
LEMMA ReturnFlows ==
  ASSUME Shapes, NEW f \in Client, Return(f)
  PROVE  /\ pc' \in [Client -> Step] /\ work' \in [Client -> Jobs \cup {None}]
         /\ pc'[f] = "idle" /\ work'[f] = None /\ inside'[f] = Outside
         /\ \A g \in Client \ {f} : pc'[g] = pc[g] /\ work'[g] = work[g] /\ inside'[g] = inside[g]
  <1>1. inside \in [Client -> Resource \cup {Outside}]
    BY DEF Shapes, TypeOK, LockTypeOK
  <1> QED
    BY <1>1 DEF Shapes, TypeOK, Jobs, Step, Return, Release, Exit, lockVars

LEMMA AbandonFlows ==
  ASSUME Shapes, NEW f \in Client, Crash(f)
  PROVE  /\ pc' \in [Client -> Step] /\ work' \in [Client -> Jobs \cup {None}]
         /\ pc'[f] = "idle" /\ work'[f] = None /\ inside'[f] = Outside
         /\ \A g \in Client \ {f} : pc'[g] = pc[g] /\ work'[g] = work[g] /\ inside'[g] = inside[g]
  <1>1. inside \in [Client -> Resource \cup {Outside}]
    BY DEF Shapes, TypeOK, LockTypeOK
  <1> QED
    BY <1>1 DEF Shapes, TypeOK, Jobs, Step, Crash, Abandon, Exit

\* A request or a cron pass begins, with or without a lock.
LEMMA BeginFlows ==
  ASSUME Shapes, NEW f \in Client, NEW step \in Step, step # "idle", NEW job \in Jobs,
         Begin(f, step, job), UNCHANGED inside \/ \E r \in Resource : Acquire(f, r)
  PROVE  /\ pc' \in [Client -> Step] /\ work' \in [Client -> Jobs \cup {None}]
         /\ pc[f] = "idle" /\ pc'[f] = step /\ work'[f] = job
         /\ \A g \in Client \ {f} : pc'[g] = pc[g] /\ work'[g] = work[g] /\ inside'[g] = inside[g]
  <1>1. inside \in [Client -> Resource \cup {Outside}]
    BY DEF Shapes, TypeOK, LockTypeOK
  <1> QED
    BY <1>1 DEF Shapes, TypeOK, Jobs, Step, Begin, Acquire

LEMMA JobIsJob ==
  ASSUME NEW u \in User, NEW c \in Charge \cup {None}, NEW on \in BOOLEAN
  PROVE  /\ Job(u, c, on) \in Jobs
         /\ Job(u, c, on).charge = c /\ Job(u, c, on).user = u
  BY DEF Job, Jobs

\* A handler that has found document d goes on with it.
LEMMA FoundFlows ==
  ASSUME Shapes, NEW f \in Client, pc[f] # "idle", NEW step \in Step, step # "idle",
         NEW d \in Charge, NEW until \in Nat \cup {NoDate}, Found(f, step, d, until)
  PROVE  /\ pc' \in [Client -> Step] /\ work' \in [Client -> Jobs \cup {None}]
         /\ pc'[f] = step /\ work'[f].doc = d /\ work'[f].until = until
         /\ work'[f].charge = work[f].charge /\ work'[f].user = work[f].user
         /\ work'[f] \in Jobs
         /\ \A g \in Client \ {f} : pc'[g] = pc[g] /\ work'[g] = work[g]
  <1>1. /\ pc \in [Client -> Step] /\ work \in [Client -> Jobs \cup {None}] /\ work[f] \in Jobs
    BY DEF Shapes, TypeOK, JobShape
  <1>2. /\ pc' = [pc EXCEPT ![f] = step]
        /\ work' = [work EXCEPT ![f] = [@ EXCEPT !.doc = d, !.until = until]]
    BY DEF Found
  <1>3. [work[f] EXCEPT !.doc = d, !.until = until] \in Jobs
    BY <1>1 DEF Jobs
  <1> QED
    BY <1>1, <1>2, <1>3 DEF Jobs

LEMMA ShapePay ==
  ASSUME Shapes, LockTypeOK', NEW c \in Charge, Pay(c)
  PROVE  Shapes'
  <1>1. TypeOK'
    BY BoundAssumption DEF Shapes, TypeOK, Pay, docVars, flowVars, history, lockVars
  <1>2. JobShape'
    BY BoundAssumption DEF Shapes, JobShape, Absent, LockTypeOK, Pay, docVars, flowVars, lockVars
  <1>3. DocShape'
    BY BoundAssumption DEF Shapes, DocShape, Absent, Pay, docVars
  <1> QED
    BY <1>1, <1>2, <1>3 DEF Shapes

LEMMA ShapeFindCharge ==
  ASSUME Shapes, LockTypeOK', NEW f \in Client, FindCharge(f)
  PROVE  Shapes'
  <1>1. TypeOK'
    BY DEF Shapes, TypeOK, Step, FindCharge, Goto, docVars, botVars, history, lockVars
  <1>2. JobShape'
    BY DEF Shapes, JobShape, PaymentStep, ChargeStep, Absent, LockTypeOK, FindCharge, Goto, docVars,
           botVars, lockVars
  <1>3. DocShape'
    BY DEF Shapes, DocShape, Absent, FindCharge, docVars
  <1> QED
    BY <1>1, <1>2, <1>3 DEF Shapes

LEMMA ShapeRenew ==
  ASSUME Shapes, LockTypeOK', NEW f \in Client, Renew(f)
  PROVE  Shapes'
  <1>1. TypeOK'
    BY DEF Shapes, TypeOK, JobShape, DocShape, PaymentStep, ChargeStep, Step, Renew, Goto, Credit,
           BeingEnded, SlipKind, botVars, lockVars
  <1>2. JobShape'
    BY DEF Shapes, JobShape, PaymentStep, ChargeStep, Absent, LockTypeOK, Renew, Goto, botVars,
           lockVars
  <1>3. DocShape'
    BY DEF Shapes, JobShape, DocShape, PaymentStep, ChargeStep, Absent, Renew
  <1> QED
    BY <1>1, <1>2, <1>3 DEF Shapes

LEMMA ShapeActivate ==
  ASSUME Shapes, LockTypeOK', NEW f \in Client, Activate(f)
  PROVE  Shapes'
  <1>1. TypeOK'
    BY DEF Shapes, TypeOK, JobShape, Jobs, PaymentStep, ChargeStep, Step, Activate, Goto, docVars,
           botVars, lockVars
  <1>2. JobShape'
    BY DEF Shapes, JobShape, PaymentStep, ChargeStep, Absent, LockTypeOK, Activate, Goto, docVars,
           botVars, lockVars
  <1>3. DocShape'
    BY DEF Shapes, DocShape, Absent, Activate, docVars
  <1> QED
    BY <1>1, <1>2, <1>3 DEF Shapes

LEMMA ShapeSetAutoRenew ==
  ASSUME Shapes, LockTypeOK', NEW f \in Client, SetAutoRenew(f)
  PROVE  Shapes'
  <1>1. TypeOK'
    BY DEF Shapes, TypeOK, JobShape, PaymentStep, ChargeStep, Step, SetAutoRenew, Goto, Slip,
           UnderWay, SlipKind, Status, botVars, lockVars
  <1>2. JobShape'
    BY DEF Shapes, JobShape, PaymentStep, ChargeStep, Absent, LockTypeOK, SetAutoRenew, Goto,
           Status, botVars, lockVars
  <1>3. DocShape'
    BY DEF Shapes, JobShape, DocShape, Absent, SetAutoRenew, Status
  <1> QED
    BY <1>1, <1>2, <1>3 DEF Shapes

LEMMA ShapeRefundSub ==
  ASSUME Shapes, LockTypeOK', NEW f \in Client, RefundSub(f)
  PROVE  Shapes'
  <1>1. TypeOK'
    BY ChargeAssumption
    DEF Shapes, TypeOK, Step, RefundSub, Goto, Processed, Status, botVars, history, lockVars
  <1>2. JobShape'
    BY ChargeAssumption
    DEF Shapes, TypeOK, JobShape, PaymentStep, ChargeStep, Absent, LockTypeOK, RefundSub, Goto,
        Processed, Status, botVars, lockVars
  <1>3. DocShape'
    BY ChargeAssumption
    DEF Shapes, TypeOK, JobShape, DocShape, ChargeStep, Absent, RefundSub, Processed, Status
  <1> QED
    BY <1>1, <1>2, <1>3 DEF Shapes

LEMMA ShapeSetExpired ==
  ASSUME Shapes, LockTypeOK', NEW f \in Client, SetExpired(f)
  PROVE  Shapes'
  <1>1. TypeOK'
    BY DEF Shapes, TypeOK, JobShape, DocShape, ChargeStep, Step, SetExpired, Goto, Slip, Stale,
           SlipKind, Status, botVars, lockVars
  <1>2. JobShape'
    BY DEF Shapes, JobShape, PaymentStep, ChargeStep, Absent, LockTypeOK, SetExpired, Goto, Stale,
           Status, botVars, lockVars
  <1>3. DocShape'
    BY DEF Shapes, JobShape, DocShape, Absent, SetExpired, Stale, Status
  <1> QED
    BY <1>1, <1>2, <1>3 DEF Shapes

LEMMA ShapeLoseLock ==
  ASSUME Shapes, LockTypeOK', NEW r \in Resource, LoseLock(r)
  PROVE  Shapes'
  <1>1. TypeOK'
    BY BoundAssumption
    DEF Shapes, TypeOK, LoseLock, AcquireUnanswered, Fault, docVars, botVars, flowVars, history
  <1>2. JobShape'
    BY BoundAssumption
    DEF Shapes, JobShape, Absent, LockTypeOK, LoseLock, AcquireUnanswered, docVars, botVars,
        flowVars
  <1>3. DocShape'
    BY BoundAssumption DEF Shapes, DocShape, Absent, LoseLock, AcquireUnanswered, docVars
  <1> QED
    BY <1>1, <1>2, <1>3 DEF Shapes

LEMMA ShapeExpireLock ==
  ASSUME Shapes, LockTypeOK', NEW r \in Resource, ExpireLock(r)
  PROVE  Shapes'
  <1>1. TypeOK'
    BY BoundAssumption
    DEF Shapes, TypeOK, ExpireLock, Expire, Fault, Slip, SlipKind, docVars, botVars, flowVars
  <1>2. JobShape'
    BY BoundAssumption
    DEF Shapes, JobShape, Absent, LockTypeOK, ExpireLock, Expire, docVars, botVars, flowVars
  <1>3. DocShape'
    BY BoundAssumption DEF Shapes, DocShape, Absent, ExpireLock, Expire, docVars
  <1> QED
    BY <1>1, <1>2, <1>3 DEF Shapes

LEMMA ShapeBeginPayment ==
  ASSUME Shapes, LockTypeOK', NEW f \in Client, NEW c \in Charge, BeginPayment(f, c)
  PROVE  Shapes'
  <1> DEFINE job == Job(Payer[c], c, TRUE)
  <1>1. job \in Jobs /\ job.charge = c
    BY JobIsJob, PayerAssumption
  <1> HIDE DEF job
  <1>2. Begin(f, "findCharge", job)
    BY DEF BeginPayment, job
  <1>3. UNCHANGED inside \/ \E r \in Resource : Acquire(f, r)
    BY ResourceAssumption DEF BeginPayment
  <1>4. /\ pc' \in [Client -> Step] /\ work' \in [Client -> Jobs \cup {None}]
        /\ pc[f] = "idle" /\ pc'[f] = "findCharge" /\ work'[f] = job
        /\ \A g \in Client \ {f} : pc'[g] = pc[g] /\ work'[g] = work[g] /\ inside'[g] = inside[g]
    BY <1>1, <1>2, <1>3, BeginFlows DEF Step
  <1>5. TypeOK'
    BY <1>1, <1>4, BoundAssumption, ResourceAssumption, PayerAssumption
    DEF Shapes, TypeOK, JobShape, Jobs, PaymentStep, ChargeStep, BeginPayment, Slip, SlipKind,
        UnderWay, Acquire, docVars
  <1>6. JobShape'
    BY <1>1, <1>4, BoundAssumption, ResourceAssumption, PayerAssumption
    DEF Shapes, JobShape, Absent, LockTypeOK, BeginPayment, Acquire, docVars
  <1>7. DocShape'
    BY <1>1, <1>4, BoundAssumption, ResourceAssumption, PayerAssumption
    DEF Shapes, DocShape, Absent, BeginPayment, docVars
  <1> QED
    BY <1>5, <1>6, <1>7 DEF Shapes

LEMMA ShapeBeginInvoice ==
  ASSUME Shapes, LockTypeOK', NEW f \in Client, NEW u \in User, BeginInvoice(f, u)
  PROVE  Shapes'
  <1> DEFINE job == Job(u, None, TRUE)
  <1>1. job \in Jobs /\ job.charge = None
    BY JobIsJob, PayerAssumption
  <1> HIDE DEF job
  <1>2. Begin(f, "link", job)
    BY DEF BeginInvoice, job
  <1>3. UNCHANGED inside \/ \E r \in Resource : Acquire(f, r)
    BY ResourceAssumption DEF BeginInvoice
  <1>4. /\ pc' \in [Client -> Step] /\ work' \in [Client -> Jobs \cup {None}]
        /\ pc[f] = "idle" /\ pc'[f] = "link" /\ work'[f] = job
        /\ \A g \in Client \ {f} : pc'[g] = pc[g] /\ work'[g] = work[g] /\ inside'[g] = inside[g]
    BY <1>1, <1>2, <1>3, BeginFlows DEF Step
  <1>5. TypeOK'
    BY <1>1, <1>4, BoundAssumption, ResourceAssumption
    DEF Shapes, TypeOK, Jobs, BeginInvoice, Request, docVars, botVars, history
  <1>6. JobShape'
    BY <1>1, <1>4, BoundAssumption, ResourceAssumption
    DEF Shapes, JobShape, PaymentStep, ChargeStep, Absent, LockTypeOK, BeginInvoice, Request,
        docVars, botVars
  <1>7. DocShape'
    BY <1>1, <1>4, BoundAssumption, ResourceAssumption
    DEF Shapes, DocShape, Absent, BeginInvoice, Request, docVars
  <1> QED
    BY <1>5, <1>6, <1>7 DEF Shapes

LEMMA ShapeBeginAutoRenew ==
  ASSUME Shapes, LockTypeOK', NEW f \in Client, NEW u \in User, NEW on \in BOOLEAN,
         BeginAutoRenew(f, u, on)
  PROVE  Shapes'
  <1> DEFINE job == Job(u, None, on)
  <1>1. job \in Jobs /\ job.charge = None
    BY JobIsJob, PayerAssumption
  <1> HIDE DEF job
  <1>2. Begin(f, "findCurrent", job)
    BY DEF BeginAutoRenew, job
  <1>3. UNCHANGED inside \/ \E r \in Resource : Acquire(f, r)
    BY ResourceAssumption DEF BeginAutoRenew
  <1>4. /\ pc' \in [Client -> Step] /\ work' \in [Client -> Jobs \cup {None}]
        /\ pc[f] = "idle" /\ pc'[f] = "findCurrent" /\ work'[f] = job
        /\ \A g \in Client \ {f} : pc'[g] = pc[g] /\ work'[g] = work[g] /\ inside'[g] = inside[g]
    BY <1>1, <1>2, <1>3, BeginFlows DEF Step
  <1>5. TypeOK'
    BY <1>1, <1>4, BoundAssumption, ResourceAssumption
    DEF Shapes, TypeOK, Jobs, BeginAutoRenew, Request, docVars, botVars, history
  <1>6. JobShape'
    BY <1>1, <1>4, BoundAssumption, ResourceAssumption
    DEF Shapes, JobShape, PaymentStep, ChargeStep, Absent, LockTypeOK, BeginAutoRenew, Request,
        docVars, botVars
  <1>7. DocShape'
    BY <1>1, <1>4, BoundAssumption, ResourceAssumption
    DEF Shapes, DocShape, Absent, BeginAutoRenew, Request, docVars
  <1> QED
    BY <1>5, <1>6, <1>7 DEF Shapes

LEMMA ShapeBeginRefund ==
  ASSUME Shapes, LockTypeOK', NEW f \in Client, NEW c \in Charge, BeginRefund(f, c)
  PROVE  Shapes'
  <1> DEFINE job == Job(Payer[c], c, FALSE)
  <1>1. job \in Jobs /\ job.charge = c
    BY JobIsJob, PayerAssumption
  <1> HIDE DEF job
  <1>2. Begin(f, "refundSub", job)
    BY DEF BeginRefund, job
  <1>3. UNCHANGED inside \/ \E r \in Resource : Acquire(f, r)
    BY ResourceAssumption DEF BeginRefund, lockVars
  <1>4. /\ pc' \in [Client -> Step] /\ work' \in [Client -> Jobs \cup {None}]
        /\ pc[f] = "idle" /\ pc'[f] = "refundSub" /\ work'[f] = job
        /\ \A g \in Client \ {f} : pc'[g] = pc[g] /\ work'[g] = work[g] /\ inside'[g] = inside[g]
    BY <1>1, <1>2, <1>3, BeginFlows DEF Step
  <1>5. TypeOK'
    BY <1>1, <1>4, BoundAssumption, PayerAssumption
    DEF Shapes, TypeOK, Jobs, BeginRefund, Request, Slip, SlipKind, docVars, botVars, lockVars
  <1>6. JobShape'
    BY <1>1, <1>4, BoundAssumption, PayerAssumption
    DEF Shapes, JobShape, PaymentStep, Absent, LockTypeOK, BeginRefund, Request, docVars, botVars,
        lockVars
  <1>7. DocShape'
    BY <1>1, <1>4, BoundAssumption, PayerAssumption
    DEF Shapes, DocShape, Absent, BeginRefund, Request, docVars
  <1> QED
    BY <1>5, <1>6, <1>7 DEF Shapes

LEMMA ShapeFindStale ==
  ASSUME Shapes, LockTypeOK', NEW f \in Client, NEW d \in Charge, FindStale(f, d)
  PROVE  Shapes'
  <1> DEFINE job == Job(Payer[d], d, FALSE)
  <1>1. job \in Jobs /\ job.charge = d
    BY JobIsJob, PayerAssumption
  <1> HIDE DEF job
  <1>2. Begin(f, "setExpired", job)
    BY DEF FindStale, job
  <1>3. UNCHANGED inside \/ \E r \in Resource : Acquire(f, r)
    BY ResourceAssumption DEF FindStale, lockVars
  <1>4. /\ pc' \in [Client -> Step] /\ work' \in [Client -> Jobs \cup {None}]
        /\ pc[f] = "idle" /\ pc'[f] = "setExpired" /\ work'[f] = job
        /\ \A g \in Client \ {f} : pc'[g] = pc[g] /\ work'[g] = work[g] /\ inside'[g] = inside[g]
    BY <1>1, <1>2, <1>3, BeginFlows DEF Step
  <1>5. TypeOK'
    BY <1>1, <1>4, PayerAssumption
    DEF Shapes, TypeOK, Jobs, FindStale, Stale, Over, Absent, docVars, botVars, history, lockVars
  <1>6. JobShape'
    BY <1>1, <1>4, PayerAssumption
    DEF Shapes, JobShape, PaymentStep, Absent, LockTypeOK, FindStale, Stale, Over, docVars, botVars,
        lockVars
  <1>7. DocShape'
    BY <1>1, <1>4, PayerAssumption DEF Shapes, DocShape, Absent, FindStale, Stale, Over, docVars
  <1> QED
    BY <1>5, <1>6, <1>7 DEF Shapes

LEMMA ShapeFindDeferred ==
  ASSUME Shapes, LockTypeOK', NEW f \in Client, NEW d \in Charge, FindDeferred(f, d)
  PROVE  Shapes'
  <1> DEFINE job == [Job(Payer[d], d, FALSE) EXCEPT !.until = expires[d]]
  <1>1. job \in Jobs /\ job.charge = d
    <2>1. expires[d] \in Nat \cup {NoDate}
      BY DEF Shapes, TypeOK
    <2> QED
      BY <2>1, PayerAssumption DEF Job, Jobs
  <1> HIDE DEF job
  <1>2. Begin(f, "takeDeferred", job)
    BY DEF FindDeferred, job
  <1>3. UNCHANGED inside \/ \E r \in Resource : Acquire(f, r)
    BY ResourceAssumption DEF FindDeferred, lockVars
  <1>4. /\ pc' \in [Client -> Step] /\ work' \in [Client -> Jobs \cup {None}]
        /\ pc[f] = "idle" /\ pc'[f] = "takeDeferred" /\ work'[f] = job
        /\ \A g \in Client \ {f} : pc'[g] = pc[g] /\ work'[g] = work[g] /\ inside'[g] = inside[g]
    BY <1>1, <1>2, <1>3, BeginFlows DEF Step
  <1>5. TypeOK'
    BY <1>1, <1>4, PayerAssumption
    DEF Shapes, TypeOK, Jobs, FindDeferred, DeferralDue, docVars, botVars, history, lockVars
  <1>6. JobShape'
    BY <1>1, <1>4, PayerAssumption
    DEF Shapes, JobShape, PaymentStep, Absent, LockTypeOK, FindDeferred, DeferralDue, docVars,
        botVars, lockVars
  <1>7. DocShape'
    BY <1>1, <1>4, PayerAssumption DEF Shapes, DocShape, Absent, FindDeferred, DeferralDue, docVars
  <1> QED
    BY <1>5, <1>6, <1>7 DEF Shapes

LEMMA ShapeAnswer ==
  ASSUME Shapes, LockTypeOK', NEW f \in Client, Answer(f)
  PROVE  Shapes'
  <1>1. TypeOK'
    BY ReturnFlows DEF Shapes, TypeOK, JobShape, PaymentStep, ChargeStep, Answer, docVars, history
  <1>2. JobShape'
    BY ReturnFlows
    DEF Shapes, JobShape, PaymentStep, ChargeStep, Absent, LockTypeOK, Answer, docVars
  <1>3. DocShape'
    BY ReturnFlows DEF Shapes, DocShape, Absent, Answer, docVars
  <1> QED
    BY <1>1, <1>2, <1>3 DEF Shapes

LEMMA ShapeLink ==
  ASSUME Shapes, LockTypeOK', NEW f \in Client, Link(f)
  PROVE  Shapes'
  <1>1. TypeOK'
    BY ReturnFlows DEF Shapes, TypeOK, Link, docVars, botVars, history
  <1>2. JobShape'
    BY ReturnFlows
    DEF Shapes, JobShape, PaymentStep, ChargeStep, Absent, LockTypeOK, Link, docVars, botVars
  <1>3. DocShape'
    BY ReturnFlows DEF Shapes, DocShape, Absent, Link, docVars
  <1> QED
    BY <1>1, <1>2, <1>3 DEF Shapes

LEMMA ShapeDone ==
  ASSUME Shapes, LockTypeOK', NEW f \in Client, Done(f)
  PROVE  Shapes'
  <1>1. TypeOK'
    BY ReturnFlows DEF Shapes, TypeOK, Done, docVars, botVars, history
  <1>2. JobShape'
    BY ReturnFlows
    DEF Shapes, JobShape, PaymentStep, ChargeStep, Absent, LockTypeOK, Done, docVars, botVars
  <1>3. DocShape'
    BY ReturnFlows DEF Shapes, DocShape, Absent, Done, docVars
  <1> QED
    BY <1>1, <1>2, <1>3 DEF Shapes

LEMMA ShapeRefundUser ==
  ASSUME Shapes, LockTypeOK', NEW f \in Client, RefundUser(f)
  PROVE  Shapes'
  <1>1. TypeOK'
    <2>1. isPro' \in [User -> BOOLEAN]
      BY DEF Shapes, TypeOK, RefundUser
    <2> QED
      BY <2>1, ReturnFlows DEF Shapes, TypeOK, RefundUser, docVars, botVars, history
  <1>2. JobShape'
    BY ReturnFlows
    DEF Shapes, JobShape, PaymentStep, ChargeStep, Absent, LockTypeOK, RefundUser, docVars, botVars
  <1>3. DocShape'
    BY ReturnFlows DEF Shapes, DocShape, Absent, RefundUser, docVars
  <1> QED
    BY <1>1, <1>2, <1>3 DEF Shapes

LEMMA ShapeDropPro ==
  ASSUME Shapes, LockTypeOK', NEW f \in Client, DropPro(f)
  PROVE  Shapes'
  <1>1. TypeOK'
    <2>1. \A d : ToActivate(d) \subseteq Charge
      BY DEF Shapes, JobShape, ChargeStep, PaymentStep, ToActivate
    <2>2. slips' \subseteq SlipKind \X Charge
      BY <2>1 DEF Shapes, TypeOK, DropPro, Slip, SlipKind
    <2>3. isPro' \in [User -> BOOLEAN]
      BY DEF Shapes, TypeOK, DropPro
    <2> QED
      BY <2>2, <2>3, ReturnFlows DEF Shapes, TypeOK, DropPro, docVars, botVars
  <1>2. JobShape'
    BY ReturnFlows
    DEF Shapes, JobShape, PaymentStep, ChargeStep, Absent, LockTypeOK, DropPro, docVars, botVars
  <1>3. DocShape'
    BY ReturnFlows DEF Shapes, DocShape, Absent, DropPro, docVars
  <1> QED
    BY <1>1, <1>2, <1>3 DEF Shapes

LEMMA ShapeThrow ==
  ASSUME Shapes, LockTypeOK', NEW f \in Client, Throw(f)
  PROVE  Shapes'
  <1>1. TypeOK'
    <2>1. slips' \subseteq SlipKind \X Charge
      BY DEF Shapes, TypeOK, JobShape, Jobs, PaymentStep, ChargeStep, Throw, CutOff, SlipKind
    <2>2. faults' \in 0..MaxFaults
      BY BoundAssumption DEF Shapes, TypeOK, Throw, Fault
    <2> QED
      BY <2>1, <2>2, ReturnFlows DEF Shapes, TypeOK, Throw, docVars, botVars
  <1>2. JobShape'
    BY BoundAssumption, ReturnFlows
    DEF Shapes, JobShape, PaymentStep, ChargeStep, Absent, LockTypeOK, Throw, docVars, botVars
  <1>3. DocShape'
    BY BoundAssumption, ReturnFlows DEF Shapes, DocShape, Absent, Throw, docVars
  <1> QED
    BY <1>1, <1>2, <1>3 DEF Shapes

LEMMA ShapeTakeDeferred ==
  ASSUME Shapes, LockTypeOK', NEW f \in Client, TakeDeferred(f)
  PROVE  Shapes'
  <1>1. TypeOK'
    <2>1. deferred' \in [Charge -> BOOLEAN]
      BY DEF Shapes, TypeOK, TakeDeferred
    <2>2. slips' \subseteq SlipKind \X Charge
      <3>1. latest[work[f].charge] \in Charge
        BY DEF TakeDeferred, Shapes, JobShape, DocShape, ChargeStep
      <3> QED
        BY <3>1 DEF TakeDeferred, Slip, SlipKind, Shapes, TypeOK
    <2>3. CASE Goto(f, "dropPro") /\ UNCHANGED lockVars
      BY <2>1, <2>3, <2>2 DEF Shapes, TypeOK, Step, TakeDeferred, Goto, botVars, lockVars
    <2>4. CASE Return(f)
      BY <2>1, <2>4, <2>2, ReturnFlows DEF Shapes, TypeOK, Jobs, TakeDeferred, botVars
    <2> QED
      BY <2>3, <2>4 DEF TakeDeferred
  <1>2. JobShape'
    BY ReturnFlows
    DEF Shapes, TypeOK, JobShape, PaymentStep, ChargeStep, Absent, LockTypeOK, TakeDeferred, Goto,
        botVars, lockVars
  <1>3. DocShape'
    BY ReturnFlows DEF Shapes, DocShape, Absent, TakeDeferred
  <1> QED
    BY <1>1, <1>2, <1>3 DEF Shapes

LEMMA ShapeCrash ==
  ASSUME Shapes, LockTypeOK', NEW f \in Client, Crash(f)
  PROVE  Shapes'
  <1>1. /\ pc' \in [Client -> Step] /\ work' \in [Client -> Jobs \cup {None}]
        /\ pc'[f] = "idle" /\ work'[f] = None /\ inside'[f] = Outside
        /\ \A g \in Client \ {f} : pc'[g] = pc[g] /\ work'[g] = work[g] /\ inside'[g] = inside[g]
    BY AbandonFlows
  <1>2. /\ pc[f] # "idle" /\ Fault /\ CutOff(f)
        /\ UNCHANGED <<botVars, docVars, isPro, requests, now, credits, activated, refunded>>
    BY DEF Crash
  <1>3. TypeOK'
    BY <1>1, <1>2, BoundAssumption
    DEF Shapes, TypeOK, JobShape, PaymentStep, ChargeStep, Fault, CutOff, SlipKind, docVars, botVars
  <1>4. JobShape'
    BY <1>1, <1>2 DEF Shapes, JobShape, PaymentStep, ChargeStep, docVars, botVars
  <1>5. DocShape'
    BY <1>2 DEF Shapes, DocShape, docVars
  <1> QED
    BY <1>3, <1>4, <1>5 DEF Shapes

LEMMA ShapeTick ==
  ASSUME Shapes, LockTypeOK', Tick
  PROVE  Shapes'
  <1>1. ASSUME NEW f \in Client, pc[f] # "idle"
        PROVE  /\ work'[f] \in Jobs /\ work'[f].charge = work[f].charge
               /\ work'[f].doc = work[f].doc /\ work'[f].until = work[f].until
    BY <1>1 DEF Shapes, JobShape, Jobs, Tick
  <1>2. ASSUME NEW f \in Client, pc[f] = "idle"
        PROVE  work'[f] = None
    BY <1>2 DEF Tick
  <1>3. work' \in [Client -> Jobs \cup {None}]
    <2>1. work' = [f \in Client |-> work'[f]]
      BY DEF Tick
    <2> QED
      BY <2>1, <1>1, <1>2
  <1>4. /\ now' = now + 1
        /\ UNCHANGED <<lockVars, botVars, docVars, isPro, pc, requests, faults, history>>
    BY DEF Tick
  <1>5. TypeOK'
    BY <1>2, <1>3, <1>4 DEF Shapes, TypeOK, Jobs, docVars, botVars, history, lockVars
  <1>6. JobShape'
    BY <1>1, <1>4 DEF Shapes, JobShape, PaymentStep, ChargeStep, docVars, botVars, lockVars
  <1>7. DocShape'
    BY <1>4 DEF Shapes, DocShape, docVars
  <1> QED
    BY <1>5, <1>6, <1>7 DEF Shapes

LEMMA ShapeFindCurrent ==
  ASSUME Shapes, LockTypeOK', NEW f \in Client, FindCurrent(f)
  PROVE  Shapes'
  <1>1. /\ pc[f] = "findCurrent"
        /\ UNCHANGED <<botVars, docVars, isPro, requests, now, faults, credits, activated,
                       refunded>>
    BY DEF FindCurrent
  <1>2. CASE Return(f) /\ UNCHANGED slips
    BY <1>1, <1>2, ReturnFlows
    DEF Shapes, TypeOK, JobShape, DocShape, PaymentStep, ChargeStep, docVars, botVars
  <1>3. CASE /\ \E d \in Docs(work[f].user) :
                  /\ Found(f, "setAutoRenew", d, NoDate)
                  /\ Slip("beside", IF Beside(d) THEN {d} ELSE {})
             /\ UNCHANGED lockVars
    <2>1. PICK d \in Charge : /\ status[d] # Absent /\ Found(f, "setAutoRenew", d, NoDate)
                              /\ Slip("beside", IF Beside(d) THEN {d} ELSE {})
                              /\ UNCHANGED lockVars
      BY <1>3 DEF Docs
    <2>2. /\ pc' \in [Client -> Step] /\ work' \in [Client -> Jobs \cup {None}]
          /\ pc'[f] = "setAutoRenew" /\ work'[f].doc = d /\ work'[f].until = NoDate
          /\ work'[f].charge = work[f].charge /\ work'[f].user = work[f].user
          /\ work'[f] \in Jobs
          /\ \A g \in Client \ {f} : pc'[g] = pc[g] /\ work'[g] = work[g]
      BY <1>1, <2>1, FoundFlows DEF Step
    <2>3. slips' \subseteq SlipKind \X Charge
      BY <2>1 DEF Slip, SlipKind, Shapes, TypeOK
    <2> QED
      BY <1>1, <2>1, <2>2, <2>3
      DEF Shapes, TypeOK, JobShape, DocShape, Jobs, PaymentStep, ChargeStep, docVars, botVars,
          lockVars
  <1> QED
    BY <1>2, <1>3 DEF FindCurrent

LEMMA UntilIsDate ==
  ASSUME Shapes, NEW c \in Charge, paidAt[c] # NoDate
  PROVE  /\ FirstUntil(c) \in Nat
         /\ \A d \in Charge : status[d] # Absent => RenewedUntil(c, d) \in Nat
  <1>1. paidAt[c] \in Nat /\ now \in Nat
    BY BoundAssumption DEF Shapes, TypeOK
  <1> QED
    BY <1>1, PeriodAssumption DEF Shapes, DocShape, FirstUntil, RenewedUntil, TelegramUntil, Later

LEMMA ShapeFindActive ==
  ASSUME Shapes, LockTypeOK', NEW f \in Client, FindActive(f)
  PROVE  Shapes'
  <1> DEFINE c == work[f].charge
  <1>1. /\ pc[f] = "findActive" /\ c \in Charge /\ paidAt[c] # NoDate /\ inside[f] = c
        /\ UNCHANGED <<lockVars, botVars, docVars, isPro, requests, now, faults, credits,
                       activated, refunded>>
        /\ slips' \in {slips, slips \cup ({"crossed"} \X {c})}
    BY DEF FindActive, Slip, Shapes, JobShape, PaymentStep, ChargeStep
  <1>2. CASE Found(f, "create", c, FirstUntil(c))
    <2>1. FirstUntil(c) \in Nat
      BY <1>1, UntilIsDate
    <2>2. /\ pc' \in [Client -> Step] /\ work' \in [Client -> Jobs \cup {None}]
          /\ pc'[f] = "create" /\ work'[f].doc = c /\ work'[f].until = FirstUntil(c)
          /\ work'[f].charge = work[f].charge /\ work'[f].user = work[f].user
          /\ work'[f] \in Jobs
          /\ \A g \in Client \ {f} : pc'[g] = pc[g] /\ work'[g] = work[g]
      BY <1>1, <1>2, <2>1, FoundFlows DEF Step
    <2> QED
      BY <1>1, <2>1, <2>2
      DEF Shapes, TypeOK, JobShape, DocShape, Jobs, SlipKind, docVars, botVars, lockVars
  <1>3. CASE \E d \in Docs(work[f].user) : Found(f, "renew", d, RenewedUntil(c, d))
    <2>1. PICK d \in Charge : status[d] # Absent /\ Found(f, "renew", d, RenewedUntil(c, d))
      BY <1>3 DEF Docs
    <2>2. RenewedUntil(c, d) \in Nat
      BY <1>1, <2>1, UntilIsDate
    <2>3. /\ pc' \in [Client -> Step] /\ work' \in [Client -> Jobs \cup {None}]
          /\ pc'[f] = "renew" /\ work'[f].doc = d /\ work'[f].until = RenewedUntil(c, d)
          /\ work'[f].charge = work[f].charge /\ work'[f].user = work[f].user
          /\ work'[f] \in Jobs
          /\ \A g \in Client \ {f} : pc'[g] = pc[g] /\ work'[g] = work[g]
      BY <1>1, <2>1, <2>2, FoundFlows DEF Step
    <2> QED
      BY <1>1, <2>1, <2>2, <2>3
      DEF Shapes, TypeOK, JobShape, DocShape, Jobs, SlipKind, docVars, botVars, lockVars
  <1> QED
    BY <1>2, <1>3 DEF FindActive

LEMMA ShapeCreate ==
  ASSUME Shapes, LockTypeOK', NEW f \in Client, Create(f)
  PROVE  Shapes'
  <1> DEFINE c == work[f].charge
  <1>1. /\ pc[f] = "create" /\ c \in Charge /\ work[f].until \in Nat
        /\ UNCHANGED <<botVars, deferred, isPro, requests, now, faults, activated, refunded>>
    BY DEF Create, Shapes, JobShape, PaymentStep, ChargeStep
  <1>2. CASE status[c] = Absent
    <2>1. Cardinality({d \in Charge : born[d] > 0}) \in Nat
      BY ChargeAssumption, FS_Subset, FS_CardinalityType
    <2> DEFINE next == 1 + Cardinality({d \in Charge : born[d] > 0})
    <2>2. next \in Nat /\ born' = [born EXCEPT ![c] = next]
      BY <1>1, <1>2, <2>1 DEF Create
    <2> HIDE DEF next
    <2>3. /\ status' = [status EXCEPT ![c] = "ACTIVE"]
          /\ expires' = [expires EXCEPT ![c] = work[f].until]
          /\ latest' = [latest EXCEPT ![c] = c]
          /\ Credit(c) /\ Goto(f, "activate") /\ UNCHANGED lockVars
          /\ Slip("beside", IF Beside(c) THEN {c} ELSE {})
      BY <1>2 DEF Create
    <2>4. slips' \subseteq SlipKind \X Charge
      BY <1>1, <2>3 DEF Slip, SlipKind, Shapes, TypeOK
    <2>5. TypeOK'
      BY <1>1, <2>2, <2>3, <2>4 DEF Shapes, TypeOK, Step, Status, Credit, Goto, botVars, lockVars
    <2>6. JobShape' /\ DocShape'
      BY <1>1, <2>3
      DEF Shapes, TypeOK, JobShape, DocShape, PaymentStep, Absent, Goto, botVars, lockVars
    <2> QED
      BY <2>5, <2>6 DEF Shapes
  <1>3. CASE status[c] # Absent
    BY <1>1, <1>3, ReturnFlows
    DEF Create, Shapes, TypeOK, JobShape, DocShape, PaymentStep, ChargeStep, botVars
  <1> QED
    BY <1>2, <1>3

\* One case for each action.
LEMMA ShapeNext ==
  ASSUME Shape, [Next]_vars
  PROVE  Shape'
  <1>1. Shapes /\ LockTypeOK' /\ TimelyHolds' /\ LockShape'
    BY LockPart DEF Shape, Shapes
  <1>2. CASE \E c \in Charge : Pay(c)
    BY <1>1, <1>2, ShapePay DEF Shape, Shapes
  <1>3. ASSUME NEW f \in Client, RequestNext(f) PROVE Shape'
    BY <1>1, <1>3, ShapeBeginPayment, ShapeBeginRefund, ShapeBeginInvoice, ShapeBeginAutoRenew
    DEF RequestNext, Shape, Shapes
  <1>4. ASSUME NEW f \in Client, HandlerNext(f) PROVE Shape'
    BY <1>1, <1>4, ShapeFindCharge, ShapeFindActive, ShapeRenew, ShapeCreate, ShapeActivate,
       ShapeAnswer,
       ShapeLink, ShapeFindCurrent, ShapeSetAutoRenew, ShapeDone, ShapeRefundSub, ShapeRefundUser,
       ShapeSetExpired, ShapeTakeDeferred, ShapeDropPro
    DEF HandlerNext, Shape, Shapes
  <1>5. ASSUME NEW f \in Client, CronNext(f) PROVE Shape'
    BY <1>1, <1>5, ShapeFindStale, ShapeFindDeferred DEF CronNext, Shape, Shapes
  <1>6. ASSUME NEW f \in Client, Throw(f) \/ Crash(f) PROVE Shape'
    BY <1>1, <1>6, ShapeThrow, ShapeCrash DEF Shape, Shapes
  <1>7. ASSUME NEW r \in Resource, LoseLock(r) \/ ExpireLock(r) PROVE Shape'
    BY <1>1, <1>7, ShapeLoseLock, ShapeExpireLock DEF Shape, Shapes
  <1>8. CASE Tick
    BY <1>1, <1>8, ShapeTick DEF Shape, Shapes
  <1>9. CASE UNCHANGED vars
    BY <1>1, <1>9 DEF Shape, Shapes, TypeOK, JobShape, DocShape, vars, botVars, docVars, flowVars,
                      history, lockVars
  <1> QED
    BY <1>2, <1>3, <1>4, <1>5, <1>6, <1>7, <1>8, <1>9 DEF Next

LEMMA ShapeInit == Init => Shape
  <1> SUFFICES ASSUME Init PROVE Shape
    OBVIOUS
  <1>1. LockTypeOK /\ TimelyHolds
    BY LockInitInv DEF Init, LockInv
  <1>2. LockShape
    BY MarkAssumption DEF Init, LockInit, LockShape
  <1>3. TypeOK
    BY <1>1, BoundAssumption DEF Init, LockInit, TypeOK, Step, Status
  <1>4. JobShape /\ DocShape
    BY DEF Init, JobShape, DocShape, ChargeStep, PaymentStep
  <1> QED
    BY <1>1, <1>2, <1>3, <1>4 DEF Shape

-----------------------------------------------------------------------------
(* Credits                                                                 *)

\* Two handlers of one charge hold one lock: a handler has outlived its TTL.
LEMMA Alone ==
  ASSUME Shape, LateIsSlipped, NEW f \in Client, NEW g \in Client, f # g,
         pc[f] \in PaymentStep, pc[g] \in PaymentStep, work[f].charge = work[g].charge
  PROVE  work[f].charge \in Slipped("overlapped")
  <1>1. inside[f] = work[f].charge /\ inside[g] = work[f].charge /\ work[f].charge \in Charge
    BY DEF Shape, JobShape, ChargeStep
  <1>2. work[f].charge # Outside
    BY <1>1, ResourceAssumption, MarkAssumption
  <1>3. f \in overrun \/ g \in overrun
    BY <1>1, <1>2 DEF Shape, TimelyHolds
  <1> QED
    BY <1>3 DEF LateIsSlipped

\* A step that credits nothing and lets no flow get further in handling a
\* payment: it may end one, at "activate" with a slip.
LEMMA Frame ==
  ASSUME Shape, CreditInv,
         UNCHANGED <<credits, latest, acked>>, activated \subseteq activated',
         slips \subseteq slips',
         \A g \in Client : pc'[g] \in PaymentStep =>
             /\ pc'[g] = pc[g] /\ work'[g].charge = work[g].charge
             /\ g \in overrun' => g \in overrun \/ work[g].charge \in Slipped("overlapped")',
         \A g \in Client : pc[g] = "activate" =>
             \/ pc'[g] = "activate" /\ work'[g].charge = work[g].charge
             \/ work[g].charge \in Settled'
  PROVE  CreditInv'
  <1>1. \A kind : Slipped(kind) \subseteq Slipped(kind)'
    BY DEF Slipped
  <1>2. Settled \subseteq Settled'
    BY <1>1 DEF Settled
  <1>3. LateIsSlipped'
    BY <1>1 DEF CreditInv, LateIsSlipped
  <1>4. CreditedIsFound' /\ OneCreditPerCharge'
    BY <1>1 DEF CreditInv, CreditedIsFound, OneCreditPerCharge, Processed
  <1>5. UncreditedYet'
    BY <1>1 DEF CreditInv, UncreditedYet, PaymentStep
  <1>6. CreditedIsActivated'
    BY <1>2 DEF CreditInv, CreditedIsActivated
  <1>7. AnswersSettled'
    BY <1>2 DEF CreditInv, AnswersSettled, PaymentStep
  <1>8. AckedIsActivated'
    BY <1>2 DEF CreditInv, AckedIsActivated, Settled
  <1> QED
    BY <1>3, <1>4, <1>5, <1>6, <1>7, <1>8 DEF CreditInv

\* The lock is taken and nothing is known of the charge yet.
LEMMA CreditBeginPayment ==
  ASSUME Shape, CreditInv, NEW f \in Client, NEW c \in Charge, BeginPayment(f, c)
  PROVE  CreditInv'
  <1>1. /\ UNCHANGED <<credits, latest, acked, activated, overrun>> /\ slips \subseteq slips'
        /\ pc[f] = "idle" /\ pc' = [pc EXCEPT ![f] = "findCharge"]
        /\ \E job : work' = [work EXCEPT ![f] = job]
        /\ inside[f] = Outside
    BY DEF BeginPayment, Acquire, Begin, Slip, docVars
  <1>2. f \notin overrun
    BY <1>1 DEF Shape, LockShape
  <1>3. pc \in [Client -> Step] /\ work \in [Client -> Jobs \cup {None}]
    BY DEF Shape, TypeOK, Jobs
  <1>4. pc'[f] = "findCharge" /\ \A g \in Client \ {f} : pc'[g] = pc[g] /\ work'[g] = work[g]
    BY <1>1, <1>3
  <1>5. \A kind : Slipped(kind) \subseteq Slipped(kind)'
    BY <1>1 DEF Slipped
  <1>6. Settled \subseteq Settled'
    BY <1>1, <1>5 DEF Settled
  <1>7. LateIsSlipped'
    BY <1>1, <1>2, <1>4, <1>5 DEF CreditInv, LateIsSlipped
  <1>8. CreditedIsFound' /\ OneCreditPerCharge'
    BY <1>1, <1>5 DEF CreditInv, CreditedIsFound, OneCreditPerCharge, Processed
  <1>9. UncreditedYet'
    BY <1>1, <1>4, <1>5 DEF CreditInv, UncreditedYet
  <1>10. CreditedIsActivated'
    BY <1>1, <1>4, <1>6 DEF CreditInv, CreditedIsActivated
  <1>11. AnswersSettled' /\ AckedIsActivated'
    BY <1>1, <1>4, <1>6 DEF CreditInv, AnswersSettled, AckedIsActivated, Settled
  <1> QED
    BY <1>7, <1>8, <1>9, <1>10, <1>11 DEF CreditInv

\* The idempotency check: a charge that is not found is not credited, and one
\* that is found was activated, or its handler is not alone.
LEMMA CreditFindCharge ==
  ASSUME Shape, CreditInv, NEW f \in Client, FindCharge(f)
  PROVE  CreditInv'
  <1> DEFINE c == work[f].charge
  <1>1. /\ pc[f] = "findCharge" /\ c \in Charge /\ pc \in [Client -> Step]
        /\ UNCHANGED <<credits, latest, acked, activated, slips, overrun, work>>
    BY
    DEF FindCharge, Goto, Shape, TypeOK, JobShape, ChargeStep, PaymentStep, lockVars, botVars,
        docVars, history
  <1>2. pc' = [pc EXCEPT ![f] = IF Processed(c) THEN "answer" ELSE "findActive"]
    BY DEF FindCharge, Goto
  <1>3. \A kind : Slipped(kind)' = Slipped(kind)
    BY <1>1 DEF Slipped
  <1>4. Settled' = Settled
    BY <1>1, <1>3 DEF Settled
  <1>5. LateIsSlipped'
    BY <1>1, <1>2, <1>3 DEF CreditInv, LateIsSlipped, PaymentStep
  <1>6. CreditedIsFound' /\ OneCreditPerCharge' /\ AckedIsActivated'
    BY <1>1, <1>3 DEF CreditInv, CreditedIsFound, OneCreditPerCharge, Processed, AckedIsActivated
  <1>7. UncreditedYet'
    <2>1. ~Processed(c) => credits[c] = 0 \/ c \in Slipped("superseded")
      BY <1>1 DEF CreditInv, CreditedIsFound, Shape, TypeOK
    <2> QED
      BY <1>1, <1>2, <1>3, <2>1 DEF CreditInv, UncreditedYet
  <1>8. CreditedIsActivated'
    BY <1>1, <1>2, <1>4 DEF CreditInv, CreditedIsActivated
  <1>9. AnswersSettled'
    <2>1. ASSUME Processed(c) PROVE c \in Settled
      <3>1. c \in Settled \/ \E g \in Client : pc[g] = "activate" /\ work[g].charge = c
        BY <1>1, <2>1 DEF CreditInv, CreditedIsFound, CreditedIsActivated
      <3>2. ASSUME NEW g \in Client, pc[g] = "activate", work[g].charge = c PROVE c \in Settled
        BY <1>1, <3>2, Alone DEF CreditInv, PaymentStep, Settled
      <3> QED
        BY <3>1, <3>2
    <2> QED
      BY <1>1, <1>2, <1>4, <2>1 DEF CreditInv, AnswersSettled
  <1> QED
    BY <1>5, <1>6, <1>7, <1>8, <1>9 DEF CreditInv

LEMMA CreditFindActive ==
  ASSUME Shape, CreditInv, NEW f \in Client, FindActive(f)
  PROVE  CreditInv'
  <1>1. /\ pc[f] = "findActive" /\ pc \in [Client -> Step] /\ work[f] \in Jobs
        /\ UNCHANGED <<credits, latest, acked, activated, overrun>> /\ slips \subseteq slips'
    BY DEF FindActive, Slip, Shape, TypeOK, JobShape, lockVars, botVars, docVars
  <1>2. PICK step \in {"create", "renew"} : \E d, until : Found(f, step, d, until)
    BY DEF FindActive
  <1>3. /\ pc'[f] = step /\ work'[f].charge = work[f].charge
        /\ \A g \in Client \ {f} : pc'[g] = pc[g] /\ work'[g] = work[g]
    BY <1>1, <1>2 DEF Found, Jobs, Shape, TypeOK
  <1>4. (\A kind : Slipped(kind) \subseteq Slipped(kind)') /\ Settled \subseteq Settled'
    BY <1>1 DEF Slipped, Settled
  <1>5. LateIsSlipped' /\ UncreditedYet'
    BY <1>1, <1>3, <1>4 DEF CreditInv, LateIsSlipped, UncreditedYet, PaymentStep
  <1>6. CreditedIsFound' /\ OneCreditPerCharge' /\ AckedIsActivated'
    BY <1>1, <1>4 DEF CreditInv, CreditedIsFound, OneCreditPerCharge, Processed, AckedIsActivated,
        Settled
  <1>7. CreditedIsActivated' /\ AnswersSettled'
    BY <1>1, <1>3, <1>4 DEF CreditInv, CreditedIsActivated, AnswersSettled
  <1> QED
    BY <1>5, <1>6, <1>7 DEF CreditInv

\* A document takes the charge: the first credit, and its handler goes on to
\* activate.  Others at work on the charge make it an overlapped one.
LEMMA CreditTaken ==
  ASSUME Shape, CreditInv, NEW f \in Client, pc[f] \in {"renew", "create"}, NEW c \in Charge,
         c = work[f].charge, NEW d \in Charge,
         latest' = [latest EXCEPT ![d] = c], Credit(c), Goto(f, "activate"),
         UNCHANGED <<acked, activated, overrun>>, slips \subseteq slips',
         \A b \in Charge : latest[d] = b /\ b # c => b \in Slipped("superseded")'
  PROVE  CreditInv'
  <1>1. /\ pc \in [Client -> Step] /\ credits \in [Charge -> Nat]
        /\ latest \in [Charge -> Charge \cup {None}]
    BY DEF Shape, TypeOK
  <1>2. /\ credits' = [credits EXCEPT ![c] = @ + 1]
        /\ pc' = [pc EXCEPT ![f] = "activate"] /\ work' = work
    BY DEF Credit, Goto
  <1>3. \A kind : Slipped(kind) \subseteq Slipped(kind)'
    BY DEF Slipped
  <1>4. Settled \subseteq Settled'
    BY <1>3 DEF Settled
  <1>5. LateIsSlipped'
    BY <1>1, <1>2, <1>3 DEF CreditInv, LateIsSlipped, PaymentStep
  <1>6. CreditedIsFound'
    <2>1. ASSUME NEW b \in Charge, Processed(b)' PROVE credits'[b] >= 1
      BY <1>1, <1>2, <2>1 DEF CreditInv, CreditedIsFound, Processed
    <2>2. ASSUME NEW b \in Charge, credits'[b] >= 1
          PROVE  Processed(b)' \/ b \in Slipped("superseded")'
      <3>1. CASE b = c
        BY <1>1, <3>1 DEF Processed
      <3>2. CASE b # c
        BY <1>1, <1>2, <1>3, <2>2, <3>2 DEF CreditInv, CreditedIsFound, Processed
      <3> QED
        BY <3>1, <3>2
    <2> QED
      BY <2>1, <2>2 DEF CreditedIsFound
  <1>7. UncreditedYet'
    <2> SUFFICES ASSUME NEW g \in Client, pc'[g] \in {"findActive", "renew", "create"}
                 PROVE  \/ credits'[work[g].charge] = 0
                        \/ work[g].charge \in Slipped("overlapped")' \cup Slipped("superseded")'
      BY <1>2 DEF UncreditedYet
    <2>1. g # f /\ pc[g] = pc'[g]
      BY <1>1, <1>2
    <2>2. CASE work[g].charge = c
      BY <1>3, <2>1, <2>2, Alone DEF CreditInv, PaymentStep
    <2>3. CASE work[g].charge # c
      BY <1>1, <1>2, <1>3, <2>1, <2>3 DEF CreditInv, UncreditedYet
    <2> QED
      BY <2>2, <2>3
  <1>8. OneCreditPerCharge'
    <2>1. credits[c] = 0 \/ c \in Slipped("overlapped") \cup Slipped("superseded")
      BY DEF CreditInv, UncreditedYet
    <2> QED
      BY <1>1, <1>2, <1>3, <2>1 DEF CreditInv, OneCreditPerCharge
  <1>9. CreditedIsActivated'
    <2> SUFFICES ASSUME NEW b \in Charge, credits'[b] >= 1
                 PROVE  b \in Settled' \/ \E g \in Client : pc'[g] = "activate" /\ work'[g].charge = b
      BY DEF CreditedIsActivated
    <2>1. CASE b = c
      BY <1>1, <1>2, <2>1
    <2>2. CASE b # c
      <3>1. b \in Settled \/ \E g \in Client : pc[g] = "activate" /\ work[g].charge = b
        BY <1>1, <1>2, <2>2 DEF CreditInv, CreditedIsActivated
      <3> QED
        BY <1>1, <1>2, <1>4, <3>1
    <2> QED
      BY <2>1, <2>2
  <1>10. AnswersSettled' /\ AckedIsActivated'
    BY <1>1, <1>2, <1>4 DEF CreditInv, AnswersSettled, AckedIsActivated, Settled
  <1> QED
    BY <1>5, <1>6, <1>7, <1>8, <1>9, <1>10 DEF CreditInv

LEMMA CreditRenew ==
  ASSUME Shape, CreditInv, NEW f \in Client, Renew(f)
  PROVE  CreditInv'
  <1>1. /\ pc[f] = "renew" /\ work[f].charge \in Charge /\ work[f].doc \in Charge
        /\ status[work[f].doc] # Absent
    BY DEF Renew, Shape, JobShape, ChargeStep, PaymentStep
  <1>2. /\ latest' = [latest EXCEPT ![work[f].doc] = work[f].charge]
        /\ Credit(work[f].charge) /\ Goto(f, "activate")
        /\ UNCHANGED <<acked, activated, overrun>> /\ slips \subseteq slips'
    BY DEF Renew, lockVars, botVars
  <1>3. ASSUME NEW b \in Charge, latest[work[f].doc] = b, b # work[f].charge
        PROVE  b \in Slipped("superseded")'
    BY <1>3 DEF Renew, Slipped
  <1> QED
    BY <1>1, <1>2, <1>3, CreditTaken

LEMMA CreditCreate ==
  ASSUME Shape, CreditInv, NEW f \in Client, Create(f)
  PROVE  CreditInv'
  <1> DEFINE c == work[f].charge
  <1>1. pc[f] = "create" /\ c \in Charge
    BY DEF Create, Shape, JobShape, ChargeStep, PaymentStep
  <1>2. CASE status[c] = Absent
    <2>1. /\ latest' = [latest EXCEPT ![c] = c] /\ Credit(c) /\ Goto(f, "activate")
          /\ UNCHANGED <<acked, activated, overrun>> /\ slips \subseteq slips'
      BY <1>2 DEF Create, Slip, lockVars, botVars
    <2>2. latest[c] = None
      BY <1>1, <1>2 DEF Shape, DocShape
    <2> QED
      BY <1>1, <2>1, <2>2, ChargeAssumption, CreditTaken
  <1>3. CASE status[c] # Absent
    <2>1. /\ Return(f) /\ UNCHANGED <<credits, latest, acked, activated, slips>>
      BY <1>3 DEF Create, botVars
    <2>2. overrun' \subseteq overrun
      BY <2>1 DEF Return, Release, Exit, lockVars
    <2>3. Shapes
      BY DEF Shape, Shapes
    <2>4. /\ pc'[f] = "idle"
          /\ \A g \in Client \ {f} : pc'[g] = pc[g] /\ work'[g] = work[g]
      BY <2>1, <2>3, ReturnFlows
    <2> QED
      BY <1>1, <2>1, <2>2, <2>4, Frame DEF PaymentStep
  <1> QED
    BY <1>2, <1>3

LEMMA CreditActivate ==
  ASSUME Shape, CreditInv, NEW f \in Client, Activate(f)
  PROVE  CreditInv'
  <1> DEFINE c == work[f].charge
  <1>1. /\ pc[f] = "activate" /\ c \in Charge /\ pc \in [Client -> Step]
        /\ pc' = [pc EXCEPT ![f] = "answer"] /\ work' = work /\ activated' = activated \cup {c}
        /\ UNCHANGED <<credits, latest, acked, slips, overrun>>
    BY
    DEF Activate, Goto, Shape, TypeOK, JobShape, ChargeStep, PaymentStep, lockVars, botVars, docVars
  <1>2. \A kind : Slipped(kind)' = Slipped(kind)
    BY <1>1 DEF Slipped
  <1>3. Settled' = Settled \cup {c}
    BY <1>1, <1>2 DEF Settled
  <1>4. LateIsSlipped' /\ UncreditedYet'
    BY <1>1, <1>2 DEF CreditInv, LateIsSlipped, UncreditedYet, PaymentStep
  <1>5. CreditedIsFound' /\ OneCreditPerCharge'
    BY <1>1, <1>2 DEF CreditInv, CreditedIsFound, OneCreditPerCharge, Processed
  <1>6. CreditedIsActivated' /\ AnswersSettled'
    BY <1>1, <1>3 DEF CreditInv, CreditedIsActivated, AnswersSettled
  <1>7. AckedIsActivated'
    BY <1>1, <1>3 DEF CreditInv, AckedIsActivated, Settled
  <1> QED
    BY <1>4, <1>5, <1>6, <1>7 DEF CreditInv

LEMMA CreditAnswer ==
  ASSUME Shape, CreditInv, NEW f \in Client, Answer(f)
  PROVE  CreditInv'
  <1> DEFINE c == work[f].charge
  <1>1. /\ pc[f] = "answer" /\ Return(f) /\ acked' = acked \cup {c}
        /\ UNCHANGED <<credits, latest, activated, slips>>
    BY DEF Answer, docVars, history
  <1>2. Shapes
    BY DEF Shape, Shapes
  <1>3. /\ pc'[f] = "idle"
        /\ \A g \in Client \ {f} : pc'[g] = pc[g] /\ work'[g] = work[g]
    BY <1>1, <1>2, ReturnFlows
  <1>4. overrun' \subseteq overrun
    BY <1>1 DEF Return, Release, Exit, lockVars
  <1>5. (\A kind : Slipped(kind)' = Slipped(kind)) /\ Settled' = Settled
    BY <1>1 DEF Slipped, Settled
  <1>6. LateIsSlipped' /\ UncreditedYet'
    BY <1>1, <1>3, <1>4, <1>5 DEF CreditInv, LateIsSlipped, UncreditedYet, PaymentStep
  <1>7. CreditedIsFound' /\ OneCreditPerCharge'
    BY <1>1, <1>5 DEF CreditInv, CreditedIsFound, OneCreditPerCharge, Processed
  <1>8. CreditedIsActivated' /\ AnswersSettled'
    BY <1>1, <1>3, <1>5 DEF CreditInv, CreditedIsActivated, AnswersSettled
  <1>9. AckedIsActivated'
    BY <1>1, <1>5 DEF CreditInv, AnswersSettled, AckedIsActivated, Settled
  <1> QED
    BY <1>6, <1>7, <1>8, <1>9 DEF CreditInv

\* Requests, crons and faults credit nothing; a handler that is cut off at
\* the activation leaves a slip, and so does one that outlives its TTL.
LEMMA CreditBegin ==
  ASSUME Shape, CreditInv, NEW f \in Client, NEW step \in Step \ PaymentStep,
         \E job : Begin(f, step, job), UNCHANGED <<credits, latest, acked, activated, overrun>>,
         slips \subseteq slips'
  PROVE  CreditInv'
  <1>1. /\ pc \in [Client -> Step] /\ pc[f] = "idle"
        /\ pc'[f] = step
        /\ \A g \in Client \ {f} : pc'[g] = pc[g] /\ work'[g] = work[g]
    BY DEF Begin, Shape, TypeOK
  <1> QED
    BY <1>1, Frame DEF PaymentStep

LEMMA CreditRequest ==
  ASSUME Shape, CreditInv, NEW f \in Client, RequestNext(f) \/ CronNext(f)
  PROVE  CreditInv'
  <1>1. CASE \E c \in Charge : BeginPayment(f, c)
    BY <1>1, CreditBeginPayment
  <1>2. CASE \E c \in Charge : BeginRefund(f, c)
    BY <1>2, CreditBegin DEF BeginRefund, Slip, Step, PaymentStep, lockVars, botVars, docVars
  <1>3. CASE \E u \in User, on \in BOOLEAN : BeginAutoRenew(f, u, on)
    BY <1>3, CreditBegin DEF BeginAutoRenew, Acquire, Step, PaymentStep, botVars, docVars, history
  <1>4. CASE \E u \in User : BeginInvoice(f, u)
    BY <1>4, CreditBegin DEF BeginInvoice, Acquire, Step, PaymentStep, botVars, docVars, history
  <1>5. CASE CronNext(f)
    BY <1>5, CreditBegin
    DEF CronNext, FindStale, FindDeferred, Step, PaymentStep, lockVars, botVars, docVars, history
  <1> QED
    BY <1>1, <1>2, <1>3, <1>4, <1>5 DEF RequestNext

\* A step of the other handlers ...
LEMMA CreditGoto ==
  ASSUME Shape, CreditInv, NEW f \in Client, NEW step \in Step \ PaymentStep,
         pc[f] \notin PaymentStep, pc' = [pc EXCEPT ![f] = step],
         UNCHANGED <<credits, latest, acked, activated, overrun>>, slips \subseteq slips',
         \A g \in Client \ {f} : work'[g] = work[g]
  PROVE  CreditInv'
  <1>1. pc \in [Client -> Step]
    BY DEF Shape, TypeOK
  <1> QED
    BY <1>1, Frame DEF PaymentStep

\* ... and the end of any.
LEMMA CreditReturn ==
  ASSUME Shape, CreditInv, NEW f \in Client, Return(f) \/ Crash(f),
         UNCHANGED <<credits, latest, acked, activated>>, slips \subseteq slips',
         pc[f] = "activate" => <<"cutShort", work[f].charge>> \in slips'
  PROVE  CreditInv'
  <1>1. Shapes
    BY DEF Shape, Shapes
  <1>2. /\ pc'[f] = "idle"
        /\ \A g \in Client \ {f} : pc'[g] = pc[g] /\ work'[g] = work[g]
    BY <1>1, ReturnFlows, AbandonFlows
  <1>3. overrun' \subseteq overrun
    BY DEF Return, Release, Crash, Abandon, Exit, lockVars
  <1>4. pc[f] = "activate" => work[f].charge \in Settled'
    BY DEF Settled, Slipped, Shape, JobShape, ChargeStep, PaymentStep
  <1> QED
    BY <1>2, <1>3, <1>4, Frame DEF PaymentStep

LEMMA CreditHandler ==
  ASSUME Shape, CreditInv, NEW f \in Client, HandlerNext(f)
  PROVE  CreditInv'
  <1>1. CASE FindCharge(f) \/ FindActive(f) \/ Renew(f) \/ Create(f) \/ Activate(f) \/ Answer(f)
    BY <1>1, CreditFindCharge, CreditFindActive, CreditRenew, CreditCreate, CreditActivate,
       CreditAnswer
  <1>2. CASE Link(f) \/ Done(f) \/ RefundUser(f) \/ DropPro(f)
    BY <1>2, CreditReturn DEF Link, Done, RefundUser, DropPro, Slip, botVars, docVars, history
  <1>3. CASE SetAutoRenew(f) \/ RefundSub(f) \/ SetExpired(f)
    BY <1>3, CreditGoto
    DEF SetAutoRenew, RefundSub, SetExpired, Goto, Slip, Step, PaymentStep, lockVars, botVars,
        history
  <1>4. CASE TakeDeferred(f)
    <2>1. CASE Return(f)
      BY <1>4, <2>1, CreditReturn DEF TakeDeferred, Slip, botVars
    <2>2. CASE Goto(f, "dropPro") /\ UNCHANGED lockVars
      BY <1>4, <2>2, CreditGoto
      DEF TakeDeferred, Goto, Slip, Step, PaymentStep, lockVars, botVars
    <2> QED
      BY <1>4, <2>1, <2>2 DEF TakeDeferred
  <1>5. CASE FindCurrent(f)
    <2>1. CASE Return(f)
      BY <1>5, <2>1, CreditReturn DEF FindCurrent, Slip, botVars, docVars
    <2>2. CASE (\E d : Found(f, "setAutoRenew", d, NoDate)) /\ UNCHANGED lockVars
      <3>1. /\ pc[f] = "findCurrent" /\ pc' = [pc EXCEPT ![f] = "setAutoRenew"]
            /\ UNCHANGED <<credits, latest, acked, activated, overrun>> /\ slips \subseteq slips'
            /\ \A g \in Client \ {f} : work'[g] = work[g]
        BY <1>5, <2>2
        DEF FindCurrent, Found, Slip, Shape, TypeOK, lockVars, botVars, docVars
      <3> QED
        BY <3>1, CreditGoto DEF Step, PaymentStep
    <2> QED
      BY <1>5, <2>1, <2>2 DEF FindCurrent
  <1> QED
    BY <1>1, <1>2, <1>3, <1>4, <1>5 DEF HandlerNext

LEMMA CreditFault ==
  ASSUME Shape, CreditInv, NEW f \in Client, Throw(f) \/ Crash(f)
  PROVE  CreditInv'
  BY CreditReturn DEF Throw, Crash, CutOff, botVars, docVars

\* The TTL makes an overrun client of the one whose section it ends.
LEMMA CreditExpireLock ==
  ASSUME Shape, CreditInv, NEW r \in Resource, ExpireLock(r)
  PROVE  CreditInv'
  <1>1. /\ UNCHANGED <<credits, latest, acked, activated, pc, work>> /\ slips \subseteq slips'
        /\ overrun' = overrun \cup ({lock[r]} \cap Client)
    BY DEF ExpireLock, Expire, Slip, botVars, docVars, flowVars
  <1>2. ASSUME NEW g \in Client, pc[g] \in PaymentStep, g \in overrun', g \notin overrun
        PROVE  work[g].charge \in Slipped("overlapped")'
    <2>1. lock[r] = g /\ inside[g] = r /\ r = work[g].charge /\ r \in Charge
      BY <1>1, <1>2 DEF Shape, LockShape, JobShape, ChargeStep
    <2>2. <<"overlapped", r>> \in slips'
      BY <2>1 DEF ExpireLock, Slip
    <2> QED
      BY <2>1, <2>2 DEF Slipped
  <1> QED
    BY <1>1, <1>2, Frame

LEMMA CreditNext ==
  ASSUME Shape, CreditInv, [Next]_vars
  PROVE  CreditInv'
  <1>1. CASE \E c \in Charge : Pay(c)
    BY <1>1, Frame DEF Pay, lockVars, docVars, flowVars, history
  <1>2. ASSUME NEW f \in Client, RequestNext(f) \/ CronNext(f) PROVE CreditInv'
    BY <1>2, CreditRequest
  <1>3. ASSUME NEW f \in Client, HandlerNext(f) PROVE CreditInv'
    BY <1>3, CreditHandler
  <1>4. ASSUME NEW f \in Client, Throw(f) \/ Crash(f) PROVE CreditInv'
    BY <1>4, CreditFault
  <1>5. ASSUME NEW r \in Resource, LoseLock(r) PROVE CreditInv'
    BY <1>5, Frame DEF LoseLock, AcquireUnanswered, botVars, docVars, flowVars, history
  <1>6. ASSUME NEW r \in Resource, ExpireLock(r) PROVE CreditInv'
    BY <1>6, CreditExpireLock
  <1>7. CASE Tick
    <2>1. /\ UNCHANGED <<credits, latest, acked, activated, slips, pc, overrun>>
          /\ \A g \in Client : pc[g] # "idle" => work'[g].charge = work[g].charge
      BY <1>7 DEF Tick, Shape, JobShape, Jobs, lockVars, botVars, docVars, history
    <2> QED
      BY <2>1, Frame DEF PaymentStep
  <1>8. CASE UNCHANGED vars
    BY <1>8, Frame DEF vars, lockVars, botVars, docVars, flowVars, history
  <1> QED
    BY <1>1, <1>2, <1>3, <1>4, <1>5, <1>6, <1>7, <1>8 DEF Next

LEMMA CreditInit == Init => CreditInv
  <1> SUFFICES ASSUME Init PROVE CreditInv
    OBVIOUS
  <1>1. LateIsSlipped /\ UncreditedYet /\ AnswersSettled
    BY DEF Init, LateIsSlipped, UncreditedYet, AnswersSettled, PaymentStep
  <1>2. CreditedIsFound /\ OneCreditPerCharge /\ CreditedIsActivated
    BY ChargeAssumption
    DEF Init, CreditedIsFound, OneCreditPerCharge, CreditedIsActivated, Processed
  <1>3. AckedIsActivated
    BY DEF Init, AckedIsActivated
  <1> QED
    BY <1>1, <1>2, <1>3 DEF CreditInv

-----------------------------------------------------------------------------
\* The inductive invariant: the shapes, and who has credited what.
THEOREM PaymentInvariant == Spec => [](Shape /\ CreditInv)
  <1>1. Init => Shape /\ CreditInv
    BY ShapeInit, CreditInit
  <1>2. Shape /\ CreditInv /\ [Next]_vars => (Shape /\ CreditInv)'
    BY ShapeNext, CreditNext
  <1> QED
    BY <1>1, <1>2, PTL DEF Spec

\* Types of the Telegram documents, requests and crons.
THEOREM PaymentTypes == Spec => []TypeOK
  <1>1. Shape => TypeOK
    BY DEF Shape
  <1> QED
    BY <1>1, PaymentInvariant, PTL

\* handleSuccessfulPayment (telegram-payment.service.ts:189-452): the check on
\* telegram_charge_id and the lock of the charge credit it once.
THEOREM ChargesCreditOnce == Spec => []OneCreditPerCharge
  <1>1. CreditInv => OneCreditPerCharge
    BY DEF CreditInv
  <1> QED
    BY <1>1, PaymentInvariant, PTL

\* The answer to the bot (telegram-payment.controller.ts:142-180): ok means
\* that the user was activated, unless a handler was cut off or late.
THEOREM AnswersMeanActivated == Spec => []AckedIsActivated
  <1>1. CreditInv => AckedIsActivated
    BY DEF CreditInv
  <1> QED
    BY <1>1, PaymentInvariant, PTL

-----------------------------------------------------------------------------
(* Whose access a flow gives or ends.  A flow works for the payer of its   *)
(* charge (FlowOwner).  A refund of a charge nobody has credited leaves a  *)
(* slip, and so does one of a charge that is being handled: a handler that *)
(* is about to activate works on a charge that is not refunded             *)
(* (FlowRefund).  Who is about to end an access has seen the document past *)
(* its date, or somebody renewed it since and left a slip (FlowEnding).    *)
(* What a card payment is about to write lies a period beyond every ACTIVE *)
(* document of its user, which only another payment, a revival or a second *)
(* handler could have moved (FlowCovers, CrossedPayments).                 *)

RefundExcused == Slipped("refundCrossed") \cup Slipped("superseded") \cup Slipped("overlapped")

ExtensionExcused == Slipped("crossed") \cup Slipped("overlapped")

FlowOwner(f) ==
    /\ pc[f] \in ChargeStep => work[f].user = Payer[work[f].charge]
    /\ pc[f] \in {"renew", "setAutoRenew"} => Payer[work[f].doc] = work[f].user

FlowRefund(f) ==
    /\ pc[f] \in {"refundSub", "refundUser"} => work[f].charge \in refunded
    /\ pc[f] = "activate" => work[f].charge \notin refunded \ RefundExcused

FlowEnding(f) ==
    /\ pc[f] = "takeDeferred" => work[f].until \in Nat /\ work[f].until <= now
    /\ pc[f] = "dropPro" => \/ Over(work[f].charge)
                            \/ \E c \in Slipped("lapsed") : Payer[c] = work[f].user

FlowCovers(f) ==
    pc[f] \in {"renew", "create"} /\ work[f].charge \notin Dated \cup ExtensionExcused =>
    \A d \in Docs(work[f].user) :
        status[d] = "ACTIVE" /\ Method[d] = Method[work[f].charge] =>
            pc[f] = "renew" /\ expires[d] + Period <= work[f].until

FlowInv(f) == FlowOwner(f) /\ FlowRefund(f) /\ FlowEnding(f) /\ FlowCovers(f)

\* A document's last charge was paid by the payer of its first.
LatestOwner == \A d \in Charge : latest[d] \in Charge => Payer[latest[d]] = Payer[d]

RefundCredited == \A c \in refunded : credits[c] >= 1 \/ c \in Slipped("refundCrossed")

\* Two payments of a user that are handled at once know of it.
CrossedPayments ==
    \A f, g \in Client :
        pc[f] \in PaymentStep /\ pc[g] \in PaymentStep
        /\ work[f].user = work[g].user /\ work[f].charge # work[g].charge =>
            work[f].charge \in Slipped("crossed")

AccessInv ==
    /\ LatestOwner /\ RefundCredited /\ CrossedPayments
    /\ \A f \in Client : FlowInv(f)

\* What a step of another flow leaves of a flow and of what it relies on.
KeptFlow(g) ==
    /\ pc'[g] = pc[g]
    /\ pc[g] # "idle" => /\ work'[g].user = work[g].user
                         /\ work'[g].charge = work[g].charge
                         /\ work'[g].doc = work[g].doc
                         /\ work'[g].until = work[g].until

DocsStay == \A d \in Charge : status[d] # Absent => status'[d] # Absent

RefundsFor(g) ==
    pc[g] = "activate" /\ work[g].charge \in refunded' \ refunded =>
        work[g].charge \in Slipped("refundCrossed")'

EndingsFor(g) ==
    \A d \in Charge :
        pc[g] = "dropPro" /\ work[g].charge = d /\ Over(d) =>
            Over(d)' \/ \E c \in Slipped("lapsed")' : Payer[c] = work[g].user

LaterFor(g) == pc[g] = "takeDeferred" => now' \in Nat /\ now <= now'

CoversFor(g) ==
    pc[g] \in {"renew", "create"} =>
        \/ work[g].charge \in ExtensionExcused'
        \/ \A d \in Charge : status'[d] = "ACTIVE" /\ Payer[d] = work[g].user =>
               status[d] = "ACTIVE" /\ expires'[d] = expires[d]

KeptFor(g) == KeptFlow(g) /\ RefundsFor(g) /\ EndingsFor(g) /\ LaterFor(g) /\ CoversFor(g)

LEMMA SlipsGrow ==
  ASSUME slips \subseteq slips'
  PROVE  /\ \A kind : Slipped(kind) \subseteq Slipped(kind)'
         /\ RefundExcused \subseteq RefundExcused'
         /\ ExtensionExcused \subseteq ExtensionExcused'
  BY DEF Slipped, RefundExcused, ExtensionExcused

LEMMA NowKept ==
  ASSUME Shape, UNCHANGED now, NEW g \in Client
  PROVE  LaterFor(g)
  BY DEF LaterFor, Shape, TypeOK

LEMMA FlowKept ==
  ASSUME Shape, Shape', NEW g \in Client, FlowInv(g), KeptFor(g), slips \subseteq slips',
         refunded \subseteq refunded', DocsStay
  PROVE  FlowInv(g)'
  <1>1. /\ \A kind : Slipped(kind) \subseteq Slipped(kind)'
        /\ RefundExcused \subseteq RefundExcused' /\ ExtensionExcused \subseteq ExtensionExcused'
    BY SlipsGrow
  <1>2. /\ pc[g] # "idle" => work[g] \in Jobs
        /\ pc[g] \in ChargeStep => work[g].charge \in Charge
        /\ pc[g] \in {"renew", "setAutoRenew"} => work[g].doc \in Charge
    BY DEF Shape, JobShape
  <1>3. FlowOwner(g)'
    BY <1>2 DEF FlowInv, FlowOwner, KeptFor, KeptFlow, DocsStay, ChargeStep, PaymentStep
  <1>4. FlowRefund(g)'
    <2>1. pc'[g] \in {"refundSub", "refundUser"} => work'[g].charge \in refunded'
      BY <1>2 DEF FlowInv, FlowRefund, KeptFor, KeptFlow
    <2> QED
      BY <1>1, <1>2, <2>1
      DEF FlowInv, FlowRefund, KeptFor, KeptFlow, RefundsFor, RefundExcused, ChargeStep, PaymentStep
  <1>5. FlowEnding(g)'
    <2>1. ASSUME pc'[g] = "takeDeferred" PROVE work'[g].until \in Nat /\ work'[g].until <= now'
      <3>1. pc[g] = "takeDeferred" /\ work'[g].until = work[g].until /\ now' \in Nat /\ now <= now'
        BY <2>1 DEF KeptFor, KeptFlow, LaterFor
      <3>2. work[g].until \in Nat /\ work[g].until <= now /\ now \in Nat
        BY <3>1 DEF FlowInv, FlowEnding, Shape, TypeOK
      <3> QED
        BY <3>1, <3>2
    <2>2. ASSUME pc'[g] = "dropPro"
          PROVE  Over(work[g].charge)' \/ \E c \in Slipped("lapsed")' : Payer[c] = work[g].user
      BY <1>1, <1>2, <2>2 DEF FlowInv, FlowEnding, KeptFor, KeptFlow, EndingsFor, ChargeStep
    <2> QED
      BY <2>1, <2>2 DEF FlowEnding, KeptFor, KeptFlow, Over
  <1>6. FlowCovers(g)'
    BY <1>1, <1>2 DEF FlowInv, FlowCovers, KeptFor, KeptFlow, CoversFor, Docs, ChargeStep,
       PaymentStep
  <1> QED
    BY <1>3, <1>4, <1>5, <1>6 DEF FlowInv

\* A step that leaves documents and refunds alone.
LEMMA KeptAtRest ==
  ASSUME Shape, NEW g \in Client, KeptFlow(g), UNCHANGED <<status, expires, refunded>>,
         now' \in Nat, now <= now'
  PROVE  KeptFor(g) /\ DocsStay
  <1>1. ASSUME NEW d \in Charge, Over(d) PROVE Over(d)'
    BY <1>1, PeriodAssumption DEF Over, Shape, TypeOK
  <1> QED
    BY <1>1 DEF KeptFor, RefundsFor, EndingsFor, LaterFor, CoversFor, DocsStay

\* One flow acts: it has its own part to show, the others keep theirs.
LEMMA AccessStep ==
  ASSUME Shape, Shape', AccessInv, NEW f \in Client,
         \A g \in Client \ {f} : KeptFor(g), FlowInv(f)',
         pc'[f] \in PaymentStep => /\ pc[f] \in PaymentStep
                                   /\ work'[f].user = work[f].user
                                   /\ work'[f].charge = work[f].charge,
         slips \subseteq slips', refunded \subseteq refunded', DocsStay,
         LatestOwner', RefundCredited'
  PROVE  AccessInv'
  <1>1. \A g \in Client : FlowInv(g)'
    BY FlowKept DEF AccessInv
  <1>2. CrossedPayments'
    <2>1. ASSUME NEW g \in Client, pc'[g] \in PaymentStep
          PROVE  /\ pc[g] \in PaymentStep
                 /\ work'[g].user = work[g].user /\ work'[g].charge = work[g].charge
      BY <2>1 DEF KeptFor, KeptFlow, PaymentStep
    <2> QED
      BY <2>1, SlipsGrow DEF AccessInv, CrossedPayments
  <1> QED
    BY <1>1, <1>2 DEF AccessInv

\* The same for a step that leaves documents, credits and refunds alone.
LEMMA AccessFlow ==
  ASSUME Shape, Shape', AccessInv, NEW f \in Client,
         \A g \in Client \ {f} : KeptFlow(g), FlowInv(f)',
         pc'[f] \in PaymentStep => /\ pc[f] \in PaymentStep
                                   /\ work'[f].user = work[f].user
                                   /\ work'[f].charge = work[f].charge,
         UNCHANGED <<status, expires, latest, credits, refunded, now>>, slips \subseteq slips'
  PROVE  AccessInv'
  <1>1. now' \in Nat /\ now <= now'
    BY DEF Shape, TypeOK
  <1>2. DocsStay /\ \A g \in Client \ {f} : KeptFor(g)
    BY <1>1, KeptAtRest DEF DocsStay
  <1>3. LatestOwner' /\ RefundCredited'
    BY SlipsGrow DEF AccessInv, LatestOwner, RefundCredited
  <1> QED
    BY <1>2, <1>3, AccessStep

\* Nobody acts.
LEMMA AccessQuiet ==
  ASSUME Shape, Shape', AccessInv, \A g \in Client : KeptFlow(g),
         UNCHANGED <<status, expires, latest, credits, refunded>>, slips \subseteq slips',
         now <= now'
  PROVE  AccessInv'
  <1>1. now' \in Nat
    BY DEF Shape, TypeOK
  <1>2. \A g \in Client : FlowInv(g)'
    BY <1>1, KeptAtRest, FlowKept DEF AccessInv
  <1>3. LatestOwner' /\ RefundCredited'
    BY SlipsGrow DEF AccessInv, LatestOwner, RefundCredited
  <1>4. CrossedPayments'
    BY SlipsGrow DEF AccessInv, CrossedPayments, KeptFlow, PaymentStep
  <1> QED
    BY <1>2, <1>3, <1>4 DEF AccessInv

\* A flow that has nothing of a charge at hand has nothing to show.
LEMMA FlowFree ==
  ASSUME NEW f \in Client, pc'[f] \notin ChargeStep \cup {"setAutoRenew"}
  PROVE  FlowInv(f)'
  BY DEF FlowInv, FlowOwner, FlowRefund, FlowEnding, FlowCovers, ChargeStep, PaymentStep

\* The end of a flow, whatever ends it.
LEMMA AccessReturn ==
  ASSUME Shape, Shape', AccessInv, NEW f \in Client, Return(f) \/ Crash(f),
         UNCHANGED <<status, expires, latest, credits, refunded, now>>, slips \subseteq slips'
  PROVE  AccessInv'
  <1>1. Shapes
    BY DEF Shape, Shapes
  <1>2. /\ pc'[f] = "idle"
        /\ \A g \in Client \ {f} : pc'[g] = pc[g] /\ work'[g] = work[g]
    BY <1>1, ReturnFlows, AbandonFlows
  <1>3. FlowInv(f)'
    BY <1>2, FlowFree DEF ChargeStep, PaymentStep
  <1> QED
    BY <1>2, <1>3, AccessFlow DEF KeptFlow, PaymentStep

\* The beginning of one that leaves documents, credits and refunds alone.
LEMMA AccessBegin ==
  ASSUME Shape, Shape', AccessInv, NEW f \in Client, NEW step \in Step \ PaymentStep, NEW job,
         Begin(f, step, job), FlowInv(f)',
         UNCHANGED <<status, expires, latest, credits, refunded, now>>, slips \subseteq slips'
  PROVE  AccessInv'
  <1>1. /\ pc \in [Client -> Step] /\ pc'[f] = step
        /\ \A g \in Client \ {f} : pc'[g] = pc[g] /\ work'[g] = work[g]
    BY DEF Begin, Shape, TypeOK
  <1> QED
    BY <1>1, AccessFlow DEF KeptFlow

\* A step of a flow that keeps what it has at hand.
LEMMA GotoKeeps ==
  ASSUME Shape, NEW f \in Client, NEW step, Goto(f, step)
  PROVE  /\ pc'[f] = step /\ work' = work
         /\ \A g \in Client \ {f} : KeptFlow(g)
  BY DEF Goto, KeptFlow, Shape, TypeOK

LEMMA AccessBeginPayment ==
  ASSUME Shape, Shape', AccessInv, NEW f \in Client, NEW c \in Charge, BeginPayment(f, c)
  PROVE  AccessInv'
  <1> DEFINE u == Payer[c]
  <1>1. /\ Begin(f, "findCharge", Job(u, c, TRUE))
        /\ Slip("crossed", IF UnderWay(u) \ {c} = {} THEN {} ELSE (UnderWay(u) \ {c}) \cup {c})
        /\ UNCHANGED <<status, expires, latest, credits, refunded, now>>
    BY DEF BeginPayment, docVars
  <1>2. slips \subseteq slips'
    BY <1>1 DEF Slip
  <1>3. /\ pc' = [pc EXCEPT ![f] = "findCharge"] /\ pc \in [Client -> Step]
        /\ work' = [work EXCEPT ![f] = Job(u, c, TRUE)] /\ f \in DOMAIN work
    BY <1>1 DEF Begin, Shape, TypeOK
  <1>4. pc'[f] = "findCharge" /\ work'[f].charge = c /\ work'[f].user = u
    BY <1>3 DEF Job
  <1>5. \A g \in Client \ {f} : pc'[g] = pc[g] /\ work'[g] = work[g]
    BY <1>3
  <1>6. FlowInv(f)'
    BY <1>4 DEF FlowInv, FlowOwner, FlowRefund, FlowEnding, FlowCovers
  <1>7. CrossedPayments'
    <2> SUFFICES ASSUME NEW g \in Client, NEW h \in Client,
                        pc'[g] \in PaymentStep, pc'[h] \in PaymentStep,
                        work'[g].user = work'[h].user, work'[g].charge # work'[h].charge
                 PROVE  work'[g].charge \in Slipped("crossed")'
      BY DEF CrossedPayments
    <2>1. ASSUME NEW i \in Client \ {f}, pc[i] \in PaymentStep, work[i].user = u,
                 work[i].charge # c
          PROVE  work[i].charge \in Slipped("crossed")' /\ c \in Slipped("crossed")'
      <3>1. work[i].charge \in UnderWay(u) \ {c}
        BY <2>1 DEF UnderWay, PaymentStep
      <3>2. work[i].charge \in Charge
        BY <2>1 DEF Shape, JobShape, ChargeStep
      <3> QED
        BY <1>1, <3>1, <3>2 DEF Slip, Slipped
    <2>2. CASE g # f /\ h # f
      BY <1>2, <1>5, <2>2, SlipsGrow DEF AccessInv, CrossedPayments
    <2>3. CASE g = f
      BY <1>4, <1>5, <2>1, <2>3
    <2>4. CASE h = f
      BY <1>4, <1>5, <2>1, <2>4
    <2> QED
      BY <2>2, <2>3, <2>4
  <1>8. now' \in Nat /\ now <= now'
    BY <1>1 DEF Shape, TypeOK
  <1>9. DocsStay /\ \A g \in Client \ {f} : KeptFor(g)
    BY <1>1, <1>5, <1>8, KeptAtRest DEF KeptFlow, DocsStay
  <1>10. \A g \in Client : FlowInv(g)'
    BY <1>1, <1>2, <1>6, <1>9, FlowKept DEF AccessInv
  <1>11. LatestOwner' /\ RefundCredited'
    BY <1>1, <1>2, SlipsGrow DEF AccessInv, LatestOwner, RefundCredited
  <1> QED
    BY <1>7, <1>10, <1>11 DEF AccessInv

LEMMA AccessFindCharge ==
  ASSUME Shape, Shape', AccessInv, NEW f \in Client, FindCharge(f)
  PROVE  AccessInv'
  <1>1. /\ pc[f] = "findCharge"
        /\ Goto(f, IF Processed(work[f].charge) THEN "answer" ELSE "findActive")
        /\ UNCHANGED <<status, expires, latest, credits, refunded, slips, now>>
    BY DEF FindCharge, docVars, history
  <1>2. /\ pc'[f] \in {"answer", "findActive"} /\ work' = work
        /\ \A g \in Client \ {f} : KeptFlow(g)
    BY <1>1, GotoKeeps
  <1>3. FlowInv(f)'
    BY <1>1, <1>2
    DEF AccessInv, FlowInv, FlowOwner, FlowRefund, FlowEnding, FlowCovers, ChargeStep,
        PaymentStep
  <1> QED
    BY <1>1, <1>2, <1>3, AccessFlow DEF PaymentStep

\* The document it found is ACTIVE, and the only one unless that is a slip.
LEMMA AccessFindActive ==
  ASSUME Shape, Shape', AccessInv, NEW f \in Client, FindActive(f)
  PROVE  AccessInv'
  <1> DEFINE c == work[f].charge
             u == work[f].user
             active == {d \in Docs(u) : status[d] = "ACTIVE" /\ Method[d] = Method[c]}
  <1>1. /\ pc[f] = "findActive" /\ c \in Charge /\ work[f] \in Jobs /\ paidAt[c] # NoDate
        /\ UNCHANGED <<status, expires, latest, credits, refunded, now>>
        /\ Slip("crossed", IF \E d, e \in active : d # e THEN {c} ELSE {})
    BY DEF FindActive, docVars, Shape, JobShape, ChargeStep, PaymentStep
  <1>2. slips \subseteq slips'
    BY <1>1 DEF Slip
  <1>3. Shapes /\ u = Payer[c]
    BY <1>1 DEF Shape, Shapes, AccessInv, FlowInv, FlowOwner, ChargeStep, PaymentStep
  <1>4. CASE active = {} /\ Found(f, "create", c, FirstUntil(c))
    <2>1. FirstUntil(c) \in Nat \cup {NoDate}
      BY <1>1, <1>3, UntilIsDate
    <2>2. /\ pc'[f] = "create" /\ work'[f].doc = c /\ work'[f].until = FirstUntil(c)
          /\ work'[f].charge = work[f].charge /\ work'[f].user = work[f].user
          /\ \A g \in Client \ {f} : pc'[g] = pc[g] /\ work'[g] = work[g]
      <3>1. pc[f] # "idle" /\ "create" \in Step /\ "create" # "idle"
        BY <1>1 DEF Step
      <3> HIDE DEF active, c, u
      <3> DEFINE until == FirstUntil(c)
      <3>2. Found(f, "create", c, until) /\ until \in Nat \cup {NoDate} /\ c \in Charge
        BY <1>1, <1>4, <2>1
      <3> HIDE DEF until
      <3>3. /\ pc'[f] = "create" /\ work'[f].doc = c /\ work'[f].until = until
            /\ work'[f].charge = work[f].charge /\ work'[f].user = work[f].user
            /\ \A g \in Client \ {f} : pc'[g] = pc[g] /\ work'[g] = work[g]
        BY <1>3, <3>1, <3>2, FoundFlows
      <3> QED
        BY <3>3 DEF until
    <2>3. FlowInv(f)'
      <3>1. ~\E d \in Charge : status'[d] = "ACTIVE" /\ Payer[d] = u /\ Method[d] = Method[c]
        BY <1>1, <1>4 DEF Docs, Absent
      <3> QED
        BY <1>3, <2>2, <3>1
        DEF FlowInv, FlowOwner, FlowRefund, FlowEnding, FlowCovers, Docs
    <2> QED
      BY <1>1, <1>2, <2>2, <2>3, AccessFlow DEF KeptFlow, PaymentStep
  <1>5. ASSUME NEW d \in active, Found(f, "renew", d, RenewedUntil(c, d))
        PROVE  AccessInv'
    <2>1. d \in Charge /\ Payer[d] = u /\ status[d] # Absent /\ expires[d] \in Nat
      BY DEF Docs, Shape, DocShape
    <2>2. RenewedUntil(c, d) \in Nat
      BY <1>1, <1>3, <2>1, UntilIsDate
    <2>3. /\ pc'[f] = "renew" /\ work'[f].doc = d /\ work'[f].until = RenewedUntil(c, d)
          /\ work'[f].charge = work[f].charge /\ work'[f].user = work[f].user
          /\ \A g \in Client \ {f} : pc'[g] = pc[g] /\ work'[g] = work[g]
      <3>1. pc[f] # "idle" /\ "renew" \in Step
        BY <1>1 DEF Step
      <3> HIDE DEF active
      <3> QED
        BY <1>1, <1>3, <1>5, <2>1, <2>2, <3>1, FoundFlows
    <2>4. FlowCovers(f)'
      <3> SUFFICES ASSUME c \notin Dated, c \notin ExtensionExcused',
                          NEW e \in Docs(u), status[e] = "ACTIVE", Method[e] = Method[c]
                   PROVE  expires[e] + Period <= RenewedUntil(c, d)
        BY <1>1, <2>3 DEF FlowCovers, Docs
      <3>1. c \notin Slipped("crossed")'
        BY DEF ExtensionExcused
      <3>2. e = d
        BY <1>1, <3>1 DEF Slip, Slipped
      <3>3. RenewedUntil(c, d) = Later(expires[d], now) + Period
        BY DEF RenewedUntil
      <3> QED
        BY <2>1, <3>2, <3>3, PeriodAssumption DEF Later, Shape, TypeOK
    <2>5. FlowInv(f)'
      BY <1>3, <2>1, <2>3, <2>4 DEF FlowInv, FlowOwner, FlowRefund, FlowEnding
    <2> QED
      BY <1>1, <1>2, <2>3, <2>5, AccessFlow DEF KeptFlow, PaymentStep
  <1> QED
    BY <1>4, <1>5 DEF FindActive

\* Whoever else is about to write this document, or one of its user, handles
\* another payment of the user, or the charge a second time.
LEMMA PaymentsMeet ==
  ASSUME Shape, CreditInv, AccessInv, NEW f \in Client, NEW g \in Client \ {f},
         pc[f] \in PaymentStep, pc[g] \in PaymentStep, work[f].user = work[g].user
  PROVE  work[g].charge \in ExtensionExcused
  <1>1. CASE work[f].charge = work[g].charge
    BY <1>1, Alone DEF CreditInv, ExtensionExcused
  <1>2. CASE work[f].charge # work[g].charge
    BY <1>2 DEF AccessInv, CrossedPayments, ExtensionExcused
  <1> QED
    BY <1>1, <1>2

\* A document takes the charge.
LEMMA AccessTaken ==
  ASSUME Shape, Shape', CreditInv, AccessInv, NEW f \in Client,
         pc[f] \in {"renew", "create"}, NEW c \in Charge, c = work[f].charge,
         NEW d \in Charge, Payer[d] = work[f].user,
         latest' = [latest EXCEPT ![d] = c],
         expires' = [expires EXCEPT ![d] = work[f].until],
         Credit(c), Goto(f, "activate"),
         \A e \in Charge \ {d} : status'[e] = status[e], DocsStay,
         slips \subseteq slips',
         status[d] # Absent /\ (\E g \in Client : pc[g] = "dropPro" /\ work[g].charge = d)
             => c \in Slipped("lapsed")',
         UNCHANGED <<refunded, now>>
  PROVE  AccessInv'
  <1>1. /\ pc'[f] = "activate" /\ work' = work
        /\ \A g \in Client \ {f} : KeptFlow(g)
    BY GotoKeeps
  <1>2. /\ work[f].user = Payer[c] /\ pc[f] \in PaymentStep
        /\ credits \in [Charge -> Nat] /\ refunded \subseteq Charge
        /\ latest \in [Charge -> Charge \cup {None}]
    BY DEF AccessInv, FlowInv, FlowOwner, ChargeStep, PaymentStep, Shape, TypeOK
  <1>3. LatestOwner'
    BY <1>2 DEF AccessInv, LatestOwner
  <1>4. RefundCredited'
    BY <1>2, SlipsGrow DEF AccessInv, RefundCredited, Credit
  <1>5. FlowInv(f)'
    <2>1. c \in refunded => c \in RefundExcused
      BY <1>2 DEF AccessInv, RefundCredited, CreditInv, UncreditedYet, RefundExcused
    <2> QED
      BY <1>1, <1>2, <2>1, SlipsGrow
      DEF FlowInv, FlowOwner, FlowRefund, FlowEnding, FlowCovers, ChargeStep, PaymentStep
  <1>6. ASSUME NEW g \in Client \ {f} PROVE KeptFor(g)
    <2>1. RefundsFor(g)
      BY DEF RefundsFor
    <2>2. EndingsFor(g)
      <3> SUFFICES ASSUME NEW e \in Charge, pc[g] = "dropPro", work[g].charge = e, Over(e)
                   PROVE  Over(e)' \/ \E b \in Slipped("lapsed")' : Payer[b] = work[g].user
        BY DEF EndingsFor
      <3>1. CASE e = d
        <4>1. status[d] # Absent /\ work[g].user = Payer[d]
          BY <3>1 DEF Shape, JobShape, AccessInv, FlowInv, FlowOwner, ChargeStep
        <4> QED
          BY <1>2, <3>1, <4>1
      <3>2. CASE e # d
        BY <3>2 DEF Over, Shape, TypeOK
      <3> QED
        BY <3>1, <3>2
    <2>3. CoversFor(g)
      <3>1. CASE pc[g] \in PaymentStep /\ work[g].user = work[f].user
        BY <1>1, <1>2, <3>1, PaymentsMeet, SlipsGrow DEF CoversFor
      <3>2. CASE pc[g] \notin PaymentStep
        BY <3>2 DEF CoversFor, PaymentStep
      <3>3. CASE work[g].user # work[f].user
        BY <3>3 DEF CoversFor, Shape, TypeOK
      <3> QED
        BY <3>1, <3>2, <3>3
    <2> QED
      BY <1>1, <2>1, <2>2, <2>3, NowKept DEF KeptFor
  <1> QED
    BY <1>1, <1>2, <1>3, <1>4, <1>5, <1>6, AccessStep

LEMMA AccessRenew ==
  ASSUME Shape, Shape', CreditInv, AccessInv, NEW f \in Client, Renew(f)
  PROVE  AccessInv'
  <1> DEFINE c == work[f].charge
             d == work[f].doc
  <1>1. /\ pc[f] = "renew" /\ c \in Charge /\ d \in Charge /\ Payer[d] = work[f].user
    BY DEF Renew, Shape, JobShape, AccessInv, FlowInv, FlowOwner, ChargeStep, PaymentStep
  <1>2. /\ latest' = [latest EXCEPT ![d] = c] /\ expires' = [expires EXCEPT ![d] = work[f].until]
        /\ Credit(c) /\ Goto(f, "activate") /\ slips \subseteq slips'
        /\ UNCHANGED <<status, refunded, now>>
    BY DEF Renew
  <1>3. (\E g \in Client : pc[g] = "dropPro" /\ work[g].charge = d) => c \in Slipped("lapsed")'
    BY <1>1 DEF Renew, BeingEnded, Slipped
  <1> QED
    BY <1>1, <1>2, <1>3, AccessTaken DEF DocsStay

LEMMA AccessCreate ==
  ASSUME Shape, Shape', CreditInv, AccessInv, NEW f \in Client, Create(f)
  PROVE  AccessInv'
  <1> DEFINE c == work[f].charge
  <1>1. /\ pc[f] = "create" /\ c \in Charge /\ Payer[c] = work[f].user
    BY DEF Create, Shape, JobShape, AccessInv, FlowInv, FlowOwner, ChargeStep, PaymentStep
  <1>2. CASE status[c] = Absent
    <2>1. /\ latest' = [latest EXCEPT ![c] = c] /\ expires' = [expires EXCEPT ![c] = work[f].until]
          /\ status' = [status EXCEPT ![c] = "ACTIVE"]
          /\ Credit(c) /\ Goto(f, "activate")
          /\ UNCHANGED <<refunded, now>> /\ slips \subseteq slips'
      BY <1>2 DEF Create, Slip
    <2>2. DocsStay /\ \A e \in Charge \ {c} : status'[e] = status[e]
      BY <1>1, <1>2, <2>1 DEF DocsStay, Shape, TypeOK
    <2> QED
      BY <1>1, <1>2, <2>1, <2>2, AccessTaken
  <1>3. CASE status[c] # Absent
    BY <1>3, AccessReturn DEF Create
  <1> QED
    BY <1>2, <1>3

\* An end, a refund: documents stop to be ACTIVE, and no date changes.
LEMMA AccessEnded ==
  ASSUME Shape, Shape', AccessInv, NEW f \in Client, NEW step \in ChargeStep \ PaymentStep,
         Goto(f, step), FlowInv(f)', NEW d \in Charge, status[d] # Absent,
         NEW s \in Status \ {Absent, "ACTIVE"}, status' = [status EXCEPT ![d] = s],
         UNCHANGED <<expires, latest, credits, refunded, now>>, slips \subseteq slips'
  PROVE  AccessInv'
  <1>1. pc'[f] = step /\ \A g \in Client \ {f} : KeptFlow(g)
    BY GotoKeeps
  <1>2. DocsStay
    BY DEF DocsStay, Shape, TypeOK
  <1>3. ASSUME NEW g \in Client \ {f} PROVE KeptFor(g)
    BY <1>1, NowKept DEF KeptFor, RefundsFor, EndingsFor, CoversFor, Over, Shape, TypeOK
  <1>4. LatestOwner' /\ RefundCredited'
    BY SlipsGrow DEF AccessInv, LatestOwner, RefundCredited
  <1> QED
    BY <1>1, <1>2, <1>3, <1>4, AccessStep

LEMMA AccessRefundSub ==
  ASSUME Shape, Shape', AccessInv, NEW f \in Client, RefundSub(f)
  PROVE  AccessInv'
  <1> DEFINE c == work[f].charge
  <1>1. /\ pc[f] = "refundSub" /\ c \in Charge /\ Goto(f, "refundUser")
        /\ UNCHANGED <<expires, latest, credits, refunded, slips, now>>
    BY DEF RefundSub, history, Shape, JobShape, ChargeStep
  <1>2. /\ pc'[f] = "refundUser" /\ work' = work
        /\ \A g \in Client \ {f} : KeptFlow(g)
    BY <1>1, GotoKeeps
  <1>3. FlowInv(f)'
    BY <1>1, <1>2
    DEF AccessInv, FlowInv, FlowOwner, FlowRefund, FlowEnding, FlowCovers, ChargeStep
  <1>4. CASE UNCHANGED status
    BY <1>1, <1>2, <1>3, <1>4, AccessFlow DEF PaymentStep
  <1>5. CASE \E d \in Charge : latest[d] = c /\ status' = [status EXCEPT ![d] = "REFUNDED"]
    <2>1. PICK d \in Charge : latest[d] = c /\ status' = [status EXCEPT ![d] = "REFUNDED"]
      BY <1>5
    <2>2. status[d] # Absent
      BY <1>1, <2>1, ChargeAssumption DEF Shape, DocShape
    <2> QED
      BY <1>1, <1>3, <2>1, <2>2, AccessEnded DEF ChargeStep, PaymentStep, Status, Absent
  <1> QED
    BY <1>4, <1>5 DEF RefundSub

\* What it ends is past its date, or has taken a charge of its user since.
LEMMA AccessSetExpired ==
  ASSUME Shape, Shape', AccessInv, NEW f \in Client, SetExpired(f)
  PROVE  AccessInv'
  <1> DEFINE d == work[f].charge
  <1>1. /\ pc[f] = "setExpired" /\ d \in Charge /\ status[d] # Absent /\ latest[d] \in Charge
        /\ Goto(f, "dropPro") /\ status' = [status EXCEPT ![d] = "EXPIRED"]
        /\ Slip("lapsed", IF Stale(d) THEN {} ELSE {latest[d]})
        /\ UNCHANGED <<expires, latest, credits, refunded, now>>
    BY DEF SetExpired, Shape, JobShape, DocShape, ChargeStep
  <1>2. slips \subseteq slips' /\ (Stale(d) \/ latest[d] \in Slipped("lapsed")')
    BY <1>1 DEF Slip, Slipped
  <1>3. pc'[f] = "dropPro" /\ work' = work
    BY <1>1, GotoKeeps
  <1>4. work[f].user = Payer[d] /\ Payer[latest[d]] = Payer[d]
    BY <1>1 DEF AccessInv, FlowInv, FlowOwner, LatestOwner, ChargeStep
  <1>5. FlowInv(f)'
    BY <1>1, <1>2, <1>3, <1>4 DEF FlowInv, FlowOwner, FlowRefund, FlowEnding, FlowCovers, Stale,
       Over
  <1> QED
    BY <1>1, <1>2, <1>5, AccessEnded DEF ChargeStep, PaymentStep, Status, Absent

LEMMA AccessTakeDeferred ==
  ASSUME Shape, Shape', AccessInv, NEW f \in Client, TakeDeferred(f)
  PROVE  AccessInv'
  <1> DEFINE d == work[f].charge
  <1>1. /\ pc[f] = "takeDeferred" /\ d \in Charge /\ status[d] # Absent /\ latest[d] \in Charge
        /\ Slip("lapsed", IF deferred[d] /\ expires[d] # work[f].until THEN {latest[d]} ELSE {})
        /\ UNCHANGED <<status, expires, latest, credits, refunded, now>>
        /\ work[f].until \in Nat /\ work[f].until <= now
    BY DEF TakeDeferred, Shape, JobShape, DocShape, ChargeStep, AccessInv, FlowInv, FlowEnding
  <1>2. slips \subseteq slips'
    BY <1>1 DEF Slip
  <1>3. CASE deferred[d] /\ Goto(f, "dropPro")
    <2>1. Over(d) \/ latest[d] \in Slipped("lapsed")'
      <3>1. CASE expires[d] = work[f].until
        BY <1>1, <3>1, PeriodAssumption DEF Over
      <3>2. CASE expires[d] # work[f].until
        BY <1>1, <1>3, <3>2 DEF Slip, Slipped
      <3> QED
        BY <3>1, <3>2
    <2>2. pc'[f] = "dropPro" /\ work' = work /\ \A g \in Client \ {f} : KeptFlow(g)
      BY <1>3, GotoKeeps
    <2>3. work[f].user = Payer[d] /\ Payer[latest[d]] = Payer[d]
      BY <1>1 DEF AccessInv, FlowInv, FlowOwner, LatestOwner, ChargeStep
    <2>4. FlowInv(f)'
      BY <1>1, <2>1, <2>2, <2>3 DEF FlowInv, FlowOwner, FlowRefund, FlowEnding, FlowCovers, Over
    <2> QED
      BY <1>1, <1>2, <2>2, <2>4, AccessFlow DEF PaymentStep
  <1>4. CASE Return(f)
    BY <1>1, <1>2, <1>4, AccessReturn
  <1> QED
    BY <1>3, <1>4 DEF TakeDeferred

LEMMA AccessFindCurrent ==
  ASSUME Shape, Shape', AccessInv, NEW f \in Client, FindCurrent(f)
  PROVE  AccessInv'
  <1>1. /\ pc[f] = "findCurrent" /\ work[f] \in Jobs
        /\ UNCHANGED <<status, expires, latest, credits, refunded, now>> /\ slips \subseteq slips'
    BY DEF FindCurrent, Slip, docVars, Shape, JobShape
  <1>2. CASE Return(f)
    BY <1>1, <1>2, AccessReturn
  <1>3. ASSUME NEW d \in Docs(work[f].user), Found(f, "setAutoRenew", d, NoDate)
        PROVE  AccessInv'
    <2>1. Shapes /\ d \in Charge /\ Payer[d] = work[f].user
      BY DEF Shape, Shapes, Docs
    <2>2. /\ pc'[f] = "setAutoRenew" /\ work'[f].doc = d
          /\ work'[f].charge = work[f].charge /\ work'[f].user = work[f].user
          /\ \A g \in Client \ {f} : pc'[g] = pc[g] /\ work'[g] = work[g]
      <3>1. pc[f] # "idle" /\ "setAutoRenew" \in Step
        BY <1>1 DEF Step
      <3> QED
        BY <1>1, <1>3, <2>1, <3>1, FoundFlows
    <2>3. FlowInv(f)'
      BY <2>1, <2>2
      DEF FlowInv, FlowOwner, FlowRefund, FlowEnding, FlowCovers, ChargeStep, PaymentStep
    <2> QED
      BY <1>1, <2>2, <2>3, AccessFlow DEF KeptFlow, PaymentStep
  <1> QED
    BY <1>2, <1>3 DEF FindCurrent

\* A revival leaves a slip with every payment of the user under way.
LEMMA AccessSetAutoRenew ==
  ASSUME Shape, Shape', AccessInv, NEW f \in Client, SetAutoRenew(f)
  PROVE  AccessInv'
  <1> DEFINE d == work[f].doc
             on == work[f].on
  <1>1. /\ pc[f] = "setAutoRenew" /\ d \in Charge /\ Payer[d] = work[f].user
        /\ status[d] # Absent
        /\ status' = [status EXCEPT ![d] = IF on THEN "ACTIVE" ELSE "CANCELLED"]
        /\ Goto(f, "done")
        /\ Slip("crossed", IF on /\ status[d] # "ACTIVE" THEN UnderWay(work[f].user) ELSE {})
        /\ UNCHANGED <<expires, latest, credits, refunded, now>>
    BY DEF SetAutoRenew, Shape, JobShape, AccessInv, FlowInv, FlowOwner
  <1>2. slips \subseteq slips'
    BY <1>1 DEF Slip
  <1>3. pc'[f] = "done" /\ \A g \in Client \ {f} : KeptFlow(g)
    BY <1>1, GotoKeeps
  <1>4. DocsStay
    BY <1>1 DEF DocsStay, Absent, Shape, TypeOK
  <1>5. ASSUME NEW g \in Client \ {f} PROVE KeptFor(g)
    <2>1. RefundsFor(g) /\ EndingsFor(g)
      BY <1>1 DEF RefundsFor, EndingsFor, Over
    <2>2. CoversFor(g)
      <3> SUFFICES ASSUME pc[g] \in {"renew", "create"}, NEW e \in Charge,
                          work[g].charge \notin ExtensionExcused',
                          status'[e] = "ACTIVE", Payer[e] = work[g].user
                   PROVE  status[e] = "ACTIVE" /\ expires'[e] = expires[e]
        BY DEF CoversFor
      <3>1. CASE e # d
        BY <1>1, <3>1 DEF Shape, TypeOK
      <3>2. CASE e = d /\ status[d] # "ACTIVE"
        <4>1. on
          BY <1>1, <3>2 DEF Shape, TypeOK
        <4>2. work[g].charge \in UnderWay(work[f].user)
          BY <1>1, <3>2 DEF UnderWay
        <4>3. slips' = slips \cup ({"crossed"} \X UnderWay(work[f].user))
          BY <1>1, <3>2, <4>1 DEF Slip
        <4>4. <<"crossed", work[g].charge>> \in slips'
          BY <4>2, <4>3
        <4>5. work[g].charge \in Charge
          BY DEF Shape, JobShape, ChargeStep, PaymentStep
        <4> QED
          BY <4>4, <4>5 DEF Slipped, ExtensionExcused
      <3> QED
        BY <1>1, <3>1, <3>2
    <2> QED
      BY <1>1, <1>3, <2>1, <2>2, NowKept DEF KeptFor
  <1>6. FlowInv(f)'
    BY <1>3, FlowFree DEF ChargeStep, PaymentStep
  <1>7. LatestOwner' /\ RefundCredited'
    BY <1>1, <1>2, SlipsGrow DEF AccessInv, LatestOwner, RefundCredited
  <1> QED
    BY <1>1, <1>2, <1>3, <1>4, <1>5, <1>6, <1>7, AccessStep DEF PaymentStep

\* A refund of a charge that is under way, or was never credited, is a slip.
LEMMA AccessBeginRefund ==
  ASSUME Shape, Shape', AccessInv, NEW f \in Client, NEW c \in Charge, BeginRefund(f, c)
  PROVE  AccessInv'
  <1>1. /\ Begin(f, "refundSub", Job(Payer[c], c, FALSE)) /\ refunded' = refunded \cup {c}
        /\ Slip("refundCrossed", IF credits[c] = 0 \/ c \in UnderWay(Payer[c]) THEN {c} ELSE {})
        /\ UNCHANGED <<status, expires, latest, credits, now>>
    BY DEF BeginRefund, docVars
  <1>2. slips \subseteq slips' /\ \A kind : Slipped(kind) \subseteq Slipped(kind)'
    BY <1>1, SlipsGrow DEF Slip
  <1>3. credits[c] = 0 \/ c \in UnderWay(Payer[c]) => c \in Slipped("refundCrossed")'
    BY <1>1 DEF Slip, Slipped
  <1>4. /\ pc'[f] = "refundSub" /\ work'[f].charge = c /\ work'[f].user = Payer[c]
        /\ \A g \in Client \ {f} : KeptFlow(g)
    BY <1>1 DEF Begin, Job, KeptFlow, Shape, TypeOK
  <1>5. FlowInv(f)'
    BY <1>1, <1>4 DEF FlowInv, FlowOwner, FlowRefund, FlowEnding, FlowCovers
  <1>6. ASSUME NEW g \in Client \ {f} PROVE KeptFor(g)
    <2>1. EndingsFor(g) /\ CoversFor(g)
      BY <1>1 DEF EndingsFor, CoversFor, Over
    <2>2. RefundsFor(g)
      <3> SUFFICES ASSUME pc[g] = "activate", work[g].charge = c
                   PROVE  c \in Slipped("refundCrossed")'
        BY <1>1 DEF RefundsFor
      <3>1. work[g].user = Payer[c]
        BY DEF AccessInv, FlowInv, FlowOwner, ChargeStep, PaymentStep
      <3>2. c \in UnderWay(Payer[c])
        BY <3>1 DEF UnderWay
      <3> QED
        BY <1>3, <3>2
    <2> QED
      BY <1>1, <1>4, <2>1, <2>2, NowKept DEF KeptFor
  <1>7. LatestOwner' /\ RefundCredited' /\ DocsStay
    BY <1>1, <1>2, <1>3 DEF AccessInv, LatestOwner, RefundCredited, DocsStay, Shape, TypeOK
  <1> QED
    BY <1>1, <1>2, <1>4, <1>5, <1>6, <1>7, AccessStep DEF PaymentStep

LEMMA AccessRequest ==
  ASSUME Shape, Shape', AccessInv, NEW f \in Client, RequestNext(f) \/ CronNext(f)
  PROVE  AccessInv'
  <1>1. ASSUME NEW c \in Charge, BeginPayment(f, c) \/ BeginRefund(f, c) PROVE AccessInv'
    BY <1>1, AccessBeginPayment, AccessBeginRefund
  <1>2. ASSUME NEW u \in User, BeginInvoice(f, u) PROVE AccessInv'
    <2>1. /\ Begin(f, "link", Job(u, None, TRUE))
          /\ UNCHANGED <<status, expires, latest, credits, refunded, now, slips>>
      BY <1>2 DEF BeginInvoice, docVars, history
    <2>2. FlowInv(f)'
      BY <2>1, FlowFree DEF Begin, ChargeStep, PaymentStep, Shape, TypeOK
    <2> QED
      BY <2>1, <2>2, AccessBegin DEF Step, PaymentStep
  <1>3. ASSUME NEW u \in User, NEW on \in BOOLEAN, BeginAutoRenew(f, u, on) PROVE AccessInv'
    <2>1. /\ Begin(f, "findCurrent", Job(u, None, on))
          /\ UNCHANGED <<status, expires, latest, credits, refunded, now, slips>>
      BY <1>3 DEF BeginAutoRenew, docVars, history
    <2>2. FlowInv(f)'
      BY <2>1, FlowFree DEF Begin, ChargeStep, PaymentStep, Shape, TypeOK
    <2> QED
      BY <2>1, <2>2, AccessBegin DEF Step, PaymentStep
  <1>4. ASSUME NEW d \in Charge, FindStale(f, d) PROVE AccessInv'
    <2>1. /\ Begin(f, "setExpired", Job(Payer[d], d, FALSE))
          /\ UNCHANGED <<status, expires, latest, credits, refunded, now, slips>>
      BY <1>4 DEF FindStale, docVars, history
    <2>2. pc'[f] = "setExpired" /\ work'[f].charge = d /\ work'[f].user = Payer[d]
      BY <2>1 DEF Begin, Job, Shape, TypeOK
    <2>3. FlowInv(f)'
      BY <2>2 DEF FlowInv, FlowOwner, FlowRefund, FlowEnding, FlowCovers
    <2> QED
      BY <2>1, <2>3, AccessBegin DEF Step, PaymentStep
  <1>5. ASSUME NEW d \in Charge, FindDeferred(f, d) PROVE AccessInv'
    <2> DEFINE job == [Job(Payer[d], d, FALSE) EXCEPT !.until = expires[d]]
    <2>1. /\ Begin(f, "takeDeferred", job) /\ Over(d) /\ status[d] # Absent
          /\ UNCHANGED <<status, expires, latest, credits, refunded, now, slips>>
      BY <1>5 DEF FindDeferred, DeferralDue, Absent, docVars, history
    <2>2. job.charge = d /\ job.user = Payer[d] /\ job.until = expires[d]
      BY DEF Job
    <2>3. expires[d] \in Nat /\ expires[d] <= now /\ now' = now
      BY <2>1 DEF Over, Shape, DocShape
    <2> HIDE DEF job
    <2>4. /\ pc'[f] = "takeDeferred" /\ work'[f].charge = d /\ work'[f].user = Payer[d]
          /\ work'[f].until = expires[d]
      BY <2>1, <2>2 DEF Begin, Shape, TypeOK
    <2>5. FlowInv(f)'
      BY <2>3, <2>4 DEF FlowInv, FlowOwner, FlowRefund, FlowEnding, FlowCovers
    <2> QED
      BY <2>1, <2>5, AccessBegin DEF Step, PaymentStep
  <1>6. CASE CronNext(f)
    BY <1>4, <1>5, <1>6 DEF CronNext
  <1> QED
    BY <1>1, <1>2, <1>3, <1>6 DEF RequestNext

LEMMA AccessHandler ==
  ASSUME Shape, Shape', CreditInv, AccessInv, NEW f \in Client, HandlerNext(f)
  PROVE  AccessInv'
  <1>1. CASE FindCharge(f) \/ FindActive(f) \/ Renew(f) \/ Create(f)
    BY <1>1, AccessFindCharge, AccessFindActive, AccessRenew, AccessCreate
  <1>2. CASE Activate(f)
    <2>1. /\ pc[f] = "activate" /\ Goto(f, "answer")
          /\ UNCHANGED <<status, expires, latest, credits, refunded, slips, now>>
      BY <1>2 DEF Activate, docVars
    <2>2. pc'[f] = "answer" /\ work' = work /\ \A g \in Client \ {f} : KeptFlow(g)
      BY <2>1, GotoKeeps
    <2>3. FlowInv(f)'
      BY <2>1, <2>2
      DEF AccessInv, FlowInv, FlowOwner, FlowRefund, FlowEnding, FlowCovers, ChargeStep, PaymentStep
    <2> QED
      BY <2>1, <2>2, <2>3, AccessFlow DEF PaymentStep
  <1>3. CASE Answer(f) \/ Link(f) \/ Done(f) \/ RefundUser(f) \/ DropPro(f)
    BY <1>3, AccessReturn DEF Answer, Link, Done, RefundUser, DropPro, Slip, docVars, history
  <1>4. CASE FindCurrent(f) \/ SetAutoRenew(f)
    BY <1>4, AccessFindCurrent, AccessSetAutoRenew
  <1>5. CASE RefundSub(f) \/ SetExpired(f) \/ TakeDeferred(f)
    BY <1>5, AccessRefundSub, AccessSetExpired, AccessTakeDeferred
  <1> QED
    BY <1>1, <1>2, <1>3, <1>4, <1>5 DEF HandlerNext

LEMMA AccessNext ==
  ASSUME Shape, Shape', CreditInv, AccessInv, [Next]_vars
  PROVE  AccessInv'
  <1>1. ASSUME NEW f \in Client, RequestNext(f) \/ CronNext(f) PROVE AccessInv'
    BY <1>1, AccessRequest
  <1>2. ASSUME NEW f \in Client, HandlerNext(f) PROVE AccessInv'
    BY <1>2, AccessHandler
  <1>3. ASSUME NEW f \in Client, Throw(f) \/ Crash(f) PROVE AccessInv'
    BY <1>3, AccessReturn DEF Throw, Crash, CutOff, docVars
  <1>4. now <= now
    BY DEF Shape, TypeOK
  <1>5. ASSUME NEW c \in Charge, Pay(c) PROVE AccessInv'
    BY <1>4, <1>5, AccessQuiet DEF Pay, KeptFlow, docVars, flowVars, history
  <1>6. ASSUME NEW r \in Resource, LoseLock(r) \/ ExpireLock(r) PROVE AccessInv'
    BY <1>4, <1>6, AccessQuiet DEF LoseLock, ExpireLock, Slip, KeptFlow, docVars, flowVars, history
  <1>7. CASE Tick
    <2>1. \A g \in Client : KeptFlow(g)
      BY <1>7 DEF Tick, KeptFlow, Shape, JobShape, Jobs
    <2> QED
      BY <1>7, <2>1, AccessQuiet DEF Tick, docVars, history, Shape, TypeOK
  <1>8. CASE UNCHANGED vars
    BY <1>4, <1>8, AccessQuiet DEF vars, KeptFlow, docVars, flowVars, history
  <1> QED
    BY <1>1, <1>2, <1>3, <1>5, <1>6, <1>7, <1>8 DEF Next

LEMMA AccessInit == Init => AccessInv
  <1> SUFFICES ASSUME Init PROVE AccessInv
    OBVIOUS
  <1>1. LatestOwner /\ RefundCredited /\ CrossedPayments
    BY ChargeAssumption DEF Init, LatestOwner, RefundCredited, CrossedPayments, PaymentStep
  <1>2. \A f \in Client : FlowInv(f)
    BY
    DEF Init, FlowInv, FlowOwner, FlowRefund, FlowEnding, FlowCovers, ChargeStep, PaymentStep
  <1> QED
    BY <1>1, <1>2 DEF AccessInv

-----------------------------------------------------------------------------
(* Which documents give access.  A document that no longer does is past    *)
(* its date or refunded, or a cron ended it while it was renewed           *)
(* (EndedIsOver).  A user has one that does, or had two at once and a slip *)
(* (OneLives).  So a cron that ends the access for one document ends it    *)
(* for none that is paid.                                                  *)

\* A flow that is about to revive a document or to end the access for it.
AtWorkOn(f, d) ==
    \/ pc[f] = "setAutoRenew" /\ work[f].doc = d
    \/ pc[f] \in {"setExpired", "takeDeferred", "dropPro"} /\ work[f].charge = d

WorkStep == {"setAutoRenew", "setExpired", "takeDeferred", "dropPro"}

OneLives ==
    \A d, e \in Charge :
        status[d] # Absent /\ status[e] # Absent /\ Live(d) /\ Live(e)
        /\ d # e /\ Payer[d] = Payer[e] => \E c \in Slipped("beside") : Payer[c] = Payer[d]

\* How a document that gives no access came to that.
Ended(d) ==
    \/ status[d] = "ACTIVE" \/ deferred[d]
    \/ Over(d) \/ latest[d] \in refunded
    \/ \E c \in Slipped("lapsed") : Payer[c] = Payer[d]

EndedIsOver == \A d \in Charge : status[d] # Absent => Ended(d)

LiveInv == OneLives /\ EndedIsOver

\* Nothing comes to life, or alone, or with a slip.
LEMMA LiveStep ==
  ASSUME LiveInv, slips \subseteq slips', NEW b \in Charge,
         \A d \in Charge \ {b} : status'[d] # Absent /\ Live(d)' => status[d] # Absent /\ Live(d),
         \/ status'[b] # Absent /\ Live(b)' => status[b] # Absent /\ Live(b)
         \/ \A e \in Charge \ {b} : status[e] # Absent /\ Payer[e] = Payer[b] => ~Live(e)
         \/ b \in Slipped("beside")',
         EndedIsOver'
  PROVE  LiveInv'
  <1>1. \A c \in Slipped("beside") : c \in Slipped("beside")'
    BY DEF Slipped
  <1> SUFFICES ASSUME NEW d \in Charge, NEW e \in Charge, d # e, Payer[d] = Payer[e],
                      status'[d] # Absent, status'[e] # Absent, Live(d)', Live(e)'
               PROVE  \E c \in Slipped("beside")' : Payer[c] = Payer[d]
    BY DEF LiveInv, OneLives
  <1>2. CASE status[d] # Absent /\ Live(d) /\ status[e] # Absent /\ Live(e)
    BY <1>1, <1>2 DEF LiveInv, OneLives
  <1>3. CASE d = b \/ e = b
    <2>1. CASE b \in Slipped("beside")'
      BY <1>3, <2>1
    <2>2. CASE \A x \in Charge \ {b} : status[x] # Absent /\ Payer[x] = Payer[b] => ~Live(x)
      BY <1>3, <2>2
    <2>3. CASE status'[b] # Absent /\ Live(b)' => status[b] # Absent /\ Live(b)
      BY <1>2, <1>3, <2>3
    <2> QED
      BY <2>1, <2>2, <2>3
  <1> QED
    BY <1>2, <1>3

\* A document the step leaves alone.
LEMMA EndedStays ==
  ASSUME Shape, NEW d \in Charge, Ended(d),
         status'[d] = status[d], deferred'[d] = deferred[d], expires'[d] = expires[d],
         latest'[d] = latest[d], refunded \subseteq refunded', slips \subseteq slips',
         now' \in Nat, now <= now'
  PROVE  Ended(d)'
  <1>1. Over(d) => Over(d)'
    BY PeriodAssumption DEF Over, Shape, TypeOK
  <1> QED
    BY <1>1, SlipsGrow DEF Ended

\* No flow takes up a document: those that go on leave it as it is.
LEMMA LiveQuiet ==
  ASSUME Shape, LiveInv, \A g \in Client : KeptFlow(g) \/ pc'[g] \notin WorkStep,
         UNCHANGED <<status, deferred, expires, latest>>, refunded \subseteq refunded',
         slips \subseteq slips', now' \in Nat, now <= now'
  PROVE  LiveInv'
  <1>1. \A d \in Charge : Live(d)' => Live(d)
    BY DEF Live, KeptFlow, WorkStep
  <1>2. EndedIsOver'
    BY EndedStays DEF LiveInv, EndedIsOver
  <1>3. OneLives'
    BY <1>1, SlipsGrow DEF LiveInv, OneLives
  <1> QED
    BY <1>2, <1>3 DEF LiveInv

\* A flow goes on with a document it has at hand, or leaves one.
LEMMA LiveGoto ==
  ASSUME Shape, NEW f \in Client, NEW step, Goto(f, step), NEW d \in Charge,
         AtWorkOn(f, d)' => Live(d),
         status'[d] = "ACTIVE" => Live(d), deferred'[d] => Live(d), Live(d)'
  PROVE  Live(d)
  <1>1. /\ work' = work /\ \A g \in Client \ {f} : pc'[g] = pc[g]
    BY DEF Goto, Shape, TypeOK
  <1> QED
    BY <1>1 DEF Live, AtWorkOn

LEMMA LiveCron ==
  ASSUME Shape, LiveInv, NEW f \in Client, CronNext(f)
  PROVE  LiveInv'
  <1>1. PICK d \in Charge : FindStale(f, d) \/ FindDeferred(f, d)
    BY DEF CronNext
  <1>2. /\ Live(d)
        /\ UNCHANGED <<status, deferred, expires, latest, refunded, slips, now>>
    BY <1>1 DEF FindStale, FindDeferred, Stale, DeferralDue, Live, docVars, history
  <1>3. /\ pc'[f] \in {"setExpired", "takeDeferred"} /\ work'[f].charge = d
        /\ \A g \in Client \ {f} : pc'[g] = pc[g] /\ work'[g] = work[g]
    <2>1. CASE FindStale(f, d)
      BY <2>1 DEF FindStale, Begin, Job, Shape, TypeOK
    <2>2. CASE FindDeferred(f, d)
      BY <2>2 DEF FindDeferred, Begin, Job, Shape, TypeOK
    <2> QED
      BY <1>1, <2>1, <2>2
  <1>4. \A e \in Charge : Live(e)' => Live(e)
    BY <1>2, <1>3 DEF Live
  <1>5. EndedIsOver'
    BY <1>2, EndedStays DEF LiveInv, EndedIsOver, Shape, TypeOK
  <1> QED
    BY <1>2, <1>4, <1>5 DEF LiveInv, OneLives, Slipped

LEMMA LiveRenew ==
  ASSUME Shape, AccessInv, LiveInv, NEW f \in Client, Renew(f)
  PROVE  LiveInv'
  <1>1. PICK d \in Charge, c \in Charge : d = work[f].doc /\ c = work[f].charge
    BY DEF Renew, Shape, JobShape, ChargeStep, PaymentStep
  <1>2. /\ pc[f] = "renew" /\ d \in Charge /\ c \in Charge /\ Payer[c] = Payer[d]
        /\ Goto(f, "activate") /\ slips \subseteq slips'
        /\ \A e \in Charge \ {d} : expires'[e] = expires[e] /\ latest'[e] = latest[e]
        /\ UNCHANGED <<status, deferred, refunded, now>>
    BY <1>1 DEF Renew, Shape, TypeOK, JobShape, AccessInv, FlowInv, FlowOwner, ChargeStep, PaymentStep
  <1>3. status[d] # "ACTIVE" => c \in Slipped("lapsed")'
    BY <1>1, <1>2 DEF Renew, BeingEnded, Slipped
  <1>4. pc'[f] = "activate"
    BY <1>1, <1>2, GotoKeeps
  <1>5. \A e \in Charge : Live(e)' => Live(e)
    BY <1>1, <1>2, <1>4, LiveGoto DEF AtWorkOn, Live
  <1>6. EndedIsOver'
    <2>1. Ended(d)'
      BY <1>1, <1>2, <1>3 DEF Ended
    <2>2. ASSUME NEW e \in Charge \ {d}, status[e] # Absent PROVE Ended(e)'
      BY <1>1, <1>2, <2>2, EndedStays DEF LiveInv, EndedIsOver, Shape, TypeOK
    <2> QED
      BY <1>1, <1>2, <2>1, <2>2 DEF EndedIsOver
  <1> QED
    BY <1>1, <1>2, <1>5, <1>6, LiveStep

LEMMA LiveCreate ==
  ASSUME Shape, LiveInv, NEW f \in Client, Create(f), Goto(f, "activate"),
         status[work[f].charge] = Absent
  PROVE  LiveInv'
  <1>1. PICK c \in Charge : c = work[f].charge
    BY DEF Create, Shape, JobShape, ChargeStep, PaymentStep
  <1>2. /\ c \in Charge /\ pc'[f] = "activate"
        /\ status' = [status EXCEPT ![c] = "ACTIVE"]
        /\ \A e \in Charge \ {c} : expires'[e] = expires[e] /\ latest'[e] = latest[e]
        /\ Slip("beside", IF Beside(c) THEN {c} ELSE {})
        /\ UNCHANGED <<deferred, refunded, now>>
    BY <1>1, GotoKeeps DEF Create, Shape, TypeOK, JobShape, ChargeStep, PaymentStep
  <1>3. slips \subseteq slips' /\ \A e \in Charge \ {c} : status'[e] = status[e]
    BY <1>1, <1>2 DEF Slip, Shape, TypeOK
  <1>4. \A e \in Charge \ {c} : Live(e)' => Live(e)
    BY <1>1, <1>2, <1>3, LiveGoto DEF AtWorkOn, Live
  <1>5. \/ \A e \in Charge \ {c} : status[e] # Absent /\ Payer[e] = Payer[c] => ~Live(e)
        \/ c \in Slipped("beside")'
    <2>1. CASE Beside(c)
      BY <1>1, <1>2, <2>1 DEF Slip, Slipped
    <2>2. CASE ~Beside(c)
      BY <1>1, <2>2 DEF Beside, Docs
    <2> QED
      BY <1>1, <2>1, <2>2
  <1>6. EndedIsOver'
    <2>1. Ended(c)'
      BY <1>1, <1>2 DEF Ended, Shape, TypeOK
    <2>2. ASSUME NEW e \in Charge \ {c}, status[e] # Absent PROVE Ended(e)'
      BY <1>1, <1>2, <1>3, <2>2, EndedStays DEF LiveInv, EndedIsOver, Shape, TypeOK
    <2> QED
      BY <1>1, <1>3, <2>1, <2>2 DEF EndedIsOver
  <1> QED
    BY <1>1, <1>2, <1>3, <1>4, <1>5, <1>6, LiveStep

LEMMA LiveFindCurrent ==
  ASSUME Shape, LiveInv, NEW f \in Client, FindCurrent(f),
         NEW d \in Docs(work[f].user), Found(f, "setAutoRenew", d, NoDate),
         Slip("beside", IF Beside(d) THEN {d} ELSE {})
  PROVE  LiveInv'
  <1>1. /\ d \in Charge /\ slips \subseteq slips'
        /\ UNCHANGED <<status, deferred, expires, latest, refunded, now>>
    BY DEF FindCurrent, Slip, Docs, docVars
  <1>2. /\ pc'[f] = "setAutoRenew" /\ work'[f].doc = d
        /\ \A g \in Client \ {f} : pc'[g] = pc[g] /\ work'[g] = work[g]
    <2>1. pc \in [Client -> Step] /\ work \in [Client -> Jobs \cup {None}] /\ work[f] \in Jobs
      BY DEF Shape, Shapes, TypeOK, JobShape, FindCurrent
    <2>2. /\ pc' = [pc EXCEPT ![f] = "setAutoRenew"]
          /\ work' = [work EXCEPT ![f] = [@ EXCEPT !.doc = d, !.until = NoDate]]
      BY DEF Found
    <2> QED
      BY <2>1, <2>2 DEF Jobs
  <1>3. \A e \in Charge \ {d} : Live(e)' => Live(e)
    BY <1>1, <1>2 DEF Live
  <1>4. \/ \A e \in Charge \ {d} : status[e] # Absent /\ Payer[e] = Payer[d] => ~Live(e)
        \/ d \in Slipped("beside")'
    <2>1. CASE Beside(d)
      BY <1>1, <2>1 DEF Slip, Slipped
    <2>2. CASE ~Beside(d)
      BY <2>2 DEF Beside, Docs
    <2> QED
      BY <2>1, <2>2
  <1>5. EndedIsOver'
    BY <1>1, EndedStays DEF LiveInv, EndedIsOver, Shape, TypeOK
  <1> QED
    BY <1>1, <1>3, <1>4, <1>5, LiveStep

LEMMA LiveSetAutoRenew ==
  ASSUME Shape, LiveInv, NEW f \in Client, SetAutoRenew(f)
  PROVE  LiveInv'
  <1>1. PICK d \in Charge : d = work[f].doc
    BY DEF SetAutoRenew, Shape, JobShape
  <1>2. /\ pc[f] = "setAutoRenew" /\ d \in Charge /\ pc'[f] = "done" /\ Goto(f, "done")
        /\ status' = [status EXCEPT ![d] = IF work[f].on THEN "ACTIVE" ELSE "CANCELLED"]
        /\ deferred' = [deferred EXCEPT ![d] = ~work[f].on]
        /\ slips \subseteq slips' /\ UNCHANGED <<expires, latest, refunded, now>>
        /\ status[d] # Absent
    BY <1>1, GotoKeeps DEF SetAutoRenew, Slip, Shape, JobShape
  <1>3. Live(d)
    BY <1>1, <1>2 DEF Live
  <1>4. \A e \in Charge : /\ Live(e)' => Live(e)
                          /\ status'[e] # Absent => status[e] # Absent
    BY <1>1, <1>2, <1>3, LiveGoto DEF AtWorkOn, Live, Shape, TypeOK
  <1>5. EndedIsOver'
    <2>1. Ended(d)'
      BY <1>1, <1>2 DEF Ended, Shape, TypeOK
    <2>2. ASSUME NEW e \in Charge \ {d}, status[e] # Absent PROVE Ended(e)'
      BY <1>1, <1>2, <2>2, EndedStays DEF LiveInv, EndedIsOver, Shape, TypeOK
    <2> QED
      BY <1>1, <1>4, <2>1, <2>2 DEF EndedIsOver
  <1> QED
    BY <1>1, <1>2, <1>4, <1>5, LiveStep

\* The steps that end a document's life.
LEMMA LiveEnds ==
  ASSUME Shape, LiveInv, NEW f \in Client, NEW step, Goto(f, step), NEW d \in Charge,
         \A e \in Charge : AtWorkOn(f, e)' => AtWorkOn(f, e),
         \A e \in Charge : /\ status'[e] = "ACTIVE" => status[e] = "ACTIVE"
                           /\ deferred'[e] => deferred[e]
                           /\ status'[e] # Absent => status[e] # Absent,
         \A e \in Charge \ {d} : status'[e] = status[e] /\ deferred'[e] = deferred[e],
         UNCHANGED <<expires, latest, refunded, now>>, slips \subseteq slips',
         Ended(d)'
  PROVE  LiveInv'
  <1>1. \A e \in Charge : Live(e)' => Live(e)
    <2>1. \A e \in Charge : AtWorkOn(f, e) => Live(e)
      BY DEF AtWorkOn, Live
    <2> QED
      BY <2>1, LiveGoto DEF Live
  <1>2. EndedIsOver'
    <2>1. ASSUME NEW e \in Charge \ {d}, status[e] # Absent PROVE Ended(e)'
      BY <2>1, EndedStays DEF LiveInv, EndedIsOver, Shape, TypeOK
    <2> QED
      BY <2>1 DEF EndedIsOver
  <1> QED
    BY <1>1, <1>2, LiveStep

LEMMA LiveRefundSub ==
  ASSUME Shape, AccessInv, LiveInv, NEW f \in Client, RefundSub(f)
  PROVE  LiveInv'
  <1> DEFINE c == work[f].charge
  <1>1. /\ pc[f] = "refundSub" /\ Goto(f, "refundUser") /\ pc'[f] = "refundUser"
        /\ c \in refunded /\ UNCHANGED <<expires, latest, refunded, slips, now>>
    BY GotoKeeps DEF RefundSub, AccessInv, FlowInv, FlowRefund, history
  <1>2. CASE UNCHANGED <<status, deferred>>
    <2>1. \A g \in Client : KeptFlow(g) \/ pc'[g] \notin WorkStep
      BY <1>1, GotoKeeps DEF WorkStep
    <2> QED
      BY <1>1, <1>2, <2>1, LiveQuiet DEF Shape, TypeOK
  <1>3. CASE \E d \in Charge : /\ latest[d] = c
                               /\ status' = [status EXCEPT ![d] = "REFUNDED"]
                               /\ deferred' = [deferred EXCEPT ![d] = FALSE]
    <2>1. PICK d \in Charge : /\ latest[d] = c
                              /\ status' = [status EXCEPT ![d] = "REFUNDED"]
                              /\ deferred' = [deferred EXCEPT ![d] = FALSE]
      BY <1>3
    <2>2. status[d] # Absent
      BY <1>1, <2>1, ChargeAssumption DEF Shape, DocShape, JobShape, ChargeStep
    <2>3. Ended(d)'
      BY <1>1, <2>1 DEF Ended
    <2> QED
      BY <1>1, <2>1, <2>2, <2>3, LiveEnds DEF AtWorkOn, Shape, TypeOK
  <1> QED
    BY <1>2, <1>3 DEF RefundSub

LEMMA LiveSetExpired ==
  ASSUME Shape, AccessInv, LiveInv, NEW f \in Client, SetExpired(f)
  PROVE  LiveInv'
  <1>1. PICK d \in Charge : d = work[f].charge
    BY DEF SetExpired, Shape, JobShape, ChargeStep
  <1>2. /\ pc[f] = "setExpired" /\ d \in Charge /\ Goto(f, "dropPro") /\ pc'[f] = "dropPro"
        /\ status[d] # Absent /\ work' = work
        /\ status' = [status EXCEPT ![d] = "EXPIRED"]
        /\ deferred' = [deferred EXCEPT ![d] = FALSE]
        /\ Slip("lapsed", IF Stale(d) THEN {} ELSE {latest[d]})
        /\ UNCHANGED <<expires, latest, refunded, now>>
    BY <1>1, GotoKeeps DEF SetExpired, Shape, JobShape, ChargeStep
  <1>3. slips \subseteq slips'
    BY <1>1, <1>2 DEF Slip
  <1>4. Ended(d)'
    <2>1. CASE Stale(d)
      BY <1>1, <1>2, <2>1 DEF Stale, Over, Ended
    <2>2. CASE ~Stale(d)
      <3>1. latest[d] \in Charge /\ Payer[latest[d]] = Payer[d]
        BY <1>1, <1>2 DEF Shape, DocShape, AccessInv, LatestOwner
      <3>2. latest[d] \in Slipped("lapsed")'
        BY <1>1, <1>2, <2>2, <3>1 DEF Slip, Slipped
      <3> QED
        BY <1>1, <3>1, <3>2 DEF Ended
    <2> QED
      BY <1>1, <2>1, <2>2
  <1>5. \A e \in Charge : AtWorkOn(f, e)' => AtWorkOn(f, e)
    BY <1>1, <1>2 DEF AtWorkOn
  <1> QED
    BY <1>1, <1>2, <1>3, <1>4, <1>5, LiveEnds DEF Shape, TypeOK

\* Its flag is taken at the date the list was read for, or with a slip.
LEMMA LiveTakeDeferred ==
  ASSUME Shape, AccessInv, LiveInv, NEW f \in Client, TakeDeferred(f)
  PROVE  LiveInv'
  <1>1. PICK d \in Charge : d = work[f].charge
    BY DEF TakeDeferred, Shape, JobShape, ChargeStep
  <1>2. /\ pc[f] = "takeDeferred" /\ d \in Charge /\ status[d] # Absent
        /\ deferred' = [deferred EXCEPT ![d] = FALSE]
        /\ Slip("lapsed", IF deferred[d] /\ expires[d] # work[f].until THEN {latest[d]} ELSE {})
        /\ work[f].until \in Nat /\ work[f].until <= now
        /\ UNCHANGED <<status, expires, latest, refunded, now>>
    BY <1>1 DEF TakeDeferred, Shape, JobShape, ChargeStep, AccessInv, FlowInv, FlowEnding
  <1>3. slips \subseteq slips'
    BY <1>1, <1>2 DEF Slip
  <1>4. CASE ~deferred[d]
    <2>1. UNCHANGED deferred /\ Shapes /\ Return(f)
      BY <1>1, <1>2, <1>4 DEF TakeDeferred, Shape, Shapes, TypeOK
    <2>2. \A g \in Client : KeptFlow(g) \/ pc'[g] \notin WorkStep
      BY <1>1, <2>1, ReturnFlows DEF KeptFlow, WorkStep
    <2> QED
      BY <1>1, <1>2, <1>3, <2>1, <2>2, LiveQuiet DEF Shape, TypeOK
  <1>5. CASE deferred[d]
    <2>1. Goto(f, "dropPro") /\ pc'[f] = "dropPro" /\ work' = work
      BY <1>1, <1>5, GotoKeeps DEF TakeDeferred
    <2>2. Ended(d)'
      <3>1. CASE expires[d] = work[f].until
        BY <1>1, <1>2, <3>1, PeriodAssumption DEF Ended, Over, Shape, TypeOK
      <3>2. CASE expires[d] # work[f].until
        <4>1. latest[d] \in Charge /\ Payer[latest[d]] = Payer[d]
          BY <1>1, <1>2 DEF Shape, DocShape, AccessInv, LatestOwner
        <4>2. latest[d] \in Slipped("lapsed")'
          BY <1>1, <1>2, <1>5, <3>2, <4>1 DEF Slip, Slipped
        <4> QED
          BY <1>1, <4>1, <4>2 DEF Ended
      <3> QED
        BY <1>1, <3>1, <3>2
    <2>3. \A e \in Charge : AtWorkOn(f, e)' => AtWorkOn(f, e)
      BY <1>1, <1>2, <2>1 DEF AtWorkOn
    <2> QED
      BY <1>1, <1>2, <1>3, <2>1, <2>2, <2>3, LiveEnds DEF Shape, TypeOK
  <1> QED
    BY <1>1, <1>4, <1>5

\* The rest takes up no document.
LEMMA LiveRest ==
  ASSUME Shape, Shape', LiveInv, NEW f \in Client,
         \/ Return(f) \/ Crash(f)
         \/ \E step \in Step \ WorkStep : Goto(f, step)
         \/ \E step \in Step \ WorkStep : \E job : Begin(f, step, job)
         \/ \E step \in Step \ WorkStep : \E d, until : Found(f, step, d, until),
         UNCHANGED <<status, deferred, expires, latest, now>>, refunded \subseteq refunded',
         slips \subseteq slips'
  PROVE  LiveInv'
  <1>1. /\ pc'[f] \notin WorkStep
        /\ \A g \in Client \ {f} : pc'[g] = pc[g] /\ work'[g] = work[g]
    <2>1. pc \in [Client -> Step] /\ pc' \in [Client -> Step]
      BY DEF Shape, TypeOK
    <2>2. \A g \in Client \ {f} : pc'[g] = pc[g] /\ work'[g] = work[g]
      BY <2>1 DEF Return, Crash, Goto, Begin, Found, Shape, TypeOK
    <2>3. pc'[f] \notin WorkStep
      BY <2>1 DEF Return, Crash, Goto, Begin, Found, WorkStep
    <2> QED
      BY <2>2, <2>3
  <1> QED
    BY <1>1, LiveQuiet DEF KeptFlow, Shape, TypeOK

LEMMA LiveHandler ==
  ASSUME Shape, Shape', AccessInv, LiveInv, NEW f \in Client, HandlerNext(f)
  PROVE  LiveInv'
  <1>1. CASE FindCharge(f) \/ Activate(f)
    BY <1>1, LiveRest DEF FindCharge, Activate, Step, WorkStep, docVars, history
  <1>2. CASE FindActive(f)
    BY <1>2, LiveRest DEF FindActive, Slip, Step, WorkStep, docVars
  <1>3. CASE Renew(f) \/ SetAutoRenew(f) \/ RefundSub(f) \/ SetExpired(f) \/ TakeDeferred(f)
    BY <1>3, LiveRenew, LiveSetAutoRenew, LiveRefundSub, LiveSetExpired, LiveTakeDeferred
  <1>4. CASE Create(f)
    <2>1. CASE status[work[f].charge] = Absent
      BY <1>4, <2>1, LiveCreate DEF Create
    <2>2. CASE status[work[f].charge] # Absent
      BY <1>4, <2>2, LiveRest DEF Create
    <2> QED
      BY <2>1, <2>2
  <1>5. CASE FindCurrent(f)
    <2>1. CASE Return(f) /\ UNCHANGED slips
      BY <1>5, <2>1, LiveRest DEF FindCurrent, docVars
    <2>2. CASE \E d \in Docs(work[f].user) : /\ Found(f, "setAutoRenew", d, NoDate)
                                             /\ Slip("beside", IF Beside(d) THEN {d} ELSE {})
      BY <1>5, <2>2, LiveFindCurrent
    <2> QED
      BY <1>5, <2>1, <2>2 DEF FindCurrent
  <1>6. CASE Answer(f) \/ Link(f) \/ Done(f) \/ RefundUser(f)
    BY <1>6, LiveRest DEF Answer, Link, Done, RefundUser, docVars, history
  <1>7. CASE DropPro(f)
    BY <1>7, LiveRest DEF DropPro, Slip, docVars
  <1> QED
    BY <1>1, <1>2, <1>3, <1>4, <1>5, <1>6, <1>7 DEF HandlerNext

LEMMA LiveRequest ==
  ASSUME Shape, Shape', LiveInv, NEW f \in Client, RequestNext(f)
  PROVE  LiveInv'
  <1>1. ASSUME NEW c \in Charge, BeginPayment(f, c) PROVE LiveInv'
    BY <1>1, LiveRest DEF BeginPayment, Slip, Step, WorkStep, docVars
  <1>2. ASSUME NEW c \in Charge, BeginRefund(f, c) PROVE LiveInv'
    BY <1>2, LiveRest DEF BeginRefund, Slip, Step, WorkStep, docVars
  <1>3. ASSUME NEW u \in User, BeginInvoice(f, u) PROVE LiveInv'
    BY <1>3, LiveRest DEF BeginInvoice, Step, WorkStep, docVars, history
  <1>4. ASSUME NEW u \in User, NEW on \in BOOLEAN, BeginAutoRenew(f, u, on) PROVE LiveInv'
    BY <1>4, LiveRest DEF BeginAutoRenew, Step, WorkStep, docVars, history
  <1> QED
    BY <1>1, <1>2, <1>3, <1>4 DEF RequestNext

LEMMA LiveNext ==
  ASSUME Shape, Shape', AccessInv, LiveInv, [Next]_vars
  PROVE  LiveInv'
  <1>1. ASSUME NEW f \in Client, RequestNext(f) \/ CronNext(f) \/ HandlerNext(f) PROVE LiveInv'
    BY <1>1, LiveRequest, LiveCron, LiveHandler
  <1>2. ASSUME NEW f \in Client, Throw(f) \/ Crash(f) PROVE LiveInv'
    BY <1>2, LiveRest DEF Throw, Crash, CutOff, docVars
  <1>3. now <= now /\ now' \in Nat
    BY DEF Shape, TypeOK
  <1>4. ASSUME NEW c \in Charge, Pay(c) PROVE LiveInv'
    BY <1>3, <1>4, LiveQuiet DEF Pay, KeptFlow, docVars, flowVars, history
  <1>5. ASSUME NEW r \in Resource, LoseLock(r) \/ ExpireLock(r) PROVE LiveInv'
    BY <1>3, <1>5, LiveQuiet DEF LoseLock, ExpireLock, Slip, KeptFlow, docVars, flowVars, history
  <1>6. CASE Tick
    <2>1. \A g \in Client : KeptFlow(g)
      BY <1>6 DEF Tick, KeptFlow, Shape, JobShape, Jobs
    <2> QED
      BY <1>6, <2>1, LiveQuiet DEF Tick, docVars, history, Shape, TypeOK
  <1>7. CASE UNCHANGED vars
    BY <1>3, <1>7, LiveQuiet DEF vars, KeptFlow, docVars, flowVars, history
  <1> QED
    BY <1>1, <1>2, <1>4, <1>5, <1>6, <1>7 DEF Next

LEMMA LiveInit == Init => LiveInv
  BY DEF Init, LiveInv, OneLives, EndedIsOver

\* The step of KeepsPaidAccess: a refund, or the last step of an end.
LEMMA AccessLost ==
  ASSUME Shape, AccessInv, LiveInv, [Next]_vars, NEW u \in User, isPro[u], ~isPro'[u]
  PROVE  \/ \E f \in Client :
               /\ pc[f] = "refundUser" /\ pc'[f] = "idle"
               /\ work[f].charge \in refunded /\ Payer[work[f].charge] = u
         \/ \E c \in Slipped("lapsed") \cup Slipped("beside") : Payer[c] = u
         \/ \A d \in Docs(u) : Over(d) \/ latest[d] \in refunded
  <1>1. PICK f \in Client : (RefundUser(f) \/ DropPro(f)) /\ work[f].user = u
    <2>1. ASSUME NEW f \in Client, RequestNext(f) \/ CronNext(f) PROVE isPro' = isPro
      BY <2>1
      DEF RequestNext, CronNext, BeginPayment, BeginRefund, BeginInvoice, BeginAutoRenew, FindStale,
          FindDeferred
    <2>2. ASSUME NEW f \in Client, Throw(f) \/ Crash(f) PROVE isPro' = isPro
      BY <2>2 DEF Throw, Crash
    <2>3. ASSUME NEW r \in Resource, LoseLock(r) \/ ExpireLock(r) PROVE isPro' = isPro
      BY <2>3 DEF LoseLock, ExpireLock
    <2>4. ASSUME (\E c \in Charge : Pay(c)) \/ Tick \/ UNCHANGED vars PROVE isPro' = isPro
      BY <2>4 DEF Pay, Tick, vars
    <2>5. PICK f \in Client : HandlerNext(f)
      BY <2>1, <2>2, <2>3, <2>4 DEF Next
    <2>6. CASE Activate(f)
      BY <2>6 DEF Activate, Shape, TypeOK
    <2>7. CASE RefundUser(f) \/ DropPro(f)
      <3>1. work[f].user = u
        BY <2>7 DEF RefundUser, DropPro, Shape, TypeOK
      <3> QED
        BY <2>7, <3>1
    <2>8. CASE UNCHANGED isPro
      BY <2>8
    <2> QED
      BY <2>5, <2>6, <2>7, <2>8
      DEF HandlerNext, FindCharge, FindActive, Renew, Create, Answer, Link, FindCurrent,
          SetAutoRenew, Done, RefundSub, SetExpired, TakeDeferred
  <1> DEFINE d == work[f].charge
  <1>2. d \in Charge /\ Payer[d] = u
    BY <1>1 DEF RefundUser, DropPro, Shape, JobShape, AccessInv, FlowInv, FlowOwner, ChargeStep
  <1>3. CASE RefundUser(f)
    BY <1>2, <1>3 DEF RefundUser, Return, AccessInv, FlowInv, FlowRefund, Shape, TypeOK
  <1>4. CASE DropPro(f)
    <2>1. status[d] # Absent /\ pc[f] = "dropPro"
      BY <1>4 DEF DropPro, Shape, JobShape
    <2>2. Over(d) \/ \E c \in Slipped("lapsed") : Payer[c] = u
      BY <1>1, <2>1 DEF AccessInv, FlowInv, FlowEnding
    <2>3. Live(d)
      BY <2>1 DEF Live
    <2>4. ASSUME NEW e \in Docs(u) \ {d}
          PROVE  \/ Over(e) \/ latest[e] \in refunded
                 \/ \E c \in Slipped("lapsed") \cup Slipped("beside") : Payer[c] = u
      <3>1. e \in Charge /\ status[e] # Absent /\ Payer[e] = u
        BY DEF Docs
      <3>2. CASE Live(e)
        BY <1>2, <2>1, <2>3, <2>4, <3>1, <3>2 DEF LiveInv, OneLives
      <3>3. CASE ~Live(e)
        BY <3>1, <3>3 DEF LiveInv, EndedIsOver, Ended, Live
      <3> QED
        BY <3>2, <3>3
    <2> QED
      BY <2>2, <2>4
  <1> QED
    BY <1>1, <1>3, <1>4

\* The step of ExtendsFromExpiry: only Renew and Create credit, and only the
\* charge they work on.
LEMMA AccessExtended ==
  ASSUME Shape, AccessInv, [Next]_vars,
         NEW c \in Charge \ (Dated \cup Slipped("crossed") \cup Slipped("overlapped")),
         credits'[c] # credits[c],
         NEW d \in Docs(Payer[c]), status[d] = "ACTIVE", Method[d] = Method[c]
  PROVE  \E e \in Charge : latest'[e] = c /\ expires'[e] >= expires[d] + Period
  <1>1. PICK f \in Client : /\ Renew(f) \/ (Create(f) /\ Credit(work[f].charge))
                            /\ work[f].charge = c
    <2>1. ASSUME NEW f \in Client, RequestNext(f) \/ CronNext(f) PROVE credits' = credits
      BY <2>1
      DEF RequestNext, CronNext, BeginPayment, BeginRefund, BeginInvoice, BeginAutoRenew, FindStale,
          FindDeferred, history
    <2>2. ASSUME NEW f \in Client, Throw(f) \/ Crash(f) PROVE credits' = credits
      BY <2>2 DEF Throw, Crash
    <2>3. ASSUME NEW r \in Resource, LoseLock(r) \/ ExpireLock(r) PROVE credits' = credits
      BY <2>3 DEF LoseLock, ExpireLock, history
    <2>4. ASSUME (\E b \in Charge : Pay(b)) \/ Tick \/ UNCHANGED vars PROVE credits' = credits
      BY <2>4 DEF Pay, Tick, vars, history
    <2>5. PICK f \in Client : HandlerNext(f)
      BY <2>1, <2>2, <2>3, <2>4 DEF Next
    <2>6. CASE Renew(f) \/ (Create(f) /\ Credit(work[f].charge))
      <3>1. work[f].charge = c
        BY <2>6 DEF Renew, Credit, Shape, TypeOK
      <3> QED
        BY <2>6, <3>1
    <2>7. CASE UNCHANGED credits
      BY <2>7
    <2> QED
      BY <2>5, <2>6, <2>7
      DEF HandlerNext, FindCharge, FindActive, Create, Activate, Answer, Link, FindCurrent,
          SetAutoRenew, Done, RefundSub, RefundUser, SetExpired, TakeDeferred, DropPro, history
  <1>2. /\ pc[f] \in {"renew", "create"} /\ work[f].user = Payer[c]
        /\ c \notin ExtensionExcused
    BY <1>1
    DEF Renew, Create, AccessInv, FlowInv, FlowOwner, ChargeStep, PaymentStep, ExtensionExcused
  <1>3. pc[f] = "renew" /\ expires[d] + Period <= work[f].until
    BY <1>1, <1>2 DEF AccessInv, FlowInv, FlowCovers
  <1>4. /\ work[f].doc \in Charge /\ work[f].until \in Nat /\ expires[d] \in Nat
        /\ latest' = [latest EXCEPT ![work[f].doc] = c]
        /\ expires' = [expires EXCEPT ![work[f].doc] = work[f].until]
    BY <1>1, <1>3 DEF Renew, Create, Shape, JobShape, DocShape, Docs
  <1>5. latest'[work[f].doc] = c /\ expires'[work[f].doc] >= expires[d] + Period
    BY <1>3, <1>4, PeriodAssumption DEF Shape, TypeOK
  <1> QED
    BY <1>4, <1>5

-----------------------------------------------------------------------------
\* The inductive invariant, with the part on access.
THEOREM AccessInvariant == Spec => [](Shape /\ CreditInv /\ AccessInv /\ LiveInv)
  <1>1. Init => Shape /\ CreditInv /\ AccessInv /\ LiveInv
    BY ShapeInit, CreditInit, AccessInit, LiveInit
  <1>2. Shape /\ CreditInv /\ AccessInv /\ LiveInv /\ [Next]_vars =>
          (Shape /\ CreditInv /\ AccessInv /\ LiveInv)'
    BY ShapeNext, CreditNext, AccessNext, LiveNext
  <1> QED
    BY <1>1, <1>2, PTL DEF Spec

\* processRefund (telegram-payment.service.ts:729-783) against a repeated
\* delivery of the charge: no handler activates the user for a charge that was
\* refunded after it was credited.
THEOREM RefundsAreFinal == Spec => RefundIsFinal
  <1>1. AccessInv /\ [Next]_vars =>
          [\A f \in Client : pc[f] = "activate" /\ pc'[f] = "answer" =>
             work[f].charge \notin refunded \ (Slipped("refundCrossed") \cup Slipped("superseded")
                                               \cup Slipped("overlapped"))]_vars
    BY DEF AccessInv, FlowInv, FlowRefund, RefundExcused
  <1> QED
    BY <1>1, AccessInvariant, PTL DEF Spec, RefundIsFinal

\* The hourly crons and refunds (telegram-payment.service.ts:459-516, 729-783,
\* reconciliation.service.ts:202-267): is_pro goes by a refund, or when
\* every document of the user is past its date or refunded, until the user has
\* had two documents alive at once.
THEOREM PaidAccessIsKept == Spec => KeepsPaidAccess
  <1>1. Shape /\ AccessInv /\ LiveInv /\ [Next]_vars =>
          [\A u \in User : isPro[u] /\ ~isPro'[u] =>
             \/ \E f \in Client :
                   /\ pc[f] = "refundUser" /\ pc'[f] = "idle"
                   /\ work[f].charge \in refunded /\ Payer[work[f].charge] = u
             \/ \E c \in Slipped("lapsed") \cup Slipped("beside") : Payer[c] = u
             \/ \A d \in Docs(u) : Over(d) \/ latest[d] \in refunded]_vars
    BY AccessLost
  <1> QED
    BY <1>1, AccessInvariant, PTL DEF Spec, KeepsPaidAccess

\* handleSuccessfulPayment (telegram-payment.service.ts:281-345): a card
\* payment lasts a period beyond what its user had.
THEOREM CardsExtend == Spec => ExtendsFromExpiry
  <1>1. Shape /\ AccessInv /\ [Next]_vars =>
          [\A c \in Charge \ (Dated \cup Slipped("crossed") \cup Slipped("overlapped")) :
             credits'[c] # credits[c] =>
             \A d \in Docs(Payer[c]) : status[d] = "ACTIVE" /\ Method[d] = Method[c] =>
                 \E e \in Charge : latest'[e] = c /\ expires'[e] >= expires[d] + Period]_vars
    BY AccessExtended
  <1> QED
    BY <1>1, AccessInvariant, PTL DEF Spec, ExtendsFromExpiry

=============================================================================
