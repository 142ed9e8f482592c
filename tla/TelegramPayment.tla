--------------------------- MODULE TelegramPayment ---------------------------
(***************************************************************************)
(* Payments made inside Telegram (Stars and cards):                        *)
(* telegram-payment.controller.ts with its lock, telegram-payment.service  *)
(* .ts, and the two crons that end the access they bought.                 *)
(*                                                                         *)
(* A charge is Telegram's telegram_payment_charge_id.  The document a      *)
(* first charge creates is named after it (STARS-<hash>), so a charge is   *)
(* also the key of that document.  One step is one MongoDB call.  Dates    *)
(* are ticks, STARS_ACCESS_DAYS is Period; next_billing_date is always     *)
(* written together with expires_at and equal to it.  The records of       *)
(* recordTelegramEvent are an audit trail nothing reads here: left out,    *)
(* with plans, amounts and notifications.                                  *)
(***************************************************************************)
EXTENDS RedisLock, FiniteSets

CONSTANTS
    Charge, User,
    Payer,          \* charge -> user that paid it
    Method,         \* charge -> "telegram_stars" or "telegram_card"
    Dated,          \* charges whose payment has a subscription_expiration_date
    NoDate, None,
    Period,         \* STARS_ACCESS_DAYS, in ticks
    MaxTime,        \* bound: ticks in which users pay
    MaxDeliveries,  \* bound: deliveries of a charge by the bot
    MaxRequests,    \* bound: cancel, auto-renew and refund requests
    MaxFaults       \* bound: thrown errors, crashes, lost answers, overruns

\* What is locked: charge:<charge>, or tg:<user>.  A Client is a request or a
\* cron pass.
ASSUME ResourceAssumption == Resource = Charge \cup User
ASSUME PayerAssumption == Payer \in [Charge -> User]
ASSUME MethodAssumption == Method \in [Charge -> {"telegram_stars", "telegram_card"}]
ASSUME DatedAssumption == \A c \in Dated : c \in Charge /\ Method[c] = "telegram_stars"
ASSUME ChargeAssumption == None \notin Charge /\ IsFiniteSet(Charge)
ASSUME PeriodAssumption == Period \in Nat \ {0} /\ NoDate \notin Nat
ASSUME BoundAssumption ==
    MaxTime \in Nat /\ MaxDeliveries \in Nat /\ MaxRequests \in Nat /\ MaxFaults \in Nat

VARIABLES
    \* Telegram and the bot
    paidAt,         \* charge -> tick at which it was paid
    deliveries, acked,
    \* Subscription documents, by the charge that created them
    status, expires,
    latest,         \* telegram_charge_id: the last charge it took
    deferred,       \* cancel_at_period_end
    born,           \* createdAt, as an order; 0 for no document
    \* User documents
    isPro,
    \* flows
    pc, work, requests,
    now, faults,
    \* history
    credits,        \* charge -> times it created or extended a document
    activated,      \* charges whose handler has set is_pro
    refunded,
    slips           \* {<<kind, charge>>}: known ways to go wrong that it met

botVars  == <<paidAt, deliveries, acked>>
docVars  == <<status, expires, latest, deferred, born>>
flowVars == <<pc, work>>
history  == <<credits, activated, refunded, slips>>
vars == <<lockVars, botVars, docVars, isPro, flowVars, requests, now, faults, history>>

Absent == "absent"
Status == {Absent, "ACTIVE", "CANCELLED", "EXPIRED", "REFUNDED"}
Step   == {"idle", "findCharge", "findActive", "renew", "create", "activate", "answer",
           "link", "findCurrent", "setAutoRenew", "done", "refundSub", "refundUser",
           "setExpired", "takeDeferred", "dropPro"}

\* What the code does not prevent, and the properties therefore excuse:
SlipKind == {
    "overlapped",   \* a handler of the charge outlived its lock
    "cutShort",     \* it ended between the document and the activation
    "crossed",      \* another payment of the user was handled meanwhile, or
                    \* a request revived a document: meanwhile, or beside
                    \* another that is ACTIVE
    "beside",       \* a document came to life beside another of the user's
    "superseded",   \* the document has taken a later charge
    "refundCrossed",\* refunded before, or while, it was handled
    "lapsed",       \* a cron ended its document while it was handled, or
                    \* by a list read before
    "undropped"}    \* the document ended, but not the user's access

Slipped(kind) == {c \in Charge : <<kind, c>> \in slips}
Slip(kind, cs) == slips' = slips \cup ({kind} \X cs)

Init ==
    /\ LockInit
    /\ paidAt = [c \in Charge |-> NoDate]
    /\ deliveries = [c \in Charge |-> 0]
    /\ acked = {}
    /\ status = [c \in Charge |-> Absent]
    /\ expires = [c \in Charge |-> NoDate]
    /\ latest = [c \in Charge |-> None]
    /\ deferred = [c \in Charge |-> FALSE]
    /\ born = [c \in Charge |-> 0]
    /\ isPro = [u \in User |-> FALSE]
    /\ pc = [f \in Client |-> "idle"]
    /\ work = [f \in Client |-> None]
    /\ requests = 0
    /\ now = 0
    /\ faults = 0
    /\ credits = [c \in Charge |-> 0]
    /\ activated = {} /\ refunded = {} /\ slips = {}

Fault == faults < MaxFaults /\ faults' = faults + 1

Later(x, y) == IF x > y THEN x ELSE y

Docs(u) == {d \in Charge : status[d] # Absent /\ Payer[d] = u}

\* What a flow works with: the charge (or document) and user of the request,
\* the document it found and the date it computed for it.
Job(u, c, on) ==
    [user |-> u, charge |-> c, on |-> on, doc |-> None, until |-> NoDate, late |-> FALSE]

Begin(f, step, job) ==
    /\ pc[f] = "idle"
    /\ pc' = [pc EXCEPT ![f] = step]
    /\ work' = [work EXCEPT ![f] = job]

\* Mutant: activateUserFeatures is not called.
GotoAnswer(f, step) ==
    pc' = [pc EXCEPT ![f] = IF step = "activate" THEN "answer" ELSE step] /\ UNCHANGED work

Goto(f, step) == pc' = [pc EXCEPT ![f] = step] /\ UNCHANGED work

Found(f, step, d, until) ==
    /\ pc' = [pc EXCEPT ![f] = step]
    /\ work' = [work EXCEPT ![f].doc = d, ![f].until = until]

\* Mutant: the lock is not released when the section throws.
ReturnLocked(f) ==
    /\ pc' = [pc EXCEPT ![f] = "idle"]
    /\ work' = [work EXCEPT ![f] = None]
    /\ UNCHANGED lockVars

\* The request ends; the finally block of withLifecycleLock releases its lock.
Return(f) ==
    /\ pc' = [pc EXCEPT ![f] = "idle"]
    /\ work' = [work EXCEPT ![f] = None]
    /\ IF inside[f] = Outside THEN UNCHANGED lockVars ELSE Release(f)

-----------------------------------------------------------------------------
(* Telegram and the bot (external)                                         *)

\* A user pays.
Pay(c) ==
    /\ paidAt[c] = NoDate
    /\ now < MaxTime
    /\ paidAt' = [paidAt EXCEPT ![c] = now]
    /\ UNCHANGED <<lockVars, deliveries, acked, docVars, isPro, flowVars, requests, now, faults, history>>

\* subscription_expiration_date
TelegramUntil(c) == paidAt[c] + Period

-----------------------------------------------------------------------------
(* POST payment/webhook: handleSuccessfulPayment under the charge's lock   *)

\* Charges of the user a payment handler is at work on.
UnderWay(u) ==
    {work[f].charge : f \in
        {g \in Client : /\ pc[g] \in {"findCharge", "findActive", "renew", "create", "activate", "answer"}
                       /\ work[g].user = u}}

BeginPayment(f, c) ==
    LET others == UnderWay(Payer[c]) \ {c} IN
    /\ paidAt[c] # NoDate
    /\ deliveries[c] < MaxDeliveries
    /\ deliveries' = [deliveries EXCEPT ![c] = @ + 1]
    /\ Acquire(f, c)
    /\ Begin(f, "findCharge", Job(Payer[c], c, TRUE))
    /\ Slip("crossed", IF others = {} THEN {} ELSE others \cup {c})
    /\ UNCHANGED <<paidAt, acked, docVars, isPro, requests, now, faults, credits, activated, refunded>>

\* Mutants: no idempotency check; a check among the ACTIVE documents.
ProcessedNever(c)  == FALSE
ProcessedActive(c) == \E d \in Charge : latest[d] = c /\ status[d] = "ACTIVE"

\* Some document has taken the charge, and no later one.
Processed(c) == \E d \in Charge : latest[d] = c

FindCharge(f) ==
    /\ pc[f] = "findCharge"
    /\ Goto(f, IF Processed(work[f].charge) THEN "answer" ELSE "findActive")
    /\ UNCHANGED <<lockVars, botVars, docVars, isPro, requests, now, faults, history>>

\* Mutant: a payment without Telegram's date always counts from today.
RenewedUntilFromNow(c, d) == IF c \in Dated THEN TelegramUntil(c) ELSE now + Period

\* Telegram's date; a card or Stars payment without one extends what was read.
RenewedUntil(c, d) == IF c \in Dated THEN TelegramUntil(c) ELSE Later(expires[d], now) + Period

FirstUntil(c) == IF c \in Dated THEN TelegramUntil(c) ELSE now + Period

\* An ACTIVE document of the user and method is renewed, or one is created
\* (updateMany on APPROVAL_PENDING documents concerns PayPal's).  findOne takes
\* any of two.
FindActive(f) ==
    LET c == work[f].charge
        active == {d \in Docs(work[f].user) : status[d] = "ACTIVE" /\ Method[d] = Method[c]} IN
    /\ pc[f] = "findActive"
    /\ IF active = {}
       THEN Found(f, "create", c, FirstUntil(c))
       ELSE \E d \in active : Found(f, "renew", d, RenewedUntil(c, d))
    /\ Slip("crossed", IF \E d, e \in active : d # e THEN {c} ELSE {})
    /\ UNCHANGED <<lockVars, botVars, docVars, isPro, requests, now, faults,
                   credits, activated, refunded>>

Credit(c) == credits' = [credits EXCEPT ![c] = @ + 1]

\* A cron has ended the document since the handler read it, or is about to
\* end the access.
BeingEnded(d) ==
    status[d] # "ACTIVE" \/ \E g \in Client : pc[g] = "dropPro" /\ work[g].charge = d

\* updateOne by _id: the status is left as it is.
Renew(f) ==
    LET d == work[f].doc
        c == work[f].charge IN
    /\ pc[f] = "renew"
    /\ expires' = [expires EXCEPT ![d] = work[f].until]
    /\ latest' = [latest EXCEPT ![d] = c]
    /\ Credit(c)
    /\ Goto(f, "activate")
    /\ slips' = slips \cup ({"superseded"} \X ({latest[d]} \ {c}))
                     \cup (IF BeingEnded(d) THEN {<<"lapsed", c>>} ELSE {})
    /\ UNCHANGED <<lockVars, botVars, status, deferred, born, isPro, requests, now, faults,
                   activated, refunded>>

\* The document gives access, or a flow is about to revive it or to end the
\* access: the crons end the user's (reconciliation.service.ts:232), whatever
\* other documents pay for.
Live(d) ==
    \/ status[d] = "ACTIVE" \/ deferred[d]
    \/ \E f \in Client :
         \/ pc[f] = "setAutoRenew" /\ work[f].doc = d
         \/ pc[f] \in {"setExpired", "takeDeferred", "dropPro"} /\ work[f].charge = d

Beside(d) == \E e \in Docs(Payer[d]) \ {d} : Live(e)

\* create, on the unique index of paypal_subscription_id: a document of the
\* same charge makes it throw.
Create(f) ==
    LET c == work[f].charge IN
    /\ pc[f] = "create"
    /\ IF status[c] = Absent
       THEN /\ status' = [status EXCEPT ![c] = "ACTIVE"]
            /\ expires' = [expires EXCEPT ![c] = work[f].until]
            /\ latest' = [latest EXCEPT ![c] = c]
            /\ born' = [born EXCEPT ![c] = 1 + Cardinality({d \in Charge : born[d] > 0})]
            /\ Credit(c)
            /\ Slip("beside", IF Beside(c) THEN {c} ELSE {})
            /\ Goto(f, "activate") /\ UNCHANGED lockVars
       ELSE Return(f) /\ UNCHANGED <<status, expires, latest, born, credits, slips>>
    /\ UNCHANGED <<botVars, deferred, isPro, requests, now, faults, activated, refunded>>

\* activateUserFeatures
Activate(f) ==
    /\ pc[f] = "activate"
    /\ isPro' = [isPro EXCEPT ![work[f].user] = TRUE]
    /\ activated' = activated \cup {work[f].charge}
    /\ Goto(f, "answer")
    /\ UNCHANGED <<lockVars, botVars, docVars, requests, now, faults, credits, refunded, slips>>

Answer(f) ==
    /\ pc[f] = "answer"
    /\ acked' = acked \cup {work[f].charge}
    /\ Return(f)
    /\ UNCHANGED <<paidAt, deliveries, docVars, isPro, requests, now, faults, history>>

-----------------------------------------------------------------------------
(* POST invoice/create and invoice/create-card, under tg:<user>            *)

Request == requests < MaxRequests /\ requests' = requests + 1

BeginInvoice(f, u) ==
    /\ Request
    /\ Acquire(f, u)
    /\ Begin(f, "link", Job(u, None, TRUE))
    /\ UNCHANGED <<botVars, docVars, isPro, now, faults, history>>

\* Reads the plan and asks Telegram for a link.  The link carries user and
\* plan, so that nothing is stored.
Link(f) ==
    /\ pc[f] = "link"
    /\ Return(f)
    /\ UNCHANGED <<botVars, docVars, isPro, requests, now, faults, history>>

-----------------------------------------------------------------------------
(* POST subscription/cancel and subscription/auto-renew, under tg:<user>   *)

\* on = FALSE is either endpoint; both write the same.
BeginAutoRenew(f, u, on) ==
    /\ Request
    /\ Acquire(f, u)
    /\ Begin(f, "findCurrent", Job(u, None, on))
    /\ UNCHANGED <<botVars, docVars, isPro, now, faults, history>>

\* findCurrentTelegramSubscription: the newest that is ACTIVE or CANCELLED
\* (nothing makes these documents SUSPENDED).  Telegram is told next.
FindCurrent(f) ==
    LET current == {d \in Docs(work[f].user) : status[d] \in {"ACTIVE", "CANCELLED"}} IN
    /\ pc[f] = "findCurrent"
    /\ IF current = {}
       THEN Return(f) /\ UNCHANGED slips
       ELSE /\ \E d \in current :
                 /\ \A e \in current : born[e] <= born[d]
                 /\ Found(f, "setAutoRenew", d, NoDate)
                 /\ Slip("beside", IF Beside(d) THEN {d} ELSE {})
            /\ UNCHANGED lockVars
    /\ UNCHANGED <<botVars, docVars, isPro, requests, now, faults, credits, activated, refunded>>

SetAutoRenew(f) ==
    LET d == work[f].doc IN
    /\ pc[f] = "setAutoRenew"
    /\ status' = [status EXCEPT ![d] = IF work[f].on THEN "ACTIVE" ELSE "CANCELLED"]
    /\ deferred' = [deferred EXCEPT ![d] = ~work[f].on]
    /\ Goto(f, "done")
    /\ Slip("crossed", IF work[f].on /\ status[d] # "ACTIVE" THEN UnderWay(work[f].user) ELSE {})
    /\ UNCHANGED <<lockVars, botVars, expires, latest, born, isPro, requests, now, faults,
                   credits, activated, refunded>>

\* The auto_renew feature flag, the audit record, the answer.
Done(f) ==
    /\ pc[f] = "done"
    /\ Return(f)
    /\ UNCHANGED <<botVars, docVars, isPro, requests, now, faults, history>>

-----------------------------------------------------------------------------
(* POST refund, without a lock: Telegram has refunded the charge, which it *)
(* does for Stars only                                                     *)

BeginRefund(f, c) ==
    /\ Request
    /\ paidAt[c] # NoDate /\ Method[c] = "telegram_stars" /\ c \notin refunded
    /\ refunded' = refunded \cup {c}
    /\ Slip("refundCrossed", IF credits[c] = 0 \/ c \in UnderWay(Payer[c]) THEN {c} ELSE {})
    /\ Begin(f, "refundSub", Job(Payer[c], c, FALSE))
    /\ UNCHANGED <<lockVars, botVars, docVars, isPro, now, faults, credits, activated>>

\* updateOne on the document whose last charge it is.
RefundSub(f) ==
    /\ pc[f] = "refundSub"
    /\ \/ \E d \in Charge :
            /\ latest[d] = work[f].charge
            /\ status' = [status EXCEPT ![d] = "REFUNDED"]
            /\ deferred' = [deferred EXCEPT ![d] = FALSE]
       \/ ~Processed(work[f].charge) /\ UNCHANGED <<status, deferred>>
    /\ Goto(f, "refundUser")
    /\ UNCHANGED <<lockVars, botVars, expires, latest, born, isPro, requests, now, faults, history>>

RefundUser(f) ==
    /\ pc[f] = "refundUser"
    /\ isPro' = [isPro EXCEPT ![work[f].user] = FALSE]
    /\ Return(f)
    /\ UNCHANGED <<botVars, docVars, requests, now, faults, history>>

-----------------------------------------------------------------------------
(* Crons: expireStaleStarsSubscriptions, applyExpiredDeferredCancellations *)

Over(d) == expires[d] # NoDate /\ expires[d] <= now

\* Mutant: the query names one of the two providers.
StaleCards(d) == status[d] = "ACTIVE" /\ Over(d) /\ Method[d] = "telegram_card"

Stale(d) == status[d] = "ACTIVE" /\ Over(d)

\* A pass reads the list; a flow is the part of it about one document.
FindStale(f, d) ==
    /\ Stale(d)
    /\ Begin(f, "setExpired", Job(Payer[d], d, FALSE))
    /\ UNCHANGED <<lockVars, botVars, docVars, isPro, requests, now, faults, history>>

\* By _id alone: the document is not looked at again.
SetExpired(f) ==
    LET d == work[f].charge IN
    /\ pc[f] = "setExpired"
    /\ status' = [status EXCEPT ![d] = "EXPIRED"]
    /\ deferred' = [deferred EXCEPT ![d] = FALSE]
    /\ Goto(f, "dropPro")
    /\ Slip("lapsed", IF Stale(d) THEN {} ELSE {latest[d]})
    /\ UNCHANGED <<lockVars, botVars, expires, latest, born, isPro, requests, now, faults,
                   credits, activated, refunded>>

\* Mutant: the query forgets the date.
DeferralAtOnce(d) == status[d] = "CANCELLED" /\ deferred[d]

DeferralDue(d) == status[d] = "CANCELLED" /\ deferred[d] /\ Over(d)

FindDeferred(f, d) ==
    /\ DeferralDue(d)
    /\ Begin(f, "takeDeferred", [Job(Payer[d], d, FALSE) EXCEPT !.until = expires[d]])
    /\ UNCHANGED <<lockVars, botVars, docVars, isPro, requests, now, faults, history>>

\* findOneAndUpdate guarded by the flag alone: only its taker goes on, and a
\* flag that was cleared and set again since the list was read is taken too,
\* although the document may have been renewed in between (its date differs
\* from the list's).
TakeDeferred(f) ==
    LET d == work[f].charge IN
    /\ pc[f] = "takeDeferred"
    /\ deferred' = [deferred EXCEPT ![d] = FALSE]
    /\ IF deferred[d] THEN Goto(f, "dropPro") /\ UNCHANGED lockVars ELSE Return(f)
    /\ Slip("lapsed", IF deferred[d] /\ expires[d] # work[f].until THEN {latest[d]} ELSE {})
    /\ UNCHANGED <<botVars, status, expires, latest, born, isPro, requests, now, faults,
                   credits, activated, refunded>>

\* Charges whose handler has written the document and is yet to set is_pro.
ToActivate(d) ==
    {work[g].charge : g \in {h \in Client : pc[h] = "activate" /\ work[h].doc = d}}

DropPro(f) ==
    /\ pc[f] = "dropPro"
    /\ isPro' = [isPro EXCEPT ![work[f].user] = FALSE]
    /\ Slip("lapsed", ToActivate(work[f].charge))
    /\ Return(f)
    /\ UNCHANGED <<botVars, docVars, requests, now, faults, credits, activated, refunded>>

-----------------------------------------------------------------------------
(* Faults and time                                                         *)

\* The document is written and the user is not.
CutOff(f) ==
    slips' = slips \cup
        (IF pc[f] = "activate" THEN {<<"cutShort", work[f].charge>>} ELSE {}) \cup
        (IF pc[f] \in {"dropPro", "refundUser"} THEN {<<"undropped", work[f].charge>>} ELSE {})

\* A call throws (the answer is an error) or the answer is lost.
Throw(f) ==
    /\ pc[f] # "idle"
    /\ Fault
    /\ Return(f) /\ CutOff(f)
    /\ UNCHANGED <<botVars, docVars, isPro, requests, now, credits, activated, refunded>>

\* The process dies with the request.
Crash(f) ==
    /\ pc[f] # "idle" /\ inside[f] # Outside
    /\ Fault
    /\ Abandon(f)
    /\ pc' = [pc EXCEPT ![f] = "idle"]
    /\ work' = [work EXCEPT ![f] = None]
    /\ CutOff(f)
    /\ UNCHANGED <<botVars, docVars, isPro, requests, now, credits, activated, refunded>>

\* acquireLock sets the key and does not learn it: the request gets a 409.
LoseLock(r) ==
    /\ AcquireUnanswered(r)
    /\ Fault
    /\ UNCHANGED <<botVars, docVars, isPro, flowVars, requests, now, history>>

\* The TTL of 12 s frees a lock; freeing that of a request that still runs is
\* a fault of the bound.
ExpireLock(r) ==
    /\ Expire(r)
    /\ IF lock[r] \in Client
       THEN Fault /\ Slip("overlapped", {r} \cap Charge)
       ELSE UNCHANGED <<faults, slips>>
    /\ UNCHANGED <<botVars, docVars, isPro, flowVars, requests, now, credits, activated, refunded>>

\* A tick is days and a request or a pass at most minutes, so that one date
\* may go by while it runs (it is late then), never two.  After MaxTime the
\* clock goes on to the end of the last period.
Tick ==
    /\ now < MaxTime \/ \E d \in Charge : expires[d] # NoDate /\ ~Over(d)
    /\ \A f \in Client : pc[f] # "idle" => ~work[f].late
    /\ now' = now + 1
    /\ work' = [f \in Client |-> IF pc[f] = "idle" THEN None ELSE [work[f] EXCEPT !.late = TRUE]]
    /\ UNCHANGED <<lockVars, botVars, docVars, isPro, pc, requests, faults, history>>

HandlerNext(f) ==
    \/ FindCharge(f) \/ FindActive(f) \/ Renew(f) \/ Create(f) \/ Activate(f) \/ Answer(f)
    \/ Link(f) \/ FindCurrent(f) \/ SetAutoRenew(f) \/ Done(f)
    \/ RefundSub(f) \/ RefundUser(f)
    \/ SetExpired(f) \/ TakeDeferred(f) \/ DropPro(f)

CronNext(f) == \E d \in Charge : FindStale(f, d) \/ FindDeferred(f, d)

RequestNext(f) ==
    \/ \E c \in Charge : BeginPayment(f, c) \/ BeginRefund(f, c)
    \/ \E u \in User : BeginInvoice(f, u) \/ \E on \in BOOLEAN : BeginAutoRenew(f, u, on)

Next ==
    \/ \E c \in Charge : Pay(c)
    \/ \E f \in Client : RequestNext(f) \/ HandlerNext(f) \/ CronNext(f) \/ Throw(f) \/ Crash(f)
    \/ \E r \in Resource : LoseLock(r) \/ ExpireLock(r)
    \/ Tick

Spec == Init /\ [][Next]_vars

\* Handlers that started go on, the hourly crons come round, time passes.
\* Payments, the bot, users and faults are not fair.
FairSpec ==
    /\ Spec
    /\ \A f \in Client : WF_vars(HandlerNext(f)) /\ WF_vars(CronNext(f))
    /\ WF_vars(Tick)

-----------------------------------------------------------------------------
(* Properties                                                              *)

TypeOK ==
    /\ LockTypeOK
    /\ paidAt \in [Charge -> 0..MaxTime \cup {NoDate}]
    /\ deliveries \in [Charge -> 0..MaxDeliveries]
    /\ status \in [Charge -> Status]
    /\ expires \in [Charge -> Nat \cup {NoDate}]
    /\ latest \in [Charge -> Charge \cup {None}]
    /\ deferred \in [Charge -> BOOLEAN]
    /\ born \in [Charge -> Nat]
    /\ isPro \in [User -> BOOLEAN]
    /\ pc \in [Client -> Step]
    /\ work \in [Client -> [user : User, charge : Charge \cup {None}, on : BOOLEAN,
                            doc : Charge \cup {None}, until : Nat \cup {NoDate},
                            late : BOOLEAN] \cup {None}]
    /\ \A f \in Client : pc[f] = "idle" => work[f] = None /\ inside[f] = Outside
    /\ requests \in 0..MaxRequests /\ now \in Nat /\ faults \in 0..MaxFaults
    /\ credits \in [Charge -> Nat]
    /\ acked \cup activated \cup refunded \subseteq Charge
    /\ slips \subseteq SlipKind \X Charge

\* A charge buys one period, however often the bot delivers it and whatever
\* crashes in between, as long as its handler is done within the lock's TTL
\* and its document has not taken a later charge.
OneCreditPerCharge ==
    \A c \in Charge : credits[c] <= 1 \/ c \in Slipped("overlapped") \cup Slipped("superseded")

\* The bot is told a charge is processed only when the user has got what it
\* pays for, unless a handler was cut off in between.
AckedIsActivated ==
    acked \subseteq activated \cup Slipped("overlapped") \cup Slipped("cutShort")

\* A payment without Telegram's date (each card payment) extends the access
\* from its current end: whatever document it goes to lasts a period longer
\* than any of its provider that was ACTIVE before.  Not so
\* when two payments of the user are handled at once, auto-renew is switched on
\* meanwhile for a document that had ended, two documents are ACTIVE, or two
\* handlers of the charge read the same date.
ExtendsFromExpiry ==
    [][\A c \in Charge \ (Dated \cup Slipped("crossed") \cup Slipped("overlapped")) :
         credits'[c] # credits[c] =>
         \A d \in Docs(Payer[c]) : status[d] = "ACTIVE" /\ Method[d] = Method[c] =>
             \E e \in Charge : latest'[e] = c /\ expires'[e] >= expires[d] + Period]_vars

\* A charge that was refunded gives no access any more, however late the bot
\* repeats it, unless the refund came before the charge was handled or after
\* its document had taken another.
RefundIsFinal ==
    [][\A f \in Client : pc[f] = "activate" /\ pc'[f] = "answer" =>
         work[f].charge \notin refunded \ (Slipped("refundCrossed") \cup Slipped("superseded")
                                           \cup Slipped("overlapped"))]_vars

\* Access ends by a refund, or when every document of the user is past its
\* date or refunded: never in a period that is paid, while no cron ends the
\* document a handler renews.  Not so once the user has had two documents alive
\* at once: each cron ends the access for the one it is about.
KeepsPaidAccess ==
    [][\A u \in User : isPro[u] /\ ~isPro'[u] =>
         \/ \E f \in Client :
               /\ pc[f] = "refundUser" /\ pc'[f] = "idle"
               /\ work[f].charge \in refunded /\ Payer[work[f].charge] = u
         \/ \E c \in Slipped("lapsed") \cup Slipped("beside") : Payer[c] = u
         \/ \A d \in Docs(u) : Over(d) \/ latest[d] \in refunded]_vars

\* Access does end: payments stop, the periods pass, and the crons take it,
\* unless a flow was cut off before it did or a payment raced with it.
AccessEnds ==
    \A u \in User : isPro[u] ~>
        \/ ~isPro[u]
        \/ \E c \in Slipped("undropped") \cup Slipped("lapsed") \cup Slipped("refundCrossed") :
             Payer[c] = u
=============================================================================
