# Verification of trelk-payments

TLA+ models of the payment backend in `src/` (NestJS, MongoDB, Redis, BullMQ, PayPal, Telegram),
TLC configurations that check them on small instances, and TLAPS proofs of what holds for every
instance. The repository has no tests of its own; what the properties say is taken from its code,
comments and README, quoted where it matters.

Paths below are relative to `src/src/` unless they start with `src/`.

## 1. Inventory

Two kinds of process run from one code base, each with replicas: the **API** (`app.module.ts`) and
the **worker** (`worker.module.ts`, BullMQ concurrency 5, crons). They share MongoDB (atomic per
document and call, nothing more) and Redis (queue, idempotency keys, locks). PayPal and a Telegram
bot call in from outside; both repeat what was not answered with a 2xx. Any process may die between
any two calls.

| Component | State | Operations | Talks to | What is hard | What makes it correct |
|---|---|---|---|---|---|
| Webhook ingress (`paypal/paypal.controller.ts:69`) | none of its own | verify, Redis fast path, enqueue, answer | PayPal, Redis, queue | PayPal's retries, an answer that is lost | an acknowledged event is queued, processed or was rejected |
| Queue producer (`queues/paypal-webhook.producer.ts`) | BullMQ jobs by event id, dead letter queue | enqueue, sendToDlq | Redis | duplicates, retention | one job for an event as long as it may be delivered |
| Webhook processor (`queues/paypal-webhook.processor.ts`) | the slot's own variables | process, onFailed, onStalled, dispatchEvent | queue, Redis, MongoDB, services | two slots on one job, crash at each call, retries, exhausted attempts | handlers run once without a fault, a processed event was applied, every event settles |
| Event documents (`database/schemas/paypal-event.schema.ts`) | processed / not / absent | upsert, mark | processor | an upsert after another slot's mark | processed is for good |
| Subscription service (`subscription/subscription.service.ts`) | subscription and user documents | updateStatus, tryActivateFeatures, cancel, suspend, resume, expire, attach, downgrades | webhook handlers, crons, endpoints | check and act in separate calls, claims and rollbacks, out of order events | one activation at a time, `features_applied` tells the truth, access ends for cause |
| Reconciliation crons (`reconciliation/reconciliation.service.ts`) | the same documents | deferred cancellation, scheduled downgrade, verification, self-heal, Telegram expiry | MongoDB, PayPal | replicas run the same pass, stale lists | what was lost is repaired, nobody loses paid access |
| Lifecycle endpoints (`paypal/paypal.controller.ts:207-640`) | Redis locks | create, cancel, resume, auto-renew, revise, cancel-downgrade, attach | PayPal first, then MongoDB | the request dies between the two, its webhook is on the way | PayPal's status reaches the document; no second subscription |
| Redis locks (`redis/redis.service.ts:93-140`) | `lock:<r>` with token and TTL | acquireLock, releaseLock | endpoints | TTL runs out in the section, lost answers | mutual exclusion within the TTL |
| Telegram payments (`telegram-payment/`) | STARS-… documents, user | invoices, payment webhook, cancel, auto-renew, refund | bot, MongoDB | redelivery, renewals, crons, refunds at the same time | a charge buys one period; paid access stays; access ends |
| PayPal client (`paypal/paypal.service.ts`) | access token cached in Redis, a fallback per process | getAccessToken, calls to PayPal | PayPal, Redis | refresh by several processes, Redis errors, a holder that dies | tokens are alive when used, one refresh at a time, no call hangs |
| Notifications, health, dashboard, logging, DTOs, DLQ processor | none | report, log, validate | — | — | not modelled |

`PROJECT.json` lists every component with its status, and under `hazards` each spot of the code
where an ordering, a crash or a stale value matters, with the property that covers it.

## 2. Modules

```
EventDelivery              what the webhook path promises
  WebhookPipeline          MCWebhookPipeline, WebhookPipeline_proofs, WebhookDelivery_proofs
SubscriptionState
  SubscriptionService
    WebhookDispatch   Reconciliation
      SubscriptionLifecycle            MCSubscriptionLifecycle, SubscriptionLifecycle_proofs
        Checkout  (+ RedisLock)        MCCheckout, Checkout_proofs
RedisLock                              RedisLock_proofs
  TelegramPayment                      MCTelegramPayment, TelegramPayment_proofs,
                                       TelegramCredit_proofs
  AccessToken                          MCAccessToken, AccessToken_proofs
```

**`WebhookPipeline`** is the way of an event from PayPal's POST to its last call, one step per call
to Redis, MongoDB, BullMQ or PayPal. `Deliver … Enqueue` are `webhook` (controller:69-130); `job`,
`attempts`, `stalls`, `owner` are the BullMQ job in Redis; `pc`, `cur` are the slots, whose steps
`redis, mongo, upsert, dispatch, mark, cache, finish` are the awaits of `process` (processor:62-140);
`failing` are `failed` listeners under way and `dlq` the dead letter queue. What the handlers do is
abstracted to `dispatch`; the next modules say what it is. **`EventDelivery`** is the abstract
specification: an event is sent, turned away, kept, given up or processed, and its handlers run once
unless there was trouble. `WebhookPipeline` implements it: `Delivery` maps the MongoDB document, the
job and the answers to a `fate`.

**`SubscriptionState`, `SubscriptionService`, `WebhookDispatch`, `Reconciliation`** share the
documents. A *flow* is an async function between two awaits: `pc[f]` is the database or PayPal call
it makes next, `doc[f]` and `pro[f]` are what it read and still relies on. Every method of
`subscription.service.ts` that something calls and that changes state is a chain of actions in
`SubscriptionService`; `WebhookDispatch` holds PayPal (external) and `dispatchEvent`;
`Reconciliation` the cron jobs, a pass being a flow for one document of the list.
**`SubscriptionLifecycle`** composes them with the attach endpoint, crashes and stalls. An event in
`inbox` is handed out in any order (`InOrder = FALSE`) or in the order it was sent, and is given
back when its handler throws: this is what `WebhookPipeline` promises of it.

**`RedisLock`** is `acquireLock`/`releaseLock` and the `finally` of their callers. **`Checkout`**
extends the lifecycle and the lock by the endpoints that change a subscription at PayPal and then in
MongoDB, with the webhook of the change under way. **`TelegramPayment`** extends the lock by the
payment webhook, the endpoints of Telegram subscriptions, and the two crons that end their access.
**`AccessToken`** extends the lock by `getAccessToken`: look, lock or wait 300 ms, look again, fetch,
store, release; a tick is 30 s, so that the margin of 60 s and the minimum TTL of 30 s are 2 and 1.

*Slips.* The code does not prevent everything that a property rules out. Where it does not, the
models record in the history variable `slips` (in `AccessToken`: `bypassed`) that the known way to go
wrong was taken, and the property excuses what went through it and nothing else. So each property
says that there is no other way; section 5 lists the slips. Their kinds and meanings stand in
`SubscriptionState` (`Slip`) and `TelegramPayment` (`SlipKind`).

Abstractions that hold everywhere: dates are ticks and are only compared; a plan is its id with a
rank; `pro_features` is the plan it was copied from and the subscription it names (nested changes
without `markModified` are not persisted by the code and are left out); amounts, currencies, payer
data, notifications (which never throw) and audit records are left out since no decision reads them.
Every `MaxX` constant is a bound of the instance and not of the code.

Facts of the code the models rest on: CREATED events carry `APPROVAL_PENDING`; no code sets
`PENDING_ASSOCIATION`, so its branch is dead; `applyScheduledDowngrade` has no caller; the comment at
`subscription.service.ts:984` speaks of a reset of `features_applied` that the code does not make.

## 3. Runs

| Run | Asks | Bounds | States |
|---|---|---|---|
| `webhook` | Do acknowledgement, the two idempotency layers, retries and dead letter queue agree, implement `EventDelivery`, and does every event settle? | 1 event, 2 slots, 2 requests, 2 attempts, 3 faults, 1 duplicate | 406 k |
| `webhook_dlq` | Is every exhausted job in the dead letter queue? No | 1 slot, stall limit 3 | — |
| `lifecycle_activation` | Do ACTIVATED, payment, two users' attach and self-heal activate once and for one user, and does `features_applied` tell the truth? | 1 subscription, 3 users, 2 flows, 3 events in any order, 1 fault | 657 k |
| `lifecycle_ending` | Does access end only for a cause, and does it end? | 1 flow, 4 events in any order of 6 kinds, 2 crons, 1 fault, 2 ticks | 319 k |
| `lifecycle_plan` | Do plan, schedule and features follow PayPal, and do downgrades wait? | 3 plans, 1 flow, 5 events in order, payment reports among them, 1 fault, 3 ticks | 1,643 k |
| `lifecycle_rollback` | Does who pays get the features? No | 2 flows, ACTIVATED and an attach request, 1 fault | — |
| `telegram_charge` | Is a charge credited once and acknowledged only when activated, do the locks exclude, does paid access stay, and end? | 1 Stars charge delivered 3 times, 2 flows, 1 request, 2 faults | 166 k |
| `telegram_renewals` | Do payments extend, credit once, and stay; is a refund final? | 2 Stars charges delivered twice, one without Telegram's date and so handled as a card payment, 2 flows, 1 request, no faults | 458 k |
| `checkout_cancel` | Does a cancellation reach the document? | 2 flows, 1 fault, any order | 78 k |
| `checkout_order` | Once all is handled, are status and plan PayPal's, and the access the status's? | 12 request and event kinds, downgrades, 2 plans, 4 events, 4 requests, 2 faults | 1,733 k |
| `checkout_double` | Is there one subscription under way? No | 2 subscriptions, 2 requests | — |
| `access_token` | Are tokens alive, are refreshes exclusive and needed, does every call end? | 2 calls in 2 processes, 2 tokens with lifetimes 1 and 4, 4 ticks, 1 fault | 276 k |

*Why the bounds are enough.* Two slots, flows or requests are the least that overlap, and the code
never lets a third take part in a decision about one document. Two attempts instead of five keep
first, last and (with a stall) repeated attempts apart; the proofs cover any number. Three faults
let a job stall, throw and crash. Two plans give one downgrade, three an upgrade that supersedes a
scheduled one. Symmetry is used only where no liveness is checked and only for flows.
`CHECK_DEADLOCK FALSE` is set everywhere, since a behaviour may rightly stop: all events delivered,
all bounds used.

*What the passing runs leave out on purpose.* `lifecycle_ending` handles one event at a time and has
no RENEWED, UPDATED or payment reports, `lifecycle_plan` has one flow and events in order,
`checkout_order` has one flow and no refunds, and `telegram_renewals` no faults (they are in
`telegram_charge`). Outside these conditions the properties are false of the code, in the ways of
section 5. Where a property only excuses a hazard (a slip), the hazard is listed without it.

*Fairness.* `FairSpec` in each module assumes what the deployment keeps doing: PayPal delivers an event
until a 2xx, a request or handler that has begun goes on, BullMQ hands out waiting jobs and finds
jobs whose lock ran out (its stalled check), the hourly and daily crons come round, the clock ticks.
In `AccessToken` a call that began goes on, and nothing else: `CallsEnd` must not need that the lock
of a dead process expires. It assumes that Redis answers each call, with a result or an error at
once: with `maxRetriesPerRequest: null` (redis.service.ts:26) a command waits as long as Redis is
unreachable, and so does every call of `getAccessToken`. Nothing is assumed about faults, users, PayPal's decisions, payments, or
when BullMQ removes old jobs.
`MaxFaults` says that faults end at some time; without it no system that retries a bounded number
of times settles.

## 4. Proofs

`tlapm` checks all of them; assumptions are the named ASSUMEs of the modules, which TLC evaluates in
the runs.

**`WebhookPipeline_proofs`** (any events, slots, requests and bounds; `NoEventAssumption`,
`NoWorkerAssumption`, `AttemptsAssumption`, `BoundsAssumption`). `Inv` is inductive. `TypeOK` and the
four promises are not inductive by themselves; what they need is:
`Busy` (a slot or request has an event exactly while it works), `SlotProgress` (what a slot's step says of
its event, e.g. at `mark` the handlers have ended: for `ProcessedMeansApplied`), `JobShape` (a job is
active exactly while it has an owner, attempts are left until it has failed, completed means
processed: for `AckedIsKept`, since a completed job may be removed), `LastListener` (a listener of
the last attempt belongs to a failed job: for `DlqMeansExhausted`) and `SingleSlot` (an event
without faults has one slot, the job's owner: for `OnceUnlessFaulted`). One lemma per action, then
the theorems `Invariant`, `TypeCorrect`, `NoNeedlessRepeat`, `AckIsAPromise`, `ProcessedWasApplied`,
`DoneKeyIsTrue`, `DlqIsFinal`, and the action property `ProcessedForGood`.

**`RedisLock_proofs`** (`MarkAssumption`). `TimelyHolds` is inductive with the types, and
`MutualExclusion` follows since a key holds one token: `LockIsHeld`, `LockExcludes`.

**`TelegramPayment_proofs`** (also `ResourceAssumption`). A refinement: every step of the payment
endpoints and crons is a step of `RedisLock` or leaves its variables alone (`PaymentsUseTheLock`), so
that mutual exclusion carries over for any number of charges, users and requests (`PaymentsExclude`,
`PaymentsHold`).

**`WebhookDelivery_proofs`**. `PipelineDelivers`: every step of the pipeline maps to a step of
`EventDelivery` or a stutter. It takes the invariant of `WebhookPipeline_proofs` (what a slot's step
says of its event decides which abstract step it is) and has one lemma per abstract step.

**`AccessToken_proofs`** (`HomeAssumption`, `TokenLockAssumption`, `TtlAssumption`,
`TokenAssumption`). `TokensUseTheLock` is again a refinement of the lock. `TokensAreAlive` needs that
what is cached, held or about to be returned lives to the end of the tick it may be used in: a cached
token at least a tick longer than its TTL, a call at most one tick late. `RefreshesExclude` and
`RefreshesAreNeeded` need that without a bypass whoever refreshes is inside, and that nothing is
cached since its recheck.

**`TelegramCredit_proofs`** (also `PayerAssumption`, `MethodAssumption`, `ChargeAssumption`,
`PeriodAssumption`, `BoundAssumption`). `OneCreditPerCharge` is not inductive: the idempotency check
of `handleSuccessfulPayment` reads the documents several calls before it writes one. The invariant
says what holds between: a charge that was credited is the last of some document (`CreditedIsFound`)
unless a newer one replaced it; a handler past the check works on a charge not credited yet
(`UncreditedYet`), which another handler cannot falsify because of the charge's lock (`Alone`, from
`PaymentsExclude`); a handler without the lock is one that outlived it (`LateIsSlipped`). For
`AckedIsActivated`, a credited charge is activated, or its handler is about to, or was cut off
(`CreditedIsActivated`, `AnswersSettled`). Theorems: `PaymentInvariant`, `PaymentTypes`,
`ChargesCreditOnce`, `AnswersMeanActivated`.

`LiveInv` is behind `PaidAccessIsKept`: two documents of a user that both give access, or that a flow
is about to revive or end, exist only if one came to life beside the other (`beside`). So a cron that
ends the access of a user without that slip ends it for the only document there is to end, and every
other is past its date or refunded. `AccessInv` adds, for the three action properties, what a flow read and still relies on when it
writes: a handler's new date covers every document it found ACTIVE (`FlowCovers`), which two handlers
of one user falsify, and then a slip says so (`CrossedPayments`); a handler about to activate is not
for a refunded charge (`FlowRefund`, with `RefundCredited`: only credited charges are refunded
otherwise); a cron about to take `is_pro` has a document past its date (`FlowEnding`). Theorems:
`AccessInvariant`, and `RefundsAreFinal`, `PaidAccessIsKept`, `CardsExtend` for `RefundIsFinal`,
`KeepsPaidAccess` and `ExtendsFromExpiry`. These three proofs corrected the model: the first attempts
failed at steps where the code does go wrong and the two-charge run is too small to show it. They are
the rows `reconciliation:221` and the second half of `telegram-payment.service:281` in section 5, and
`lapsed` and `crossed` now record them.

**`SubscriptionLifecycle_proofs`** (`NoneAssumption`, `RegisteredAssumption`, `NoTaskAssumption`,
`NoFeaturesAssumption`, `DateAssumption`, `CountAssumption`). Five inductive invariants, each with one
case per action:
* `TypeInv`: the types, and `ReadsOK`: what a flow read before an await is a document, of a
  registered user or with a schedule, wherever a later call relies on it (`LifecycleTypes`).
* `OwnInv`, for `BeneficiaryIsOne` under every kind of event, cron and fault: who has the features of
  a subscription owns it (`GrantsHold`), since what a granting flow read is still so (`ReadsHold`). An
  owner is only ever written where there was none, which needs that documents that are not there have
  no owner (`AbsentUnowned`) and that the orphan cron works on documents that are (`HealsPresent`);
  the attach upsert is the exception, `takenOver`.
* `ClaimInv`, for `ActivatorIsSingle` under `NoPlanChange` (no UPDATED events, no downgrade cron: a
  plan change resets `features_applied` while an activation may be under way): whoever activates holds
  the claim (`Claimed`), so that a rollback takes back its own claim only. `Quiet` carries the
  hypothesis to the steps: nothing is scheduled and no flow is in a plan change.
* `GrantInv`, for `AppliedMeansGranted` (`AppliedIsGranted`, under `NoPlanChange`, which
  `lifecycle_activation` meets; `lifecycle_plan` checks the property with plan changes, one flow at a
  time): a claim belongs to a flow that activates, or its owner has features (`ClaimsGranted`), and
  these are of the subscription's plan (`PlansGranted`), which is PayPal's wherever it is written down:
  document, event or request (`PlansAgree`). Without the last part it is not inductive: a flow saves the
  features of the plan it read several calls before.
* `PlanInv`, for `PlanIsPayPals` (`PlanFollowsPayPal`) under `PlanInOrder`: one worker and events in
  order, whatever they are and whatever crashes or stalls. Once all is quiet the property is about one state, so the
  invariant says what holds before: PayPal's plan and the document agree, possibly through the schedule
  (`Agreed`), or an UPDATED that says more recent things waits or a payment lost the plan
  (`Revising`, which a loss makes true for good: `LossesStay`), or a RENEWED that applies
  the downgrade does, or the flow at work is at a step that makes it so (`Due`); what an event or a
  flow holds is PayPal's plan unless a later revision waits (`EventsPlan`, `ReadsPlan`). The exception
  is the code's: a SALE_COMPLETED that dies between taking the plan and storing it is run again, finds
  no schedule and leaves the old plan (`lost`, row `service:575` of section 5), while the retry of a
  RENEWED repairs the same crash.

**`Checkout_proofs`** (also the assumptions of `RedisLock`, and `ResourceAssumption`).
* `CheckoutTypes` carries `TypeInv` to the endpoints; the steps of webhooks and crons are taken from
  the lemmas of `SubscriptionLifecycle_proofs`.
* `CheckoutLocks` is the third refinement of the lock, `CheckoutExcludes` what it carries over. From
  it and `InSection` (a request past its lock is in the section of the resource it was called for)
  follows `RequestsExclude`: in time, no two requests change one subscription or create for one user.
* `StatusInv`, for `StatusIsPayPals` (`StatusAgrees`) under `OneByOne` (one worker, events in order, no
  refund, as in `checkout_order`): the status is PayPal's, or an event that turns it waits (`Later`),
  or the flow at work will write it (`Owes`); what an event tells (`EventsTell`) or a flow is about to
  write (`WritesTell`) is PayPal's status or a later event waits. The argument is why the endpoints
  may die between PayPal and MongoDB: PayPal's change and its webhook are one step. Refunds are out
  since a refund marks CANCELLED what PayPal keeps ACTIVE (`service:855`), disorder since a status
  handled late overwrites a newer one (`service:367`).

* `AccessInv`, for `AccessIsPayPals` (`AccessAgrees`) under `Sequential` (`OneByOne`, without the
  verification and orphan crons and the attach endpoint) and as long as nobody owns two
  subscriptions (`[]OneEach`): whoever pays has the access, or what gives it is on its way
  (`PaidOK`): the ACTIVATED or a later switch in the queue (`Awaited`, `Switch`), the flow at work, or
  a claim a crash left (`Given`). Whoever does not pay is without it, or what takes it is on its way or
  was lost (`EndedOK`). It is not inductive without what else reads as paid for: a schedule, a claim
  and an UPDATED to come only exist where the access was given or its ACTIVATED is handled before,
  which is where the order of events enters; and the flow at work knows the owner and status it read
  (`StepOK`) and that PayPal's side still is what its event said, unless a switch waits (`TaskOK`,
  `EventOK`). An UPDATED may come while PayPal has the subscription suspended; that it grants no access
  then takes `StatusInv`: the document it finds ACTIVE is PayPal's, or a switch waits. Who ever
  switched auto-renew off (`paused`) is left out of the claim for suspended subscriptions, not of the
  rest. Every step of a flow is shown to be an `AccessStep`, and one lemma
  (`AccessStepKeeps`) says that these keep the invariant. Each hypothesis is needed: the verification
  cron and the second subscription are rows `reconciliation:169` and `reconciliation:232` of section 5,
  the owner who came by attach or the orphan cron row `reconciliation:347`.

Only model-checked: everything with fairness (`EverySettles`, `EndedLosesAccess`, `CancelReaches`,
`AccessEnds`, `CallsEnd`), which TLAPS cannot reach, and the action properties `AccessEndsForCause`
and `DowngradeWaits`.

## 5. Where code and text differ

`service` is `subscription/subscription.service.ts`, `processor` `queues/paypal-webhook.processor.ts`,
`controller` `paypal/paypal.controller.ts`, `reconciliation` `reconciliation/reconciliation.service.ts`.

Three runs end in a counterexample; `PROJECT.json` has their findings:

* `webhook_dlq` — the processor says "cero pérdida de eventos" (processor:29), but the move to the
  dead letter queue is one unrepeated call of the failed listener (processor:176).
* `lifecycle_rollback` — the activation of an attach request takes the claim in `setImmediate` and
  fails at the next call; ACTIVATED has meanwhile found the claim and skipped its own activation. The
  catch block undoes the claim "para permitir retry" (service:936), `setImmediate` logs the error
  (service:825), and nothing tries again.
* `checkout_double` — the check "evita duplicados" (controller:327) runs before the lock.

The models show more of them. Some are the slips that the properties excuse; the others are found by
widening a passing run in the way named. No run is kept for these:

| Where | What happens | Slip, or how to see it |
|---|---|---|
| `processor:78` | a job taken for stalled is dispatched beside its first run; `src/ecosystem.config.cjs:19` excludes duplicates | `webhook`: two slots at `dispatch` |
| `service:807` | the attach upsert lacks the guard of 740: a second attach takes the subscription over | `takenOver` |
| `service:688` | a CREATED handled after ACTIVATED leaves `APPROVAL_PENDING`, which no cron verifies (`src/README.md:171`) | `lifecycle_activation` with `cronVerify` |
| `service:367` | a SUSPENDED handled after CANCELLED overwrites the status, and no cron looks at suspended documents: access is gone, status and deferral flag stay wrong | `lifecycle_ending`, `checkout_cancel` with `SUSPENDED` |
| `service:850` | an end handled before the activation is followed by the grant of features nobody takes away | `overtaken` |
| `service:233` | a crash between CANCELLED and the downgrade: the retried event finds CANCELLED and returns | `ending` |
| `reconciliation:229` | a crash between the deferral flag and the user: no pass finds the document again | `ending` |
| `reconciliation:169` | the verification stores CANCELLED and leaves the access; the event that comes later returns at `service:233`. `src/README.md:171` says it "fixes any divergent state" | `corrected` |
| `service:233` | a refund of a cancelled subscription returns early and revokes nothing | cancellation, then refund |
| `service:855` | a refund takes the access away, PayPal stays ACTIVE, and the next payment grants nothing since the features count as applied | `checkout_order` with `SALE_REFUNDED`, `RENEWED` |
| `reconciliation:449` | the self-heal stores the user and activates nothing | `PaidIsGranted` with `cronOrphan` |
| `processor:406` | PAYMENT.SALE.COMPLETED leaves the billing date, so a cancellation in the new period ends access at once | `lifecycle_ending` with `SALE_COMPLETED` |
| `processor:448` | a RENEWED that applies a scheduled downgrade skips `updateStatus`, which leaves the billing date with the same effect | `lifecycle_ending` with `UPDATED`, `RENEWED` and two plans |
| `service:239` | a cancellation that read the document before ACTIVATED wrote its date does the same | `lifecycle_ending` with two flows |
| `processor:421` | a payment reported late in the running period applies a scheduled downgrade early | `lifecycle_plan`: `DowngradeWaits` excuses `SALE_COMPLETED` |
| `service:575` | a payment that dies between taking and storing the scheduled plan loses it | `lost` |
| `service:888` | a payment handled first creates the document with `plan_id` "unknown" (service:1002); nothing but a change of plan replaces it, so that the activation finds no plan, undoes its claim and ends without an error | `lifecycle_rollback` with `SALE_COMPLETED` and no fault |
| `reconciliation:347` | the downgrade cron marks the features applied and leaves `is_pro`: an owner whom attach or the self-heal stored and nobody activated never gets the access | `checkout_order` with `CREATED`, `cronOrphan` |
| `service:380` | auto-renew off ends the access at once (controller:536: "pausa pagos, mantiene acceso") | `paused` |
| `telegram-payment.service:213` | a charge redelivered after a newer one of its document is credited again | `superseded` |
| `telegram-payment.service:217` | a crash between the document and the user makes the retry answer ok without activating (telegram-payment.controller:139 says "Activates the user's Stars subscription.") | `cutShort` |
| `telegram-payment.service:281` | two card payments at the same time extend once; with two ACTIVE documents (two crossed first payments) a payment extends the one the query returns, which may end before the other | `crossed` |
| `telegram-payment.service:281` | a handler slower than 12 s extends from the date it read, beside the next delivery of its charge | `overlapped` |
| `reconciliation:221` | the cron ends what its list says, guarded by the deferral flag alone: a user who switches auto-renew on, pays and switches it off between list and update loses the period paid for | `lapsed` |
| `telegram-payment.service:472` | a renewal between the cron's list and its update is expired too | `lapsed` |
| `telegram-payment.service:472` | a crash between EXPIRED and the user leaves the access for good | `undropped` |
| `telegram-payment.service:740` | a refund that arrives before, or while, its charge is handled leaves the access | `refundCrossed` |
| `telegram-payment.controller:285` | a handler slower than 12 s works beside the next delivery of its charge | `overlapped` |
| `reconciliation:232` | the end of a cancelled document takes the access a newer one pays for, Telegram's or PayPal's; so does `telegram-payment.service:476` | `beside`; two subscriptions of a user |
| `paypal.service:97` | "exactamente UN pod refresca el token" (paypal.service:78), but a call that waited 300 ms refreshes without the lock | `bypassed` |
| `redis.service:26` | commands wait while Redis is unreachable, so that the fallback "si Redis no está disponible, degrada graciosamente" (paypal.service:81) is not reached | outside the model: Redis answers there |
| `paypal.service:141` | the fallback after a failed refresh is the process's own last token, dead or alive | `AnswersAreAlive` for `"memory"` |

## 6. Not modelled

Two simplifications allow more than the code: the orphan cron heals documents younger than 24 h too
(reconciliation:58), and a job for the dead letter queue is accepted whatever its id (`dlq:<id>`,
producer:85; newer versions of BullMQ reject a colon, which would leave the queue empty and
`webhook_dlq` as it is). Left out are:
job priorities (any order is allowed); notifications, audit records, health, dashboard, logging, DTO
validation and the DLQ processor (no state a property is about); the sample of 50 documents in the
nightly verification (the model verifies every one, so `EndedLosesAccess` and `CancelReaches` speak
of at most 50 active subscriptions, Telegram's included); Redis eviction of jobs (`allkeys-lru` could
drop them; the models evict the token only); the documents that PayPal and Telegram payments share
(the first Telegram payment cancels PayPal subscriptions that wait for approval,
telegram-payment.service:355); what a refund should leave to a user with a second charge (stated
nowhere).

## 7. Plan

Done, in this order: webhook pipeline with its invariant proof, lifecycle, locks, Telegram, checkout,
lock refinement; the abstract delivery and its refinement, the access token, the proof of one
credit per charge, the endings of the lifecycle, and the proofs of its claim and its owner; then the
proofs of Telegram's three action properties, of what the claim promises, of the plan, of
`Checkout`'s lock, of the status and of the access. Next:

1. *Prove*: `AccessEndsForCause` and `DowngradeWaits` for one flow.
2. *Abstract specification*: an entitlement (paid, granted, ended) that the lifecycle implements.
3. *Extend*: refunds followed by renewals in `Checkout`; the order of tiers and the billing preview
   as operators with reference definitions.
