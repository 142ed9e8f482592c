--------------------------- MODULE WebhookPipeline ---------------------------
(***************************************************************************)
(* The path of a PayPal webhook event: PayPalController.webhook answers    *)
(* PayPal and adds a BullMQ job whose id is the event's id; a slot of a    *)
(* worker process runs PaypalWebhookProcessor.process on it; a failed      *)
(* attempt is retried and, once the attempts are used up, onFailed copies  *)
(* the job to the dead letter queue.                                       *)
(*                                                                         *)
(* One step is one call to Redis, MongoDB, BullMQ or PayPal.  What the     *)
(* handlers of an event do to subscriptions is SubscriptionLifecycle; here *)
(* a dispatch only begins and ends.  BullMQ and PayPal are external and    *)
(* modelled by what the code asks of them.                                 *)
(***************************************************************************)
EXTENDS Naturals

CONSTANTS
    Event,          \* PayPal event ids
    Worker,         \* job slots of the worker processes (concurrency 5 each)
    Api,            \* HTTP requests an API process serves at the same time
    NoEvent, NoWorker,
    JobAttempts,    \* `attempts` the producer gives a job
    MAX_ATTEMPTS,   \* the processor's own constant
    MaxStalled,     \* BullMQ's maxStalledCount, left at its default
    MaxFaults,      \* bound: faults in a behaviour
    MaxDuplicates   \* bound: deliveries of an event PayPal already got a 2xx for

ASSUME NoEventAssumption == NoEvent \notin Event
ASSUME NoWorkerAssumption == NoWorker \notin Worker
ASSUME AttemptsAssumption ==
    JobAttempts \in Nat \ {0} /\ MAX_ATTEMPTS = JobAttempts
ASSUME BoundsAssumption ==
    MaxStalled \in Nat /\ MaxFaults \in Nat /\ MaxDuplicates \in Nat

VARIABLES
    \* PayPal and the API
    acked,          \* PayPal got a 2xx for the event and stops retrying it
    rejected,       \* some 2xx was a rejection: nothing was queued for it
    duplicates,     \* deliveries made after the event was acked
    apiPc, apiEvent,
    \* the BullMQ job of each event, kept in Redis
    job, attempts, stalls, owner,
    \* the slots
    pc, cur,
    failing,        \* 'failed' listeners that have not finished
    dlq,            \* the event has a job in the dead letter queue
    \* idempotency state
    doneKey,        \* Redis payments_webhook_done:<id>
    record,         \* the PayPalEvent document
    \* history
    started, repeated, applied, faulted, faults

apiVars   == <<acked, rejected, duplicates, apiPc, apiEvent>>
jobVars   == <<job, attempts, stalls, owner>>
slotVars  == <<pc, cur>>
failVars  == <<failing, dlq>>
storeVars == <<doneKey, record>>
history   == <<started, repeated, applied, faulted>>
vars == <<apiVars, jobVars, slotVars, failVars, storeVars, history, faults>>

JobState  == {"none", "waiting", "active", "completed", "failed"}
ApiStep   == {"idle", "verify", "check", "enqueue"}
SlotStep  == {"idle", "redis", "mongo", "upsert", "dispatch", "mark", "cache", "finish"}
Listener  == [slot : Worker, event : Event, made : 1..JobAttempts]

TypeOK ==
    /\ acked \in [Event -> BOOLEAN]
    /\ rejected \in [Event -> BOOLEAN]
    /\ duplicates \in [Event -> 0..MaxDuplicates]
    /\ apiPc \in [Api -> ApiStep]
    /\ apiEvent \in [Api -> Event \cup {NoEvent}]
    /\ job \in [Event -> JobState]
    /\ attempts \in [Event -> 0..JobAttempts]
    /\ stalls \in [Event -> 0..(MaxStalled + 1)]
    /\ owner \in [Event -> Worker \cup {NoWorker}]
    /\ pc \in [Worker -> SlotStep]
    /\ cur \in [Worker -> Event \cup {NoEvent}]
    /\ failing \subseteq Listener
    /\ dlq \in [Event -> BOOLEAN]
    /\ doneKey \in [Event -> BOOLEAN]
    /\ record \in [Event -> {"absent", "pending", "processed"}]
    /\ started \in [Event -> BOOLEAN]
    /\ repeated \in [Event -> BOOLEAN]
    /\ applied \in [Event -> BOOLEAN]
    /\ faulted \in [Event -> BOOLEAN]
    /\ faults \in 0..MaxFaults

Init ==
    /\ acked = [e \in Event |-> FALSE]
    /\ rejected = [e \in Event |-> FALSE]
    /\ duplicates = [e \in Event |-> 0]
    /\ apiPc = [a \in Api |-> "idle"]
    /\ apiEvent = [a \in Api |-> NoEvent]
    /\ job = [e \in Event |-> "none"]
    /\ attempts = [e \in Event |-> 0]
    /\ stalls = [e \in Event |-> 0]
    /\ owner = [e \in Event |-> NoWorker]
    /\ pc = [w \in Worker |-> "idle"]
    /\ cur = [w \in Worker |-> NoEvent]
    /\ failing = {}
    /\ dlq = [e \in Event |-> FALSE]
    /\ doneKey = [e \in Event |-> FALSE]
    /\ record = [e \in Event |-> "absent"]
    /\ started = [e \in Event |-> FALSE]
    /\ repeated = [e \in Event |-> FALSE]
    /\ applied = [e \in Event |-> FALSE]
    /\ faulted = [e \in Event |-> FALSE]
    /\ faults = 0

\* A fault uses one unit of the bound MaxFaults.
Fault == faults < MaxFaults /\ faults' = faults + 1

-----------------------------------------------------------------------------
(* The API: PayPalController.webhook                                       *)

\* PayPal posts an event: until it gets a 2xx, and at times again after it.
Deliver(a, e) ==
    /\ apiPc[a] = "idle"
    /\ \/ ~acked[e] /\ UNCHANGED duplicates
       \/ /\ acked[e]
          /\ duplicates[e] < MaxDuplicates
          /\ duplicates' = [duplicates EXCEPT ![e] = @ + 1]
    /\ apiPc' = [apiPc EXCEPT ![a] = "verify"]
    /\ apiEvent' = [apiEvent EXCEPT ![a] = e]
    /\ UNCHANGED <<acked, rejected, jobVars, slotVars, failVars, storeVars, history, faults>>

\* Mutant: every answer counts as a 2xx.
AnswerAlwaysOk(a, ok) ==
    /\ apiPc' = [apiPc EXCEPT ![a] = "idle"]
    /\ apiEvent' = [apiEvent EXCEPT ![a] = NoEvent]
    /\ acked' = [acked EXCEPT ![apiEvent[a]] = TRUE]
    /\ UNCHANGED duplicates

\* The request of slot a ends, with or without a 2xx that reaches PayPal.
Answer(a, ok) ==
    /\ apiPc' = [apiPc EXCEPT ![a] = "idle"]
    /\ apiEvent' = [apiEvent EXCEPT ![a] = NoEvent]
    /\ acked' = IF ok THEN [acked EXCEPT ![apiEvent[a]] = TRUE] ELSE acked
    /\ UNCHANGED duplicates

\* The timestamp lies in the window and PayPal's API confirms the signature.
Verify(a) ==
    /\ apiPc[a] = "verify"
    /\ apiPc' = [apiPc EXCEPT ![a] = "check"]
    /\ UNCHANGED <<acked, rejected, duplicates, apiEvent,
                   jobVars, slotVars, failVars, storeVars, history, faults>>

\* A genuine event is turned away: its timestamp left the window on the way,
\* or the verification call failed, which verifyWebhookSignature reports as
\* an invalid signature.  The body says "rejected" but the status is 2xx.
Reject(a) ==
    /\ apiPc[a] = "verify"
    /\ Fault
    /\ Answer(a, TRUE)
    /\ rejected' = [rejected EXCEPT ![apiEvent[a]] = TRUE]
    /\ UNCHANGED <<jobVars, slotVars, failVars, storeVars, history>>

\* The fast path: RedisService.get answers null when Redis fails, so the
\* request may go on although the key is there.
CheckDone(a) ==
    /\ apiPc[a] = "check"
    /\ \/ doneKey[apiEvent[a]] /\ Answer(a, TRUE)
       \/ /\ apiPc' = [apiPc EXCEPT ![a] = "enqueue"]
          /\ UNCHANGED <<acked, duplicates, apiEvent>>
    /\ UNCHANGED <<rejected, jobVars, slotVars, failVars, storeVars, history, faults>>

\* queue.add with jobId = event id: a job that still exists, in whatever
\* state, makes it a silent no-op.
AddJob(e) ==
    /\ job' = [job EXCEPT ![e] = IF @ = "none" THEN "waiting" ELSE @]
    /\ attempts' = [attempts EXCEPT ![e] = IF job[e] = "none" THEN 0 ELSE @]
    /\ stalls' = [stalls EXCEPT ![e] = IF job[e] = "none" THEN 0 ELSE @]
    /\ UNCHANGED owner

\* The job is queued and PayPal gets its 2xx.
Enqueue(a) ==
    /\ apiPc[a] = "enqueue"
    /\ AddJob(apiEvent[a])
    /\ Answer(a, TRUE)
    /\ UNCHANGED <<rejected, slotVars, failVars, storeVars, history, faults>>

\* The job is queued but the answer is lost.
EnqueueUnacked(a) ==
    /\ apiPc[a] = "enqueue"
    /\ Fault
    /\ AddJob(apiEvent[a])
    /\ Answer(a, FALSE)
    /\ UNCHANGED <<rejected, slotVars, failVars, storeVars, history>>

\* queue.add throws and the controller answers 500; or the API process dies.
EnqueueFails(a) ==
    /\ apiPc[a] \in {"verify", "check", "enqueue"}
    /\ Fault
    /\ Answer(a, FALSE)
    /\ UNCHANGED <<rejected, jobVars, slotVars, failVars, storeVars, history>>

-----------------------------------------------------------------------------
(* BullMQ and the slots: PaypalWebhookProcessor.process                    *)

\* BullMQ hands the job to an idle slot, which then holds the job's lock.
Fetch(w, e) ==
    /\ pc[w] = "idle" /\ job[e] = "waiting"
    /\ job' = [job EXCEPT ![e] = "active"]
    /\ owner' = [owner EXCEPT ![e] = w]
    /\ pc' = [pc EXCEPT ![w] = "redis"]
    /\ cur' = [cur EXCEPT ![w] = e]
    /\ UNCHANGED <<apiVars, attempts, stalls, failVars, storeVars, history, faults>>

Goto(w, step) == pc' = [pc EXCEPT ![w] = step] /\ UNCHANGED cur

Leave(w) ==
    /\ pc' = [pc EXCEPT ![w] = "idle"]
    /\ cur' = [cur EXCEPT ![w] = NoEvent]

\* Idempotency, first layer; a failing GET reads as a missing key.
CheckRedis(w) ==
    /\ pc[w] = "redis"
    /\ \/ doneKey[cur[w]] /\ Goto(w, "finish")
       \/ Goto(w, "mongo")
    /\ UNCHANGED <<apiVars, jobVars, failVars, storeVars, history, faults>>

\* Mutant: the second layer is missing.
CheckMongoNever(w) ==
    /\ pc[w] = "mongo"
    /\ Goto(w, "upsert")
    /\ UNCHANGED <<apiVars, jobVars, failVars, storeVars, history, faults>>

\* Second layer: an event already processed only gets its Redis key back.
CheckMongo(w) ==
    /\ pc[w] = "mongo"
    /\ Goto(w, IF record[cur[w]] = "processed" THEN "cache" ELSE "upsert")
    /\ UNCHANGED <<apiVars, jobVars, failVars, storeVars, history, faults>>

\* Mutants: the upsert uses $set; the upsert stores the final status.
RecordedAnew(r) == "pending"
RecordedAsDone(r) == "processed"

\* $setOnInsert leaves an existing document as it is.
Recorded(r) == IF r = "absent" THEN "pending" ELSE r

\* $setOnInsert with upsert (a duplicate key means another slot inserted it),
\* after which the handlers of the event start.
Upsert(w) ==
    LET e == cur[w] IN
    /\ pc[w] = "upsert"
    /\ record' = [record EXCEPT ![e] = Recorded(@)]
    /\ Goto(w, "dispatch")
    /\ started' = [started EXCEPT ![e] = TRUE]
    /\ repeated' = [repeated EXCEPT ![e] = @ \/ started[e]]
    /\ UNCHANGED <<apiVars, jobVars, failVars, doneKey, applied, faulted, faults>>

\* dispatchEvent runs to its end.
Dispatch(w) ==
    /\ pc[w] = "dispatch"
    /\ applied' = [applied EXCEPT ![cur[w]] = TRUE]
    /\ Goto(w, "mark")
    /\ UNCHANGED <<apiVars, jobVars, failVars, storeVars, started, repeated, faulted, faults>>

MarkProcessed(w) ==
    /\ pc[w] = "mark"
    /\ record' = [record EXCEPT ![cur[w]] = IF @ = "absent" THEN @ ELSE "processed"]
    /\ Goto(w, "cache")
    /\ UNCHANGED <<apiVars, jobVars, failVars, doneKey, history, faults>>

\* The Redis key, for 24 hours; RedisService.set swallows a failure.
CacheDone(w) ==
    /\ pc[w] = "cache"
    /\ doneKey' \in {doneKey, [doneKey EXCEPT ![cur[w]] = TRUE]}
    /\ Goto(w, "finish")
    /\ UNCHANGED <<apiVars, jobVars, failVars, record, history, faults>>

HoldsLock(w) == job[cur[w]] = "active" /\ owner[cur[w]] = w

\* process returns.  BullMQ completes the job only for the slot that still
\* holds its lock; a slot whose job was taken for stalled changes nothing.
Complete(w) ==
    LET e == cur[w] IN
    /\ pc[w] = "finish"
    /\ IF HoldsLock(w)
       THEN /\ job' = [job EXCEPT ![e] = "completed"]
            /\ owner' = [owner EXCEPT ![e] = NoWorker]
       ELSE UNCHANGED <<job, owner>>
    /\ Leave(w)
    /\ UNCHANGED <<apiVars, attempts, stalls, failVars, storeVars, history, faults>>

\* The attempt that ends now is retried after its backoff, or was the last.
EndAttempt(e, retry) ==
    /\ attempts' = [attempts EXCEPT ![e] = @ + 1]
    /\ job' = [job EXCEPT ![e] = IF retry THEN "waiting" ELSE "failed"]
    /\ owner' = [owner EXCEPT ![e] = NoWorker]

\* Mutant: one attempt too many.
RetriesLeftOffByOne(e) == attempts[e] < JobAttempts

\* The attempt under way is not the last one the producer allows.
RetriesLeft(e) == attempts[e] + 1 < JobAttempts

\* process throws: from a MongoDB call, or from anywhere inside the handlers,
\* whose effects may then be there in part.
Throw(w) ==
    LET e == cur[w] IN
    /\ pc[w] \in {"mongo", "upsert", "dispatch", "mark"}
    /\ Fault
    /\ faulted' = [faulted EXCEPT ![e] = TRUE]
    /\ IF HoldsLock(w)
       THEN /\ EndAttempt(e, RetriesLeft(e))
            /\ failing' = failing \cup {[slot |-> w, event |-> e, made |-> attempts[e] + 1]}
       ELSE UNCHANGED <<job, attempts, owner, failing>>
    /\ Leave(w)
    /\ UNCHANGED <<apiVars, stalls, dlq, storeVars, started, repeated, applied>>

\* Mutant: the last attempt but one is taken for the last.
LastAttemptOffByOne(l) == l.made + 1 >= MAX_ATTEMPTS

LastAttempt(l) == l.made >= MAX_ATTEMPTS

\* The 'failed' listener.  Only a listener of the last attempt adds to the
\* dead letter queue; an error of that add is caught and logged.
OnFailed(l) ==
    /\ failing' = failing \ {l}
    /\ \/ /\ LastAttempt(l)
          /\ dlq' = [dlq EXCEPT ![l.event] = TRUE]
          /\ UNCHANGED faults
       \/ LastAttempt(l) /\ Fault /\ UNCHANGED dlq
       \/ ~LastAttempt(l) /\ UNCHANGED <<dlq, faults>>
    /\ UNCHANGED <<apiVars, jobVars, slotVars, storeVars, history>>

\* A worker process dies: its job keeps a lock nobody renews, and the
\* listeners it was running are gone.
Crash(w) ==
    /\ pc[w] # "idle" \/ \E l \in failing : l.slot = w
    /\ Fault
    /\ faulted' = IF pc[w] = "idle" THEN faulted ELSE [faulted EXCEPT ![cur[w]] = TRUE]
    /\ failing' = {l \in failing : l.slot # w}
    /\ Leave(w)
    /\ UNCHANGED <<apiVars, jobVars, dlq, storeVars, started, repeated, applied>>

\* The slot that took the job still works on it.
Alive(e) == owner[e] # NoWorker /\ cur[owner[e]] = e

\* BullMQ finds the lock of an active job expired: its slot died, or was too
\* slow to renew it and works on.  The first MaxStalled times the job goes
\* back to the queue; after that it fails whatever attempts are left.
Stall(e, w) ==
    /\ job[e] = "active"
    /\ IF Alive(e) THEN Fault ELSE UNCHANGED faults
    /\ faulted' = [faulted EXCEPT ![e] = TRUE]
    /\ stalls' = [stalls EXCEPT ![e] = IF @ <= MaxStalled THEN @ + 1 ELSE @]
    /\ IF stalls[e] < MaxStalled
       THEN /\ job' = [job EXCEPT ![e] = "waiting"]
            /\ owner' = [owner EXCEPT ![e] = NoWorker]
            /\ UNCHANGED <<attempts, failing>>
       ELSE /\ EndAttempt(e, FALSE)
            /\ failing' = failing \cup {[slot |-> w, event |-> e, made |-> attempts[e] + 1]}
    /\ UNCHANGED <<apiVars, slotVars, dlq, storeVars, started, repeated, applied>>

-----------------------------------------------------------------------------
(* Retention                                                               *)

\* Mutant: removeOnFail is set as well.
RemovableFinished(e) == job[e] \in {"completed", "failed"}

Removable(e) == job[e] = "completed"

\* removeOnComplete: 24 hours or 10,000 younger completed jobs.
EvictJob(e) ==
    /\ Removable(e)
    /\ job' = [job EXCEPT ![e] = "none"]
    /\ UNCHANGED <<apiVars, attempts, stalls, owner, slotVars, failVars, storeVars, history, faults>>

\* The key's TTL of 24 hours, or Redis evicting it.
ExpireDoneKey(e) ==
    /\ doneKey[e]
    /\ doneKey' = [doneKey EXCEPT ![e] = FALSE]
    /\ UNCHANGED <<apiVars, jobVars, slotVars, failVars, record, history, faults>>

-----------------------------------------------------------------------------
ApiNext(a) ==
    \/ \E e \in Event : Deliver(a, e)
    \/ Verify(a) \/ Reject(a) \/ CheckDone(a)
    \/ Enqueue(a) \/ EnqueueUnacked(a) \/ EnqueueFails(a)

SlotNext(w) ==
    \/ \E e \in Event : Fetch(w, e)
    \/ CheckRedis(w) \/ CheckMongo(w) \/ Upsert(w) \/ Dispatch(w)
    \/ MarkProcessed(w) \/ CacheDone(w) \/ Complete(w)
    \/ Throw(w) \/ Crash(w)

QueueNext(e) ==
    \/ \E w \in Worker : Stall(e, w)
    \/ EvictJob(e) \/ ExpireDoneKey(e)

Next ==
    \/ \E a \in Api : ApiNext(a)
    \/ \E w \in Worker : SlotNext(w)
    \/ \E e \in Event : QueueNext(e)
    \/ \E l \in failing : OnFailed(l)

Spec == Init /\ [][Next]_vars

\* Fairness: PayPal delivers until it gets its 2xx, a request runs to its
\* end, BullMQ hands out waiting jobs and finds dead locks, a slot that does
\* not die finishes what it started.  Faults and retention are not fair.
FairApi(a) ==
    /\ \A e \in Event : WF_vars(~acked[e] /\ Deliver(a, e))
    /\ WF_vars(Verify(a)) /\ WF_vars(CheckDone(a)) /\ WF_vars(Enqueue(a))

FairSlot(w) ==
    /\ \A e \in Event : WF_vars(Fetch(w, e))
    /\ WF_vars(CheckRedis(w)) /\ WF_vars(CheckMongo(w)) /\ WF_vars(Upsert(w))
    /\ WF_vars(Dispatch(w)) /\ WF_vars(MarkProcessed(w)) /\ WF_vars(CacheDone(w))
    /\ WF_vars(Complete(w))

FairSpec ==
    /\ Spec
    /\ \A a \in Api : FairApi(a)
    /\ \A w \in Worker : FairSlot(w)
    /\ \A e \in Event : \A w \in Worker : WF_vars(~Alive(e) /\ Stall(e, w))
    /\ WF_vars(\E l \in failing : OnFailed(l))

-----------------------------------------------------------------------------
(* Properties                                                              *)

\* Only a finished dispatch marks an event: whatever attempts fail, stall or
\* overlap, an event MongoDB calls processed had its handlers run to the end
\* at least once (process, steps 4 and 5).
ProcessedMeansApplied ==
    \A e \in Event : record[e] = "processed" => applied[e]

\* The Redis key never gets ahead of MongoDB, so the fast paths of the API
\* and of the worker skip only events that really are processed.
DoneKeyMeansProcessed ==
    \A e \in Event : doneKey[e] => record[e] = "processed"

\* The handlers of an event begin a second time only if an attempt of it
\* failed, crashed or stalled: redelivery by PayPal, losing the Redis key and
\* evicting the finished job are all absorbed by the two layers.
OnceUnlessFaulted ==
    \A e \in Event : repeated[e] => faulted[e]

\* An event PayPal stops delivering because of a 2xx is in the queue's hands
\* or processed, unless that 2xx was a rejection.  It rests on `add` being a
\* no-op only while a job exists, and on jobs leaving the queue only after
\* they completed.
AckedIsKept ==
    \A e \in Event :
        acked[e] => rejected[e] \/ job[e] # "none" \/ record[e] = "processed"

\* What is in the dead letter queue is a job that failed for good, with all
\* its attempts used: never one that BullMQ is still going to retry.
DlqMeansExhausted ==
    \A e \in Event : dlq[e] => job[e] = "failed" /\ attempts[e] = JobAttempts

\* No step takes back that an event is processed, in particular not the
\* upsert of a slot that read MongoDB before another slot marked the event.
ProcessedStays ==
    [][\A e \in Event : record[e] = "processed" => record'[e] = "processed"]_vars

\* Every event PayPal delivers is processed in the end, or its job has
\* failed, or it was rejected: no crash or stall leaves it in between.
EverySettles ==
    \A e \in Event :
        <>(record[e] = "processed" \/ job[e] = "failed" \/ rejected[e])

\* What paypal-webhook.processor.ts:29 promises ("DLQ tras agotar reintentos,
\* cero perdida de eventos"): a job that failed for good is in the dead
\* letter queue, or the listener that puts it there is still to finish.
FailedReachesDlq ==
    \A e \in Event :
        job[e] = "failed" => dlq[e] \/ \E l \in failing : l.event = e
-----------------------------------------------------------------------------
(* The abstract specification                                              *)

\* What became of an event, read off the document, the job and the answers.
EventFate(e) ==
    IF record[e] = "processed" THEN "processed"
    ELSE IF job[e] = "failed" THEN "givenUp"
    ELSE IF job[e] # "none" THEN "kept"
    ELSE IF rejected[e] THEN "turnedAway"
    ELSE "sent"

EventRuns(e) ==
    IF repeated[e] THEN "again" ELSE IF started[e] THEN "once" ELSE "none"

Delivery == INSTANCE EventDelivery WITH
    fate     <- [e \in Event |-> EventFate(e)],
    runs     <- [e \in Event |-> EventRuns(e)],
    finished <- applied,
    troubled <- faulted

\* The pipeline implements EventDelivery: no interleaving of requests, slots,
\* stalled attempts and retention loses an event that was taken on, unmarks
\* one, marks one before its handlers finished, or gives one up that was
\* processed (controller webhook, processor process and onFailed).
ImplementsDelivery == Delivery!DeliverySpec
=============================================================================
