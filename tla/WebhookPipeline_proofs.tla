------------------------ MODULE WebhookPipeline_proofs ------------------------
(***************************************************************************)
(* Proofs about WebhookPipeline for every set of events, slots and         *)
(* requests and every bound.  Inv is the inductive invariant; the safety   *)
(* properties of WebhookPipeline are read off it.                          *)
(***************************************************************************)
EXTENDS WebhookPipeline, TLAPS

\* A slot or a request has an event exactly while it is working.
Busy ==
    /\ \A w \in Worker : pc[w] = "idle" <=> cur[w] = NoEvent
    /\ \A a \in Api : apiPc[a] = "idle" <=> apiEvent[a] = NoEvent

\* How far a slot got tells what is already true of its event.
SlotProgress ==
    \A w \in Worker :
        /\ pc[w] \in {"dispatch", "mark"} =>
               record[cur[w]] # "absent" /\ started[cur[w]]
        /\ pc[w] = "mark" => applied[cur[w]]
        /\ pc[w] \in {"cache", "finish"} => record[cur[w]] = "processed"

\* The job's state, its lock and its count of attempts.
JobShape ==
    \A e \in Event :
        /\ job[e] = "active" <=> owner[e] # NoWorker
        /\ job[e] # "failed" => attempts[e] < JobAttempts
        /\ job[e] = "completed" => record[e] = "processed"

\* A listener of the last attempt belongs to a job that failed for good.
LastListener ==
    \A l \in failing :
        l.made = JobAttempts => job[l.event] = "failed" /\ attempts[l.event] = JobAttempts

\* Of an event without faults one slot at most works on the job, as its
\* owner, and an unfinished dispatch is that slot's.
SingleSlot ==
    \A e \in Event : ~faulted[e] =>
        /\ ~repeated[e]
        /\ \A w \in Worker : cur[w] = e =>
               /\ job[e] = "active" /\ owner[e] = w
               /\ pc[w] = "upsert" => record[e] # "processed"
        /\ started[e] /\ record[e] # "processed" =>
               /\ job[e] = "active"
               /\ cur[owner[e]] = e
               /\ pc[owner[e]] \in {"dispatch", "mark"}

Inv ==
    /\ TypeOK
    /\ Busy
    /\ SlotProgress
    /\ JobShape
    /\ LastListener
    /\ SingleSlot
    /\ ProcessedMeansApplied
    /\ DoneKeyMeansProcessed
    /\ AckedIsKept
    /\ DlqMeansExhausted

\* A delivery leaves the job and the event alone.
LEMMA DeliverStep ==
    ASSUME Inv, NEW a \in Api, NEW e \in Event, Deliver(a, e)
    PROVE  Inv'
<1> USE DEF Inv, Deliver
<1>1. TypeOK'
  BY BoundsAssumption
     DEF TypeOK, ApiStep, jobVars, slotVars, failVars, storeVars, history
<1>2. Busy'
  BY NoEventAssumption DEF TypeOK, Busy, slotVars
<1>3. /\ SlotProgress'
      /\ JobShape'
      /\ LastListener'
      /\ SingleSlot'
      /\ ProcessedMeansApplied'
      /\ DoneKeyMeansProcessed'
      /\ AckedIsKept'
      /\ DlqMeansExhausted'
  BY DEF SlotProgress, JobShape, LastListener, SingleSlot,
         ProcessedMeansApplied, DoneKeyMeansProcessed, AckedIsKept,
         DlqMeansExhausted, jobVars, slotVars, failVars, storeVars, history
<1>. QED BY <1>1, <1>2, <1>3

\* A verified request goes on to the done-key check.
LEMMA VerifyStep ==
    ASSUME Inv, NEW a \in Api, Verify(a)
    PROVE  Inv'
<1> USE DEF Inv, Verify
<1>1. TypeOK'
  BY DEF TypeOK, TypeOK, JobState, ApiStep, SlotStep, Listener, jobVars,
         slotVars, failVars, storeVars, history
<1>2. Busy'
  BY DEF TypeOK, Busy, jobVars, slotVars, failVars, storeVars, history
<1>3. /\ SlotProgress'
      /\ JobShape'
      /\ LastListener'
      /\ SingleSlot'
      /\ ProcessedMeansApplied'
      /\ DoneKeyMeansProcessed'
      /\ AckedIsKept'
      /\ DlqMeansExhausted'
  BY DEF SlotProgress, JobShape, LastListener, SingleSlot,
         ProcessedMeansApplied, DoneKeyMeansProcessed, AckedIsKept,
         DlqMeansExhausted, jobVars, slotVars, failVars, storeVars, history
<1>. QED BY <1>1, <1>2, <1>3

\* A rejection acks an event that was never queued; rejected records it.
LEMMA RejectStep ==
    ASSUME Inv, NEW a \in Api, Reject(a)
    PROVE  Inv'
<1> USE DEF Inv, Reject, Answer, Fault
<1>1. TypeOK'
  BY BoundsAssumption
     DEF TypeOK, Busy, ApiStep, jobVars, slotVars, failVars, storeVars,
         history
<1>2. Busy'
  BY DEF TypeOK, Busy, jobVars, slotVars, failVars, storeVars, history
<1>3. AckedIsKept'
  BY DEF TypeOK, AckedIsKept, jobVars, slotVars, failVars, storeVars, history
<1>4. /\ SlotProgress'
      /\ JobShape'
      /\ LastListener'
      /\ SingleSlot'
      /\ ProcessedMeansApplied'
      /\ DoneKeyMeansProcessed'
      /\ DlqMeansExhausted'
  BY DEF SlotProgress, JobShape, LastListener, SingleSlot,
         ProcessedMeansApplied, DoneKeyMeansProcessed, DlqMeansExhausted,
         jobVars, slotVars, failVars, storeVars, history
<1>. QED BY <1>1, <1>2, <1>3, <1>4

\* The fast path acks an event only if MongoDB calls it processed.
LEMMA CheckDoneStep ==
    ASSUME Inv, NEW a \in Api, CheckDone(a)
    PROVE  Inv'
<1> USE DEF Inv, CheckDone, Answer
<1>1. TypeOK'
  BY DEF TypeOK, TypeOK, JobState, ApiStep, SlotStep, Listener, jobVars,
         slotVars, failVars, storeVars, history
<1>2. Busy'
  BY DEF TypeOK, Busy, jobVars, slotVars, failVars, storeVars, history
<1>3. AckedIsKept'
  BY DEF TypeOK, DoneKeyMeansProcessed, AckedIsKept, jobVars, storeVars
<1>4. /\ SlotProgress'
      /\ JobShape'
      /\ LastListener'
      /\ SingleSlot'
      /\ ProcessedMeansApplied'
      /\ DoneKeyMeansProcessed'
      /\ DlqMeansExhausted'
  BY DEF SlotProgress, JobShape, LastListener, SingleSlot,
         ProcessedMeansApplied, DoneKeyMeansProcessed, DlqMeansExhausted,
         jobVars, slotVars, failVars, storeVars, history
<1>. QED BY <1>1, <1>2, <1>3, <1>4

\* After add there is a job, so the 2xx is covered; an existing job is kept.
LEMMA EnqueueStep ==
    ASSUME Inv, NEW a \in Api, Enqueue(a)
    PROVE  Inv'
<1> USE DEF Inv, Enqueue, AddJob, Answer
<1>1. TypeOK'
  BY AttemptsAssumption, BoundsAssumption
     DEF TypeOK, Busy, JobState, ApiStep, slotVars, failVars, storeVars,
         history
<1>2. Busy'
  BY DEF TypeOK, Busy, slotVars, failVars, storeVars, history
<1>3. JobShape'
  BY AttemptsAssumption DEF JobShape, storeVars
<1>4. LastListener'
  BY DEF TypeOK, LastListener, slotVars, failVars, storeVars, history
<1>5. SingleSlot'
  BY DEF TypeOK, SingleSlot, slotVars, failVars, storeVars, history
<1>6. AckedIsKept'
  BY DEF TypeOK, AckedIsKept, slotVars, failVars, storeVars, history
<1>7. DlqMeansExhausted'
  BY DEF TypeOK, DlqMeansExhausted, slotVars, failVars, storeVars, history
<1>8. /\ SlotProgress'
      /\ ProcessedMeansApplied'
      /\ DoneKeyMeansProcessed'
  BY DEF SlotProgress, ProcessedMeansApplied, DoneKeyMeansProcessed, slotVars,
         failVars, storeVars, history
<1>. QED BY <1>1, <1>2, <1>3, <1>4, <1>5, <1>6, <1>7, <1>8

\* The same add without its answer.
LEMMA EnqueueUnackedStep ==
    ASSUME Inv, NEW a \in Api, EnqueueUnacked(a)
    PROVE  Inv'
<1> USE DEF Inv, EnqueueUnacked, AddJob, Answer, Fault
<1>1. TypeOK'
  BY AttemptsAssumption, BoundsAssumption
     DEF TypeOK, Busy, JobState, ApiStep, slotVars, failVars, storeVars,
         history
<1>2. Busy'
  BY DEF TypeOK, Busy, slotVars, failVars, storeVars, history
<1>3. JobShape'
  BY AttemptsAssumption DEF JobShape, storeVars
<1>4. LastListener'
  BY DEF TypeOK, LastListener, slotVars, failVars, storeVars, history
<1>5. SingleSlot'
  BY DEF TypeOK, SingleSlot, slotVars, failVars, storeVars, history
<1>6. AckedIsKept'
  BY DEF TypeOK, AckedIsKept, slotVars, failVars, storeVars, history
<1>7. DlqMeansExhausted'
  BY DEF TypeOK, DlqMeansExhausted, slotVars, failVars, storeVars, history
<1>8. /\ SlotProgress'
      /\ ProcessedMeansApplied'
      /\ DoneKeyMeansProcessed'
  BY DEF SlotProgress, ProcessedMeansApplied, DoneKeyMeansProcessed, slotVars,
         failVars, storeVars, history
<1>. QED BY <1>1, <1>2, <1>3, <1>4, <1>5, <1>6, <1>7, <1>8

\* A request that dies changes nothing else.
LEMMA EnqueueFailsStep ==
    ASSUME Inv, NEW a \in Api, EnqueueFails(a)
    PROVE  Inv'
<1> USE DEF Inv, EnqueueFails, Answer, Fault
<1>1. TypeOK'
  BY BoundsAssumption
     DEF TypeOK, ApiStep, jobVars, slotVars, failVars, storeVars, history
<1>2. Busy'
  BY DEF TypeOK, Busy, jobVars, slotVars, failVars, storeVars, history
<1>3. AckedIsKept'
  BY DEF TypeOK, AckedIsKept, jobVars, slotVars, failVars, storeVars, history
<1>4. /\ SlotProgress'
      /\ JobShape'
      /\ LastListener'
      /\ SingleSlot'
      /\ ProcessedMeansApplied'
      /\ DoneKeyMeansProcessed'
      /\ DlqMeansExhausted'
  BY DEF SlotProgress, JobShape, LastListener, SingleSlot,
         ProcessedMeansApplied, DoneKeyMeansProcessed, DlqMeansExhausted,
         jobVars, slotVars, failVars, storeVars, history
<1>. QED BY <1>1, <1>2, <1>3, <1>4

\* Fetching a waiting job makes the slot its owner; without faults no other
\* slot was working on the event.
LEMMA FetchStep ==
    ASSUME Inv, NEW w \in Worker, NEW e \in Event, Fetch(w, e)
    PROVE  Inv'
<1> USE DEF Inv, Fetch
<1>1. TypeOK'
  BY DEF TypeOK, TypeOK, JobState, ApiStep, SlotStep, Listener, apiVars,
         failVars, storeVars, history
<1>2. Busy'
  BY NoEventAssumption DEF TypeOK, Busy, apiVars
<1>3. SlotProgress'
  BY DEF TypeOK, SlotProgress, apiVars, failVars, storeVars, history
<1>4. JobShape'
  BY NoWorkerAssumption DEF TypeOK, JobShape, storeVars
<1>5. LastListener'
  BY DEF TypeOK, LastListener, apiVars, failVars, storeVars, history
<1>6. SingleSlot'
  BY DEF TypeOK, SingleSlot, apiVars, failVars, storeVars, history
<1>7. AckedIsKept'
  BY DEF TypeOK, AckedIsKept, apiVars, failVars, storeVars, history
<1>8. DlqMeansExhausted'
  BY DEF TypeOK, DlqMeansExhausted, apiVars, failVars, storeVars, history
<1>9. /\ ProcessedMeansApplied'
      /\ DoneKeyMeansProcessed'
  BY DEF ProcessedMeansApplied, DoneKeyMeansProcessed, apiVars, failVars,
         storeVars, history
<1>. QED BY <1>1, <1>2, <1>3, <1>4, <1>5, <1>6, <1>7, <1>8, <1>9

\* A done key means processed, so skipping to finish is justified.
LEMMA CheckRedisStep ==
    ASSUME Inv, NEW w \in Worker, CheckRedis(w)
    PROVE  Inv'
<1> USE DEF Inv, CheckRedis, Goto
<1>1. TypeOK'
  BY DEF TypeOK, TypeOK, JobState, ApiStep, SlotStep, Listener, apiVars,
         jobVars, failVars, storeVars, history
<1>2. Busy'
  BY DEF TypeOK, Busy, apiVars, jobVars, failVars, storeVars, history
<1>3. SlotProgress'
  BY DEF TypeOK, Busy, SlotProgress, DoneKeyMeansProcessed, storeVars, history
<1>4. SingleSlot'
  BY DEF TypeOK, JobShape, SingleSlot, jobVars, storeVars, history
<1>5. /\ JobShape'
      /\ LastListener'
      /\ ProcessedMeansApplied'
      /\ DoneKeyMeansProcessed'
      /\ AckedIsKept'
      /\ DlqMeansExhausted'
  BY DEF JobShape, LastListener, ProcessedMeansApplied, DoneKeyMeansProcessed,
         AckedIsKept, DlqMeansExhausted, apiVars, jobVars, failVars,
         storeVars, history
<1>. QED BY <1>1, <1>2, <1>3, <1>4, <1>5

\* Read at MongoDB decides between writing the key and handling the event.
LEMMA CheckMongoStep ==
    ASSUME Inv, NEW w \in Worker, CheckMongo(w)
    PROVE  Inv'
<1> USE DEF Inv, CheckMongo, Goto
<1>1. TypeOK'
  BY DEF TypeOK, TypeOK, JobState, ApiStep, SlotStep, Listener, apiVars,
         jobVars, failVars, storeVars, history
<1>2. Busy'
  BY DEF TypeOK, Busy, apiVars, jobVars, failVars, storeVars, history
<1>3. SlotProgress'
  BY DEF TypeOK, SlotProgress, apiVars, jobVars, failVars, storeVars, history
<1>4. SingleSlot'
  BY DEF TypeOK, SingleSlot, apiVars, jobVars, failVars, storeVars, history
<1>5. /\ JobShape'
      /\ LastListener'
      /\ ProcessedMeansApplied'
      /\ DoneKeyMeansProcessed'
      /\ AckedIsKept'
      /\ DlqMeansExhausted'
  BY DEF JobShape, LastListener, ProcessedMeansApplied, DoneKeyMeansProcessed,
         AckedIsKept, DlqMeansExhausted, apiVars, jobVars, failVars,
         storeVars, history
<1>. QED BY <1>1, <1>2, <1>3, <1>4, <1>5

\* Without faults the handlers have not begun before this step.
LEMMA UpsertStep ==
    ASSUME Inv, NEW w \in Worker, Upsert(w)
    PROVE  Inv'
<1> USE DEF Inv, Upsert, Recorded, Goto
<1>1. TypeOK'
  BY DEF TypeOK, TypeOK, JobState, ApiStep, SlotStep, Listener, apiVars,
         jobVars, failVars
<1>2. Busy'
  BY DEF TypeOK, Busy, apiVars, jobVars, failVars
<1>3. SlotProgress'
  BY DEF TypeOK, Busy, SlotProgress
<1>4. JobShape'
  BY DEF TypeOK, JobShape, apiVars, jobVars, failVars
<1>5. SingleSlot'
  BY DEF TypeOK, SingleSlot, apiVars, jobVars, failVars
<1>6. ProcessedMeansApplied'
  BY DEF TypeOK, ProcessedMeansApplied, apiVars, jobVars, failVars
<1>7. DoneKeyMeansProcessed'
  BY DEF TypeOK, DoneKeyMeansProcessed, apiVars, jobVars, failVars
<1>8. AckedIsKept'
  BY DEF TypeOK, AckedIsKept, apiVars, jobVars, failVars
<1>9. /\ LastListener'
      /\ DlqMeansExhausted'
  BY DEF LastListener, DlqMeansExhausted, apiVars, jobVars, failVars
<1>. QED BY <1>1, <1>2, <1>3, <1>4, <1>5, <1>6, <1>7, <1>8, <1>9

\* The handlers have run: what mark relies on.
LEMMA DispatchStep ==
    ASSUME Inv, NEW w \in Worker, Dispatch(w)
    PROVE  Inv'
<1> USE DEF Inv, Dispatch, Goto
<1>1. TypeOK'
  BY DEF TypeOK, TypeOK, JobState, ApiStep, SlotStep, Listener, apiVars,
         jobVars, failVars, storeVars
<1>2. Busy'
  BY DEF TypeOK, Busy, apiVars, jobVars, failVars, storeVars
<1>3. SlotProgress'
  BY DEF TypeOK, Busy, SlotProgress, storeVars
<1>4. SingleSlot'
  BY DEF TypeOK, SingleSlot, apiVars, jobVars, failVars, storeVars
<1>5. ProcessedMeansApplied'
  BY DEF TypeOK, ProcessedMeansApplied, apiVars, jobVars, failVars, storeVars
<1>6. /\ JobShape'
      /\ LastListener'
      /\ DoneKeyMeansProcessed'
      /\ AckedIsKept'
      /\ DlqMeansExhausted'
  BY DEF JobShape, LastListener, DoneKeyMeansProcessed, AckedIsKept,
         DlqMeansExhausted, apiVars, jobVars, failVars, storeVars
<1>. QED BY <1>1, <1>2, <1>3, <1>4, <1>5, <1>6

\* Only a dispatched event is marked.
LEMMA MarkProcessedStep ==
    ASSUME Inv, NEW w \in Worker, MarkProcessed(w)
    PROVE  Inv'
<1> USE DEF Inv, MarkProcessed, Goto
<1>1. TypeOK'
  BY DEF TypeOK, TypeOK, JobState, ApiStep, SlotStep, Listener, apiVars,
         jobVars, failVars, history
<1>2. Busy'
  BY DEF TypeOK, Busy, apiVars, jobVars, failVars, history
<1>3. SlotProgress'
  BY DEF TypeOK, Busy, SlotProgress, history
<1>4. JobShape'
  BY DEF TypeOK, JobShape, apiVars, jobVars, failVars, history
<1>5. SingleSlot'
  BY DEF TypeOK, SlotProgress, SingleSlot, jobVars, history
<1>6. ProcessedMeansApplied'
  BY DEF SlotProgress, ProcessedMeansApplied, history
<1>7. DoneKeyMeansProcessed'
  BY DEF TypeOK, DoneKeyMeansProcessed, apiVars, jobVars, failVars, history
<1>8. AckedIsKept'
  BY DEF TypeOK, AckedIsKept, apiVars, jobVars, failVars, history
<1>9. /\ LastListener'
      /\ DlqMeansExhausted'
  BY DEF LastListener, DlqMeansExhausted, apiVars, jobVars, failVars, history
<1>. QED BY <1>1, <1>2, <1>3, <1>4, <1>5, <1>6, <1>7, <1>8, <1>9

\* Only a processed event gets its key.
LEMMA CacheDoneStep ==
    ASSUME Inv, NEW w \in Worker, CacheDone(w)
    PROVE  Inv'
<1> USE DEF Inv, CacheDone, Goto
<1>1. TypeOK'
  BY DEF TypeOK, TypeOK, JobState, ApiStep, SlotStep, Listener, apiVars,
         jobVars, failVars, history
<1>2. Busy'
  BY DEF TypeOK, Busy, apiVars, jobVars, failVars, history
<1>3. SlotProgress'
  BY DEF TypeOK, SlotProgress, apiVars, jobVars, failVars, history
<1>4. SingleSlot'
  BY DEF TypeOK, SingleSlot, apiVars, jobVars, failVars, history
<1>5. DoneKeyMeansProcessed'
  BY DEF TypeOK, SlotProgress, DoneKeyMeansProcessed
<1>6. /\ JobShape'
      /\ LastListener'
      /\ ProcessedMeansApplied'
      /\ AckedIsKept'
      /\ DlqMeansExhausted'
  BY DEF JobShape, LastListener, ProcessedMeansApplied, AckedIsKept,
         DlqMeansExhausted, apiVars, jobVars, failVars, history
<1>. QED BY <1>1, <1>2, <1>3, <1>4, <1>5, <1>6

\* Only the owner of the job completes it, and its event is processed.
LEMMA CompleteStep ==
    ASSUME Inv, NEW w \in Worker, Complete(w)
    PROVE  Inv'
<1> USE DEF Inv, Complete, Leave, HoldsLock
<1>1. TypeOK'
  BY DEF TypeOK, TypeOK, JobState, ApiStep, SlotStep, Listener, apiVars,
         failVars, storeVars, history
<1>2. Busy'
  BY DEF TypeOK, Busy, apiVars, failVars, storeVars, history
<1>3. SlotProgress'
  BY DEF TypeOK, SlotProgress, apiVars, failVars, storeVars, history
<1>4. JobShape'
  BY DEF TypeOK, SlotProgress, JobShape, storeVars
<1>5. LastListener'
  BY DEF TypeOK, LastListener, Listener, failVars
<1>6. SingleSlot'
  BY NoEventAssumption DEF TypeOK, SingleSlot, storeVars, history
<1>7. AckedIsKept'
  BY DEF TypeOK, AckedIsKept, apiVars, failVars, storeVars, history
<1>8. DlqMeansExhausted'
  BY DEF TypeOK, DlqMeansExhausted, apiVars, failVars, storeVars, history
<1>9. /\ ProcessedMeansApplied'
      /\ DoneKeyMeansProcessed'
  BY DEF ProcessedMeansApplied, DoneKeyMeansProcessed, apiVars, failVars,
         storeVars, history
<1>. QED BY <1>1, <1>2, <1>3, <1>4, <1>5, <1>6, <1>7, <1>8, <1>9

\* A failed attempt counts, and its listener carries the count.
LEMMA ThrowStep ==
    ASSUME Inv, NEW w \in Worker, Throw(w)
    PROVE  Inv'
<1> USE DEF Inv, Throw, Leave, HoldsLock, RetriesLeft, EndAttempt, Fault
<1>1. TypeOK'
  <2>1. cur[w] \in Event
    BY DEF TypeOK, Busy
  <2>2. HoldsLock(w) => attempts[cur[w]] + 1 \in 1..JobAttempts
    BY <2>1, AttemptsAssumption DEF TypeOK, JobShape
  <2>3. failing' \subseteq Listener
    BY <2>1, <2>2 DEF TypeOK, Listener
  <2>4. /\ attempts' \in [Event -> 0..JobAttempts]
        /\ job' \in [Event -> JobState]
        /\ owner' \in [Event -> Worker \cup {NoWorker}]
    BY <2>1, <2>2, AttemptsAssumption DEF TypeOK, JobState
  <2>5. /\ pc' \in [Worker -> SlotStep]
        /\ cur' \in [Worker -> Event \cup {NoEvent}]
        /\ faulted' \in [Event -> BOOLEAN]
    BY DEF TypeOK, SlotStep
  <2>6. faults' \in 0..MaxFaults
    BY BoundsAssumption DEF TypeOK
  <2>. QED BY <2>3, <2>4, <2>5, <2>6 DEF TypeOK, apiVars, storeVars
<1>2. Busy'
  BY DEF TypeOK, Busy, apiVars, storeVars
<1>3. SlotProgress'
  BY DEF TypeOK, SlotProgress, apiVars, storeVars
<1>4. JobShape'
  BY DEF TypeOK, JobShape, apiVars, storeVars
<1>5. LastListener'
  BY DEF TypeOK, Busy, LastListener, Listener
<1>6. SingleSlot'
  BY NoEventAssumption DEF TypeOK, SingleSlot, storeVars
<1>7. AckedIsKept'
  BY DEF TypeOK, AckedIsKept, apiVars, storeVars
<1>8. DlqMeansExhausted'
  BY DEF TypeOK, DlqMeansExhausted, apiVars, storeVars
<1>9. /\ ProcessedMeansApplied'
      /\ DoneKeyMeansProcessed'
  BY DEF ProcessedMeansApplied, DoneKeyMeansProcessed, apiVars, storeVars
<1>. QED BY <1>1, <1>2, <1>3, <1>4, <1>5, <1>6, <1>7, <1>8, <1>9

\* A dead slot leaves its job active and takes its listeners with it.
LEMMA CrashStep ==
    ASSUME Inv, NEW w \in Worker, Crash(w)
    PROVE  Inv'
<1> USE DEF Inv, Crash, Leave, Fault
<1>1. TypeOK'
  BY BoundsAssumption DEF TypeOK, Busy, SlotStep, apiVars, jobVars, storeVars
<1>2. Busy'
  BY DEF TypeOK, Busy, apiVars, jobVars, storeVars
<1>3. SlotProgress'
  BY DEF TypeOK, SlotProgress, apiVars, jobVars, storeVars
<1>4. LastListener'
  BY DEF TypeOK, LastListener, apiVars, jobVars, storeVars
<1>5. SingleSlot'
  BY NoEventAssumption DEF TypeOK, SingleSlot, jobVars, storeVars
<1>6. /\ JobShape'
      /\ ProcessedMeansApplied'
      /\ DoneKeyMeansProcessed'
      /\ AckedIsKept'
      /\ DlqMeansExhausted'
  BY DEF JobShape, ProcessedMeansApplied, DoneKeyMeansProcessed, AckedIsKept,
         DlqMeansExhausted, apiVars, jobVars, storeVars
<1>. QED BY <1>1, <1>2, <1>3, <1>4, <1>5, <1>6

\* A stalled job is queued again or fails for good.
LEMMA StallStep ==
    ASSUME Inv, NEW e \in Event, NEW w \in Worker, Stall(e, w)
    PROVE  Inv'
<1> USE DEF Inv, Stall, EndAttempt, Alive, Fault
<1>1. TypeOK'
  <2>1. attempts[e] + 1 \in 1..JobAttempts
    BY AttemptsAssumption DEF TypeOK, JobShape
  <2>2. failing' \subseteq Listener
    BY <2>1 DEF TypeOK, Listener
  <2>3. /\ attempts' \in [Event -> 0..JobAttempts]
        /\ job' \in [Event -> JobState]
        /\ owner' \in [Event -> Worker \cup {NoWorker}]
    BY <2>1, AttemptsAssumption DEF TypeOK, JobState
  <2>4. stalls' \in [Event -> 0..(MaxStalled + 1)]
    BY BoundsAssumption DEF TypeOK
  <2>5. faults' \in 0..MaxFaults /\ faulted' \in [Event -> BOOLEAN]
    BY BoundsAssumption DEF TypeOK
  <2>. QED BY <2>2, <2>3, <2>4, <2>5 DEF TypeOK, apiVars, slotVars, storeVars
<1>2. JobShape'
  BY DEF TypeOK, JobShape, apiVars, slotVars, storeVars
<1>3. LastListener'
  BY DEF TypeOK, LastListener, Listener
<1>4. SingleSlot'
  BY DEF TypeOK, SingleSlot, apiVars, slotVars, storeVars
<1>5. AckedIsKept'
  BY DEF TypeOK, AckedIsKept, apiVars, slotVars, storeVars
<1>6. DlqMeansExhausted'
  BY DEF TypeOK, DlqMeansExhausted, apiVars, slotVars, storeVars
<1>7. /\ Busy'
      /\ SlotProgress'
      /\ ProcessedMeansApplied'
      /\ DoneKeyMeansProcessed'
  BY DEF Busy, SlotProgress, ProcessedMeansApplied, DoneKeyMeansProcessed,
         apiVars, slotVars, storeVars
<1>. QED BY <1>1, <1>2, <1>3, <1>4, <1>5, <1>6, <1>7

\* Only completed jobs leave the queue, so their events are processed.
LEMMA EvictJobStep ==
    ASSUME Inv, NEW e \in Event, EvictJob(e)
    PROVE  Inv'
<1> USE DEF Inv, EvictJob, Removable
<1>1. TypeOK'
  BY DEF TypeOK, TypeOK, JobState, ApiStep, SlotStep, Listener, apiVars,
         slotVars, failVars, storeVars, history
<1>2. JobShape'
  BY DEF TypeOK, JobShape, apiVars, slotVars, failVars, storeVars, history
<1>3. LastListener'
  BY DEF TypeOK, LastListener, apiVars, slotVars, failVars, storeVars, history
<1>4. SingleSlot'
  BY DEF TypeOK, SingleSlot, apiVars, slotVars, failVars, storeVars, history
<1>5. AckedIsKept'
  BY DEF JobShape, AckedIsKept, apiVars, storeVars
<1>6. DlqMeansExhausted'
  BY DEF TypeOK, DlqMeansExhausted, apiVars, slotVars, failVars, storeVars,
         history
<1>7. /\ Busy'
      /\ SlotProgress'
      /\ ProcessedMeansApplied'
      /\ DoneKeyMeansProcessed'
  BY DEF Busy, SlotProgress, ProcessedMeansApplied, DoneKeyMeansProcessed,
         apiVars, slotVars, failVars, storeVars, history
<1>. QED BY <1>1, <1>2, <1>3, <1>4, <1>5, <1>6, <1>7

\* Losing the key loses no fact about the event.
LEMMA ExpireDoneKeyStep ==
    ASSUME Inv, NEW e \in Event, ExpireDoneKey(e)
    PROVE  Inv'
<1> USE DEF Inv, ExpireDoneKey
<1>1. TypeOK'
  BY DEF TypeOK, TypeOK, JobState, ApiStep, SlotStep, Listener, apiVars,
         jobVars, slotVars, failVars, history
<1>2. DoneKeyMeansProcessed'
  BY DEF TypeOK, DoneKeyMeansProcessed, apiVars, jobVars, slotVars, failVars,
         history
<1>3. /\ Busy'
      /\ SlotProgress'
      /\ JobShape'
      /\ LastListener'
      /\ SingleSlot'
      /\ ProcessedMeansApplied'
      /\ AckedIsKept'
      /\ DlqMeansExhausted'
  BY DEF Busy, SlotProgress, JobShape, LastListener, SingleSlot,
         ProcessedMeansApplied, AckedIsKept, DlqMeansExhausted, apiVars,
         jobVars, slotVars, failVars, history
<1>. QED BY <1>1, <1>2, <1>3

\* The listener of the last attempt speaks of a job that failed for good.
LEMMA OnFailedStep ==
    ASSUME Inv, NEW l \in failing, OnFailed(l)
    PROVE  Inv'
<1> USE DEF Inv, OnFailed, LastAttempt, Fault
<1>1. l.event \in Event /\ l.made \in 1..JobAttempts
  BY DEF TypeOK, Listener
<1>2. TypeOK'
  <2>1. faults' \in 0..MaxFaults
    BY BoundsAssumption DEF TypeOK
  <2>2. dlq' = dlq \/ dlq' = [dlq EXCEPT ![l.event] = TRUE]
    OBVIOUS
  <2>3. dlq' \in [Event -> BOOLEAN]
    BY <1>1, <2>2 DEF TypeOK
  <2>4. failing' \subseteq Listener
    BY DEF TypeOK
  <2>. QED BY <2>1, <2>3, <2>4 DEF TypeOK, apiVars, jobVars, slotVars, storeVars, history
<1>3. LastListener'
  BY DEF TypeOK, LastListener, apiVars, jobVars, slotVars, storeVars, history
<1>4. DlqMeansExhausted'
  <2>1. l.made >= MAX_ATTEMPTS => l.made = JobAttempts
    BY <1>1, AttemptsAssumption
  <2>2. dlq' = dlq \/ (l.made = JobAttempts /\ dlq' = [dlq EXCEPT ![l.event] = TRUE])
    BY <2>1
  <2>. QED BY <1>1, <2>2 DEF TypeOK, LastListener, DlqMeansExhausted, jobVars
<1>5. /\ Busy'
      /\ SlotProgress'
      /\ JobShape'
      /\ SingleSlot'
      /\ ProcessedMeansApplied'
      /\ DoneKeyMeansProcessed'
      /\ AckedIsKept'
  BY DEF Busy, SlotProgress, JobShape, SingleSlot, ProcessedMeansApplied,
         DoneKeyMeansProcessed, AckedIsKept, apiVars, jobVars, slotVars,
         storeVars, history
<1>. QED BY <1>2, <1>3, <1>4, <1>5

-----------------------------------------------------------------------------
(* The invariant and what follows from it                                  *)

\* Initially no event is known anywhere.
LEMMA InitInv == Init => Inv
<1> SUFFICES ASSUME Init PROVE Inv
  OBVIOUS
<1> USE DEF Init
<1>1. TypeOK
  BY AttemptsAssumption, BoundsAssumption DEF TypeOK, JobState, ApiStep, SlotStep, Listener
<1>2. Busy /\ SlotProgress /\ LastListener
  BY DEF Busy, SlotProgress, LastListener
<1>3. JobShape
  <2>1. 0 < JobAttempts
    BY AttemptsAssumption
  <2>. QED BY <2>1 DEF JobShape
<1>4. SingleSlot
  BY NoEventAssumption DEF SingleSlot
<1>5. /\ ProcessedMeansApplied
      /\ DoneKeyMeansProcessed
      /\ AckedIsKept
      /\ DlqMeansExhausted
  BY DEF ProcessedMeansApplied, DoneKeyMeansProcessed, AckedIsKept, DlqMeansExhausted
<1>. QED BY <1>1, <1>2, <1>3, <1>4, <1>5 DEF Inv

\* A step that changes no variable keeps the invariant.
LEMMA StutterStep ==
    ASSUME Inv, UNCHANGED vars
    PROVE  Inv'
<1> USE DEF Inv, vars, apiVars, jobVars, slotVars, failVars, storeVars, history
<1>1. TypeOK'
  BY DEF TypeOK
<1>2. /\ Busy'
      /\ SlotProgress'
      /\ JobShape'
      /\ LastListener'
  BY DEF Busy, SlotProgress, JobShape, LastListener
<1>3. SingleSlot'
  BY DEF SingleSlot
<1>4. /\ ProcessedMeansApplied'
      /\ DoneKeyMeansProcessed'
      /\ AckedIsKept'
      /\ DlqMeansExhausted'
  BY DEF ProcessedMeansApplied, DoneKeyMeansProcessed, AckedIsKept, DlqMeansExhausted
<1>. QED BY <1>1, <1>2, <1>3, <1>4

\* Every step of the system keeps the invariant.
LEMMA NextInv == Inv /\ [Next]_vars => Inv'
<1> SUFFICES ASSUME Inv, [Next]_vars PROVE Inv'
  OBVIOUS
<1>1. ASSUME NEW a \in Api, ApiNext(a) PROVE Inv'
  BY <1>1, DeliverStep, VerifyStep, RejectStep, CheckDoneStep, EnqueueStep,
     EnqueueUnackedStep, EnqueueFailsStep DEF ApiNext
<1>2. ASSUME NEW w \in Worker, SlotNext(w) PROVE Inv'
  BY <1>2, FetchStep, CheckRedisStep, CheckMongoStep, UpsertStep, DispatchStep,
     MarkProcessedStep, CacheDoneStep, CompleteStep, ThrowStep, CrashStep DEF SlotNext
<1>3. ASSUME NEW e \in Event, QueueNext(e) PROVE Inv'
  BY <1>3, StallStep, EvictJobStep, ExpireDoneKeyStep DEF QueueNext
<1>4. ASSUME NEW l \in failing, OnFailed(l) PROVE Inv'
  BY <1>4, OnFailedStep
<1>5. CASE UNCHANGED vars
  BY <1>5, StutterStep
<1>. QED BY <1>1, <1>2, <1>3, <1>4, <1>5 DEF Next

\* The invariant holds in every reachable state.
THEOREM Invariant == Spec => []Inv
<1>. QED BY InitInv, NextInv, PTL DEF Spec

\* Every variable keeps to its type.
THEOREM TypeCorrect == Spec => []TypeOK
<1>1. Inv => TypeOK
  BY DEF Inv
<1>. QED BY <1>1, Invariant, PTL

\* The handlers of an event begin again only after a fault: the job id, the
\* Redis key and the MongoDB record absorb every redelivery (process steps 1-3).
THEOREM NoNeedlessRepeat == Spec => []OnceUnlessFaulted
<1>1. Inv => OnceUnlessFaulted
  BY DEF Inv, TypeOK, SingleSlot, OnceUnlessFaulted
<1>. QED BY <1>1, Invariant, PTL

\* An event PayPal was told is accepted is queued or processed, or was rejected.
THEOREM AckIsAPromise == Spec => []AckedIsKept
<1>1. Inv => AckedIsKept
  BY DEF Inv
<1>. QED BY <1>1, Invariant, PTL

\* What MongoDB calls processed had its handlers run to the end.
THEOREM ProcessedWasApplied == Spec => []ProcessedMeansApplied
<1>1. Inv => ProcessedMeansApplied
  BY DEF Inv
<1>. QED BY <1>1, Invariant, PTL

\* The key on whose word the API skips an event is never ahead of MongoDB.
THEOREM DoneKeyIsTrue == Spec => []DoneKeyMeansProcessed
<1>1. Inv => DoneKeyMeansProcessed
  BY DEF Inv
<1>. QED BY <1>1, Invariant, PTL

\* The dead letter queue holds no event BullMQ is still going to retry.
THEOREM DlqIsFinal == Spec => []DlqMeansExhausted
<1>1. Inv => DlqMeansExhausted
  BY DEF Inv
<1>. QED BY <1>1, Invariant, PTL

\* No step takes a processed event back, not even a slot that read MongoDB
\* before another slot marked the event.
THEOREM ProcessedForGood == Spec => ProcessedStays
<1> DEFINE Stays == \A e \in Event : record[e] = "processed" => record'[e] = "processed"
<1>1. ASSUME TypeOK, [Next]_vars PROVE Stays
  <2>1. ASSUME NEW a \in Api, ApiNext(a) PROVE record' = record
    BY <2>1 DEF ApiNext, Deliver, Verify, Reject, CheckDone, Enqueue, EnqueueUnacked,
                EnqueueFails, storeVars
  <2>2. ASSUME NEW w \in Worker, SlotNext(w) PROVE Stays
    <3>1. CASE Upsert(w)
      BY <3>1 DEF Upsert, Recorded, TypeOK
    <3>2. CASE MarkProcessed(w)
      BY <3>2 DEF MarkProcessed, TypeOK
    <3>3. CASE ~Upsert(w) /\ ~MarkProcessed(w)
      BY <2>2, <3>3 DEF SlotNext, Fetch, CheckRedis, CheckMongo, Dispatch, CacheDone,
                        Complete, Throw, Crash, storeVars
    <3>. QED BY <3>1, <3>2, <3>3
  <2>3. ASSUME NEW e \in Event, QueueNext(e) PROVE record' = record
    BY <2>3 DEF QueueNext, Stall, EvictJob, ExpireDoneKey, storeVars
  <2>4. ASSUME NEW l \in failing, OnFailed(l) PROVE record' = record
    BY <2>4 DEF OnFailed, storeVars
  <2>5. CASE UNCHANGED vars
    BY <2>5 DEF vars, storeVars
  <2>. QED BY <1>1, <2>1, <2>2, <2>3, <2>4, <2>5 DEF Next
<1>2. TypeOK /\ [Next]_vars => [Stays]_vars
  BY <1>1
<1>. QED BY <1>2, TypeCorrect, PTL DEF Spec, ProcessedStays
=============================================================================
