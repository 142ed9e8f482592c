------------------------ MODULE WebhookDelivery_proofs ------------------------
(***************************************************************************)
(* WebhookPipeline implements EventDelivery, for every set of events,      *)
(* slots and requests and every bound.                                     *)
(***************************************************************************)
EXTENDS WebhookPipeline_proofs

\* What a slot works on has been taken on.
Held ==
    \A w \in Worker :
        cur[w] # NoEvent => job[cur[w]] # "none" \/ record[cur[w]] = "processed"

LEMMA InitHeld == Init => Held
  BY DEF Init, Held

\* Only a completed job leaves the queue, and its event is processed.
LEMMA NextHeld == Inv /\ Held /\ [Next]_vars => Held'
<1> SUFFICES ASSUME Inv, Held, [Next]_vars PROVE Held'
  OBVIOUS
<1> USE DEF Held
<1>0. TypeOK
  BY DEF Inv
<1>1. ASSUME NEW a \in Api, ApiNext(a) PROVE Held'
  <2>1. cur' = cur /\ record' = record
    BY <1>1 DEF ApiNext, Deliver, Verify, Reject, CheckDone, Enqueue, EnqueueUnacked,
                EnqueueFails, slotVars, storeVars
  <2>2. \A e \in Event : job[e] # "none" => job'[e] # "none"
    BY <1>0, <1>1 DEF TypeOK, ApiNext, Deliver, Verify, Reject, CheckDone, Enqueue,
                EnqueueUnacked, EnqueueFails, AddJob, jobVars
  <2>. QED BY <1>0, <2>1, <2>2 DEF TypeOK
<1>2. ASSUME NEW w \in Worker, SlotNext(w) PROVE Held'
  <2>1. CASE \E e \in Event : Fetch(w, e)
    BY <1>0, <2>1, NoEventAssumption DEF TypeOK, Fetch, storeVars
  <2>2. CASE CheckRedis(w) \/ CheckMongo(w) \/ Dispatch(w) \/ CacheDone(w)
    BY <1>0, <2>2 DEF TypeOK, CheckRedis, CheckMongo, Dispatch, CacheDone, Goto, jobVars, storeVars
  <2>3. CASE Upsert(w) \/ MarkProcessed(w)
    BY <1>0, <2>3 DEF TypeOK, Upsert, MarkProcessed, Recorded, Goto, jobVars
  <2>4. CASE Complete(w) \/ Throw(w) \/ Crash(w)
    BY <1>0, <2>4 DEF TypeOK, Complete, Throw, Crash, Leave, HoldsLock, EndAttempt, jobVars, storeVars
  <2>. QED BY <1>2, <2>1, <2>2, <2>3, <2>4 DEF SlotNext
<1>3. ASSUME NEW e \in Event, QueueNext(e) PROVE Held'
  <2>1. CASE \E w \in Worker : Stall(e, w)
    BY <1>0, <2>1 DEF TypeOK, Stall, EndAttempt, slotVars, storeVars
  <2>2. CASE EvictJob(e)
    BY <1>0, <2>2 DEF Inv, JobShape, TypeOK, EvictJob, Removable, slotVars, storeVars
  <2>3. CASE ExpireDoneKey(e)
    BY <2>3 DEF ExpireDoneKey, jobVars, slotVars
  <2>. QED BY <1>3, <2>1, <2>2, <2>3 DEF QueueNext
<1>4. ASSUME NEW l \in failing, OnFailed(l) PROVE Held'
  BY <1>4 DEF OnFailed, jobVars, slotVars, storeVars
<1>5. CASE UNCHANGED vars
  BY <1>5 DEF vars, jobVars, slotVars, storeVars
<1>. QED BY <1>1, <1>2, <1>3, <1>4, <1>5 DEF Next

\* A working slot's event is, for EventDelivery, on its way or at its end.
WorkedOn(e) == EventFate(e) \in {"kept", "givenUp", "processed"}

LEMMA SlotWorksOn ==
    ASSUME Inv, Held, NEW w \in Worker, pc[w] # "idle"
    PROVE  cur[w] \in Event /\ WorkedOn(cur[w])
  BY DEF Inv, TypeOK, Busy, Held, WorkedOn, EventFate, JobState

-----------------------------------------------------------------------------
(* The abstract state                                                      *)

Fates == [e \in Event |-> EventFate(e)]
RunsOf == [e \in Event |-> EventRuns(e)]

\* A step or a stutter of EventDelivery.
DeliveryStep == [Delivery!DeliveryNext]_(Delivery!deliveryVars)

\* The fate of every event but e depends on nothing that changes.
LEMMA FateOfOne ==
    ASSUME NEW e \in Event,
           \A x \in Event \ {e} :
               record'[x] = record[x] /\ job'[x] = job[x] /\ rejected'[x] = rejected[x]
    PROVE  Fates' = [Fates EXCEPT ![e] = EventFate(e)']
<1>1. \A x \in Event \ {e} : EventFate(x)' = EventFate(x)
  BY DEF EventFate
<1>. QED BY <1>1 DEF Fates

\* Most steps change neither fates nor runs.
LEMMA SameFates ==
    ASSUME UNCHANGED <<record, job, rejected>>
    PROVE  Fates' = Fates
  BY DEF Fates, EventFate

LEMMA SameRuns ==
    ASSUME UNCHANGED <<started, repeated>>
    PROVE  RunsOf' = RunsOf
  BY DEF RunsOf, EventRuns

\* A step that changes nothing of the abstract state.
LEMMA Stutters ==
    ASSUME Fates' = Fates, UNCHANGED <<started, repeated, applied, faulted>>
    PROVE  DeliveryStep
  BY SameRuns DEF DeliveryStep, Delivery!deliveryVars, Fates, RunsOf

-----------------------------------------------------------------------------
(* One lemma for each kind of abstract step                                *)

\* Enqueue takes an event on, unless it has a job or was processed.
LEMMA AddJobDelivers ==
    ASSUME TypeOK, NEW e \in Event, AddJob(e),
           UNCHANGED <<record, rejected, started, repeated, applied, faulted>>
    PROVE  DeliveryStep
<1> USE DEF TypeOK, AddJob
<1>1. CASE job[e] = "none" /\ record[e] # "processed"
  <2>1. EventFate(e) \in {"sent", "turnedAway"} /\ EventFate(e)' = "kept"
    BY <1>1 DEF EventFate
  <2>2. Fates' = [Fates EXCEPT ![e] = "kept"]
    BY <2>1, FateOfOne
  <2>3. Fates[e] \in {"sent", "turnedAway"}
    BY <2>1 DEF Fates
  <2>4. Delivery!TakeOn(e)
    BY <2>2, <2>3, SameRuns DEF Delivery!TakeOn, Fates, RunsOf
  <2>. QED BY <2>4 DEF DeliveryStep, Delivery!DeliveryNext
<1>2. CASE ~(job[e] = "none" /\ record[e] # "processed")
  <2>1. EventFate(e)' = EventFate(e)
    BY <1>2 DEF EventFate, JobState
  <2>2. Fates' = Fates
    BY <2>1, FateOfOne DEF Fates
  <2>. QED BY <2>2, Stutters
<1>. QED BY <1>1, <1>2

\* A rejection turns away an event that nobody took on.
LEMMA RejectDelivers ==
    ASSUME TypeOK, NEW a \in Api, NEW e \in Event, e = apiEvent[a], Reject(a)
    PROVE  DeliveryStep
<1> USE DEF TypeOK, Reject, Answer, jobVars, storeVars, history
<1>1. CASE EventFate(e) = "sent"
  <2>1. EventFate(e)' = "turnedAway"
    BY <1>1 DEF EventFate
  <2>2. Fates' = [Fates EXCEPT ![e] = "turnedAway"]
    BY <2>1, FateOfOne
  <2>3. Fates[e] = "sent"
    BY <1>1 DEF Fates
  <2>4. Delivery!TurnAway(e)
    BY <2>2, <2>3, SameRuns DEF Delivery!TurnAway, Fates, RunsOf
  <2>. QED BY <2>4 DEF DeliveryStep, Delivery!DeliveryNext
<1>2. CASE EventFate(e) # "sent"
  <2>1. EventFate(e)' = EventFate(e)
    BY <1>2 DEF EventFate
  <2>2. Fates' = Fates
    BY <2>1, FateOfOne DEF Fates
  <2>. QED BY <2>2, Stutters
<1>. QED BY <1>1, <1>2

\* The handlers begin for the first time, or again after trouble: without
\* trouble one slot at most is at work and has not begun before.
LEMMA UpsertDelivers ==
    ASSUME Inv, Held, NEW w \in Worker, NEW e \in Event, e = cur[w], Upsert(w)
    PROVE  DeliveryStep
<1> USE DEF Inv, TypeOK, Upsert, jobVars, apiVars
<1>1. Fates' = Fates
  <2>1. EventFate(e)' = EventFate(e)
    BY DEF EventFate, Recorded
  <2>. QED BY <2>1, FateOfOne DEF Fates
<1>2. RunsOf' = [RunsOf EXCEPT ![e] = IF @ = "none" THEN "once" ELSE "again"]
  BY DEF RunsOf, EventRuns
<1>3. \/ Fates[e] = "kept" /\ RunsOf[e] = "none"
      \/ Fates[e] \in {"kept", "givenUp", "processed"} /\ faulted[e]
  <2>1. CASE faulted[e]
    BY <2>1, SlotWorksOn DEF WorkedOn, Fates
  <2>2. CASE ~faulted[e]
    <3>1. job[e] = "active" /\ owner[e] = w /\ record[e] # "processed" /\ ~repeated[e]
      BY <2>2 DEF SingleSlot
    <3>2. ~started[e]
      BY <2>2, <3>1 DEF SingleSlot
    <3>. QED BY <3>1, <3>2 DEF Fates, RunsOf, EventFate, EventRuns
  <2>. QED BY <2>1, <2>2
<1>4. Delivery!BeginRun(e)
  BY <1>1, <1>2, <1>3 DEF Delivery!BeginRun, Fates, RunsOf
<1>. QED BY <1>4 DEF DeliveryStep, Delivery!DeliveryNext

LEMMA DispatchDelivers ==
    ASSUME Inv, NEW w \in Worker, NEW e \in Event, e = cur[w], Dispatch(w)
    PROVE  DeliveryStep
<1> USE DEF Inv, TypeOK, Dispatch, jobVars, apiVars, storeVars
<1>1. RunsOf[e] # "none"
  BY DEF SlotProgress, RunsOf, EventRuns
<1>2. Delivery!FinishRun(e)
  BY <1>1, SameFates, SameRuns DEF Delivery!FinishRun, Fates, RunsOf
<1>. QED BY <1>2 DEF DeliveryStep, Delivery!DeliveryNext

\* The mark comes after the end of the handlers; a second one changes nothing.
LEMMA MarkDelivers ==
    ASSUME Inv, Held, NEW w \in Worker, NEW e \in Event, e = cur[w], MarkProcessed(w)
    PROVE  DeliveryStep
<1> USE DEF Inv, TypeOK, MarkProcessed, jobVars, apiVars, history
<1>1. record'[e] = "processed" /\ applied[e]
  BY DEF SlotProgress
<1>2. CASE record[e] = "processed"
  <2>1. Fates' = Fates
    BY <1>1, <1>2, FateOfOne DEF Fates, EventFate
  <2>. QED BY <2>1, Stutters
<1>3. CASE record[e] # "processed"
  <2>1. EventFate(e) \in {"kept", "givenUp"}
    BY <1>3, SlotWorksOn DEF WorkedOn, EventFate
  <2>2. Fates' = [Fates EXCEPT ![e] = "processed"]
    BY <1>1, FateOfOne DEF EventFate
  <2>3. Delivery!Process(e)
    BY <1>1, <2>1, <2>2, SameRuns DEF Delivery!Process, Fates, RunsOf
  <2>. QED BY <2>3 DEF DeliveryStep, Delivery!DeliveryNext
<1>. QED BY <1>2, <1>3

\* A fault of an event that was taken on leaves its fate alone or, if it was
\* not processed, ends it.
LEMMA TroubleDelivers ==
    ASSUME TypeOK, NEW e \in Event, WorkedOn(e),
           faulted' = [faulted EXCEPT ![e] = TRUE],
           \A x \in Event \ {e} : job'[x] = job[x],
           \/ job[e] \in {"waiting", "active"} /\ job'[e] \in {"waiting", "active", "failed"}
           \/ job'[e] = job[e],
           UNCHANGED <<record, rejected, started, repeated, applied>>
    PROVE  DeliveryStep
<1>1. \/ EventFate(e)' = EventFate(e)
      \/ EventFate(e) = "kept" /\ EventFate(e)' = "givenUp"
  BY DEF TypeOK, EventFate
<1>2. Fates' = [Fates EXCEPT ![e] = EventFate(e)']
  BY FateOfOne
<1>3. \/ Fates' = Fates
      \/ Fates[e] = "kept" /\ Fates' = [Fates EXCEPT ![e] = "givenUp"]
  BY <1>1, <1>2 DEF Fates
<1>4. Fates[e] \in {"kept", "givenUp", "processed"}
  BY DEF WorkedOn, Fates
<1>5. Delivery!Trouble(e)
  BY <1>3, <1>4, SameRuns DEF Delivery!Trouble, Fates, RunsOf
<1>. QED BY <1>5 DEF DeliveryStep, Delivery!DeliveryNext

-----------------------------------------------------------------------------
(* Every step                                                              *)

LEMMA ApiDelivers ==
    ASSUME Inv, NEW a \in Api, ApiNext(a)
    PROVE  DeliveryStep
<1>0. TypeOK /\ (apiPc[a] # "idle" => apiEvent[a] \in Event)
  BY DEF Inv, TypeOK, Busy
<1>1. CASE Reject(a)
  BY <1>0, <1>1, RejectDelivers DEF Reject
<1>2. CASE Enqueue(a) \/ EnqueueUnacked(a)
  <2>1. PICK e \in Event : e = apiEvent[a]
    BY <1>0, <1>2 DEF Enqueue, EnqueueUnacked
  <2>2. /\ AddJob(e)
        /\ UNCHANGED <<record, rejected, started, repeated, applied, faulted>>
    BY <1>2, <2>1 DEF Enqueue, EnqueueUnacked, storeVars, history
  <2>. QED BY <1>0, <2>2, AddJobDelivers
<1>3. CASE (\E e \in Event : Deliver(a, e)) \/ Verify(a) \/ CheckDone(a) \/ EnqueueFails(a)
  <2>1. UNCHANGED <<record, job, rejected, started, repeated, applied, faulted>>
    BY <1>3 DEF Deliver, Verify, CheckDone, EnqueueFails, jobVars, storeVars, history
  <2>. QED BY <2>1, SameFates, Stutters
<1>. QED BY <1>1, <1>2, <1>3 DEF ApiNext

LEMMA SlotDelivers ==
    ASSUME Inv, Held, NEW w \in Worker, SlotNext(w)
    PROVE  DeliveryStep
<1>0. TypeOK
  BY DEF Inv
<1>1. CASE \E e \in Event : Fetch(w, e)
  <2>1. PICK e \in Event : Fetch(w, e)
    BY <1>1
  <2>2. EventFate(e)' = EventFate(e)
    BY <1>0, <2>1 DEF TypeOK, Fetch, EventFate, storeVars, apiVars
  <2>3. Fates' = Fates
    BY <1>0, <2>1, <2>2, FateOfOne DEF TypeOK, Fetch, Fates, storeVars, apiVars
  <2>. QED BY <2>1, <2>3, Stutters DEF Fetch, history
<1>2. CASE CheckRedis(w) \/ CheckMongo(w) \/ CacheDone(w)
  BY <1>2, SameFates, Stutters
     DEF CheckRedis, CheckMongo, CacheDone, jobVars, storeVars, apiVars, history
<1>3. CASE Upsert(w)
  <2>1. PICK e \in Event : e = cur[w]
    BY <1>3, SlotWorksOn DEF Upsert
  <2>. QED BY <1>3, <2>1, UpsertDelivers
<1>4. CASE Dispatch(w)
  <2>1. PICK e \in Event : e = cur[w]
    BY <1>4, SlotWorksOn DEF Dispatch
  <2>. QED BY <1>4, <2>1, DispatchDelivers
<1>5. CASE MarkProcessed(w)
  <2>1. PICK e \in Event : e = cur[w]
    BY <1>5, SlotWorksOn DEF MarkProcessed
  <2>. QED BY <1>5, <2>1, MarkDelivers
<1>6. CASE Complete(w)
  <2>1. PICK e \in Event : e = cur[w]
    BY <1>6, SlotWorksOn DEF Complete
  <2>2. record[e] = "processed"
    BY <1>6, <2>1 DEF Inv, SlotProgress, Complete
  <2>3. Fates' = Fates
    BY <1>0, <1>6, <2>1, <2>2, FateOfOne DEF TypeOK, Complete, Fates, EventFate, storeVars, apiVars
  <2>. QED BY <1>6, <2>3, Stutters DEF Complete, history
<1>7. CASE Throw(w)
  <2>1. PICK e \in Event : e = cur[w]
    BY <1>7, SlotWorksOn DEF Throw
  <2>2. WorkedOn(e)
    BY <1>7, <2>1, SlotWorksOn DEF Throw
  <2>. QED BY <1>0, <1>7, <2>1, <2>2, TroubleDelivers
           DEF TypeOK, Throw, HoldsLock, EndAttempt, storeVars, apiVars
<1>8. CASE Crash(w)
  <2>1. CASE pc[w] = "idle"
    BY <1>8, <2>1, SameFates, Stutters DEF Crash, jobVars, storeVars, apiVars
  <2>2. CASE pc[w] # "idle"
    <3>1. PICK e \in Event : e = cur[w]
      BY <2>2, SlotWorksOn
    <3>2. WorkedOn(e)
      BY <2>2, <3>1, SlotWorksOn
    <3>. QED BY <1>0, <1>8, <2>2, <3>1, <3>2, TroubleDelivers DEF Crash, jobVars, storeVars, apiVars
  <2>. QED BY <2>1, <2>2
<1>. QED BY <1>1, <1>2, <1>3, <1>4, <1>5, <1>6, <1>7, <1>8 DEF SlotNext

LEMMA QueueDelivers ==
    ASSUME Inv, NEW e \in Event, QueueNext(e)
    PROVE  DeliveryStep
<1>0. TypeOK
  BY DEF Inv
<1>1. CASE \E w \in Worker : Stall(e, w)
  <2>1. WorkedOn(e)
    BY <1>1 DEF Stall, WorkedOn, EventFate
  <2>2. /\ faulted' = [faulted EXCEPT ![e] = TRUE]
        /\ UNCHANGED <<record, rejected, started, repeated, applied>>
    BY <1>1 DEF Stall, storeVars, apiVars
  <2>3. job[e] = "active" /\ \E j \in {"waiting", "failed"} : job' = [job EXCEPT ![e] = j]
    BY <1>1 DEF Stall, EndAttempt
  <2>4. job'[e] \in {"waiting", "failed"} /\ \A x \in Event \ {e} : job'[x] = job[x]
    BY <1>0, <2>3 DEF TypeOK
  <2>. QED BY <1>0, <2>1, <2>2, <2>3, <2>4, TroubleDelivers
<1>2. CASE EvictJob(e)
  <2>1. record[e] = "processed"
    BY <1>2 DEF Inv, JobShape, EvictJob, Removable
  <2>2. Fates' = Fates
    BY <1>0, <1>2, <2>1, FateOfOne DEF TypeOK, EvictJob, Fates, EventFate, storeVars, apiVars
  <2>. QED BY <1>2, <2>2, Stutters DEF EvictJob, history
<1>3. CASE ExpireDoneKey(e)
  BY <1>3, SameFates, Stutters DEF ExpireDoneKey, jobVars, apiVars, history
<1>. QED BY <1>1, <1>2, <1>3 DEF QueueNext

LEMMA StepDelivers == Inv /\ Held /\ [Next]_vars => DeliveryStep
<1> SUFFICES ASSUME Inv, Held, [Next]_vars PROVE DeliveryStep
  OBVIOUS
<1>1. ASSUME NEW l \in failing, OnFailed(l) PROVE DeliveryStep
  BY <1>1, SameFates, Stutters DEF OnFailed, jobVars, storeVars, apiVars, history
<1>2. CASE UNCHANGED vars
  BY <1>2, SameFates, Stutters DEF vars, jobVars, storeVars, apiVars, history
<1>. QED BY <1>1, <1>2, ApiDelivers, SlotDelivers, QueueDelivers DEF Next

LEMMA InitDelivers == Init => Delivery!DeliveryInit
  BY DEF Init, Delivery!DeliveryInit, EventFate, EventRuns

\* The whole path of a webhook event, with its queue, its two idempotency
\* layers, overlapping slots, stalls, crashes and retention, implements
\* EventDelivery: what was taken on is never lost nor unmarked, is marked only
\* after its handlers finished, and runs again only after trouble.
THEOREM PipelineDelivers == Spec => ImplementsDelivery
<1>1. Spec => []Held
  BY InitHeld, NextHeld, Invariant, PTL DEF Spec
<1>2. Inv /\ Held /\ [Next]_vars => [Delivery!DeliveryNext]_(Delivery!deliveryVars)
  BY StepDelivers DEF DeliveryStep
<1>. QED BY <1>1, <1>2, InitDelivers, Invariant, PTL
     DEF Spec, ImplementsDelivery, Delivery!DeliverySpec
=============================================================================
