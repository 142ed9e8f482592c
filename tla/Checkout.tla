------------------------------- MODULE Checkout -------------------------------
(***************************************************************************)
(* The subscription endpoints of paypal.controller.ts (create, cancel,     *)
(* resume, auto-renew, cancel-downgrade): requests that check the          *)
(* documents, take a Redis lock, change the subscription at PayPal and     *)
(* then in MongoDB, while the webhook of the same change is on its way to  *)
(* the worker.  A flow is also the lock's client; what a request calls in  *)
(* subscription.service.ts is SubscriptionService.                         *)
(*                                                                         *)
(* revise changes nothing here: the buyer approves the revision at PayPal, *)
(* which is PayPalRevises.                                                 *)
(***************************************************************************)
EXTENDS SubscriptionLifecycle, RedisLock

\* The locks are user:<u> (create) and sub:<s> (the others).
ASSUME ResourceAssumption == Resource = Sub \cup User /\ Client = Flow

checkoutVars == <<vars, lockVars>>

CheckoutInit == Init /\ LockInit

kept == <<subVars, userVars, ppVars, inbox, now, faults, slips>>

\* A request comes in: what it has read of the subscription is d.
BeginRequest(f, kind, s, u, p, step, d) ==
    /\ pc[f] = "idle" /\ inside[f] = Outside
    /\ kind \in Kinds
    /\ tasks < MaxTasks
    /\ tasks' = tasks + 1
    /\ pc' = [pc EXCEPT ![f] = step]
    /\ task' = [task EXCEPT ![f] = [kind |-> kind, sub |-> s, plan |-> p,
                                    until |-> NoDate, user |-> u, id |-> 0]]
    /\ doc' = [doc EXCEPT ![f] = d]
    /\ UNCHANGED <<pro, kept, lockVars>>

\* withLifecycleLock: the section begins, or the request ends with a 409: the
\* lock is taken, or the answer of the SET that took it is lost.
TakeLock(f, r, step) ==
    /\ \/ Acquire(f, r) /\ Goto(f, step) /\ UNCHANGED faults
       \/ lock[r] # Free /\ Return(f) /\ UNCHANGED <<lockVars, faults>>
       \/ AcquireUnanswered(r) /\ Fault /\ Return(f)
    /\ UNCHANGED <<subVars, userVars, ppVars, inbox, now, slips, tasks>>

\* The finally block, after what the request called has ended.
Unlock(f) ==
    /\ pc[f] = "idle" /\ inside[f] # Outside
    /\ Release(f)
    /\ UNCHANGED vars

-----------------------------------------------------------------------------
(* POST subscription/create                                                *)

DocsOf(u, st) == {s \in Sub : owner[s] = u /\ status[s] = st}

\* getUserSubscriptionStatus answers neither ACTIVE nor PENDING: a SUSPENDED
\* document hides those that wait for approval, and so does a newer one that
\* is cancelled with access left (which one is newer is left open).
MayCreate(u) ==
    /\ DocsOf(u, "ACTIVE") = {}
    /\ \/ DocsOf(u, "APPROVAL_PENDING") = {}
       \/ DocsOf(u, "SUSPENDED") # {}
       \/ \E s \in DocsOf(u, "CANCELLED") : deferred[s]

\* The checks, outside the lock.  s is the id PayPal is going to give.
RequestCreate(f, s, u, p) ==
    /\ MayCreate(u)
    /\ ppStatus[s] = Absent
    /\ \A g \in Flow : task[g] # None => The(g) # s
    /\ BeginRequest(f, "create", s, u, p, "createLock", None)

CreateLock(f) ==
    /\ pc[f] = "createLock"
    /\ TakeLock(f, task[f].user, "createAtPayPal")

CreateAtPayPal(f) ==
    LET s == The(f) IN
    /\ pc[f] = "createAtPayPal"
    /\ ppStatus' = [ppStatus EXCEPT ![s] = "APPROVAL_PENDING"]
    /\ ppPlan' = [ppPlan EXCEPT ![s] = task[f].plan]
    /\ ppCustom' = [ppCustom EXCEPT ![s] = task[f].user]
    /\ UNCHANGED ppUntil
    /\ \/ Report(s, "CREATED")
       \/ "CREATED" \notin Kinds /\ UNCHANGED <<sent, past, inbox>>
    /\ Goto(f, "register")
    /\ UNCHANGED <<subVars, userVars, tasks, now, faults, slips, lockVars>>

\* createSubscriptionIfNotExists: if a webhook was first, its document stays
\* as it is, without this user (one step: a document created between its find
\* and its save makes the save fail, and the outcome is the same).
Register(f) ==
    LET s == The(f) IN
    /\ pc[f] = "register"
    /\ IF Present(s)
       THEN UNCHANGED <<status, owner, plan>>
       ELSE /\ status' = [status EXCEPT ![s] = "APPROVAL_PENDING"]
            /\ owner' = [owner EXCEPT ![s] = task[f].user]
            /\ plan' = [plan EXCEPT ![s] = task[f].plan]
    /\ Return(f)
    /\ UNCHANGED <<applied, deferred, scheduled, nbd, userVars, ppVars, inbox,
                   tasks, now, faults, slips, lockVars>>

-----------------------------------------------------------------------------
(* POST cancel, subscription/resume, subscription/auto-renew               *)

\* What each endpoint asks of the document before it takes the lock; the
\* status auto-renew wants is looked at in the section, in the same document.
Admits(kind, s, u) ==
    /\ Present(s) /\ owner[s] = u
    /\ kind = "resume" => status[s] = "SUSPENDED"
    /\ kind = "cancelDowngrade" => scheduled[s] # NoPlan

RequestChange(f, kind, s, u) ==
    /\ Admits(kind, s, u)
    /\ BeginRequest(f, kind, s, u, NoPlan, "changeLock", Doc(s))

ChangeLock(f) ==
    /\ pc[f] = "changeLock"
    /\ TakeLock(f, The(f),
                IF Kind(f) = "cancelDowngrade" THEN "readDowngrade" ELSE "changeAtPayPal")

\* The call to PayPal and what PayPal's side becomes: its event, and the first
\* call of the method that follows it.
Changes(kind) ==
    CASE kind = "cancel"   -> [from |-> {"ACTIVE", "SUSPENDED"}, to |-> "CANCELLED",
                               event |-> "CANCELLED", next |-> "cancel", seen |-> Status]
      [] kind = "renewOff" -> [from |-> {"ACTIVE"}, to |-> "SUSPENDED",
                               event |-> "SUSPENDED", next |-> "suspend", seen |-> {"ACTIVE"}]
      [] kind \in {"resume", "renewOn"} ->
                              [from |-> {"SUSPENDED"}, to |-> "ACTIVE",
                               event |-> "RE_ACTIVATED", next |-> "askToResume",
                               seen |-> {"SUSPENDED"}]

ChangeAtPayPal(f) ==
    LET s == The(f)
        change == Changes(Kind(f)) IN
    /\ pc[f] = "changeAtPayPal"
    /\ doc[f].status \in change.seen
    /\ ppStatus[s] \in change.from
    /\ ppStatus' = [ppStatus EXCEPT ![s] = change.to]
    /\ UNCHANGED <<ppPlan, ppUntil, ppCustom>>
    /\ Report(s, change.event)
    /\ GotoWith(f, change.next, None)
    /\ slips' = IF Kind(f) = "renewOff" THEN [slips EXCEPT ![s] = @ \cup {"paused"}] ELSE slips
    /\ UNCHANGED <<subVars, userVars, tasks, now, faults, lockVars>>

\* The status was wrong when the request read it, or is at PayPal now.
ChangeRefused(f) ==
    /\ pc[f] = "changeAtPayPal"
    /\ ~(doc[f].status \in Changes(Kind(f)).seen /\ ppStatus[The(f)] \in Changes(Kind(f)).from)
    /\ Return(f)
    /\ UNCHANGED <<kept, tasks, lockVars>>

-----------------------------------------------------------------------------
(* POST subscription/cancel-downgrade: cancelScheduledDowngrade            *)

ReadDowngrade(f) ==
    LET s == The(f) IN
    /\ pc[f] = "readDowngrade"
    /\ IF scheduled[s] # NoPlan THEN GotoWith(f, "revertAtPayPal", Doc(s)) ELSE Return(f)
    /\ UNCHANGED <<kept, tasks, lockVars>>

\* PayPal goes back to the plan that was read, at once ...
RevertAtPayPal(f) ==
    LET s == The(f) IN
    /\ pc[f] = "revertAtPayPal"
    /\ ppStatus[s] \in {"ACTIVE", "SUSPENDED"}
    /\ ppPlan' = [ppPlan EXCEPT ![s] = doc[f].plan]
    /\ UNCHANGED <<ppStatus, ppUntil, ppCustom>>
    /\ Report(s, "UPDATED")
    /\ Goto(f, "unschedule")
    /\ UNCHANGED <<subVars, userVars, tasks, now, faults, slips, lockVars>>

\* Mutant: the schedule is cleared although the buyer has not approved yet.
RevertLaterUnscheduled(f) ==
    /\ pc[f] = "revertAtPayPal"
    /\ Goto(f, "unschedule")
    /\ UNCHANGED <<kept, tasks, lockVars>>

\* ... or once the buyer approves (PayPalRevises), or not at all.
RevertLater(f) ==
    /\ pc[f] = "revertAtPayPal"
    /\ Return(f)
    /\ UNCHANGED <<kept, tasks, lockVars>>

Unschedule(f) ==
    /\ pc[f] = "unschedule"
    /\ scheduled' = [scheduled EXCEPT ![The(f)] = NoPlan]
    /\ Return(f)
    /\ UNCHANGED <<status, owner, plan, applied, deferred, nbd, userVars, ppVars, inbox,
                   tasks, now, faults, slips, lockVars>>

-----------------------------------------------------------------------------
\* The TTL of 15 s; that of a request still under way is a fault.
ExpireLock(r) ==
    /\ Expire(r)
    /\ IF lock[r] \in Client THEN Fault ELSE UNCHANGED faults
    /\ UNCHANGED <<subVars, userVars, ppVars, inbox, flowVars, tasks, now, slips>>

RequestNext(f) ==
    \/ \E s \in Sub, u \in User :
        \/ \E p \in Plan : RequestCreate(f, s, u, p)
        \/ \E kind \in {"cancel", "resume", "renewOn", "renewOff", "cancelDowngrade"} :
              RequestChange(f, kind, s, u)

RequestStep(f) ==
    \/ CreateLock(f) \/ CreateAtPayPal(f) \/ Register(f)
    \/ ChangeLock(f) \/ ChangeAtPayPal(f) \/ ChangeRefused(f)
    \/ ReadDowngrade(f) \/ RevertAtPayPal(f) \/ RevertLater(f) \/ Unschedule(f)
    \/ Unlock(f)

\* Every subscription comes from the create endpoint.  A flow that is through
\* with its request unlocks before it does anything else.
CheckoutNext ==
    \/ \E f \in Flow : RequestNext(f) \/ RequestStep(f)
    \/ \E r \in Resource : ExpireLock(r)
    \/ (PayPalChanges \/ Tick) /\ UNCHANGED lockVars
    \/ \E f \in Flow : (pc[f] # "idle" \/ inside[f] = Outside) /\ FlowNext(f) /\ UNCHANGED lockVars

CheckoutSpec == CheckoutInit /\ [][CheckoutNext]_checkoutVars

\* As FairSpec, and a request that has begun goes on.
FairCheckoutSpec ==
    /\ CheckoutSpec
    /\ \A f \in Flow :
        /\ WF_checkoutVars(ServiceNext(f) /\ UNCHANGED lockVars)
        /\ WF_checkoutVars(DispatchNext(f) /\ UNCHANGED lockVars)
        /\ WF_checkoutVars(ReconciliationNext(f) /\ UNCHANGED lockVars)
        /\ WF_checkoutVars(RequestStep(f))
    /\ WF_checkoutVars(Tick /\ UNCHANGED lockVars)

-----------------------------------------------------------------------------
(* Properties                                                              *)

\* What PayPal cancelled is cancelled here in the end, even if the request
\* that did it died on the way from PayPal to MongoDB or the webhooks come in
\* the wrong order: the webhook of the change, or the verification cron (which
\* skips documents without a user), does the rest.
CancelReaches ==
    \A s \in Sub : ppStatus[s] = "CANCELLED" /\ owner[s] # NoUser ~> status[s] = "CANCELLED"

\* With everything handled, a subscription has PayPal's status: a request that
\* failed after PayPal's answer leaves no difference its webhook does not mend.
StatusAgrees ==
    \A s \in Sub :
        Present(s) /\ inbox = {} /\ (\A f \in Flow : task[f] = None) => status[s] = ppStatus[s]

\* ... and its owner the access that status stands for: a subscription that
\* runs gives access, one that PayPal suspended or that expired does not, a
\* cancelled one until a deferral ends it; unless a flow died on the way, or the
\* features were never granted.  Nothing is asked of one that its owner ever
\* paused by switching auto-renew off, which should keep the access and ends it.
AccessAgrees ==
    \A s \in Sub :
        /\ Present(s) /\ inbox = {} /\ (\A f \in Flow : task[f] = None)
        /\ owner[s] \in Registered
        => /\ ppStatus[s] = "ACTIVE" /\ applied[s] => isPro[owner[s]] \/ "claimed" \in slips[s]
           /\ ppStatus[s] = "EXPIRED" => ~isPro[owner[s]]
           /\ ppStatus[s] = "SUSPENDED" => ~isPro[owner[s]] \/ "paused" \in slips[s]
           /\ ppStatus[s] = "CANCELLED" /\ isPro[owner[s]] => deferred[s] \/ "ending" \in slips[s]

\* The create endpoint starts no second subscription beside one that is
\* active or waits for its approval.
OneUnderWay ==
    \A s, t \in Sub :
        /\ owner[s] # NoUser /\ owner[s] = owner[t]
        /\ {status[s], status[t]} \subseteq {"ACTIVE", "APPROVAL_PENDING"}
        => s = t
=============================================================================
