------------------------ MODULE SubscriptionLifecycle ------------------------
(***************************************************************************)
(* The PayPal side of the system put together: PayPal, the webhook         *)
(* handlers of the worker processes, their crons, and the API's attach     *)
(* endpoint, all working on the same documents at the same time.           *)
(***************************************************************************)
EXTENDS WebhookDispatch, Reconciliation

\* POST /paypal/subscription/attach, for a user mbot knows.
RequestAttach(f, s, u) ==
    /\ pc[f] = "idle"
    /\ "attach" \in Kinds
    /\ tasks < MaxTasks
    /\ u \in Registered
    /\ tasks' = tasks + 1
    /\ pc' = [pc EXCEPT ![f] = "attach"]
    /\ task' = [task EXCEPT ![f] = [kind |-> "attach", sub |-> s, plan |-> NoPlan,
                                    until |-> NoDate, user |-> u, id |-> 0]]
    /\ UNCHANGED <<doc, pro, subVars, userVars, ppVars, inbox, now, faults, slips>>

\* createSubscription of the API registers what it just created at PayPal,
\* if no webhook registered it first (then the save fails).
PreRegister(s) ==
    /\ ~Present(s)
    /\ ppCustom[s] # NoUser
    /\ ppStatus[s] = "APPROVAL_PENDING"
    /\ status' = [status EXCEPT ![s] = "APPROVAL_PENDING"]
    /\ owner' = [owner EXCEPT ![s] = ppCustom[s]]
    /\ plan' = [plan EXCEPT ![s] = ppPlan[s]]
    /\ UNCHANGED <<applied, deferred, scheduled, nbd, userVars, ppVars, inbox, flowVars,
                   tasks, now, faults, slips>>

Activating(f, s) == task[f] # None /\ The(f) = s /\ pc[f] \in {"loadUser", "saveUser", "rollback", "rollbackThrow"}

\* What is left to do of the end of an access is in this flow alone.
Ending(f) == Kind(f) \in {"CANCELLED", "SALE_REFUNDED", "cancel", "cronDeferred"}
             /\ pc[f] \in {"expireFlag", "expireLoad", "expireSave", "dropPro"}

\* The process of a flow dies, or the call it makes fails outside
\* tryActivateFeatures: what it has written stays.
Crash(f) ==
    /\ pc[f] # "idle"
    /\ Fault
    /\ Return(f) /\ GiveBack(f)
    /\ slips' = [slips EXCEPT ![The(f)] = @
           \cup (IF Activating(f, The(f)) THEN {"claimed"} ELSE {})
           \cup (IF Kind(f) = "attach" THEN {"unclaimed"} ELSE {})
           \cup (IF Ending(f) THEN {"ending"} ELSE {})
           \cup (IF pc[f] = "setPlan" /\ Kind(f) = "SALE_COMPLETED" THEN {"lost"} ELSE {})]
    /\ UNCHANGED <<subVars, userVars, ppVars, tasks, now>>

\* BullMQ takes the job of a slow flow for stalled and queues it again.
Stall(f) ==
    /\ pc[f] # "idle" /\ task[f].id > 0
    /\ Fault
    /\ GiveBack(f)
    /\ UNCHANGED <<subVars, userVars, ppVars, flowVars, tasks, now, slips>>

Tick ==
    /\ now < MaxTime
    /\ now' = now + 1
    /\ UNCHANGED <<subVars, userVars, ppVars, inbox, flowVars, tasks, faults, slips>>

FlowNext(f) ==
    \/ ServiceNext(f) \/ DispatchNext(f) \/ ReconciliationNext(f)
    \/ \E s \in Sub, u \in User : RequestAttach(f, s, u)
    \/ Crash(f) \/ Stall(f)

Next ==
    \/ PayPalNext
    \/ \E s \in Sub : PreRegister(s)
    \/ \E f \in Flow : FlowNext(f)
    \/ Tick

Spec == Init /\ [][Next]_vars

\* The worker is alive: BullMQ hands out events, a handler that started goes
\* on, and the crons come round.  PayPal, users, faults are not fair.
FairSpec ==
    /\ Spec
    /\ \A f \in Flow : WF_vars(ServiceNext(f)) /\ WF_vars(DispatchNext(f))
                       /\ WF_vars(ReconciliationNext(f))
    /\ WF_vars(Tick)

-----------------------------------------------------------------------------
(* Properties                                                              *)

\* The calls a flow may be at: of the service, of the handlers, of the crons, and
\* of the endpoints in Checkout.
Step ==
    {"idle", "updateFromWebhook", "updateStatus", "createForStatus", "claim", "loadUser",
     "saveUser", "rollback", "rollbackThrow", "syncBilling", "grabDowngrade", "setPlan",
     "cancel", "setCancelled", "expireFlag", "expireLoad", "expireSave", "suspend", "dropPro",
     "askToResume", "resume", "raisePro", "attach", "attachRead", "attachAsk", "attachUpsert",
     "readUpdated", "upgrade", "clearSuperseded", "clearReverted", "schedule",
     "takeDeferred", "takeDowngrade", "copyFeatures", "markApplied", "verify", "correct", "heal",
     "createLock", "createAtPayPal", "register", "changeLock", "changeAtPayPal",
     "readDowngrade", "revertAtPayPal", "unschedule"}

TypeOK ==
    /\ status \in [Sub -> Status \cup {Absent}]
    /\ owner \in [Sub -> User \cup {NoUser}]
    /\ plan \in [Sub -> Plan \cup {NoPlan}]
    /\ applied \in [Sub -> BOOLEAN]
    /\ deferred \in [Sub -> BOOLEAN]
    /\ scheduled \in [Sub -> Plan \cup {NoPlan}]
    /\ nbd \in [Sub -> Date \cup {NoDate}]
    /\ isPro \in [User -> BOOLEAN]
    /\ features \in [User -> Features \cup {None}]
    /\ ppStatus \in [Sub -> Status \cup {Absent}]
    /\ ppPlan \in [Sub -> Plan \cup {NoPlan}]
    /\ ppUntil \in [Sub -> Date \cup {NoDate}]
    /\ ppCustom \in [Sub -> User \cup {NoUser}]
    /\ sent \in 0..MaxEvents
    /\ past \in [Sub -> SUBSET EventKind]
    /\ inbox \subseteq Task
    /\ pc \in [Flow -> Step]
    /\ task \in [Flow -> Task \cup {None}]
    /\ doc \in [Flow -> DocShape \cup {None}]
    /\ pro \in [Flow -> BOOLEAN]
    /\ \A f \in Flow : pc[f] = "idle" <=> task[f] = None
    /\ tasks \in 0..MaxTasks
    /\ now \in 0..MaxTime
    /\ faults \in 0..MaxFaults
    /\ slips \in [Sub -> SUBSET Slip]

\* tryActivateFeatures' claim: at most one flow is granting the features of a
\* subscription, however many ACTIVATED events, payments and attach requests
\* race (while no plan change hands out the claim anew).
SingleActivator ==
    \A s \in Sub : \A f, g \in Flow :
        Activating(f, s) /\ Activating(g, s) => f = g

\* features_applied means what it says once nobody is activating: the owner was
\* given features, and has those of the plan, unless another subscription of
\* theirs was activated since.  Only a process that died between the claim and
\* the save breaks it, or an attach that took the subscription over from another.
AppliedIsGranted ==
    \A s \in Sub :
        applied[s] /\ slips[s] \cap {"claimed", "takenOver"} = {} /\ (\A f \in Flow : task[f] = None)
            => /\ owner[s] # NoUser
               /\ features[owner[s]] # None
               /\ features[owner[s]].sub = s => features[owner[s]].plan = plan[s]

\* A subscription pays for the access of one user: racing attach requests,
\* webhooks and the orphan cron do not grant it to a second.  attachUser's
\* upsert, which has no guard, is the only way they do.
OneBeneficiary ==
    \A s \in Sub : \A u, v \in User :
        /\ "takenOver" \notin slips[s]
        /\ \A w \in {u, v} : isPro[w] /\ features[w] # None /\ features[w].sub = s
        => u = v

\* Access ends for a reason PayPal gave: a suspension, expiry or refund, or a
\* cancellation whose paid period is over.
AccessEndsForCause ==
    [][\A u \in User : isPro[u] /\ ~isPro'[u] =>
         \E s \in Sub : owner[s] = u /\
            \/ past[s] \cap {"SUSPENDED", "EXPIRED", "SALE_REFUNDED"} # {}
            \/ "CANCELLED" \in past[s] /\ Over(ppUntil[s])]_vars

\* A downgrade waits for the period that was paid at the higher plan, unless a
\* payment is reported by itself: that of the running period, handled late,
\* applies it early.
DowngradeWaits ==
    [][\A s \in Sub : Present(s) /\ RankOf(plan'[s]) < RankOf(plan[s])
                        => Over(nbd[s]) \/ "SALE_COMPLETED" \in past[s]]_vars

\* Once every event is handled, the plan of a subscription is PayPal's, or it
\* is scheduled to become it, whatever crashed on the way: only a payment that
\* died between taking the plan off the schedule and storing it loses it.
PlanFollowsPayPal ==
    \A s \in Sub :
        Present(s) /\ inbox = {} /\ (\A f \in Flow : task[f] = None) /\ "lost" \notin slips[s]
            => ppPlan[s] \in {plan[s], scheduled[s]}

\* A subscription that ended at PayPal ends its access: at once, when the
\* period is over, or by the crons if a late event changed the status back.
\* Not if the end was handled before the activation, which then grants what
\* nobody takes away, if the verification cron stored the status first, or if
\* a process died on the way.
EndedLosesAccess ==
    \A s \in Sub, u \in User :
        ppStatus[s] \in {"CANCELLED", "EXPIRED"} /\ owner[s] = u
            ~> ~isPro[u] \/ slips[s] \cap {"overtaken", "corrected", "ending"} # {}

\* Somebody who pays gets what they pay for, as long as no process dies: an
\* activation that throws undoes its claim so that it can be tried again.
PaidIsGranted ==
    \A s \in Sub, u \in Registered :
        ppStatus[s] = "ACTIVE" /\ owner[s] = u
            ~> \/ ppStatus[s] # "ACTIVE" \/ slips[s] # {}
               \/ isPro[u] /\ features[u] # None
=============================================================================
