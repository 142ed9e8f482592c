------------------------- MODULE SubscriptionService -------------------------
(***************************************************************************)
(* subscription.service.ts: the methods the webhook processor, the crons   *)
(* and the API call.  One definition is one database (or PayPal) call of a *)
(* method, taken by flow f; the calls of a method follow one another       *)
(* through pc, and AfterX(f) is where the caller goes on.                  *)
(* Notifications to Telegram are left out: they never throw and change     *)
(* nothing here.                                                           *)
(***************************************************************************)
EXTENDS SubscriptionState

The(f) == task[f].sub
Kind(f) == task[f].kind

-----------------------------------------------------------------------------
(* updateFromWebhook: upsert; plan_id only on insert, status always: that   *)
(* of a CREATED, which PayPal sends before the buyer approves.              *)

UpdateFromWebhook(f) ==
    LET s == The(f) IN
    /\ pc[f] = "updateFromWebhook"
    /\ status' = [status EXCEPT ![s] = "APPROVAL_PENDING"]
    /\ plan' = [plan EXCEPT ![s] = IF Present(s) THEN @ ELSE task[f].plan]
    /\ Return(f)
    /\ UNCHANGED <<owner, applied, deferred, scheduled, nbd, userVars, ppVars,
                   inbox, tasks, now, faults, slips>>

-----------------------------------------------------------------------------
(* updateStatus                                                            *)

\* Mutant: the event's kind is stored as the status.
NewStatusRaw(k) == k

NewStatus(k) == IF k = "EXPIRED" THEN "EXPIRED" ELSE "ACTIVE"

AfterUpdateStatus(f) ==
    CASE Kind(f) = "ACTIVATED"      -> Goto(f, "claim")
      [] Kind(f) = "SALE_COMPLETED" -> Goto(f, "grabDowngrade")
      [] Kind(f) = "EXPIRED"        -> Goto(f, "expireFlag")
      [] Kind(f) = "RENEWED"        -> Return(f)

\* plan_id and next_billing_date are written only when the event has them.
WriteStatus(f) ==
    LET s == The(f) IN
    /\ status' = [status EXCEPT ![s] = NewStatus(Kind(f))]
    /\ plan' = [plan EXCEPT ![s] = IF task[f].plan # NoPlan THEN task[f].plan ELSE @]
    /\ nbd' = [nbd EXCEPT ![s] = IF task[f].until # NoDate THEN task[f].until ELSE @]
    /\ UNCHANGED <<owner, applied, deferred, scheduled>>

\* findOneAndUpdate: features_applied keeps its value whatever the status was.
UpdateStatus(f) ==
    /\ pc[f] = "updateStatus"
    /\ IF Present(The(f))
       THEN WriteStatus(f) /\ AfterUpdateStatus(f)
       ELSE Goto(f, "createForStatus") /\ UNCHANGED subVars
    /\ UNCHANGED <<userVars, ppVars, inbox, tasks, now, faults, slips>>

\* create, when there was no document; a document created meanwhile makes it
\* fail on the unique index and the handler throws.
CreateForStatus(f) ==
    /\ pc[f] = "createForStatus"
    /\ IF Present(The(f))
       THEN Return(f) /\ GiveBack(f) /\ UNCHANGED subVars
       ELSE WriteStatus(f) /\ AfterUpdateStatus(f) /\ UNCHANGED inbox
    /\ UNCHANGED <<userVars, ppVars, tasks, now, faults, slips>>

-----------------------------------------------------------------------------
(* tryActivateFeatures                                                     *)

AfterActivation(f) ==
    IF Kind(f) \in {"ACTIVATED", "UPDATED"} THEN GotoWith(f, "syncBilling", None) ELSE Return(f)

\* Mutant: the claim does not look at features_applied.
ClaimableAgain(s) == status[s] = "ACTIVE" /\ owner[s] # NoUser

Claimable(s) == status[s] = "ACTIVE" /\ owner[s] # NoUser /\ ~applied[s]

\* The atomic claim; doc is the document before it.
ClaimActivation(f) ==
    LET s == The(f) IN
    /\ pc[f] = "claim"
    /\ IF Claimable(s)
       THEN /\ applied' = [applied EXCEPT ![s] = TRUE]
            /\ GotoWith(f, "loadUser", Doc(s))
       ELSE AfterActivation(f) /\ UNCHANGED applied
    /\ UNCHANGED <<status, owner, plan, deferred, scheduled, nbd, userVars, ppVars,
                   inbox, tasks, now, faults, slips>>

\* The user is loaded, then the plan; without either the claim is undone.
LoadUser(f) ==
    /\ pc[f] = "loadUser"
    /\ IF doc[f].owner \in Registered /\ doc[f].plan \in Plan
       THEN /\ pro' = [pro EXCEPT ![f] = isPro[doc[f].owner]]
            /\ pc' = [pc EXCEPT ![f] = "saveUser"]
            /\ UNCHANGED <<task, doc>>
       ELSE Goto(f, "rollback")
    /\ UNCHANGED <<subVars, userVars, ppVars, inbox, tasks, now, faults, slips>>

\* user.save writes the paths that differ from what was loaded: pro_features
\* always, is_pro only if it was false then.
SaveUser(f) ==
    LET u == doc[f].owner IN
    /\ pc[f] = "saveUser"
    /\ features' = [features EXCEPT ![u] = [sub |-> The(f), plan |-> doc[f].plan]]
    /\ isPro' = [isPro EXCEPT ![u] = IF pro[f] THEN @ ELSE TRUE]
    /\ AfterActivation(f)
    /\ UNCHANGED <<subVars, ppVars, inbox, tasks, now, faults, slips>>

\* Mutant: the flag stays set.
RollbackForgotten(f) ==
    /\ pc[f] = "rollback"
    /\ AfterActivation(f)
    /\ UNCHANGED <<subVars, userVars, ppVars, inbox, tasks, now, faults, slips>>

\* features_applied goes back to false, unconditionally.
Rollback(f) ==
    /\ pc[f] = "rollback"
    /\ applied' = [applied EXCEPT ![The(f)] = FALSE]
    /\ AfterActivation(f)
    /\ UNCHANGED <<status, owner, plan, deferred, scheduled, nbd, userVars, ppVars,
                   inbox, tasks, now, faults, slips>>

\* A database error while activating: the catch block undoes the claim and
\* throws again.  That gives a webhook back to the queue; the activation of an
\* attach request runs in setImmediate, whose catch logs the error.
ActivationError(f) ==
    /\ pc[f] \in {"loadUser", "saveUser"}
    /\ Fault
    /\ Goto(f, "rollbackThrow")
    /\ UNCHANGED <<subVars, userVars, ppVars, inbox, tasks, now, slips>>

RollbackThrow(f) ==
    /\ pc[f] = "rollbackThrow"
    /\ applied' = [applied EXCEPT ![The(f)] = FALSE]
    /\ Return(f) /\ GiveBack(f)
    /\ UNCHANGED <<status, owner, plan, deferred, scheduled, nbd, userVars, ppVars,
                   tasks, now, faults, slips>>

\* syncBillingData: the date of the event, if it has one.
SyncBillingData(f) ==
    LET s == The(f) IN
    /\ pc[f] = "syncBilling"
    /\ nbd' = [nbd EXCEPT ![s] = IF task[f].until # NoDate /\ Present(s) THEN task[f].until ELSE @]
    /\ Return(f)
    /\ UNCHANGED <<status, owner, plan, applied, deferred, scheduled, userVars, ppVars,
                   inbox, tasks, now, faults, slips>>

-----------------------------------------------------------------------------
(* applyScheduledDowngradeOnRenewal                                        *)

\* The scheduled plan is taken and cleared in one update.
GrabDowngrade(f) ==
    LET s == The(f) IN
    /\ pc[f] = "grabDowngrade"
    /\ IF scheduled[s] # NoPlan
       THEN /\ scheduled' = [scheduled EXCEPT ![s] = NoPlan]
            /\ applied' = [applied EXCEPT ![s] = FALSE]
            /\ GotoWith(f, "setPlan", Doc(s))
       ELSE /\ IF Kind(f) = "RENEWED" THEN Goto(f, "updateStatus") ELSE Return(f)
            /\ UNCHANGED <<scheduled, applied>>
    /\ UNCHANGED <<status, owner, plan, deferred, nbd, userVars, ppVars,
                   inbox, tasks, now, faults, slips>>

SetGrabbedPlan(f) ==
    /\ pc[f] = "setPlan"
    /\ plan' = [plan EXCEPT ![The(f)] = doc[f].scheduled]
    /\ GotoWith(f, "claim", None)
    /\ UNCHANGED <<status, owner, applied, deferred, scheduled, nbd, userVars, ppVars,
                   inbox, tasks, now, faults, slips>>

-----------------------------------------------------------------------------
(* cancelSubscription                                                      *)

\* History: the end of s is handled now, with its features granted or not yet.
EndIs(s) == slips' = [slips EXCEPT ![s] = @ \cup IF applied[s] THEN {} ELSE {"overtaken"}]

ReadForCancel(f) ==
    LET s == The(f) IN
    /\ pc[f] = "cancel"
    /\ IF Present(s) /\ status[s] # "CANCELLED"
       THEN GotoWith(f, "setCancelled", Doc(s))
       ELSE Return(f)
    /\ IF Kind(f) = "SALE_REFUNDED" THEN UNCHANGED slips ELSE EndIs(s)
    /\ UNCHANGED <<subVars, userVars, ppVars, inbox, tasks, now, faults>>

\* Mutant: the dates are compared the wrong way round.
PeriodEndedReversed(f) == Kind(f) = "SALE_REFUNDED" \/ doc[f].nbd = NoDate \/ doc[f].nbd >= now

\* The period is judged by the document read before.
PeriodEnded(f) == Kind(f) = "SALE_REFUNDED" \/ doc[f].nbd = NoDate \/ Over(doc[f].nbd)

SetCancelled(f) ==
    LET s == The(f)
        ended == PeriodEnded(f) IN
    /\ pc[f] = "setCancelled"
    /\ status' = [status EXCEPT ![s] = "CANCELLED"]
    /\ deferred' = [deferred EXCEPT ![s] = ~ended]
    /\ IF doc[f].owner # NoUser /\ ended THEN GotoWith(f, "expireFlag", None) ELSE Return(f)
    /\ UNCHANGED <<owner, plan, applied, scheduled, nbd, userVars, ppVars,
                   inbox, tasks, now, faults, slips>>

(* expireSubscriptionAccess                                                *)

ExpireFlag(f) ==
    LET s == The(f) IN
    /\ pc[f] = "expireFlag"
    /\ deferred' = [deferred EXCEPT ![s] = FALSE]
    /\ IF owner[s] # NoUser THEN GotoWith(f, "expireLoad", Doc(s)) ELSE Return(f)
    /\ IF Kind(f) = "EXPIRED" THEN EndIs(s) ELSE UNCHANGED slips
    /\ UNCHANGED <<status, owner, plan, applied, scheduled, nbd, userVars, ppVars,
                   inbox, tasks, now, faults>>

ExpireLoad(f) ==
    LET u == doc[f].owner IN
    /\ pc[f] = "expireLoad"
    /\ IF u \in Registered
       THEN /\ pro' = [pro EXCEPT ![f] = isPro[u]]
            /\ pc' = [pc EXCEPT ![f] = "expireSave"]
            /\ UNCHANGED <<task, doc>>
       ELSE Return(f)
    /\ UNCHANGED <<subVars, userVars, ppVars, inbox, tasks, now, faults, slips>>

\* Again only a change of is_pro is written.
ExpireSave(f) ==
    /\ pc[f] = "expireSave"
    /\ isPro' = [isPro EXCEPT ![doc[f].owner] = IF pro[f] THEN FALSE ELSE @]
    /\ Return(f)
    /\ UNCHANGED <<subVars, features, ppVars, inbox, tasks, now, faults, slips>>

-----------------------------------------------------------------------------
(* suspendSubscription and resumeSubscription                              *)

\* Mutant: as in cancelSubscription, a status that is there already ends it.
SuspendOnce(f) ==
    LET s == The(f) IN
    /\ pc[f] = "suspend"
    /\ IF Present(s) /\ status[s] # "SUSPENDED"
       THEN /\ status' = [status EXCEPT ![s] = "SUSPENDED"]
            /\ IF owner[s] # NoUser THEN GotoWith(f, "dropPro", Doc(s)) ELSE Return(f)
       ELSE Return(f) /\ UNCHANGED status
    /\ UNCHANGED <<owner, plan, applied, deferred, scheduled, nbd, userVars, ppVars,
                   inbox, tasks, now, faults, slips>>

Suspend(f) ==
    LET s == The(f) IN
    /\ pc[f] = "suspend"
    /\ IF Present(s)
       THEN /\ status' = [status EXCEPT ![s] = "SUSPENDED"]
            /\ IF owner[s] # NoUser THEN GotoWith(f, "dropPro", Doc(s)) ELSE Return(f)
       ELSE Return(f) /\ UNCHANGED status
    /\ UNCHANGED <<owner, plan, applied, deferred, scheduled, nbd, userVars, ppVars,
                   inbox, tasks, now, faults, slips>>

\* updateOne on the user, here and in the deferred cancellation cron.
DropPro(f) ==
    LET u == doc[f].owner IN
    /\ pc[f] = "dropPro"
    /\ isPro' = [isPro EXCEPT ![u] = FALSE]
    /\ Return(f)
    /\ UNCHANGED <<subVars, features, ppVars, inbox, tasks, now, faults, slips>>

\* PayPal must call the subscription ACTIVE.
AskPayPalToResume(f) ==
    /\ pc[f] = "askToResume"
    /\ IF ppStatus[The(f)] = "ACTIVE" THEN Goto(f, "resume") ELSE Return(f)
    /\ UNCHANGED <<subVars, userVars, ppVars, inbox, tasks, now, faults, slips>>

Resume(f) ==
    LET s == The(f) IN
    /\ pc[f] = "resume"
    /\ IF Present(s)
       THEN /\ status' = [status EXCEPT ![s] = "ACTIVE"]
            /\ IF owner[s] # NoUser THEN GotoWith(f, "raisePro", Doc(s)) ELSE Return(f)
       ELSE Return(f) /\ UNCHANGED status
    /\ UNCHANGED <<owner, plan, applied, deferred, scheduled, nbd, userVars, ppVars,
                   inbox, tasks, now, faults, slips>>

RaisePro(f) ==
    LET u == doc[f].owner IN
    /\ pc[f] = "raisePro"
    /\ isPro' = [isPro EXCEPT ![u] = IF u \in Registered THEN TRUE ELSE @]
    /\ Return(f)
    /\ UNCHANGED <<subVars, features, ppVars, inbox, tasks, now, faults, slips>>

-----------------------------------------------------------------------------
(* attachUser                                                              *)

\* Mutant: attaching activates nothing.
AfterAttachNothing(f, st, app) == Return(f)

\* A subscription already active gets its features at once (setImmediate).
AfterAttach(f, st, app) == IF st = "ACTIVE" /\ ~app THEN Goto(f, "claim") ELSE Return(f)

\* Mutant: a document that has an owner gets another.
AttachOver(f) ==
    LET s == The(f) IN
    /\ pc[f] = "attach"
    /\ IF Present(s)
       THEN /\ owner' = [owner EXCEPT ![s] = task[f].user]
            /\ applied' = [applied EXCEPT ![s] = FALSE]
            /\ AfterAttach(f, status[s], FALSE)
       ELSE Goto(f, "attachRead") /\ UNCHANGED <<owner, applied>>
    /\ UNCHANGED <<status, plan, deferred, scheduled, nbd, userVars, ppVars,
                   inbox, tasks, now, faults, slips>>

\* The guarded update: only a document without user_id.
Attach(f) ==
    LET s == The(f) IN
    /\ pc[f] = "attach"
    /\ IF Present(s) /\ owner[s] = NoUser
       THEN /\ owner' = [owner EXCEPT ![s] = task[f].user]
            /\ AfterAttach(f, status[s], applied[s])
       ELSE Goto(f, "attachRead") /\ UNCHANGED owner
    /\ UNCHANGED <<status, plan, applied, deferred, scheduled, nbd, userVars, ppVars,
                   inbox, tasks, now, faults, slips>>

\* An owner there is a conflict; otherwise PayPal is asked.
AttachRead(f) ==
    /\ pc[f] = "attachRead"
    /\ IF owner[The(f)] # NoUser THEN Return(f) ELSE Goto(f, "attachAsk")
    /\ UNCHANGED <<subVars, userVars, ppVars, inbox, tasks, now, faults, slips>>

AttachAskPayPal(f) ==
    LET s == The(f) IN
    /\ pc[f] = "attachAsk"
    /\ IF ppStatus[s] = Absent
       THEN Return(f)
       ELSE GotoWith(f, "attachUpsert", PayPalDoc(s))
    /\ UNCHANGED <<subVars, userVars, ppVars, inbox, tasks, now, faults, slips>>

\* The upsert: status and plan_id only on insert, user_id in any case.
AttachUpsert(f) ==
    LET s == The(f) IN
    /\ pc[f] = "attachUpsert"
    /\ owner' = [owner EXCEPT ![s] = task[f].user]
    /\ slips' = [slips EXCEPT ![s] = @ \cup
           IF owner[s] \in {NoUser, task[f].user} THEN {} ELSE {"takenOver"}]
    /\ IF Present(s)
       THEN UNCHANGED <<status, plan>> /\ AfterAttach(f, status[s], applied[s])
       ELSE /\ status' = [status EXCEPT ![s] = doc[f].status]
            /\ plan' = [plan EXCEPT ![s] = doc[f].plan]
            /\ AfterAttach(f, doc[f].status, FALSE)
    /\ UNCHANGED <<applied, deferred, scheduled, nbd, userVars, ppVars,
                   inbox, tasks, now, faults>>

-----------------------------------------------------------------------------
ServiceNext(f) ==
    \/ UpdateFromWebhook(f) \/ UpdateStatus(f) \/ CreateForStatus(f)
    \/ ClaimActivation(f) \/ LoadUser(f) \/ SaveUser(f) \/ Rollback(f)
    \/ ActivationError(f) \/ RollbackThrow(f) \/ SyncBillingData(f)
    \/ GrabDowngrade(f) \/ SetGrabbedPlan(f)
    \/ ReadForCancel(f) \/ SetCancelled(f)
    \/ ExpireFlag(f) \/ ExpireLoad(f) \/ ExpireSave(f)
    \/ Suspend(f) \/ DropPro(f) \/ AskPayPalToResume(f) \/ Resume(f) \/ RaisePro(f)
    \/ Attach(f) \/ AttachRead(f) \/ AttachAskPayPal(f) \/ AttachUpsert(f)
=============================================================================
