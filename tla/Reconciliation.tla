--------------------------- MODULE Reconciliation ---------------------------
(***************************************************************************)
(* The cron jobs of reconciliation.service.ts that change PayPal           *)
(* subscriptions.  Every worker replica runs them.  A pass reads a list    *)
(* and then handles each subscription on it; here a pass is a flow for one *)
(* subscription of the list, which starts with the document as it was read *)
(* and may be slow to reach it.                                            *)
(***************************************************************************)
EXTENDS SubscriptionService

\* A pass begins for s, whose document matches the job's query.
BeginPass(f, kind, s, step, d) ==
    /\ pc[f] = "idle"
    /\ kind \in Kinds
    /\ pc' = [pc EXCEPT ![f] = step]
    /\ task' = [task EXCEPT ![f] = [kind |-> kind, sub |-> s, plan |-> NoPlan,
                                    until |-> NoDate, user |-> NoUser, id |-> 0]]
    /\ doc' = [doc EXCEPT ![f] = d]
    /\ UNCHANGED <<pro, subVars, userVars, ppVars, inbox, tasks, now, faults, slips>>

-----------------------------------------------------------------------------
(* applyExpiredDeferredCancellations                                       *)

FindDeferred(f, s) ==
    /\ status[s] = "CANCELLED" /\ deferred[s] /\ Over(nbd[s])
    /\ BeginPass(f, "cronDeferred", s, "takeDeferred", Doc(s))

\* Only the flow that clears the flag takes the user's access away.
TakeDeferred(f) ==
    LET s == The(f) IN
    /\ pc[f] = "takeDeferred"
    /\ deferred' = [deferred EXCEPT ![s] = FALSE]
    /\ IF deferred[s] /\ doc[f].owner # NoUser THEN Goto(f, "dropPro") ELSE Return(f)
    /\ UNCHANGED <<status, owner, plan, applied, scheduled, nbd, userVars, ppVars,
                   inbox, tasks, now, faults, slips>>

-----------------------------------------------------------------------------
(* applyScheduledDowngrades                                                *)

FindDowngrade(f, s) ==
    /\ status[s] = "ACTIVE" /\ scheduled[s] # NoPlan /\ Over(nbd[s])
    /\ BeginPass(f, "cronDowngrade", s, "takeDowngrade", Doc(s))

\* The plan changes in the update that takes it off the schedule, if the
\* schedule is still the one that was read.
TakeDowngrade(f) ==
    LET s == The(f) IN
    /\ pc[f] = "takeDowngrade"
    /\ IF scheduled[s] = doc[f].scheduled
       THEN /\ scheduled' = [scheduled EXCEPT ![s] = NoPlan]
            /\ plan' = [plan EXCEPT ![s] = doc[f].scheduled]
            /\ applied' = [applied EXCEPT ![s] = FALSE]
            /\ IF doc[f].owner # NoUser THEN Goto(f, "copyFeatures") ELSE Return(f)
       ELSE Return(f) /\ UNCHANGED <<scheduled, plan, applied>>
    /\ UNCHANGED <<status, owner, deferred, nbd, userVars, ppVars,
                   inbox, tasks, now, faults, slips>>

\* updateOne on the user; is_pro is left alone.
CopyFeatures(f) ==
    LET u == doc[f].owner IN
    /\ pc[f] = "copyFeatures"
    /\ features' = [features EXCEPT ![u] =
           IF u \in Registered THEN [sub |-> The(f), plan |-> doc[f].scheduled] ELSE @]
    /\ Goto(f, "markApplied")
    /\ UNCHANGED <<subVars, isPro, ppVars, inbox, tasks, now, faults, slips>>

MarkApplied(f) ==
    /\ pc[f] = "markApplied"
    /\ applied' = [applied EXCEPT ![The(f)] = TRUE]
    /\ Return(f)
    /\ UNCHANGED <<status, owner, plan, deferred, scheduled, nbd, userVars, ppVars,
                   inbox, tasks, now, faults, slips>>

-----------------------------------------------------------------------------
(* verifyPaypalConsistency                                                 *)

FindToVerify(f, s) ==
    /\ status[s] = "ACTIVE" /\ owner[s] # NoUser
    /\ BeginPass(f, "cronVerify", s, "verify", None)

\* Mutant: a cancellation at PayPal is not corrected.
FinalStatusExpired == {"EXPIRED"}

\* Only these are corrected.
FinalStatus == {"CANCELLED", "EXPIRED"}

VerifyWithPayPal(f) ==
    LET s == The(f) IN
    /\ pc[f] = "verify"
    /\ IF ppStatus[s] \in FinalStatus
       THEN GotoWith(f, "correct", PayPalDoc(s))
       ELSE Return(f)
    /\ UNCHANGED <<subVars, userVars, ppVars, inbox, tasks, now, faults, slips>>

\* The status and nothing else: unless a deferral is set, the end of the access
\* is left to an event that now finds CANCELLED and returns.
CorrectStatus(f) ==
    /\ pc[f] = "correct"
    /\ status' = [status EXCEPT ![The(f)] = doc[f].status]
    /\ slips' = [slips EXCEPT ![The(f)] = @ \cup IF deferred[The(f)] THEN {} ELSE {"corrected"}]
    /\ Return(f)
    /\ UNCHANGED <<owner, plan, applied, deferred, scheduled, nbd, userVars, ppVars,
                   inbox, tasks, now, faults>>

-----------------------------------------------------------------------------
(* detectOrphanedSubscriptions and trySelfHealOrphanedSubscription         *)

\* It leaves out documents younger than 24 h, which the model heals as well.
FindOrphan(f, s) ==
    /\ status[s] = "ACTIVE" /\ owner[s] = NoUser
    /\ BeginPass(f, "cronOrphan", s, "heal", None)

\* custom_id is read from PayPal (it does not change) and stored if the
\* document still has no user_id.
Heal(f) ==
    LET s == The(f) IN
    /\ pc[f] = "heal"
    /\ owner' = [owner EXCEPT ![s] = IF @ = NoUser THEN ppCustom[s] ELSE @]
    /\ Return(f)
    /\ UNCHANGED <<status, plan, applied, deferred, scheduled, nbd, userVars, ppVars,
                   inbox, tasks, now, faults, slips>>

-----------------------------------------------------------------------------
ReconciliationNext(f) ==
    \/ \E s \in Sub : FindDeferred(f, s) \/ FindDowngrade(f, s)
                      \/ FindToVerify(f, s) \/ FindOrphan(f, s)
    \/ TakeDeferred(f) \/ TakeDowngrade(f) \/ CopyFeatures(f) \/ MarkApplied(f)
    \/ VerifyWithPayPal(f) \/ CorrectStatus(f) \/ Heal(f)
=============================================================================
