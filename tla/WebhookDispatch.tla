--------------------------- MODULE WebhookDispatch ---------------------------
(***************************************************************************)
(* PayPal, which changes a subscription and sends an event about it, and   *)
(* dispatchEvent of the webhook processor, which runs the handler of the   *)
(* event.  Events are handled in any order, several at a time, and again   *)
(* after a fault: WebhookPipeline shows why, and how often.                *)
(***************************************************************************)
EXTENDS SubscriptionService

-----------------------------------------------------------------------------
(* PayPal (external)                                                       *)

\* PayPal reports `kind` of s.  SALE events are about a payment: they carry
\* neither a plan nor the next billing time.
Report(s, kind) ==
    LET sale == kind \in {"SALE_COMPLETED", "SALE_REFUNDED"} IN
    /\ kind \in Kinds
    /\ sent < MaxEvents
    /\ sent' = sent + 1
    /\ past' = [past EXCEPT ![s] = @ \cup {kind}]
    /\ inbox' = inbox \cup
         {[kind |-> kind, sub |-> s, user |-> NoUser, id |-> sent + 1,
           plan |-> IF sale THEN NoPlan ELSE ppPlan'[s],
           until |-> IF sale THEN NoDate ELSE ppUntil'[s]]}

elsewhere == <<subVars, userVars, flowVars, tasks, now, faults, slips>>

\* A subscription comes to exist, with the custom_id the API gives it (u) or
\* without one (NoUser).
PayPalCreates(s, u, p) ==
    /\ ppStatus[s] = Absent
    /\ ppStatus' = [ppStatus EXCEPT ![s] = "APPROVAL_PENDING"]
    /\ ppPlan' = [ppPlan EXCEPT ![s] = p]
    /\ ppCustom' = [ppCustom EXCEPT ![s] = u]
    /\ UNCHANGED ppUntil
    /\ \/ Report(s, "CREATED")
       \/ "CREATED" \notin Kinds /\ UNCHANGED <<sent, past, inbox>>
    /\ UNCHANGED elsewhere

\* The buyer approves and pays until the next tick (bound: the clock reaches
\* the end of every period).
PayPalActivates(s) ==
    /\ now < MaxTime
    /\ ppStatus[s] = "APPROVAL_PENDING"
    /\ ppStatus' = [ppStatus EXCEPT ![s] = "ACTIVE"]
    /\ ppUntil' = [ppUntil EXCEPT ![s] = now + 1]
    /\ UNCHANGED <<ppPlan, ppCustom>>
    /\ Report(s, "ACTIVATED")
    /\ UNCHANGED elsewhere

\* The payment of the running period is reported, by itself ...
PayPalReportsPayment(s) ==
    /\ ppStatus[s] = "ACTIVE"
    /\ UNCHANGED <<ppStatus, ppPlan, ppUntil, ppCustom>>
    /\ Report(s, "SALE_COMPLETED")
    /\ UNCHANGED elsewhere

\* ... or with the renewal that starts a new period.
PayPalRenews(s, kind) ==
    /\ now < MaxTime
    /\ ppStatus[s] = "ACTIVE" /\ ppUntil[s] <= now
    /\ kind \in {"SALE_COMPLETED", "RENEWED"}
    /\ ppUntil' = [ppUntil EXCEPT ![s] = now + 1]
    /\ UNCHANGED <<ppStatus, ppPlan, ppCustom>>
    /\ Report(s, kind)
    /\ UNCHANGED elsewhere

\* A revision of the plan, approved by the buyer; the endpoint asks for it in
\* either status.
PayPalRevises(s, p) ==
    /\ ppStatus[s] \in {"ACTIVE", "SUSPENDED"} /\ p # ppPlan[s]
    /\ ppPlan' = [ppPlan EXCEPT ![s] = p]
    /\ UNCHANGED <<ppStatus, ppUntil, ppCustom>>
    /\ Report(s, "UPDATED")
    /\ UNCHANGED elsewhere

PayPalMoves == {<<"ACTIVE", "SUSPENDED", "SUSPENDED">>, <<"SUSPENDED", "ACTIVE", "RE_ACTIVATED">>,
                <<"ACTIVE", "CANCELLED", "CANCELLED">>, <<"SUSPENDED", "CANCELLED", "CANCELLED">>,
                <<"ACTIVE", "EXPIRED", "EXPIRED">>}

\* Suspension, reactivation, cancellation, expiry.
PayPalMovesTo(s, m) ==
    /\ ppStatus[s] = m[1]
    /\ ppStatus' = [ppStatus EXCEPT ![s] = m[2]]
    /\ UNCHANGED <<ppPlan, ppUntil, ppCustom>>
    /\ Report(s, m[3])
    /\ UNCHANGED elsewhere

PayPalRefunds(s) ==
    /\ ppUntil[s] # NoDate
    /\ UNCHANGED <<ppStatus, ppPlan, ppUntil, ppCustom>>
    /\ Report(s, "SALE_REFUNDED")
    /\ UNCHANGED elsewhere

PayPalChanges ==
    \E s \in Sub :
        \/ PayPalActivates(s) \/ PayPalReportsPayment(s) \/ PayPalRefunds(s)
        \/ \E kind \in {"SALE_COMPLETED", "RENEWED"} : PayPalRenews(s, kind)
        \/ \E p \in Plan : PayPalRevises(s, p)
        \/ \E m \in PayPalMoves : PayPalMovesTo(s, m)

PayPalNext ==
    \/ \E s \in Sub, u \in User \cup {NoUser}, p \in Plan : PayPalCreates(s, u, p)
    \/ PayPalChanges

-----------------------------------------------------------------------------
(* dispatchEvent                                                           *)

\* The first call of the handler of each kind of event.
FirstCall(kind) ==
    CASE kind = "CREATED" -> "updateFromWebhook"
      [] kind \in {"ACTIVATED", "SALE_COMPLETED", "EXPIRED"} -> "updateStatus"
      [] kind = "UPDATED" -> "readUpdated"
      [] kind \in {"CANCELLED", "SALE_REFUNDED"} -> "cancel"
      [] kind = "SUSPENDED" -> "suspend"
      [] kind = "RE_ACTIVATED" -> "askToResume"
      [] kind = "RENEWED" -> "grabDowngrade"

Dispatch(f, e) ==
    /\ pc[f] = "idle"
    /\ InOrder => \A other \in inbox : e.id <= other.id
    /\ inbox' = inbox \ {e}
    /\ pc' = [pc EXCEPT ![f] = FirstCall(e.kind)]
    /\ task' = [task EXCEPT ![f] = e]
    /\ UNCHANGED <<doc, pro, subVars, userVars, ppVars, tasks, now, faults, slips>>

\* Mutant: every change of plan is applied at once.
LowerNever(p, q) == FALSE

Lower(p, q) == RankOf(p) < RankOf(q)

\* UPDATED: the document is read once and decides everything that follows.
\* Its branch for status PENDING_ASSOCIATION is dead: no code sets that status.
ReadUpdated(f) ==
    LET s == The(f)
        p == task[f].plan IN
    /\ pc[f] = "readUpdated"
    /\ CASE ~Present(s) -> Return(f)
         [] Present(s) /\ p # plan[s] /\ ~Lower(p, plan[s]) -> GotoWith(f, "upgrade", Doc(s))
         [] Present(s) /\ p # plan[s] /\ Lower(p, plan[s]) -> GotoWith(f, "schedule", Doc(s))
         [] Present(s) /\ p = plan[s] /\ scheduled[s] # NoPlan -> GotoWith(f, "clearReverted", Doc(s))
         [] OTHER -> GotoWith(f, "syncBilling", None)
    /\ UNCHANGED <<subVars, userVars, ppVars, inbox, tasks, now, faults, slips>>

\* Whether to activate is decided by the status read before the update.
AfterUpgrade(f) == IF doc[f].status = "ACTIVE" THEN "claim" ELSE "syncBilling"

\* Mutant: the new plan is stored without handing out a new claim.
WritePlanOnly(s, p) == plan' = [plan EXCEPT ![s] = p] /\ UNCHANGED applied

WritePlan(s, p) ==
    /\ plan' = [plan EXCEPT ![s] = p]
    /\ applied' = [applied EXCEPT ![s] = FALSE]

Upgrade(f) ==
    LET s == The(f) IN
    /\ pc[f] = "upgrade"
    /\ WritePlan(s, task[f].plan)
    /\ IF doc[f].scheduled # NoPlan
       THEN Goto(f, "clearSuperseded")
       ELSE GotoWith(f, AfterUpgrade(f), None)
    /\ UNCHANGED <<status, owner, deferred, scheduled, nbd, userVars, ppVars,
                   inbox, tasks, now, faults, slips>>

\* Mutant: the schedule is kept.
ClearScheduledNever(f) ==
    /\ pc[f] \in {"clearSuperseded", "clearReverted"}
    /\ GotoWith(f, IF pc[f] = "clearReverted" THEN "syncBilling" ELSE AfterUpgrade(f), None)
    /\ UNCHANGED <<subVars, userVars, ppVars, inbox, tasks, now, faults, slips>>

\* clearScheduledDowngrade, after an upgrade or a confirmed revert.
ClearScheduled(f) ==
    /\ pc[f] \in {"clearSuperseded", "clearReverted"}
    /\ scheduled' = [scheduled EXCEPT ![The(f)] = NoPlan]
    /\ GotoWith(f, IF pc[f] = "clearReverted" THEN "syncBilling" ELSE AfterUpgrade(f), None)
    /\ UNCHANGED <<status, owner, plan, applied, deferred, nbd, userVars, ppVars,
                   inbox, tasks, now, faults, slips>>

ScheduleDowngrade(f) ==
    /\ pc[f] = "schedule"
    /\ scheduled' = [scheduled EXCEPT ![The(f)] = task[f].plan]
    /\ GotoWith(f, "syncBilling", None)
    /\ UNCHANGED <<status, owner, plan, applied, deferred, nbd, userVars, ppVars,
                   inbox, tasks, now, faults, slips>>

DispatchNext(f) ==
    \/ \E e \in inbox : Dispatch(f, e)
    \/ ReadUpdated(f) \/ Upgrade(f) \/ ClearScheduled(f) \/ ScheduleDowngrade(f)
=============================================================================
