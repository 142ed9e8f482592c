-------------------- MODULE SubscriptionLifecycle_proofs --------------------
(***************************************************************************)
(* Theorems about SubscriptionLifecycle, for any number of subscriptions,  *)
(* users, flows and plans and any bounds: the types; that an activation is *)
(* one flow's alone while no plan change is on; that a subscription never  *)
(* grants its access to two users unless an attach takes it over; that     *)
(* features_applied means the owner has the features; and that one worker, *)
(* handling events in order, ends up with PayPal's plan.                   *)
(***************************************************************************)
EXTENDS SubscriptionLifecycle, TLAPS

-----------------------------------------------------------------------------
(* Types.  What a flow has read is a document where a later step uses it   *)
(* as one, and carries what that step relies on.                           *)

StatusKind == {"ACTIVATED", "SALE_COMPLETED", "EXPIRED", "RENEWED"}

\* The requests that change the status at PayPal (Checkout).
ChangeKind == {"cancel", "resume", "renewOn", "renewOff"}

\* The steps that use the document read before.
DocSteps == {"loadUser", "saveUser", "setPlan", "takeDowngrade", "copyFeatures",
             "attachUpsert", "correct", "revertAtPayPal"}

ReadsOK(step, t, d) ==
    /\ t.id > 0 => t.kind \in EventKind
    /\ step \in {"updateStatus", "createForStatus", "grabDowngrade"} => t.kind \in StatusKind
    /\ step \in DocSteps => d \in DocShape
    /\ step = "saveUser" => d.owner \in Registered /\ d.plan \in Plan
    /\ step \in {"takeDowngrade", "copyFeatures"} => d.scheduled \in Plan
    /\ step \in {"attachUpsert", "correct"} => d.status \in Status
    /\ step = "createLock" => t.user # NoUser
    /\ step = "changeLock" => t.kind \in ChangeKind \cup {"cancelDowngrade"}
    /\ step = "changeAtPayPal" => t.kind \in ChangeKind

DocsOK ==
    /\ status \in [Sub -> Status \cup {Absent}]
    /\ owner \in [Sub -> User \cup {NoUser}]
    /\ plan \in [Sub -> Plan \cup {NoPlan}]
    /\ applied \in [Sub -> BOOLEAN]
    /\ deferred \in [Sub -> BOOLEAN]
    /\ scheduled \in [Sub -> Plan \cup {NoPlan}]
    /\ nbd \in [Sub -> Date \cup {NoDate}]

UsersOK ==
    /\ isPro \in [User -> BOOLEAN]
    /\ features \in [User -> Features \cup {None}]

PayPalOK ==
    /\ ppStatus \in [Sub -> Status \cup {Absent}]
    /\ ppPlan \in [Sub -> Plan \cup {NoPlan}]
    /\ ppUntil \in [Sub -> Date \cup {NoDate}]
    /\ ppCustom \in [Sub -> User \cup {NoUser}]
    /\ sent \in 0..MaxEvents
    /\ past \in [Sub -> SUBSET EventKind]

InboxOK == \A e \in inbox : e \in Task /\ e.kind \in EventKind /\ e.id > 0

FlowsOK ==
    /\ pc \in [Flow -> Step]
    /\ task \in [Flow -> Task \cup {None}]
    /\ doc \in [Flow -> DocShape \cup {None}]
    /\ pro \in [Flow -> BOOLEAN]
    /\ \A f \in Flow : pc[f] = "idle" <=> task[f] = None
    /\ \A f \in Flow : pc[f] # "idle" => ReadsOK(pc[f], task[f], doc[f])

CountsOK ==
    /\ tasks \in 0..MaxTasks
    /\ now \in 0..MaxTime
    /\ faults \in 0..MaxFaults
    /\ slips \in [Sub -> SUBSET Slip]

TypeInv == DocsOK /\ UsersOK /\ PayPalOK /\ InboxOK /\ FlowsOK /\ CountsOK

LEMMA InitTypes == Init => TypeInv
<1> SUFFICES ASSUME Init PROVE TypeInv
    OBVIOUS
<1>1. DocsOK
    BY DEF Init, DocsOK
<1>2. UsersOK
    BY DEF Init, UsersOK
<1>3. PayPalOK /\ InboxOK
    BY CountAssumption DEF Init, PayPalOK, InboxOK
<1>4. FlowsOK
    BY DEF Init, FlowsOK, Step
<1>5. CountsOK
    BY CountAssumption, DateAssumption DEF Init, CountsOK
<1> QED
    BY <1>1, <1>2, <1>3, <1>4, <1>5 DEF TypeInv

-----------------------------------------------------------------------------
(* How a flow goes on.                                                     *)

\* A running flow has a task, of a subscription.
LEMMA Running ==
    ASSUME FlowsOK, NEW f \in Flow, pc[f] # "idle"
    PROVE  /\ task[f] \in Task /\ The(f) \in Sub
           /\ Kind(f) \in EventKind \cup TaskKind
           /\ task[f].plan \in Plan \cup {NoPlan}
           /\ task[f].until \in Date \cup {NoDate}
           /\ task[f].user \in User \cup {NoUser}
           /\ task[f].id \in 0..MaxEvents
    BY DEF FlowsOK, Task, The, Kind

LEMMA GotoTypes ==
    ASSUME FlowsOK, NEW f \in Flow, NEW step \in Step, pc[f] # "idle", step # "idle",
           ReadsOK(step, task[f], doc[f]), Goto(f, step)
    PROVE  FlowsOK'
    BY DEF FlowsOK, Goto

LEMMA GotoWithTypes ==
    ASSUME FlowsOK, NEW f \in Flow, NEW step \in Step, NEW d \in DocShape \cup {None},
           pc[f] # "idle", step # "idle", ReadsOK(step, task[f], d), GotoWith(f, step, d)
    PROVE  FlowsOK'
    BY DEF FlowsOK, GotoWith

LEMMA ReturnTypes ==
    ASSUME FlowsOK, NEW f \in Flow, Return(f)
    PROVE  FlowsOK'
    BY DEF FlowsOK, Return, Step

LEMMA GiveBackTypes ==
    ASSUME FlowsOK, InboxOK, NEW f \in Flow, pc[f] # "idle", GiveBack(f)
    PROVE  InboxOK'
    BY Running DEF FlowsOK, InboxOK, GiveBack, ReadsOK

\* findOne and getSubscription return documents.
LEMMA DocTypes ==
    ASSUME DocsOK, PayPalOK, NEW s \in Sub
    PROVE  Doc(s) \in DocShape /\ PayPalDoc(s) \in DocShape
    BY DEF DocsOK, PayPalOK, Doc, PayPalDoc, DocShape

LEMMA FaultTypes ==
    ASSUME faults \in 0..MaxFaults, Fault
    PROVE  faults' \in 0..MaxFaults
    BY CountAssumption DEF Fault

\* A step that relies on nothing read before.
Plain == {"claim", "rollback", "rollbackThrow", "syncBilling", "setCancelled", "expireFlag",
          "expireLoad", "expireSave", "dropPro", "resume", "raisePro", "attachRead", "attachAsk",
          "upgrade", "schedule", "clearReverted", "clearSuperseded", "markApplied",
          "createAtPayPal", "register", "cancel", "suspend", "askToResume", "readDowngrade",
          "unschedule"}

LEMMA PlainTypes ==
    ASSUME FlowsOK, NEW f \in Flow, NEW step \in Plain, pc[f] # "idle",
           Goto(f, step) \/ \E d \in DocShape \cup {None} : GotoWith(f, step, d)
    PROVE  FlowsOK'
<1>1. /\ step \in Step /\ step # "idle"
      /\ \A d : ReadsOK(step, task[f], d)
    BY DEF FlowsOK, ReadsOK, Plain, DocSteps, Step
<1> QED
    BY <1>1, GotoTypes, GotoWithTypes

\* Flow f ends, or goes on to one of the steps.
GoesTo(f, steps) ==
    \/ Return(f)
    \/ \E step \in steps : /\ pc' = [pc EXCEPT ![f] = step] /\ task' = task
                           /\ doc' = doc \/ \E d : doc' = [doc EXCEPT ![f] = d]

LEMMA AfterUpdateStatusGoes ==
    ASSUME FlowsOK, NEW f \in Flow, pc[f] \in {"updateStatus", "createForStatus"},
           AfterUpdateStatus(f)
    PROVE  /\ Return(f) \/ \E step \in {"claim", "grabDowngrade", "expireFlag"} : Goto(f, step)
           /\ GoesTo(f, {"claim", "grabDowngrade", "expireFlag"})
<1>1. Kind(f) \in StatusKind
    BY DEF FlowsOK, ReadsOK, Kind
<1> QED
    BY <1>1 DEF AfterUpdateStatus, StatusKind, GoesTo, Goto

LEMMA AfterUpdateStatusTypes ==
    ASSUME FlowsOK, NEW f \in Flow, pc[f] \in {"updateStatus", "createForStatus"},
           AfterUpdateStatus(f)
    PROVE  FlowsOK'
<1>1. pc[f] # "idle" /\ Kind(f) \in StatusKind
    BY DEF FlowsOK, ReadsOK, Kind
<1>2. \A step \in {"claim", "grabDowngrade", "expireFlag"} :
          step \in Step /\ step # "idle" /\ ReadsOK(step, task[f], doc[f])
    BY <1>1 DEF FlowsOK, ReadsOK, DocSteps, Step, Kind
<1> QED
    BY <1>1, <1>2, AfterUpdateStatusGoes, GotoTypes, ReturnTypes

LEMMA AfterActivationTypes ==
    ASSUME FlowsOK, NEW f \in Flow, pc[f] # "idle", AfterActivation(f)
    PROVE  FlowsOK'
    BY PlainTypes, ReturnTypes DEF AfterActivation, Plain

LEMMA AfterAttachTypes ==
    ASSUME FlowsOK, NEW f \in Flow, NEW st, NEW app, pc[f] # "idle", AfterAttach(f, st, app)
    PROVE  FlowsOK'
    BY PlainTypes, ReturnTypes DEF AfterAttach, Plain

-----------------------------------------------------------------------------
(* Every step keeps the types.                                             *)

LEMMA UpdateFromWebhookTypes ==
    ASSUME TypeInv, NEW f \in Flow, UpdateFromWebhook(f)
    PROVE  TypeInv'
<1> USE DEF TypeInv
<1>0. /\ pc[f] # "idle" /\ The(f) \in Sub /\ task[f] \in Task
      /\ task[f].plan \in Plan \cup {NoPlan} /\ task[f].until \in Date \cup {NoDate}
      /\ task[f].user \in User \cup {NoUser}
    BY Running DEF UpdateFromWebhook
<1>1. DocsOK'
    BY <1>0 DEF UpdateFromWebhook, DocsOK, Status
<1>2. FlowsOK'
    BY ReturnTypes DEF UpdateFromWebhook
<1>3. UsersOK' /\ PayPalOK' /\ InboxOK' /\ CountsOK'
    BY DEF UpdateFromWebhook, UsersOK, userVars, PayPalOK, ppVars, InboxOK, CountsOK
<1> QED
    BY <1>1, <1>2, <1>3

LEMMA UpdateStatusTypes ==
    ASSUME TypeInv, NEW f \in Flow, UpdateStatus(f)
    PROVE  TypeInv'
<1> USE DEF TypeInv
<1>0. /\ pc[f] # "idle" /\ The(f) \in Sub /\ task[f] \in Task
      /\ task[f].plan \in Plan \cup {NoPlan} /\ task[f].until \in Date \cup {NoDate}
      /\ task[f].user \in User \cup {NoUser}
    BY Running DEF UpdateStatus
<1>1. DocsOK'
    BY <1>0 DEF UpdateStatus, DocsOK, WriteStatus, NewStatus, Status, subVars
<1>2. FlowsOK'
    <2>1. CASE Present(The(f))
        BY <2>1, AfterUpdateStatusTypes DEF UpdateStatus
    <2>2. CASE ~Present(The(f))
        <3>1. Goto(f, "createForStatus")
            BY <2>2 DEF UpdateStatus
        <3>2. ReadsOK("createForStatus", task[f], doc[f])
            BY <1>0 DEF UpdateStatus, FlowsOK, ReadsOK, DocSteps
        <3> QED
            BY <1>0, <3>1, <3>2, GotoTypes DEF Step
    <2> QED
        BY <2>1, <2>2
<1>3. UsersOK' /\ PayPalOK' /\ InboxOK' /\ CountsOK'
    BY DEF UpdateStatus, UsersOK, userVars, PayPalOK, ppVars, InboxOK, CountsOK
<1> QED
    BY <1>1, <1>2, <1>3

LEMMA CreateForStatusTypes ==
    ASSUME TypeInv, NEW f \in Flow, CreateForStatus(f)
    PROVE  TypeInv'
<1> USE DEF TypeInv
<1>0. /\ pc[f] # "idle" /\ The(f) \in Sub /\ task[f] \in Task
      /\ task[f].plan \in Plan \cup {NoPlan} /\ task[f].until \in Date \cup {NoDate}
      /\ task[f].user \in User \cup {NoUser}
    BY Running DEF CreateForStatus
<1>1. DocsOK'
    BY <1>0 DEF CreateForStatus, DocsOK, WriteStatus, NewStatus, Status, subVars
<1>2. InboxOK'
    BY <1>0, GiveBackTypes DEF CreateForStatus, InboxOK
<1>3. FlowsOK'
    BY AfterUpdateStatusTypes, ReturnTypes DEF CreateForStatus
<1>4. UsersOK' /\ PayPalOK' /\ CountsOK'
    BY DEF CreateForStatus, UsersOK, userVars, PayPalOK, ppVars, CountsOK
<1> QED
    BY <1>1, <1>2, <1>3, <1>4

LEMMA ClaimActivationTypes ==
    ASSUME TypeInv, NEW f \in Flow, ClaimActivation(f)
    PROVE  TypeInv'
<1> USE DEF TypeInv
<1>0. /\ pc[f] # "idle" /\ The(f) \in Sub /\ task[f] \in Task
      /\ task[f].plan \in Plan \cup {NoPlan} /\ task[f].until \in Date \cup {NoDate}
      /\ task[f].user \in User \cup {NoUser}
    BY Running DEF ClaimActivation
<1>1. DocsOK'
    BY <1>0 DEF ClaimActivation, DocsOK
<1>2. FlowsOK'
    <2>1. CASE Claimable(The(f))
        <3>1. GotoWith(f, "loadUser", Doc(The(f)))
            BY <2>1 DEF ClaimActivation
        <3>2. Doc(The(f)) \in DocShape /\ ReadsOK("loadUser", task[f], Doc(The(f)))
            BY <1>0, DocTypes DEF FlowsOK, ReadsOK, DocSteps
        <3> QED
            BY <1>0, <3>1, <3>2, GotoWithTypes DEF Step
    <2>2. CASE ~Claimable(The(f))
        BY <1>0, <2>2, AfterActivationTypes DEF ClaimActivation
    <2> QED
        BY <2>1, <2>2
<1>3. UsersOK' /\ PayPalOK' /\ InboxOK' /\ CountsOK'
    BY DEF ClaimActivation, UsersOK, userVars, PayPalOK, ppVars, InboxOK, CountsOK
<1> QED
    BY <1>1, <1>2, <1>3

LEMMA LoadUserTypes ==
    ASSUME TypeInv, NEW f \in Flow, LoadUser(f)
    PROVE  TypeInv'
<1> USE DEF TypeInv
<1>0. /\ pc[f] # "idle" /\ The(f) \in Sub /\ task[f] \in Task
      /\ task[f].plan \in Plan \cup {NoPlan} /\ task[f].until \in Date \cup {NoDate}
      /\ task[f].user \in User \cup {NoUser}
    BY Running DEF LoadUser
<1>1. FlowsOK'
    <2>1. CASE doc[f].owner \in Registered /\ doc[f].plan \in Plan
        BY <1>0, <2>1, RegisteredAssumption DEF LoadUser, FlowsOK, UsersOK, ReadsOK, DocSteps,
           Step
    <2>2. CASE ~(doc[f].owner \in Registered /\ doc[f].plan \in Plan)
        BY <1>0, <2>2, PlainTypes DEF LoadUser, Plain
    <2> QED
        BY <2>1, <2>2
<1>2. DocsOK' /\ UsersOK' /\ PayPalOK' /\ InboxOK' /\ CountsOK'
    BY DEF LoadUser, DocsOK, subVars, UsersOK, userVars, PayPalOK, ppVars, InboxOK, CountsOK
<1> QED
    BY <1>1, <1>2

LEMMA SaveUserTypes ==
    ASSUME TypeInv, NEW f \in Flow, SaveUser(f)
    PROVE  TypeInv'
<1> USE DEF TypeInv
<1>0. /\ pc[f] # "idle" /\ The(f) \in Sub /\ task[f] \in Task
      /\ task[f].plan \in Plan \cup {NoPlan} /\ task[f].until \in Date \cup {NoDate}
      /\ task[f].user \in User \cup {NoUser}
    BY Running DEF SaveUser
<1>1. UsersOK'
    <2>1. doc[f].plan \in Plan
        BY <1>0 DEF SaveUser, FlowsOK, ReadsOK
    <2>2. [sub |-> The(f), plan |-> doc[f].plan] \in Features
        BY <1>0, <2>1 DEF Features
    <2> QED
        BY <2>2 DEF SaveUser, UsersOK
<1>2. FlowsOK'
    BY <1>0, AfterActivationTypes DEF SaveUser
<1>3. DocsOK' /\ PayPalOK' /\ InboxOK' /\ CountsOK'
    BY DEF SaveUser, DocsOK, subVars, PayPalOK, ppVars, InboxOK, CountsOK
<1> QED
    BY <1>1, <1>2, <1>3

LEMMA RollbackTypes ==
    ASSUME TypeInv, NEW f \in Flow, Rollback(f)
    PROVE  TypeInv'
<1> USE DEF TypeInv
<1>0. /\ pc[f] # "idle" /\ The(f) \in Sub /\ task[f] \in Task
      /\ task[f].plan \in Plan \cup {NoPlan} /\ task[f].until \in Date \cup {NoDate}
      /\ task[f].user \in User \cup {NoUser}
    BY Running DEF Rollback
<1>1. DocsOK'
    BY <1>0 DEF Rollback, DocsOK
<1>2. FlowsOK'
    BY <1>0, AfterActivationTypes DEF Rollback
<1>3. UsersOK' /\ PayPalOK' /\ InboxOK' /\ CountsOK'
    BY DEF Rollback, UsersOK, userVars, PayPalOK, ppVars, InboxOK, CountsOK
<1> QED
    BY <1>1, <1>2, <1>3

LEMMA ActivationErrorTypes ==
    ASSUME TypeInv, NEW f \in Flow, ActivationError(f)
    PROVE  TypeInv'
<1> USE DEF TypeInv
<1>0. /\ pc[f] # "idle" /\ The(f) \in Sub /\ task[f] \in Task
      /\ task[f].plan \in Plan \cup {NoPlan} /\ task[f].until \in Date \cup {NoDate}
      /\ task[f].user \in User \cup {NoUser}
    BY Running DEF ActivationError
<1>1. FlowsOK'
    BY <1>0, PlainTypes, ReturnTypes DEF ActivationError, Plain
<1>2. CountsOK'
    BY FaultTypes DEF ActivationError, CountsOK
<1>3. DocsOK' /\ UsersOK' /\ PayPalOK' /\ InboxOK'
    BY DEF ActivationError, DocsOK, subVars, UsersOK, userVars, PayPalOK, ppVars, InboxOK
<1> QED
    BY <1>1, <1>2, <1>3

LEMMA RollbackThrowTypes ==
    ASSUME TypeInv, NEW f \in Flow, RollbackThrow(f)
    PROVE  TypeInv'
<1> USE DEF TypeInv
<1>0. /\ pc[f] # "idle" /\ The(f) \in Sub /\ task[f] \in Task
      /\ task[f].plan \in Plan \cup {NoPlan} /\ task[f].until \in Date \cup {NoDate}
      /\ task[f].user \in User \cup {NoUser}
    BY Running DEF RollbackThrow
<1>1. DocsOK'
    BY <1>0 DEF RollbackThrow, DocsOK
<1>2. InboxOK'
    BY <1>0, GiveBackTypes DEF RollbackThrow
<1>3. FlowsOK'
    BY ReturnTypes DEF RollbackThrow
<1>4. CountsOK'
    BY <1>0 DEF RollbackThrow, CountsOK, Slip
<1>5. UsersOK' /\ PayPalOK'
    BY DEF RollbackThrow, UsersOK, userVars, PayPalOK, ppVars
<1> QED
    BY <1>1, <1>2, <1>3, <1>4, <1>5

LEMMA SyncBillingDataTypes ==
    ASSUME TypeInv, NEW f \in Flow, SyncBillingData(f)
    PROVE  TypeInv'
<1> USE DEF TypeInv
<1>0. /\ pc[f] # "idle" /\ The(f) \in Sub /\ task[f] \in Task
      /\ task[f].plan \in Plan \cup {NoPlan} /\ task[f].until \in Date \cup {NoDate}
      /\ task[f].user \in User \cup {NoUser}
    BY Running DEF SyncBillingData
<1>1. DocsOK'
    BY <1>0 DEF SyncBillingData, DocsOK
<1>2. FlowsOK'
    BY ReturnTypes DEF SyncBillingData
<1>3. UsersOK' /\ PayPalOK' /\ InboxOK' /\ CountsOK'
    BY DEF SyncBillingData, UsersOK, userVars, PayPalOK, ppVars, InboxOK, CountsOK
<1> QED
    BY <1>1, <1>2, <1>3

LEMMA GrabDowngradeTypes ==
    ASSUME TypeInv, NEW f \in Flow, GrabDowngrade(f)
    PROVE  TypeInv'
<1> USE DEF TypeInv
<1>0. /\ pc[f] # "idle" /\ The(f) \in Sub /\ task[f] \in Task
      /\ task[f].plan \in Plan \cup {NoPlan} /\ task[f].until \in Date \cup {NoDate}
      /\ task[f].user \in User \cup {NoUser}
    BY Running DEF GrabDowngrade
<1>1. DocsOK'
    BY <1>0 DEF GrabDowngrade, DocsOK
<1>2. FlowsOK'
    <2>1. ReadsOK(pc[f], task[f], doc[f])
        BY <1>0 DEF FlowsOK
    <2>2. CASE scheduled[The(f)] # NoPlan
        <3>1. GotoWith(f, "setPlan", Doc(The(f)))
            BY <2>2 DEF GrabDowngrade
        <3>2. Doc(The(f)) \in DocShape /\ ReadsOK("setPlan", task[f], Doc(The(f)))
            BY <1>0, <2>1, DocTypes DEF ReadsOK, DocSteps
        <3> QED
            BY <1>0, <3>1, <3>2, GotoWithTypes DEF Step
    <2>3. CASE scheduled[The(f)] = NoPlan
        <3>1. ReadsOK("updateStatus", task[f], doc[f])
            BY <2>1 DEF GrabDowngrade, ReadsOK, DocSteps
        <3> QED
            BY <1>0, <2>3, <3>1, GotoTypes, ReturnTypes DEF GrabDowngrade, Step
    <2> QED
        BY <2>2, <2>3
<1>3. UsersOK' /\ PayPalOK' /\ InboxOK' /\ CountsOK'
    BY DEF GrabDowngrade, UsersOK, userVars, PayPalOK, ppVars, InboxOK, CountsOK
<1> QED
    BY <1>1, <1>2, <1>3

LEMMA SetGrabbedPlanTypes ==
    ASSUME TypeInv, NEW f \in Flow, SetGrabbedPlan(f)
    PROVE  TypeInv'
<1> USE DEF TypeInv
<1>0. /\ pc[f] # "idle" /\ The(f) \in Sub /\ task[f] \in Task
      /\ task[f].plan \in Plan \cup {NoPlan} /\ task[f].until \in Date \cup {NoDate}
      /\ task[f].user \in User \cup {NoUser}
    BY Running DEF SetGrabbedPlan
<1>1. DocsOK'
    <2>1. doc[f].scheduled \in Plan \cup {NoPlan}
        BY <1>0 DEF SetGrabbedPlan, FlowsOK, ReadsOK, DocSteps, DocShape
    <2> QED
        BY <1>0, <2>1 DEF SetGrabbedPlan, DocsOK
<1>2. FlowsOK'
    BY <1>0, PlainTypes, ReturnTypes DEF SetGrabbedPlan, Plain
<1>3. UsersOK' /\ PayPalOK' /\ InboxOK' /\ CountsOK'
    BY DEF SetGrabbedPlan, UsersOK, userVars, PayPalOK, ppVars, InboxOK, CountsOK
<1> QED
    BY <1>1, <1>2, <1>3

LEMMA ReadForCancelTypes ==
    ASSUME TypeInv, NEW f \in Flow, ReadForCancel(f)
    PROVE  TypeInv'
<1> USE DEF TypeInv
<1>0. /\ pc[f] # "idle" /\ The(f) \in Sub /\ task[f] \in Task
      /\ task[f].plan \in Plan \cup {NoPlan} /\ task[f].until \in Date \cup {NoDate}
      /\ task[f].user \in User \cup {NoUser}
    BY Running DEF ReadForCancel
<1>1. FlowsOK'
    BY <1>0, PlainTypes, ReturnTypes, DocTypes DEF ReadForCancel, Plain
<1>2. CountsOK'
    BY <1>0 DEF ReadForCancel, CountsOK, EndIs, Slip
<1>3. DocsOK' /\ UsersOK' /\ PayPalOK' /\ InboxOK'
    BY DEF ReadForCancel, DocsOK, subVars, UsersOK, userVars, PayPalOK, ppVars, InboxOK
<1> QED
    BY <1>1, <1>2, <1>3

LEMMA SetCancelledTypes ==
    ASSUME TypeInv, NEW f \in Flow, SetCancelled(f)
    PROVE  TypeInv'
<1> USE DEF TypeInv
<1>0. /\ pc[f] # "idle" /\ The(f) \in Sub /\ task[f] \in Task
      /\ task[f].plan \in Plan \cup {NoPlan} /\ task[f].until \in Date \cup {NoDate}
      /\ task[f].user \in User \cup {NoUser}
    BY Running DEF SetCancelled
<1>1. DocsOK'
    <2>1. PeriodEnded(f) \in BOOLEAN
        BY DEF PeriodEnded, Over
    <2> QED
        BY <1>0, <2>1 DEF SetCancelled, DocsOK, Status
<1>2. FlowsOK'
    BY <1>0, PlainTypes, ReturnTypes DEF SetCancelled, Plain
<1>3. UsersOK' /\ PayPalOK' /\ InboxOK' /\ CountsOK'
    BY DEF SetCancelled, UsersOK, userVars, PayPalOK, ppVars, InboxOK, CountsOK
<1> QED
    BY <1>1, <1>2, <1>3

LEMMA ExpireFlagTypes ==
    ASSUME TypeInv, NEW f \in Flow, ExpireFlag(f)
    PROVE  TypeInv'
<1> USE DEF TypeInv
<1>0. /\ pc[f] # "idle" /\ The(f) \in Sub /\ task[f] \in Task
      /\ task[f].plan \in Plan \cup {NoPlan} /\ task[f].until \in Date \cup {NoDate}
      /\ task[f].user \in User \cup {NoUser}
    BY Running DEF ExpireFlag
<1>1. DocsOK'
    BY <1>0 DEF ExpireFlag, DocsOK
<1>2. FlowsOK'
    BY <1>0, PlainTypes, ReturnTypes, DocTypes DEF ExpireFlag, Plain
<1>3. CountsOK'
    BY <1>0 DEF ExpireFlag, CountsOK, EndIs, Slip
<1>4. UsersOK' /\ PayPalOK' /\ InboxOK'
    BY DEF ExpireFlag, UsersOK, userVars, PayPalOK, ppVars, InboxOK
<1> QED
    BY <1>1, <1>2, <1>3, <1>4

LEMMA ExpireLoadTypes ==
    ASSUME TypeInv, NEW f \in Flow, ExpireLoad(f)
    PROVE  TypeInv'
<1> USE DEF TypeInv
<1>0. /\ pc[f] # "idle" /\ The(f) \in Sub /\ task[f] \in Task
      /\ task[f].plan \in Plan \cup {NoPlan} /\ task[f].until \in Date \cup {NoDate}
      /\ task[f].user \in User \cup {NoUser}
    BY Running DEF ExpireLoad
<1>1. FlowsOK'
    <2>1. CASE doc[f].owner \in Registered
        BY <1>0, <2>1, RegisteredAssumption DEF ExpireLoad, FlowsOK, UsersOK, ReadsOK, DocSteps,
           Step
    <2>2. CASE doc[f].owner \notin Registered
        BY <2>2, ReturnTypes DEF ExpireLoad
    <2> QED
        BY <2>1, <2>2
<1>2. DocsOK' /\ UsersOK' /\ PayPalOK' /\ InboxOK' /\ CountsOK'
    BY DEF ExpireLoad, DocsOK, subVars, UsersOK, userVars, PayPalOK, ppVars, InboxOK, CountsOK
<1> QED
    BY <1>1, <1>2

LEMMA ExpireSaveTypes ==
    ASSUME TypeInv, NEW f \in Flow, ExpireSave(f)
    PROVE  TypeInv'
<1> USE DEF TypeInv
<1>0. /\ pc[f] # "idle" /\ The(f) \in Sub /\ task[f] \in Task
      /\ task[f].plan \in Plan \cup {NoPlan} /\ task[f].until \in Date \cup {NoDate}
      /\ task[f].user \in User \cup {NoUser}
    BY Running DEF ExpireSave
<1>1. UsersOK'
    BY DEF ExpireSave, UsersOK
<1>2. FlowsOK'
    BY ReturnTypes DEF ExpireSave
<1>3. DocsOK' /\ PayPalOK' /\ InboxOK' /\ CountsOK'
    BY DEF ExpireSave, DocsOK, subVars, PayPalOK, ppVars, InboxOK, CountsOK
<1> QED
    BY <1>1, <1>2, <1>3

LEMMA SuspendTypes ==
    ASSUME TypeInv, NEW f \in Flow, Suspend(f)
    PROVE  TypeInv'
<1> USE DEF TypeInv
<1>0. /\ pc[f] # "idle" /\ The(f) \in Sub /\ task[f] \in Task
      /\ task[f].plan \in Plan \cup {NoPlan} /\ task[f].until \in Date \cup {NoDate}
      /\ task[f].user \in User \cup {NoUser}
    BY Running DEF Suspend
<1>1. DocsOK'
    BY <1>0 DEF Suspend, DocsOK, Status
<1>2. FlowsOK'
    BY <1>0, PlainTypes, ReturnTypes, DocTypes DEF Suspend, Plain
<1>3. UsersOK' /\ PayPalOK' /\ InboxOK' /\ CountsOK'
    BY DEF Suspend, UsersOK, userVars, PayPalOK, ppVars, InboxOK, CountsOK
<1> QED
    BY <1>1, <1>2, <1>3

LEMMA DropProTypes ==
    ASSUME TypeInv, NEW f \in Flow, DropPro(f)
    PROVE  TypeInv'
<1> USE DEF TypeInv
<1>0. /\ pc[f] # "idle" /\ The(f) \in Sub /\ task[f] \in Task
      /\ task[f].plan \in Plan \cup {NoPlan} /\ task[f].until \in Date \cup {NoDate}
      /\ task[f].user \in User \cup {NoUser}
    BY Running DEF DropPro
<1>1. UsersOK'
    BY DEF DropPro, UsersOK
<1>2. FlowsOK'
    BY ReturnTypes DEF DropPro
<1>3. DocsOK' /\ PayPalOK' /\ InboxOK' /\ CountsOK'
    BY DEF DropPro, DocsOK, subVars, PayPalOK, ppVars, InboxOK, CountsOK
<1> QED
    BY <1>1, <1>2, <1>3

LEMMA AskPayPalToResumeTypes ==
    ASSUME TypeInv, NEW f \in Flow, AskPayPalToResume(f)
    PROVE  TypeInv'
<1> USE DEF TypeInv
<1>0. /\ pc[f] # "idle" /\ The(f) \in Sub /\ task[f] \in Task
      /\ task[f].plan \in Plan \cup {NoPlan} /\ task[f].until \in Date \cup {NoDate}
      /\ task[f].user \in User \cup {NoUser}
    BY Running DEF AskPayPalToResume
<1>1. FlowsOK'
    BY <1>0, PlainTypes, ReturnTypes DEF AskPayPalToResume, Plain
<1>2. DocsOK' /\ UsersOK' /\ PayPalOK' /\ InboxOK' /\ CountsOK'
    BY DEF AskPayPalToResume, DocsOK, subVars, UsersOK, userVars, PayPalOK, ppVars, InboxOK,
       CountsOK
<1> QED
    BY <1>1, <1>2

LEMMA ResumeTypes ==
    ASSUME TypeInv, NEW f \in Flow, Resume(f)
    PROVE  TypeInv'
<1> USE DEF TypeInv
<1>0. /\ pc[f] # "idle" /\ The(f) \in Sub /\ task[f] \in Task
      /\ task[f].plan \in Plan \cup {NoPlan} /\ task[f].until \in Date \cup {NoDate}
      /\ task[f].user \in User \cup {NoUser}
    BY Running DEF Resume
<1>1. DocsOK'
    BY <1>0 DEF Resume, DocsOK, Status
<1>2. FlowsOK'
    BY <1>0, PlainTypes, ReturnTypes, DocTypes DEF Resume, Plain
<1>3. UsersOK' /\ PayPalOK' /\ InboxOK' /\ CountsOK'
    BY DEF Resume, UsersOK, userVars, PayPalOK, ppVars, InboxOK, CountsOK
<1> QED
    BY <1>1, <1>2, <1>3

LEMMA RaiseProTypes ==
    ASSUME TypeInv, NEW f \in Flow, RaisePro(f)
    PROVE  TypeInv'
<1> USE DEF TypeInv
<1>0. /\ pc[f] # "idle" /\ The(f) \in Sub /\ task[f] \in Task
      /\ task[f].plan \in Plan \cup {NoPlan} /\ task[f].until \in Date \cup {NoDate}
      /\ task[f].user \in User \cup {NoUser}
    BY Running DEF RaisePro
<1>1. UsersOK'
    BY DEF RaisePro, UsersOK
<1>2. FlowsOK'
    BY ReturnTypes DEF RaisePro
<1>3. DocsOK' /\ PayPalOK' /\ InboxOK' /\ CountsOK'
    BY DEF RaisePro, DocsOK, subVars, PayPalOK, ppVars, InboxOK, CountsOK
<1> QED
    BY <1>1, <1>2, <1>3

LEMMA AttachTypes ==
    ASSUME TypeInv, NEW f \in Flow, Attach(f)
    PROVE  TypeInv'
<1> USE DEF TypeInv
<1>0. /\ pc[f] # "idle" /\ The(f) \in Sub /\ task[f] \in Task
      /\ task[f].plan \in Plan \cup {NoPlan} /\ task[f].until \in Date \cup {NoDate}
      /\ task[f].user \in User \cup {NoUser}
    BY Running DEF Attach
<1>1. DocsOK'
    BY <1>0 DEF Attach, DocsOK
<1>2. FlowsOK'
    BY <1>0, AfterAttachTypes, PlainTypes DEF Attach, Plain
<1>3. UsersOK' /\ PayPalOK' /\ InboxOK' /\ CountsOK'
    BY DEF Attach, UsersOK, userVars, PayPalOK, ppVars, InboxOK, CountsOK
<1> QED
    BY <1>1, <1>2, <1>3

LEMMA AttachReadTypes ==
    ASSUME TypeInv, NEW f \in Flow, AttachRead(f)
    PROVE  TypeInv'
<1> USE DEF TypeInv
<1>0. /\ pc[f] # "idle" /\ The(f) \in Sub /\ task[f] \in Task
      /\ task[f].plan \in Plan \cup {NoPlan} /\ task[f].until \in Date \cup {NoDate}
      /\ task[f].user \in User \cup {NoUser}
    BY Running DEF AttachRead
<1>1. FlowsOK'
    BY <1>0, PlainTypes, ReturnTypes DEF AttachRead, Plain
<1>2. DocsOK' /\ UsersOK' /\ PayPalOK' /\ InboxOK' /\ CountsOK'
    BY DEF AttachRead, DocsOK, subVars, UsersOK, userVars, PayPalOK, ppVars, InboxOK, CountsOK
<1> QED
    BY <1>1, <1>2

LEMMA AttachAskPayPalTypes ==
    ASSUME TypeInv, NEW f \in Flow, AttachAskPayPal(f)
    PROVE  TypeInv'
<1> USE DEF TypeInv
<1>0. /\ pc[f] # "idle" /\ The(f) \in Sub /\ task[f] \in Task
      /\ task[f].plan \in Plan \cup {NoPlan} /\ task[f].until \in Date \cup {NoDate}
      /\ task[f].user \in User \cup {NoUser}
    BY Running DEF AttachAskPayPal
<1>1. FlowsOK'
    <2>1. ReadsOK(pc[f], task[f], doc[f])
        BY <1>0 DEF FlowsOK
    <2>2. CASE ppStatus[The(f)] = Absent
        BY <2>2, ReturnTypes DEF AttachAskPayPal
    <2>3. CASE ppStatus[The(f)] # Absent
        <3>1. GotoWith(f, "attachUpsert", PayPalDoc(The(f)))
            BY <2>3 DEF AttachAskPayPal
        <3>2. PayPalDoc(The(f)).status \in Status
            BY <1>0, <2>3 DEF PayPalDoc, PayPalOK
        <3>3. PayPalDoc(The(f)) \in DocShape /\ ReadsOK("attachUpsert", task[f],
           PayPalDoc(The(f)))
            BY <1>0, <2>1, <3>2, DocTypes DEF ReadsOK, DocSteps
        <3> QED
            BY <1>0, <3>1, <3>3, GotoWithTypes DEF Step
    <2> QED
        BY <2>2, <2>3
<1>2. DocsOK' /\ UsersOK' /\ PayPalOK' /\ InboxOK' /\ CountsOK'
    BY DEF AttachAskPayPal, DocsOK, subVars, UsersOK, userVars, PayPalOK, ppVars, InboxOK,
       CountsOK
<1> QED
    BY <1>1, <1>2

LEMMA AttachUpsertTypes ==
    ASSUME TypeInv, NEW f \in Flow, AttachUpsert(f)
    PROVE  TypeInv'
<1> USE DEF TypeInv
<1>0. /\ pc[f] # "idle" /\ The(f) \in Sub /\ task[f] \in Task
      /\ task[f].plan \in Plan \cup {NoPlan} /\ task[f].until \in Date \cup {NoDate}
      /\ task[f].user \in User \cup {NoUser}
    BY Running DEF AttachUpsert
<1>1. DocsOK'
    <2>1. doc[f].status \in Status /\ doc[f].plan \in Plan \cup {NoPlan}
        BY <1>0 DEF AttachUpsert, FlowsOK, ReadsOK, DocSteps, DocShape
    <2> QED
        BY <1>0, <2>1 DEF AttachUpsert, DocsOK
<1>2. FlowsOK'
    BY <1>0, AfterAttachTypes DEF AttachUpsert
<1>3. CountsOK'
    BY <1>0 DEF AttachUpsert, CountsOK, Slip
<1>4. UsersOK' /\ PayPalOK' /\ InboxOK'
    BY DEF AttachUpsert, UsersOK, userVars, PayPalOK, ppVars, InboxOK
<1> QED
    BY <1>1, <1>2, <1>3, <1>4

LEMMA DispatchTypes ==
    ASSUME TypeInv, NEW f \in Flow, NEW e \in inbox, Dispatch(f, e)
    PROVE  TypeInv'
<1> USE DEF TypeInv
<1>1. e \in Task /\ e.kind \in EventKind
    BY DEF InboxOK
<1>2. /\ FirstCall(e.kind) \in Step /\ FirstCall(e.kind) # "idle"
      /\ \A d : ReadsOK(FirstCall(e.kind), e, d)
    BY <1>1 DEF FirstCall, EventKind, ReadsOK, DocSteps, StatusKind, Step
<1>3. FlowsOK'
    BY <1>1, <1>2, NoTaskAssumption DEF Dispatch, FlowsOK
<1>4. InboxOK'
    BY DEF Dispatch, InboxOK
<1>5. DocsOK' /\ UsersOK' /\ PayPalOK' /\ CountsOK'
    BY DEF Dispatch, DocsOK, subVars, UsersOK, userVars, PayPalOK, ppVars, CountsOK
<1> QED
    BY <1>3, <1>4, <1>5

LEMMA ReadUpdatedTypes ==
    ASSUME TypeInv, NEW f \in Flow, ReadUpdated(f)
    PROVE  TypeInv'
<1> USE DEF TypeInv
<1>0. /\ pc[f] # "idle" /\ The(f) \in Sub /\ task[f] \in Task
      /\ task[f].plan \in Plan \cup {NoPlan} /\ task[f].until \in Date \cup {NoDate}
      /\ task[f].user \in User \cup {NoUser}
    BY Running DEF ReadUpdated
<1>1. FlowsOK'
    BY <1>0, PlainTypes, ReturnTypes, DocTypes DEF ReadUpdated, Plain
<1>2. DocsOK' /\ UsersOK' /\ PayPalOK' /\ InboxOK' /\ CountsOK'
    BY DEF ReadUpdated, DocsOK, subVars, UsersOK, userVars, PayPalOK, ppVars, InboxOK, CountsOK
<1> QED
    BY <1>1, <1>2

LEMMA UpgradeTypes ==
    ASSUME TypeInv, NEW f \in Flow, Upgrade(f)
    PROVE  TypeInv'
<1> USE DEF TypeInv
<1>0. /\ pc[f] # "idle" /\ The(f) \in Sub /\ task[f] \in Task
      /\ task[f].plan \in Plan \cup {NoPlan} /\ task[f].until \in Date \cup {NoDate}
      /\ task[f].user \in User \cup {NoUser}
    BY Running DEF Upgrade
<1>1. DocsOK'
    BY <1>0 DEF Upgrade, DocsOK, WritePlan
<1>2. FlowsOK'
    BY <1>0, PlainTypes, ReturnTypes DEF Upgrade, Plain, AfterUpgrade
<1>3. UsersOK' /\ PayPalOK' /\ InboxOK' /\ CountsOK'
    BY DEF Upgrade, UsersOK, userVars, PayPalOK, ppVars, InboxOK, CountsOK
<1> QED
    BY <1>1, <1>2, <1>3

LEMMA ClearScheduledTypes ==
    ASSUME TypeInv, NEW f \in Flow, ClearScheduled(f)
    PROVE  TypeInv'
<1> USE DEF TypeInv
<1>0. /\ pc[f] # "idle" /\ The(f) \in Sub /\ task[f] \in Task
      /\ task[f].plan \in Plan \cup {NoPlan} /\ task[f].until \in Date \cup {NoDate}
      /\ task[f].user \in User \cup {NoUser}
    BY Running DEF ClearScheduled
<1>1. DocsOK'
    BY <1>0 DEF ClearScheduled, DocsOK
<1>2. FlowsOK'
    BY <1>0, PlainTypes, ReturnTypes DEF ClearScheduled, Plain, AfterUpgrade
<1>3. UsersOK' /\ PayPalOK' /\ InboxOK' /\ CountsOK'
    BY DEF ClearScheduled, UsersOK, userVars, PayPalOK, ppVars, InboxOK, CountsOK
<1> QED
    BY <1>1, <1>2, <1>3

LEMMA ScheduleDowngradeTypes ==
    ASSUME TypeInv, NEW f \in Flow, ScheduleDowngrade(f)
    PROVE  TypeInv'
<1> USE DEF TypeInv
<1>0. /\ pc[f] # "idle" /\ The(f) \in Sub /\ task[f] \in Task
      /\ task[f].plan \in Plan \cup {NoPlan} /\ task[f].until \in Date \cup {NoDate}
      /\ task[f].user \in User \cup {NoUser}
    BY Running DEF ScheduleDowngrade
<1>1. DocsOK'
    BY <1>0 DEF ScheduleDowngrade, DocsOK
<1>2. FlowsOK'
    BY <1>0, PlainTypes, ReturnTypes DEF ScheduleDowngrade, Plain
<1>3. UsersOK' /\ PayPalOK' /\ InboxOK' /\ CountsOK'
    BY DEF ScheduleDowngrade, UsersOK, userVars, PayPalOK, ppVars, InboxOK, CountsOK
<1> QED
    BY <1>1, <1>2, <1>3

LEMMA BeginPassTypes ==
    ASSUME TypeInv, NEW f \in Flow, NEW kind \in TaskKind, NEW s \in Sub, NEW step \in Step,
           NEW d \in DocShape \cup {None}, step # "idle",
           \A t : t.id = 0 => ReadsOK(step, t, d), BeginPass(f, kind, s, step, d)
    PROVE  TypeInv'
<1> USE DEF TypeInv
<1> DEFINE t == [kind |-> kind, sub |-> s, plan |-> NoPlan, until |-> NoDate,
                 user |-> NoUser, id |-> 0]
<1>1. t \in Task /\ t.id = 0
    BY CountAssumption DEF Task
<1>2. FlowsOK'
    <2>1. /\ task' = [task EXCEPT ![f] = t] /\ pc' = [pc EXCEPT ![f] = step]
          /\ doc' = [doc EXCEPT ![f] = d] /\ pro' = pro
        BY DEF BeginPass
    <2>2. ReadsOK(step, t, d)
        BY <1>1
    <2> QED
        BY <1>1, <2>1, <2>2, NoTaskAssumption DEF FlowsOK
<1>3. DocsOK' /\ UsersOK' /\ PayPalOK' /\ InboxOK' /\ CountsOK'
    BY DEF BeginPass, DocsOK, subVars, UsersOK, userVars, PayPalOK, ppVars, InboxOK, CountsOK
<1> QED
    BY <1>2, <1>3

LEMMA FindDeferredTypes ==
    ASSUME TypeInv, NEW f \in Flow, NEW s \in Sub, FindDeferred(f, s)
    PROVE  TypeInv'
<1>1. BeginPass(f, "cronDeferred", s, "takeDeferred", Doc(s)) /\ "cronDeferred" \in TaskKind
    BY DEF FindDeferred, TaskKind
<1>2. Doc(s) \in DocShape \cup {None}
    BY DocTypes DEF TypeInv
<1>3. \A t : t.id = 0 => ReadsOK("takeDeferred", t, Doc(s))
    BY DEF ReadsOK, DocSteps
<1> QED
    BY <1>1, <1>2, <1>3, BeginPassTypes DEF Step

LEMMA FindDowngradeTypes ==
    ASSUME TypeInv, NEW f \in Flow, NEW s \in Sub, FindDowngrade(f, s)
    PROVE  TypeInv'
<1>1. BeginPass(f, "cronDowngrade", s, "takeDowngrade", Doc(s)) /\ "cronDowngrade" \in TaskKind
    BY DEF FindDowngrade, TaskKind
<1>2. Doc(s) \in DocShape \cup {None}
    BY DocTypes DEF TypeInv
<1>3. \A t : t.id = 0 => ReadsOK("takeDowngrade", t, Doc(s))
    <2>1. Doc(s).scheduled \in Plan /\ Doc(s) \in DocShape
        BY DocTypes DEF FindDowngrade, TypeInv, DocsOK, Doc
    <2> QED
        BY <2>1 DEF ReadsOK, DocSteps
<1> QED
    BY <1>1, <1>2, <1>3, BeginPassTypes DEF Step

LEMMA FindToVerifyTypes ==
    ASSUME TypeInv, NEW f \in Flow, NEW s \in Sub, FindToVerify(f, s)
    PROVE  TypeInv'
<1>1. BeginPass(f, "cronVerify", s, "verify", None) /\ "cronVerify" \in TaskKind
    BY DEF FindToVerify, TaskKind
<1>2. None \in DocShape \cup {None}
    BY DocTypes DEF TypeInv
<1>3. \A t : t.id = 0 => ReadsOK("verify", t, None)
    BY DEF ReadsOK, DocSteps
<1> QED
    BY <1>1, <1>2, <1>3, BeginPassTypes DEF Step

LEMMA FindOrphanTypes ==
    ASSUME TypeInv, NEW f \in Flow, NEW s \in Sub, FindOrphan(f, s)
    PROVE  TypeInv'
<1>1. BeginPass(f, "cronOrphan", s, "heal", None) /\ "cronOrphan" \in TaskKind
    BY DEF FindOrphan, TaskKind
<1>2. None \in DocShape \cup {None}
    BY DocTypes DEF TypeInv
<1>3. \A t : t.id = 0 => ReadsOK("heal", t, None)
    BY DEF ReadsOK, DocSteps
<1> QED
    BY <1>1, <1>2, <1>3, BeginPassTypes DEF Step

LEMMA TakeDeferredTypes ==
    ASSUME TypeInv, NEW f \in Flow, TakeDeferred(f)
    PROVE  TypeInv'
<1> USE DEF TypeInv
<1>0. /\ pc[f] # "idle" /\ The(f) \in Sub /\ task[f] \in Task
      /\ task[f].plan \in Plan \cup {NoPlan} /\ task[f].until \in Date \cup {NoDate}
      /\ task[f].user \in User \cup {NoUser}
    BY Running DEF TakeDeferred
<1>1. DocsOK'
    BY <1>0 DEF TakeDeferred, DocsOK
<1>2. FlowsOK'
    BY <1>0, PlainTypes, ReturnTypes DEF TakeDeferred, Plain
<1>3. UsersOK' /\ PayPalOK' /\ InboxOK' /\ CountsOK'
    BY DEF TakeDeferred, UsersOK, userVars, PayPalOK, ppVars, InboxOK, CountsOK
<1> QED
    BY <1>1, <1>2, <1>3

LEMMA TakeDowngradeTypes ==
    ASSUME TypeInv, NEW f \in Flow, TakeDowngrade(f)
    PROVE  TypeInv'
<1> USE DEF TypeInv
<1>0. /\ pc[f] # "idle" /\ The(f) \in Sub /\ task[f] \in Task
      /\ task[f].plan \in Plan \cup {NoPlan} /\ task[f].until \in Date \cup {NoDate}
      /\ task[f].user \in User \cup {NoUser}
    BY Running DEF TakeDowngrade
<1>1. DocsOK'
    <2>1. doc[f].scheduled \in Plan
        BY <1>0 DEF TakeDowngrade, FlowsOK, ReadsOK
    <2> QED
        BY <1>0, <2>1 DEF TakeDowngrade, DocsOK
<1>2. FlowsOK'
    <2>1. ReadsOK("copyFeatures", task[f], doc[f])
        BY <1>0 DEF TakeDowngrade, FlowsOK, ReadsOK, DocSteps
    <2> QED
        BY <1>0, <2>1, GotoTypes, ReturnTypes DEF TakeDowngrade, Step
<1>3. UsersOK' /\ PayPalOK' /\ InboxOK' /\ CountsOK'
    BY DEF TakeDowngrade, UsersOK, userVars, PayPalOK, ppVars, InboxOK, CountsOK
<1> QED
    BY <1>1, <1>2, <1>3

LEMMA CopyFeaturesTypes ==
    ASSUME TypeInv, NEW f \in Flow, CopyFeatures(f)
    PROVE  TypeInv'
<1> USE DEF TypeInv
<1>0. /\ pc[f] # "idle" /\ The(f) \in Sub /\ task[f] \in Task
      /\ task[f].plan \in Plan \cup {NoPlan} /\ task[f].until \in Date \cup {NoDate}
      /\ task[f].user \in User \cup {NoUser}
    BY Running DEF CopyFeatures
<1>1. UsersOK'
    <2>1. doc[f].scheduled \in Plan
        BY <1>0 DEF CopyFeatures, FlowsOK, ReadsOK
    <2>2. [sub |-> The(f), plan |-> doc[f].scheduled] \in Features
        BY <1>0, <2>1 DEF Features
    <2> QED
        BY <2>2 DEF CopyFeatures, UsersOK
<1>2. FlowsOK'
    BY <1>0, PlainTypes, ReturnTypes DEF CopyFeatures, Plain
<1>3. DocsOK' /\ PayPalOK' /\ InboxOK' /\ CountsOK'
    BY DEF CopyFeatures, DocsOK, subVars, PayPalOK, ppVars, InboxOK, CountsOK
<1> QED
    BY <1>1, <1>2, <1>3

LEMMA MarkAppliedTypes ==
    ASSUME TypeInv, NEW f \in Flow, MarkApplied(f)
    PROVE  TypeInv'
<1> USE DEF TypeInv
<1>0. /\ pc[f] # "idle" /\ The(f) \in Sub /\ task[f] \in Task
      /\ task[f].plan \in Plan \cup {NoPlan} /\ task[f].until \in Date \cup {NoDate}
      /\ task[f].user \in User \cup {NoUser}
    BY Running DEF MarkApplied
<1>1. DocsOK'
    BY <1>0 DEF MarkApplied, DocsOK
<1>2. FlowsOK'
    BY ReturnTypes DEF MarkApplied
<1>3. UsersOK' /\ PayPalOK' /\ InboxOK' /\ CountsOK'
    BY DEF MarkApplied, UsersOK, userVars, PayPalOK, ppVars, InboxOK, CountsOK
<1> QED
    BY <1>1, <1>2, <1>3

LEMMA VerifyWithPayPalTypes ==
    ASSUME TypeInv, NEW f \in Flow, VerifyWithPayPal(f)
    PROVE  TypeInv'
<1> USE DEF TypeInv
<1>0. /\ pc[f] # "idle" /\ The(f) \in Sub /\ task[f] \in Task
      /\ task[f].plan \in Plan \cup {NoPlan} /\ task[f].until \in Date \cup {NoDate}
      /\ task[f].user \in User \cup {NoUser}
    BY Running DEF VerifyWithPayPal
<1>1. FlowsOK'
    <2>1. ReadsOK(pc[f], task[f], doc[f])
        BY <1>0 DEF FlowsOK
    <2>2. CASE ppStatus[The(f)] \in FinalStatus
        <3>1. GotoWith(f, "correct", PayPalDoc(The(f)))
            BY <2>2 DEF VerifyWithPayPal
        <3>2. PayPalDoc(The(f)).status \in Status
            BY <2>2 DEF PayPalDoc, FinalStatus, Status
        <3>3. PayPalDoc(The(f)) \in DocShape /\ ReadsOK("correct", task[f], PayPalDoc(The(f)))
            BY <1>0, <2>1, <3>2, DocTypes DEF ReadsOK, DocSteps
        <3> QED
            BY <1>0, <3>1, <3>3, GotoWithTypes DEF Step
    <2>3. CASE ppStatus[The(f)] \notin FinalStatus
        BY <2>3, ReturnTypes DEF VerifyWithPayPal
    <2> QED
        BY <2>2, <2>3
<1>2. DocsOK' /\ UsersOK' /\ PayPalOK' /\ InboxOK' /\ CountsOK'
    BY DEF VerifyWithPayPal, DocsOK, subVars, UsersOK, userVars, PayPalOK, ppVars, InboxOK,
       CountsOK
<1> QED
    BY <1>1, <1>2

LEMMA CorrectStatusTypes ==
    ASSUME TypeInv, NEW f \in Flow, CorrectStatus(f)
    PROVE  TypeInv'
<1> USE DEF TypeInv
<1>0. /\ pc[f] # "idle" /\ The(f) \in Sub /\ task[f] \in Task
      /\ task[f].plan \in Plan \cup {NoPlan} /\ task[f].until \in Date \cup {NoDate}
      /\ task[f].user \in User \cup {NoUser}
    BY Running DEF CorrectStatus
<1>1. DocsOK'
    <2>1. doc[f].status \in Status
        BY <1>0 DEF CorrectStatus, FlowsOK, ReadsOK
    <2> QED
        BY <1>0, <2>1 DEF CorrectStatus, DocsOK
<1>2. FlowsOK'
    BY ReturnTypes DEF CorrectStatus
<1>3. CountsOK'
    BY <1>0 DEF CorrectStatus, CountsOK, Slip
<1>4. UsersOK' /\ PayPalOK' /\ InboxOK'
    BY DEF CorrectStatus, UsersOK, userVars, PayPalOK, ppVars, InboxOK
<1> QED
    BY <1>1, <1>2, <1>3, <1>4

LEMMA HealTypes ==
    ASSUME TypeInv, NEW f \in Flow, Heal(f)
    PROVE  TypeInv'
<1> USE DEF TypeInv
<1>0. /\ pc[f] # "idle" /\ The(f) \in Sub /\ task[f] \in Task
      /\ task[f].plan \in Plan \cup {NoPlan} /\ task[f].until \in Date \cup {NoDate}
      /\ task[f].user \in User \cup {NoUser}
    BY Running DEF Heal
<1>1. DocsOK'
    BY <1>0 DEF Heal, DocsOK, PayPalOK
<1>2. FlowsOK'
    BY ReturnTypes DEF Heal
<1>3. UsersOK' /\ PayPalOK' /\ InboxOK' /\ CountsOK'
    BY DEF Heal, UsersOK, userVars, PayPalOK, ppVars, InboxOK, CountsOK
<1> QED
    BY <1>1, <1>2, <1>3

LEMMA ReportTypes ==
    ASSUME TypeInv, NEW s \in Sub, NEW kind \in EventKind, Report(s, kind),
           ppPlan' \in [Sub -> Plan \cup {NoPlan}], ppUntil' \in [Sub -> Date \cup {NoDate}]
    PROVE  sent' \in 0..MaxEvents /\ past' \in [Sub -> SUBSET EventKind] /\ InboxOK'
<1> USE DEF TypeInv
<1>1. sent' = sent + 1 /\ sent + 1 \in 0..MaxEvents /\ sent + 1 > 0
    BY CountAssumption DEF Report, PayPalOK
<1>2. past' \in [Sub -> SUBSET EventKind]
    BY DEF Report, PayPalOK
<1>3. InboxOK'
    <2> DEFINE sale == kind \in {"SALE_COMPLETED", "SALE_REFUNDED"}
               e == [kind |-> kind, sub |-> s, user |-> NoUser, id |-> sent + 1,
                     plan |-> IF sale THEN NoPlan ELSE ppPlan'[s],
                     until |-> IF sale THEN NoDate ELSE ppUntil'[s]]
    <2>1. inbox' = inbox \cup {e}
        BY DEF Report
    <2>2. e \in Task /\ e.kind \in EventKind /\ e.id > 0
        BY <1>1 DEF Task
    <2> HIDE DEF e
    <2> QED
        BY <2>1, <2>2 DEF InboxOK
<1> QED
    BY <1>1, <1>2, <1>3

LEMMA PayPalCreatesTypes ==
    ASSUME TypeInv, NEW s \in Sub, NEW u \in User \cup {NoUser}, NEW p \in Plan,
       PayPalCreates(s, u, p)
    PROVE  TypeInv'
<1> USE DEF TypeInv
<1>1. /\ ppStatus' \in [Sub -> Status \cup {Absent}] /\ ppPlan' \in [Sub -> Plan \cup {NoPlan}]
      /\ ppUntil' \in [Sub -> Date \cup {NoDate}] /\ ppCustom' \in [Sub -> User \cup {NoUser}]
    BY DEF PayPalCreates, PayPalOK, Status
<1>2. sent' \in 0..MaxEvents /\ past' \in [Sub -> SUBSET EventKind] /\ InboxOK'
    BY <1>1, ReportTypes DEF PayPalCreates, EventKind, PayPalOK, InboxOK
<1>3. PayPalOK'
    BY <1>1, <1>2 DEF PayPalOK
<1>4. DocsOK' /\ UsersOK' /\ FlowsOK' /\ CountsOK'
    BY DEF PayPalCreates, elsewhere, DocsOK, subVars, UsersOK, userVars, FlowsOK, flowVars,
       CountsOK
<1> QED
    BY <1>2, <1>3, <1>4

LEMMA PayPalActivatesTypes ==
    ASSUME TypeInv, NEW s \in Sub, PayPalActivates(s)
    PROVE  TypeInv'
<1> USE DEF TypeInv
<1>1. /\ ppStatus' \in [Sub -> Status \cup {Absent}] /\ ppPlan' \in [Sub -> Plan \cup {NoPlan}]
      /\ ppUntil' \in [Sub -> Date \cup {NoDate}] /\ ppCustom' \in [Sub -> User \cup {NoUser}]
    BY DateAssumption DEF PayPalActivates, PayPalOK, Status, Date, CountsOK
<1>2. sent' \in 0..MaxEvents /\ past' \in [Sub -> SUBSET EventKind] /\ InboxOK'
    BY <1>1, ReportTypes DEF PayPalActivates, EventKind
<1>3. PayPalOK'
    BY <1>1, <1>2 DEF PayPalOK
<1>4. DocsOK' /\ UsersOK' /\ FlowsOK' /\ CountsOK'
    BY DEF PayPalActivates, elsewhere, DocsOK, subVars, UsersOK, userVars, FlowsOK, flowVars,
       CountsOK
<1> QED
    BY <1>2, <1>3, <1>4

LEMMA PayPalReportsPaymentTypes ==
    ASSUME TypeInv, NEW s \in Sub, PayPalReportsPayment(s)
    PROVE  TypeInv'
<1> USE DEF TypeInv
<1>1. /\ ppStatus' \in [Sub -> Status \cup {Absent}] /\ ppPlan' \in [Sub -> Plan \cup {NoPlan}]
      /\ ppUntil' \in [Sub -> Date \cup {NoDate}] /\ ppCustom' \in [Sub -> User \cup {NoUser}]
    BY DEF PayPalReportsPayment, PayPalOK, Status
<1>2. sent' \in 0..MaxEvents /\ past' \in [Sub -> SUBSET EventKind] /\ InboxOK'
    BY <1>1, ReportTypes DEF PayPalReportsPayment, EventKind
<1>3. PayPalOK'
    BY <1>1, <1>2 DEF PayPalOK
<1>4. DocsOK' /\ UsersOK' /\ FlowsOK' /\ CountsOK'
    BY DEF PayPalReportsPayment, elsewhere, DocsOK, subVars, UsersOK, userVars, FlowsOK,
       flowVars, CountsOK
<1> QED
    BY <1>2, <1>3, <1>4

LEMMA PayPalRenewsTypes ==
    ASSUME TypeInv, NEW s \in Sub, NEW kind \in {"SALE_COMPLETED", "RENEWED"}, PayPalRenews(s,
       kind)
    PROVE  TypeInv'
<1> USE DEF TypeInv
<1>1. /\ ppStatus' \in [Sub -> Status \cup {Absent}] /\ ppPlan' \in [Sub -> Plan \cup {NoPlan}]
      /\ ppUntil' \in [Sub -> Date \cup {NoDate}] /\ ppCustom' \in [Sub -> User \cup {NoUser}]
    BY DateAssumption DEF PayPalRenews, PayPalOK, Status, Date, CountsOK
<1>2. sent' \in 0..MaxEvents /\ past' \in [Sub -> SUBSET EventKind] /\ InboxOK'
    BY <1>1, ReportTypes DEF PayPalRenews, EventKind
<1>3. PayPalOK'
    BY <1>1, <1>2 DEF PayPalOK
<1>4. DocsOK' /\ UsersOK' /\ FlowsOK' /\ CountsOK'
    BY DEF PayPalRenews, elsewhere, DocsOK, subVars, UsersOK, userVars, FlowsOK, flowVars,
       CountsOK
<1> QED
    BY <1>2, <1>3, <1>4

LEMMA PayPalRevisesTypes ==
    ASSUME TypeInv, NEW s \in Sub, NEW p \in Plan, PayPalRevises(s, p)
    PROVE  TypeInv'
<1> USE DEF TypeInv
<1>1. /\ ppStatus' \in [Sub -> Status \cup {Absent}] /\ ppPlan' \in [Sub -> Plan \cup {NoPlan}]
      /\ ppUntil' \in [Sub -> Date \cup {NoDate}] /\ ppCustom' \in [Sub -> User \cup {NoUser}]
    BY DEF PayPalRevises, PayPalOK, Status
<1>2. sent' \in 0..MaxEvents /\ past' \in [Sub -> SUBSET EventKind] /\ InboxOK'
    BY <1>1, ReportTypes DEF PayPalRevises, EventKind
<1>3. PayPalOK'
    BY <1>1, <1>2 DEF PayPalOK
<1>4. DocsOK' /\ UsersOK' /\ FlowsOK' /\ CountsOK'
    BY DEF PayPalRevises, elsewhere, DocsOK, subVars, UsersOK, userVars, FlowsOK, flowVars,
       CountsOK
<1> QED
    BY <1>2, <1>3, <1>4

LEMMA PayPalMovesToTypes ==
    ASSUME TypeInv, NEW s \in Sub, NEW m \in PayPalMoves, PayPalMovesTo(s, m)
    PROVE  TypeInv'
<1> USE DEF TypeInv
<1>1. /\ ppStatus' \in [Sub -> Status \cup {Absent}] /\ ppPlan' \in [Sub -> Plan \cup {NoPlan}]
      /\ ppUntil' \in [Sub -> Date \cup {NoDate}] /\ ppCustom' \in [Sub -> User \cup {NoUser}]
    BY DEF PayPalMovesTo, PayPalOK, Status, PayPalMoves
<1>2. sent' \in 0..MaxEvents /\ past' \in [Sub -> SUBSET EventKind] /\ InboxOK'
    BY <1>1, ReportTypes DEF PayPalMovesTo, PayPalMoves, EventKind
<1>3. PayPalOK'
    BY <1>1, <1>2 DEF PayPalOK
<1>4. DocsOK' /\ UsersOK' /\ FlowsOK' /\ CountsOK'
    BY DEF PayPalMovesTo, elsewhere, DocsOK, subVars, UsersOK, userVars, FlowsOK, flowVars,
       CountsOK
<1> QED
    BY <1>2, <1>3, <1>4

LEMMA PayPalRefundsTypes ==
    ASSUME TypeInv, NEW s \in Sub, PayPalRefunds(s)
    PROVE  TypeInv'
<1> USE DEF TypeInv
<1>1. /\ ppStatus' \in [Sub -> Status \cup {Absent}] /\ ppPlan' \in [Sub -> Plan \cup {NoPlan}]
      /\ ppUntil' \in [Sub -> Date \cup {NoDate}] /\ ppCustom' \in [Sub -> User \cup {NoUser}]
    BY DEF PayPalRefunds, PayPalOK, Status
<1>2. sent' \in 0..MaxEvents /\ past' \in [Sub -> SUBSET EventKind] /\ InboxOK'
    BY <1>1, ReportTypes DEF PayPalRefunds, EventKind
<1>3. PayPalOK'
    BY <1>1, <1>2 DEF PayPalOK
<1>4. DocsOK' /\ UsersOK' /\ FlowsOK' /\ CountsOK'
    BY DEF PayPalRefunds, elsewhere, DocsOK, subVars, UsersOK, userVars, FlowsOK, flowVars,
       CountsOK
<1> QED
    BY <1>2, <1>3, <1>4

LEMMA RequestAttachTypes ==
    ASSUME TypeInv, NEW f \in Flow, NEW s \in Sub, NEW u \in User, RequestAttach(f, s, u)
    PROVE  TypeInv'
<1> USE DEF TypeInv
<1> DEFINE t == [kind |-> "attach", sub |-> s, plan |-> NoPlan, until |-> NoDate,
                 user |-> u, id |-> 0]
<1>1. t \in Task /\ t.id = 0
    BY CountAssumption DEF Task, TaskKind
<1>2. FlowsOK'
    <2>1. /\ task' = [task EXCEPT ![f] = t] /\ pc' = [pc EXCEPT ![f] = "attach"]
          /\ doc' = doc /\ pro' = pro
        BY DEF RequestAttach
    <2>2. ReadsOK("attach", t, doc[f])
        BY <1>1 DEF ReadsOK, DocSteps
    <2> QED
        BY <1>1, <2>1, <2>2, NoTaskAssumption DEF FlowsOK, Step
<1>3. CountsOK'
    BY CountAssumption DEF RequestAttach, CountsOK
<1>4. DocsOK' /\ UsersOK' /\ PayPalOK' /\ InboxOK'
    BY DEF RequestAttach, DocsOK, subVars, UsersOK, userVars, PayPalOK, ppVars, InboxOK
<1> QED
    BY <1>2, <1>3, <1>4

LEMMA PreRegisterTypes ==
    ASSUME TypeInv, NEW s \in Sub, PreRegister(s)
    PROVE  TypeInv'
<1> USE DEF TypeInv
<1>1. DocsOK'
    BY DEF PreRegister, DocsOK, PayPalOK, Status
<1>2. UsersOK' /\ PayPalOK' /\ InboxOK' /\ FlowsOK' /\ CountsOK'
    BY DEF PreRegister, UsersOK, userVars, PayPalOK, ppVars, InboxOK, FlowsOK, flowVars, CountsOK
<1> QED
    BY <1>1, <1>2

LEMMA CrashTypes ==
    ASSUME TypeInv, NEW f \in Flow, Crash(f)
    PROVE  TypeInv'
<1> USE DEF TypeInv
<1>0. /\ pc[f] # "idle" /\ The(f) \in Sub /\ task[f] \in Task
      /\ task[f].plan \in Plan \cup {NoPlan} /\ task[f].until \in Date \cup {NoDate}
      /\ task[f].user \in User \cup {NoUser}
    BY Running DEF Crash
<1>1. InboxOK'
    BY <1>0, GiveBackTypes DEF Crash
<1>2. FlowsOK'
    BY ReturnTypes DEF Crash
<1>3. CountsOK'
    <2>1. slips' \in [Sub -> SUBSET Slip]
        BY <1>0 DEF Crash, CountsOK, Slip
    <2> QED
        BY <2>1, FaultTypes DEF Crash, CountsOK
<1>4. DocsOK' /\ UsersOK' /\ PayPalOK'
    BY DEF Crash, DocsOK, subVars, UsersOK, userVars, PayPalOK, ppVars
<1> QED
    BY <1>1, <1>2, <1>3, <1>4

LEMMA StallTypes ==
    ASSUME TypeInv, NEW f \in Flow, Stall(f)
    PROVE  TypeInv'
<1> USE DEF TypeInv
<1>0. /\ pc[f] # "idle" /\ The(f) \in Sub /\ task[f] \in Task
      /\ task[f].plan \in Plan \cup {NoPlan} /\ task[f].until \in Date \cup {NoDate}
      /\ task[f].user \in User \cup {NoUser}
    BY Running DEF Stall
<1>1. InboxOK'
    BY <1>0, GiveBackTypes DEF Stall
<1>2. CountsOK'
    BY FaultTypes DEF Stall, CountsOK
<1>3. DocsOK' /\ UsersOK' /\ PayPalOK' /\ FlowsOK'
    BY DEF Stall, DocsOK, subVars, UsersOK, userVars, PayPalOK, ppVars, FlowsOK, flowVars
<1> QED
    BY <1>1, <1>2, <1>3

LEMMA TickTypes ==
    ASSUME TypeInv, Tick
    PROVE  TypeInv'
<1> USE DEF TypeInv
<1>1. CountsOK'
    BY DateAssumption DEF Tick, CountsOK
<1>2. DocsOK' /\ UsersOK' /\ PayPalOK' /\ InboxOK' /\ FlowsOK'
    BY DEF Tick, DocsOK, subVars, UsersOK, userVars, PayPalOK, ppVars, InboxOK, FlowsOK, flowVars
<1> QED
    BY <1>1, <1>2

LEMMA ServiceTypes ==
    ASSUME TypeInv, NEW f \in Flow, ServiceNext(f)
    PROVE  TypeInv'
    BY UpdateFromWebhookTypes, UpdateStatusTypes, CreateForStatusTypes, ClaimActivationTypes,
       LoadUserTypes, SaveUserTypes, RollbackTypes, ActivationErrorTypes, RollbackThrowTypes,
       SyncBillingDataTypes, GrabDowngradeTypes, SetGrabbedPlanTypes, ReadForCancelTypes,
       SetCancelledTypes, ExpireFlagTypes, ExpireLoadTypes, ExpireSaveTypes, SuspendTypes,
       DropProTypes, AskPayPalToResumeTypes, ResumeTypes, RaiseProTypes, AttachTypes,
       AttachReadTypes, AttachAskPayPalTypes, AttachUpsertTypes
       DEF ServiceNext

LEMMA DispatchNextTypes ==
    ASSUME TypeInv, NEW f \in Flow, DispatchNext(f)
    PROVE  TypeInv'
    BY DispatchTypes, ReadUpdatedTypes, UpgradeTypes, ClearScheduledTypes,
       ScheduleDowngradeTypes
       DEF DispatchNext

LEMMA ReconciliationTypes ==
    ASSUME TypeInv, NEW f \in Flow, ReconciliationNext(f)
    PROVE  TypeInv'
    BY FindDeferredTypes, FindDowngradeTypes, FindToVerifyTypes, FindOrphanTypes,
       TakeDeferredTypes, TakeDowngradeTypes, CopyFeaturesTypes, MarkAppliedTypes,
       VerifyWithPayPalTypes, CorrectStatusTypes, HealTypes
       DEF ReconciliationNext

LEMMA PayPalNextTypes ==
    ASSUME TypeInv, PayPalNext
    PROVE  TypeInv'
    BY PayPalCreatesTypes, PayPalActivatesTypes, PayPalReportsPaymentTypes, PayPalRenewsTypes,
       PayPalRevisesTypes, PayPalMovesToTypes, PayPalRefundsTypes
       DEF PayPalNext, PayPalChanges

LEMMA NextTypes == TypeInv /\ [Next]_vars => TypeInv'
<1> SUFFICES ASSUME TypeInv, [Next]_vars PROVE TypeInv'
    OBVIOUS
<1>1. CASE PayPalNext
    BY <1>1, PayPalNextTypes
<1>2. ASSUME NEW s \in Sub, PreRegister(s) PROVE TypeInv'
    BY <1>2, PreRegisterTypes
<1>3. ASSUME NEW f \in Flow, FlowNext(f) PROVE TypeInv'
    BY <1>3, ServiceTypes, DispatchNextTypes, ReconciliationTypes, RequestAttachTypes,
       CrashTypes, StallTypes DEF FlowNext
<1>4. CASE Tick
    BY <1>4, TickTypes
<1>5. CASE UNCHANGED vars
    BY <1>5 DEF TypeInv, DocsOK, UsersOK, PayPalOK, InboxOK, FlowsOK, CountsOK, vars, subVars,
                userVars, ppVars, flowVars
<1> QED
    BY <1>1, <1>2, <1>3, <1>4, <1>5 DEF Next

\* The inductive invariant of the types: what each step relies on is there.
THEOREM TypesHold == Spec => []TypeInv
<1>1. Init => TypeInv
    BY InitTypes
<1>2. TypeInv /\ [Next]_vars => TypeInv'
    BY NextTypes
<1> QED
    BY <1>1, <1>2, PTL DEF Spec

\* The documents, PayPal, the events and every flow keep their types, and a
\* flow is idle exactly when it has no task, whatever is raced, lost or retried.
THEOREM LifecycleTypes == Spec => []TypeOK
<1>1. TypeInv => TypeOK
    BY DEF TypeInv, DocsOK, UsersOK, PayPalOK, InboxOK, FlowsOK, CountsOK, TypeOK
<1> QED
    BY <1>1, TypesHold, PTL
-----------------------------------------------------------------------------
(* One beneficiary.  Features are granted to the owner that the granting   *)
(* flow read; and an owner, once there, stays, unless attachUser's upsert  *)
(* takes the subscription over.                                            *)

Granting == {"loadUser", "saveUser", "takeDowngrade", "copyFeatures"}

TakenOver(s) == "takenOver" \in slips[s]

\* A document there is none of has no owner.
AbsentUnowned == \A s \in Sub : Present(s) \/ owner[s] = NoUser

\* The orphan cron works on documents.
HealsPresent == \A f \in Flow : pc[f] = "heal" => Present(The(f))

\* What a granting flow read is still so.
ReadsHold ==
    \A f \in Flow : pc[f] \in Granting /\ doc[f].owner # NoUser /\ ~TakenOver(The(f))
                        => owner[The(f)] = doc[f].owner

\* Who has the features of a subscription owns it.
GrantsHold ==
    \A u \in User : features[u] # None /\ ~TakenOver(features[u].sub)
                        => owner[features[u].sub] = u

OwnInv == AbsentUnowned /\ HealsPresent /\ ReadsHold /\ GrantsHold

\* What a step may do to owners, features and what flows have read.
OwnersKept ==
    \A s \in Sub : /\ owner'[s] = owner[s] \/ owner[s] = NoUser \/ TakenOver(s)'
                   /\ TakenOver(s) => TakenOver(s)'
                   /\ Present(s) => Present(s)'
                   /\ Present(s)' \/ owner'[s] = owner[s]

FeaturesGranted ==
    \A u \in User : \/ features'[u] = features[u]
                    \/ \E f \in Flow : /\ pc[f] \in {"saveUser", "copyFeatures"}
                                       /\ doc[f].owner = u
                                       /\ features'[u].sub = The(f)

ReadsKept ==
    \A f \in Flow :
        /\ pc'[f] \in Granting =>
              \/ pc[f] \in Granting /\ task'[f] = task[f] /\ doc'[f] = doc[f]
              \/ /\ task'[f].sub \in Sub /\ owner'[task'[f].sub] = owner[task'[f].sub]
                 /\ doc'[f].owner = owner[task'[f].sub]
        /\ pc'[f] = "heal" =>
              \/ pc[f] = "heal" /\ task'[f] = task[f]
              \/ task'[f].sub \in Sub /\ status'[task'[f].sub] # Absent

OwnStep == OwnersKept /\ FeaturesGranted /\ ReadsKept

LEMMA OwnStepKeeps ==
    ASSUME TypeInv, TypeInv', OwnInv, OwnStep
    PROVE  OwnInv'
<1>1. AbsentUnowned'
    BY DEF OwnInv, AbsentUnowned, OwnStep, OwnersKept
<1>2. HealsPresent'
    <2> SUFFICES ASSUME NEW f \in Flow, pc'[f] = "heal" PROVE status'[task'[f].sub] # Absent
        BY DEF HealsPresent, Present, The
    <2>1. CASE pc[f] = "heal" /\ task'[f] = task[f]
        <3>1. The(f) \in Sub /\ Present(The(f))
            BY <2>1, Running DEF TypeInv, OwnInv, HealsPresent
        <3> QED
            BY <2>1, <3>1 DEF OwnStep, OwnersKept, Present, The
    <2> QED
        BY <2>1 DEF OwnStep, ReadsKept
<1>3. ReadsHold'
    <2> SUFFICES ASSUME NEW f \in Flow, pc'[f] \in Granting, doc'[f].owner # NoUser,
                        ~TakenOver(The(f))'
                 PROVE  owner'[task'[f].sub] = doc'[f].owner
        BY DEF ReadsHold, The
    <2>1. CASE pc[f] \in Granting /\ task'[f] = task[f] /\ doc'[f] = doc[f]
        <3>1. pc[f] # "idle" /\ The(f) \in Sub
            BY <2>1, Running DEF TypeInv, Granting
        <3>2. ~TakenOver(The(f))
            BY <2>1, <3>1 DEF OwnStep, OwnersKept, The, TakenOver
        <3>3. owner[The(f)] = doc[f].owner
            BY <2>1, <3>2 DEF OwnInv, ReadsHold
        <3> QED
            BY <2>1, <3>1, <3>3 DEF OwnStep, OwnersKept, The, TakenOver
    <2>2. CASE ~(pc[f] \in Granting /\ task'[f] = task[f] /\ doc'[f] = doc[f])
        BY <2>2 DEF OwnStep, ReadsKept
    <2> QED
        BY <2>1, <2>2
<1>4. GrantsHold'
    <2> SUFFICES ASSUME NEW u \in User, features'[u] # None,
       "takenOver" \notin slips'[features'[u].sub]
                 PROVE  owner'[features'[u].sub] = u
        BY DEF GrantsHold, TakenOver
    <2> DEFINE s == features'[u].sub
    <2>1. s \in Sub
        BY DEF TypeInv, UsersOK, Features
    <2>2. ~TakenOver(s)
        BY <2>1 DEF OwnStep, OwnersKept, TakenOver
    <2>3. owner[s] = u
        <3>1. CASE features'[u] = features[u]
            BY <2>2, <3>1 DEF OwnInv, GrantsHold
        <3>2. ASSUME NEW f \in Flow, pc[f] \in {"saveUser", "copyFeatures"}, doc[f].owner = u,
                     features'[u].sub = The(f)
              PROVE  owner[s] = u
            BY <2>2, <3>2, NoneAssumption DEF OwnInv, ReadsHold, Granting
        <3> QED
            BY <3>1, <3>2 DEF OwnStep, FeaturesGranted
    <2> QED
        BY <2>1, <2>2, <2>3, NoneAssumption DEF OwnStep, OwnersKept, TakenOver
<1> QED
    BY <1>1, <1>2, <1>3, <1>4 DEF OwnInv

\* A step after which the flow grants nothing and heals nothing.
Away == Step \ (Granting \cup {"heal"})

GoesAway(f) == GoesTo(f, Away)

LEMMA ReadsAway ==
    ASSUME TypeInv, NEW f \in Flow, GoesAway(f)
    PROVE  ReadsKept
<1>1. \A g \in Flow \ {f} : pc'[g] = pc[g] /\ task'[g] = task[g] /\ doc'[g] = doc[g]
    BY DEF GoesAway, GoesTo, Return, Goto, GotoWith, TypeInv, FlowsOK
<1>2. pc'[f] \in Away
    BY DEF GoesAway, GoesTo, Return, Goto, GotoWith, TypeInv, FlowsOK, Away, Granting, Step
<1> QED
    BY <1>1, <1>2 DEF ReadsKept, Away

\* Most steps leave owners and features alone, and grant nothing next.
LEMMA AwayOwns ==
    ASSUME TypeInv, NEW f \in Flow, pc[f] # "idle", GoesAway(f), UNCHANGED <<owner, features>>,
           status' = status \/ \E st \in Status : status' = [status EXCEPT ![The(f)] = st],
           slips' = slips \/ \E more : slips' = [slips EXCEPT ![The(f)] = @ \cup more]
    PROVE  OwnStep
<1>1. The(f) \in Sub
    BY Running DEF TypeInv
<1>2. \A s \in Sub : (TakenOver(s) => TakenOver(s)') /\ (Present(s) => Present(s)')
    BY <1>1 DEF TypeInv, CountsOK, DocsOK, TakenOver, Present, Status, Absent
<1> QED
    BY <1>2, ReadsAway DEF OwnStep, OwnersKept, FeaturesGranted

LEMMA ServiceOwns ==
    ASSUME TypeInv, OwnInv, NEW f \in Flow, ServiceNext(f)
    PROVE  OwnStep
<1>1. CASE UpdateFromWebhook(f)
    <2>1. pc[f] # "idle" /\ GoesAway(f)
        BY <1>1 DEF UpdateFromWebhook, Goto, GotoWith, GoesAway, GoesTo, Away, Granting, Step
    <2> QED
        BY <1>1, <2>1, AwayOwns DEF UpdateFromWebhook, Status, subVars, userVars
<1>2. CASE UpdateStatus(f)
    <2>1. GoesAway(f)
        BY <1>2, AfterUpdateStatusGoes DEF UpdateStatus, TypeInv, Goto, GotoWith, GoesAway,
           GoesTo, Away, Granting, Step
    <2>2. status' = status \/ \E st \in Status : status' = [status EXCEPT ![The(f)] = st]
        BY <1>2 DEF UpdateStatus, WriteStatus, NewStatus, Status, subVars
    <2> QED
        BY <1>2, <2>1, <2>2, AwayOwns DEF UpdateStatus, WriteStatus, subVars, userVars
<1>3. CASE CreateForStatus(f)
    <2>1. GoesAway(f)
        BY <1>3, AfterUpdateStatusGoes DEF CreateForStatus, TypeInv, Goto, GotoWith, GoesAway,
           GoesTo, Away, Granting, Step
    <2>2. status' = status \/ \E st \in Status : status' = [status EXCEPT ![The(f)] = st]
        BY <1>3 DEF CreateForStatus, WriteStatus, NewStatus, Status, subVars
    <2> QED
        BY <1>3, <2>1, <2>2, AwayOwns DEF CreateForStatus, WriteStatus, subVars, userVars
<1>4. CASE ClaimActivation(f)
    <2>1. pc[f] # "idle" /\ The(f) \in Sub
        BY <1>4, Running DEF ClaimActivation, TypeInv
    <2>2. CASE Claimable(The(f))
        <3>1. GotoWith(f, "loadUser", Doc(The(f)))
            BY <1>4, <2>2 DEF ClaimActivation
        <3>2. ReadsKept
            BY <1>4, <2>1, <3>1 DEF ClaimActivation, GotoWith, ReadsKept, TypeInv, FlowsOK, Doc,
               The
        <3> QED
            BY <1>4, <3>2 DEF ClaimActivation, OwnStep, OwnersKept, FeaturesGranted, Present,
                              TakenOver, userVars
    <2>3. CASE ~Claimable(The(f))
        <3>1. GoesAway(f)
            BY <1>4, <2>3 DEF ClaimActivation, AfterActivation, Goto, GotoWith, GoesAway,
               GoesTo, Away, Granting, Step
        <3> QED
            BY <1>4, <2>1, <3>1, AwayOwns DEF ClaimActivation, userVars
    <2> QED
        BY <2>2, <2>3
<1>5. CASE LoadUser(f)
    <2>1. ReadsKept
        BY <1>5 DEF LoadUser, Goto, ReadsKept, TypeInv, FlowsOK, Granting
    <2> QED
        BY <1>5, <2>1 DEF LoadUser, OwnStep, OwnersKept, FeaturesGranted, Present, TakenOver,
                          subVars, userVars
<1>6. CASE SaveUser(f)
    <2>1. GoesAway(f) /\ pc[f] # "idle"
        BY <1>6 DEF SaveUser, AfterActivation, Goto, GotoWith, GoesAway, GoesTo, Away, Granting,
           Step
    <2>2. ReadsKept
        BY <2>1, ReadsAway
    <2>3. FeaturesGranted
        BY <1>6 DEF SaveUser, FeaturesGranted, TypeInv, UsersOK
    <2> QED
        BY <1>6, <2>2, <2>3 DEF SaveUser, OwnStep, OwnersKept, Present, TakenOver, subVars
<1>7. CASE Rollback(f)
    <2>1. pc[f] # "idle" /\ GoesAway(f)
        BY <1>7 DEF Rollback, AfterActivation, Goto, GotoWith, GoesAway, GoesTo, Away, Granting,
           Step
    <2> QED
        BY <1>7, <2>1, AwayOwns DEF Rollback, Status, subVars, userVars
<1>8. CASE ActivationError(f)
    <2>1. pc[f] # "idle" /\ GoesAway(f)
        BY <1>8 DEF ActivationError, Goto, GotoWith, GoesAway, GoesTo, Away, Granting, Step
    <2> QED
        BY <1>8, <2>1, AwayOwns DEF ActivationError, Status, subVars, userVars
<1>9. CASE RollbackThrow(f)
    <2>1. pc[f] # "idle" /\ GoesAway(f)
        BY <1>9 DEF RollbackThrow, Goto, GotoWith, GoesAway, GoesTo, Away, Granting, Step
    <2> QED
        BY <1>9, <2>1, AwayOwns DEF RollbackThrow, Status, subVars, userVars
<1>10. CASE SyncBillingData(f)
    <2>1. pc[f] # "idle" /\ GoesAway(f)
        BY <1>10 DEF SyncBillingData, Goto, GotoWith, GoesAway, GoesTo, Away, Granting, Step
    <2> QED
        BY <1>10, <2>1, AwayOwns DEF SyncBillingData, Status, subVars, userVars
<1>11. CASE GrabDowngrade(f)
    <2>1. pc[f] # "idle" /\ GoesAway(f)
        BY <1>11 DEF GrabDowngrade, Goto, GotoWith, GoesAway, GoesTo, Away, Granting, Step
    <2> QED
        BY <1>11, <2>1, AwayOwns DEF GrabDowngrade, Status, subVars, userVars
<1>12. CASE SetGrabbedPlan(f)
    <2>1. pc[f] # "idle" /\ GoesAway(f)
        BY <1>12 DEF SetGrabbedPlan, Goto, GotoWith, GoesAway, GoesTo, Away, Granting, Step
    <2> QED
        BY <1>12, <2>1, AwayOwns DEF SetGrabbedPlan, Status, subVars, userVars
<1>13. CASE ReadForCancel(f)
    <2>1. pc[f] # "idle" /\ GoesAway(f)
        BY <1>13 DEF ReadForCancel, Goto, GotoWith, GoesAway, GoesTo, Away, Granting, Step
    <2> QED
        BY <1>13, <2>1, AwayOwns DEF ReadForCancel, EndIs, Status, subVars, userVars
<1>14. CASE SetCancelled(f)
    <2>1. pc[f] # "idle" /\ GoesAway(f)
        BY <1>14 DEF SetCancelled, Goto, GotoWith, GoesAway, GoesTo, Away, Granting, Step
    <2> QED
        BY <1>14, <2>1, AwayOwns DEF SetCancelled, Status, subVars, userVars
<1>15. CASE ExpireFlag(f)
    <2>1. pc[f] # "idle" /\ GoesAway(f)
        BY <1>15 DEF ExpireFlag, Goto, GotoWith, GoesAway, GoesTo, Away, Granting, Step
    <2> QED
        BY <1>15, <2>1, AwayOwns DEF ExpireFlag, EndIs, Status, subVars, userVars
<1>16. CASE ExpireLoad(f)
    <2>1. pc[f] # "idle" /\ GoesAway(f)
        BY <1>16 DEF ExpireLoad, Goto, GotoWith, GoesAway, GoesTo, Away, Granting, Step
    <2> QED
        BY <1>16, <2>1, AwayOwns DEF ExpireLoad, Status, subVars, userVars
<1>17. CASE ExpireSave(f)
    <2>1. pc[f] # "idle" /\ GoesAway(f)
        BY <1>17 DEF ExpireSave, Goto, GotoWith, GoesAway, GoesTo, Away, Granting, Step
    <2> QED
        BY <1>17, <2>1, AwayOwns DEF ExpireSave, Status, subVars, userVars
<1>18. CASE Suspend(f)
    <2>1. pc[f] # "idle" /\ GoesAway(f)
        BY <1>18 DEF Suspend, Goto, GotoWith, GoesAway, GoesTo, Away, Granting, Step
    <2> QED
        BY <1>18, <2>1, AwayOwns DEF Suspend, Status, subVars, userVars
<1>19. CASE DropPro(f)
    <2>1. pc[f] # "idle" /\ GoesAway(f)
        BY <1>19 DEF DropPro, Goto, GotoWith, GoesAway, GoesTo, Away, Granting, Step
    <2> QED
        BY <1>19, <2>1, AwayOwns DEF DropPro, Status, subVars, userVars
<1>20. CASE AskPayPalToResume(f)
    <2>1. pc[f] # "idle" /\ GoesAway(f)
        BY <1>20 DEF AskPayPalToResume, Goto, GotoWith, GoesAway, GoesTo, Away, Granting, Step
    <2> QED
        BY <1>20, <2>1, AwayOwns DEF AskPayPalToResume, Status, subVars, userVars
<1>21. CASE Resume(f)
    <2>1. pc[f] # "idle" /\ GoesAway(f)
        BY <1>21 DEF Resume, Goto, GotoWith, GoesAway, GoesTo, Away, Granting, Step
    <2> QED
        BY <1>21, <2>1, AwayOwns DEF Resume, Status, subVars, userVars
<1>22. CASE RaisePro(f)
    <2>1. pc[f] # "idle" /\ GoesAway(f)
        BY <1>22 DEF RaisePro, Goto, GotoWith, GoesAway, GoesTo, Away, Granting, Step
    <2> QED
        BY <1>22, <2>1, AwayOwns DEF RaisePro, Status, subVars, userVars
<1>23. CASE Attach(f)
    <2>1. GoesAway(f) /\ pc[f] # "idle"
        BY <1>23 DEF Attach, AfterAttach, Goto, GoesAway, GoesTo, Away, Granting, Step
    <2>2. The(f) \in Sub
        BY <2>1, Running DEF TypeInv
    <2>3. OwnersKept
        BY <1>23, <2>2 DEF Attach, OwnersKept, Present, TakenOver, TypeInv, DocsOK
    <2> QED
        BY <1>23, <2>1, <2>3, ReadsAway DEF Attach, OwnStep, FeaturesGranted, userVars
<1>24. CASE AttachRead(f)
    <2>1. pc[f] # "idle" /\ GoesAway(f)
        BY <1>24 DEF AttachRead, Goto, GotoWith, GoesAway, GoesTo, Away, Granting, Step
    <2> QED
        BY <1>24, <2>1, AwayOwns DEF AttachRead, Status, subVars, userVars
<1>25. CASE AttachAskPayPal(f)
    <2>1. pc[f] # "idle" /\ GoesAway(f)
        BY <1>25 DEF AttachAskPayPal, Goto, GotoWith, GoesAway, GoesTo, Away, Granting, Step
    <2> QED
        BY <1>25, <2>1, AwayOwns DEF AttachAskPayPal, Status, subVars, userVars
<1>26. CASE AttachUpsert(f)
    <2>1. GoesAway(f) /\ pc[f] # "idle"
        BY <1>26 DEF AttachUpsert, AfterAttach, Goto, GoesAway, GoesTo, Away, Granting, Step
    <2>2. The(f) \in Sub /\ doc[f].status \in Status
        BY <1>26, <2>1, Running DEF AttachUpsert, TypeInv, FlowsOK, ReadsOK
    <2>3. OwnersKept
        BY <1>26, <2>2 DEF AttachUpsert, OwnersKept, Present, TakenOver, TypeInv, DocsOK,
           CountsOK,
                          Status, Absent
    <2> QED
        BY <1>26, <2>1, <2>3, ReadsAway DEF AttachUpsert, OwnStep, FeaturesGranted, userVars
<1> QED
    BY <1>1, <1>2, <1>3, <1>4, <1>5, <1>6, <1>7, <1>8, <1>9, <1>10, <1>11, <1>12, <1>13,
       <1>14, <1>15, <1>16, <1>17, <1>18, <1>19, <1>20, <1>21, <1>22, <1>23, <1>24,
       <1>25, <1>26 DEF ServiceNext

LEMMA DispatchOwns ==
    ASSUME TypeInv, OwnInv, NEW f \in Flow, DispatchNext(f)
    PROVE  OwnStep
<1>1. ASSUME NEW e \in inbox, Dispatch(f, e) PROVE OwnStep
    <2>1. FirstCall(e.kind) \in Away
        BY DEF TypeInv, InboxOK, FirstCall, EventKind, Away, Granting, Step
    <2>2. ReadsKept
        BY <1>1, <2>1 DEF Dispatch, ReadsKept, TypeInv, FlowsOK, Away
    <2> QED
        BY <1>1, <2>2 DEF Dispatch, OwnStep, OwnersKept, FeaturesGranted, Present, TakenOver,
                          subVars, userVars
<1>2. CASE ReadUpdated(f)
    <2>1. pc[f] # "idle" /\ GoesAway(f)
        BY <1>2 DEF ReadUpdated, Goto, GotoWith, GoesAway, GoesTo, Away, Granting, Step
    <2> QED
        BY <1>2, <2>1, AwayOwns DEF ReadUpdated, Status, subVars, userVars
<1>3. CASE Upgrade(f)
    <2>1. pc[f] # "idle" /\ GoesAway(f)
        BY <1>3 DEF Upgrade, AfterUpgrade, Goto, GotoWith, GoesAway, GoesTo, Away, Granting, Step
    <2> QED
        BY <1>3, <2>1, AwayOwns DEF Upgrade, Status, subVars, userVars
<1>4. CASE ClearScheduled(f)
    <2>1. pc[f] # "idle" /\ GoesAway(f)
        BY <1>4 DEF ClearScheduled, AfterUpgrade, Goto, GotoWith, GoesAway, GoesTo, Away,
           Granting, Step
    <2> QED
        BY <1>4, <2>1, AwayOwns DEF ClearScheduled, Status, subVars, userVars
<1>5. CASE ScheduleDowngrade(f)
    <2>1. pc[f] # "idle" /\ GoesAway(f)
        BY <1>5 DEF ScheduleDowngrade, Goto, GotoWith, GoesAway, GoesTo, Away, Granting, Step
    <2> QED
        BY <1>5, <2>1, AwayOwns DEF ScheduleDowngrade, Status, subVars, userVars
<1> QED
    BY <1>1, <1>2, <1>3, <1>4, <1>5 DEF DispatchNext

LEMMA ReconciliationOwns ==
    ASSUME TypeInv, OwnInv, NEW f \in Flow, ReconciliationNext(f)
    PROVE  OwnStep
<1>1. ASSUME NEW s \in Sub, FindDeferred(f, s) PROVE OwnStep
    <2>1. ReadsKept
        BY <1>1, NoTaskAssumption DEF FindDeferred, BeginPass, ReadsKept, TypeInv, FlowsOK,
           Granting, Doc,
           Present, Absent, subVars
    <2> QED
        BY <1>1, <2>1 DEF FindDeferred, BeginPass, OwnStep, OwnersKept, FeaturesGranted, Present,
           TakenOver, subVars, userVars
<1>2. ASSUME NEW s \in Sub, FindDowngrade(f, s) PROVE OwnStep
    <2>1. ReadsKept
        BY <1>2, NoTaskAssumption DEF FindDowngrade, BeginPass, ReadsKept, TypeInv, FlowsOK,
           Granting, Doc,
           Present, Absent, subVars
    <2> QED
        BY <1>2, <2>1 DEF FindDowngrade, BeginPass, OwnStep, OwnersKept, FeaturesGranted, Present,
           TakenOver, subVars, userVars
<1>3. ASSUME NEW s \in Sub, FindToVerify(f, s) PROVE OwnStep
    <2>1. ReadsKept
        BY <1>3, NoTaskAssumption DEF FindToVerify, BeginPass, ReadsKept, TypeInv, FlowsOK,
           Granting, Doc,
           Present, Absent, subVars
    <2> QED
        BY <1>3, <2>1 DEF FindToVerify, BeginPass, OwnStep, OwnersKept, FeaturesGranted, Present,
           TakenOver, subVars, userVars
<1>4. ASSUME NEW s \in Sub, FindOrphan(f, s) PROVE OwnStep
    <2>1. ReadsKept
        BY <1>4, NoTaskAssumption DEF FindOrphan, BeginPass, ReadsKept, TypeInv, FlowsOK,
           Granting, Doc,
           Present, Absent, subVars
    <2> QED
        BY <1>4, <2>1 DEF FindOrphan, BeginPass, OwnStep, OwnersKept, FeaturesGranted, Present,
           TakenOver, subVars, userVars
<1>5. CASE TakeDeferred(f)
    <2>1. pc[f] # "idle" /\ GoesAway(f)
        BY <1>5 DEF TakeDeferred, Goto, GotoWith, GoesAway, GoesTo, Away, Granting, Step
    <2> QED
        BY <1>5, <2>1, AwayOwns DEF TakeDeferred, Status, subVars, userVars
<1>6. CASE TakeDowngrade(f)
    <2>1. ReadsKept
        BY <1>6 DEF TakeDowngrade, Goto, Return, ReadsKept, TypeInv, FlowsOK, Granting
    <2> QED
        BY <1>6, <2>1 DEF TakeDowngrade, OwnStep, OwnersKept, FeaturesGranted, Present, TakenOver,
                          userVars
<1>7. CASE CopyFeatures(f)
    <2>1. GoesAway(f)
        BY <1>7 DEF CopyFeatures, Goto, GoesAway, GoesTo, Away, Granting, Step
    <2>2. FeaturesGranted
        BY <1>7 DEF CopyFeatures, FeaturesGranted, TypeInv, UsersOK
    <2> QED
        BY <1>7, <2>1, <2>2, ReadsAway
           DEF CopyFeatures, OwnStep, OwnersKept, Present, TakenOver, subVars
<1>8. CASE MarkApplied(f)
    <2>1. pc[f] # "idle" /\ GoesAway(f)
        BY <1>8 DEF MarkApplied, Goto, GotoWith, GoesAway, GoesTo, Away, Granting, Step
    <2> QED
        BY <1>8, <2>1, AwayOwns DEF MarkApplied, Status, subVars, userVars
<1>9. CASE VerifyWithPayPal(f)
    <2>1. pc[f] # "idle" /\ GoesAway(f)
        BY <1>9 DEF VerifyWithPayPal, Goto, GotoWith, GoesAway, GoesTo, Away, Granting, Step
    <2> QED
        BY <1>9, <2>1, AwayOwns DEF VerifyWithPayPal, Status, subVars, userVars
<1>10. CASE CorrectStatus(f)
    <2>1. pc[f] # "idle" /\ GoesAway(f)
        BY <1>10 DEF CorrectStatus, GoesAway, GoesTo
    <2>2. doc[f].status \in Status
        BY <1>10, <2>1 DEF CorrectStatus, TypeInv, FlowsOK, ReadsOK
    <2> QED
        BY <1>10, <2>1, <2>2, AwayOwns DEF CorrectStatus, userVars
<1>11. CASE Heal(f)
    <2>1. GoesAway(f) /\ pc[f] # "idle"
        BY <1>11 DEF Heal, GoesAway, GoesTo
    <2>2. The(f) \in Sub /\ Present(The(f))
        BY <1>11, <2>1, Running DEF Heal, TypeInv, OwnInv, HealsPresent
    <2>3. OwnersKept
        BY <1>11, <2>2 DEF Heal, OwnersKept, Present, TakenOver, TypeInv, DocsOK
    <2> QED
        BY <1>11, <2>1, <2>3, ReadsAway DEF Heal, OwnStep, FeaturesGranted, userVars
<1> QED
    BY <1>1, <1>2, <1>3, <1>4, <1>5, <1>6, <1>7, <1>8, <1>9, <1>10, <1>11 DEF ReconciliationNext

LEMMA FlowOwns ==
    ASSUME TypeInv, OwnInv, NEW f \in Flow, FlowNext(f)
    PROVE  OwnStep
<1>1. ASSUME NEW s \in Sub, NEW u \in User, RequestAttach(f, s, u) PROVE OwnStep
    <2>1. ReadsKept
        BY <1>1 DEF RequestAttach, ReadsKept, TypeInv, FlowsOK, Granting
    <2> QED
        BY <1>1, <2>1 DEF RequestAttach, OwnStep, OwnersKept, FeaturesGranted, Present, TakenOver,
                          subVars, userVars
<1>2. CASE Crash(f)
    <2>1. pc[f] # "idle" /\ GoesAway(f)
        BY <1>2 DEF Crash, GoesAway, GoesTo
    <2>2. \E more : slips' = [slips EXCEPT ![The(f)] = @ \cup more]
        <3> DEFINE a == IF Activating(f, The(f)) THEN {"claimed"} ELSE {}
                   b == IF Kind(f) = "attach" THEN {"unclaimed"} ELSE {}
                   c == IF Ending(f) THEN {"ending"} ELSE {}
                   d == IF pc[f] = "setPlan" /\ Kind(f) = "SALE_COMPLETED" THEN {"lost"} ELSE {}
        <3>1. slips' = [slips EXCEPT ![The(f)] = (((@ \cup a) \cup b) \cup c) \cup d]
            BY <1>2 DEF Crash
        <3>2. (((slips[The(f)] \cup a) \cup b) \cup c) \cup d
                  = slips[The(f)] \cup (a \cup b \cup c \cup d)
            OBVIOUS
        <3> HIDE DEF a, b, c, d
        <3> QED
            BY <3>1, <3>2
    <2> QED
        BY <1>2, <2>1, <2>2, AwayOwns DEF Crash, subVars, userVars
<1>3. CASE Stall(f)
    BY <1>3 DEF Stall, OwnStep, OwnersKept, FeaturesGranted, ReadsKept, Present, TakenOver,
                subVars, userVars, flowVars, TypeInv, FlowsOK
<1> QED
    BY <1>1, <1>2, <1>3, ServiceOwns, DispatchOwns, ReconciliationOwns DEF FlowNext

\* PayPal and the clock touch none of it.
LEMMA ElsewhereOwns ==
    ASSUME TypeInv, UNCHANGED <<subVars, userVars, flowVars, slips>>
    PROVE  OwnStep
    BY DEF OwnStep, OwnersKept, FeaturesGranted, ReadsKept, Present, TakenOver, subVars, userVars,
           flowVars

LEMMA PreRegisterOwns ==
    ASSUME TypeInv, OwnInv, NEW s \in Sub, PreRegister(s)
    PROVE  OwnStep
<1>1. owner[s] = NoUser
    BY DEF PreRegister, OwnInv, AbsentUnowned
<1>2. OwnersKept
    BY <1>1 DEF PreRegister, OwnersKept, Present, TakenOver, TypeInv, DocsOK, Absent
<1> QED
    BY <1>2 DEF PreRegister, OwnStep, FeaturesGranted, ReadsKept, userVars, flowVars

LEMMA NextOwns ==
    ASSUME TypeInv, OwnInv, [Next]_vars
    PROVE  OwnStep
<1>1. CASE PayPalNext \/ Tick \/ UNCHANGED vars
    <2>1. UNCHANGED <<subVars, userVars, flowVars, slips>>
        BY <1>1 DEF PayPalNext, PayPalChanges, PayPalCreates, PayPalActivates,
           PayPalReportsPayment,
           PayPalRenews, PayPalRevises, PayPalMovesTo, PayPalRefunds, elsewhere, Tick, vars
    <2> QED
        BY <2>1, ElsewhereOwns
<1> QED
    BY <1>1, PreRegisterOwns, FlowOwns DEF Next

\* The inductive invariant of ownership: grants and what granting flows have
\* read name the owner.
THEOREM OwnershipHolds == Spec => [](TypeInv /\ OwnInv)
<1>1. Init => OwnInv
    BY DEF Init, OwnInv, AbsentUnowned, HealsPresent, ReadsHold, GrantsHold, Granting
<1>2. TypeInv /\ OwnInv /\ [Next]_vars => OwnInv'
    BY NextTypes, NextOwns, OwnStepKeeps
<1> QED
    BY <1>1, <1>2, InitTypes, NextTypes, PTL DEF Spec

\* However attach requests, webhooks and the orphan cron race, crash and are
\* repeated, two users have access through one subscription only if attachUser's
\* upsert replaced its owner.
THEOREM BeneficiaryIsOne == Spec => []OneBeneficiary
<1>1. OwnInv => OneBeneficiary
    BY DEF OwnInv, GrantsHold, OneBeneficiary, TakenOver
<1> QED
    BY <1>1, OwnershipHolds, PTL
-----------------------------------------------------------------------------
(* One activation at a time.  A claim is handed out by setting             *)
(* features_applied, and taken back by its holder only, as long as nobody  *)
(* changes the plan, which hands it out anew.                              *)

NoPlanChange == {"UPDATED", "cronDowngrade"} \cap Kinds = {}

PlanSteps == {"readUpdated", "upgrade", "schedule", "clearReverted", "clearSuperseded",
              "takeDowngrade", "copyFeatures", "markApplied", "setPlan"}

Activates == {"loadUser", "saveUser", "rollback", "rollbackThrow"}

\* No change of plan is scheduled, reported or under way.
Quiet ==
    /\ NoPlanChange
    /\ \A s \in Sub : scheduled[s] = NoPlan
    /\ \A e \in inbox : e.kind # "UPDATED"
    /\ \A f \in Flow : pc[f] \notin PlanSteps /\ (task[f] # None => task[f].kind # "UPDATED")

Claimed == \A f \in Flow : pc[f] \in Activates => applied[The(f)]

ClaimInv == Quiet /\ Claimed /\ SingleActivator

\* What a step may do to a claim.
StillActivates(f) == pc'[f] \in Activates => pc[f] \in Activates /\ task'[f] = task[f]

Claims(f) ==
    /\ ~applied[The(f)] /\ applied' = [applied EXCEPT ![The(f)] = TRUE]
    /\ task'[f] = task[f] /\ pc[f] # "idle"
    /\ \A g \in Flow \ {f} : StillActivates(g)

Unclaims(f) ==
    /\ pc[f] \in Activates /\ pc'[f] \notin Activates
    /\ applied' = [applied EXCEPT ![The(f)] = FALSE]
    /\ \A g \in Flow \ {f} : StillActivates(g)

ClaimStep ==
    \/ applied' = applied /\ \A f \in Flow : StillActivates(f)
    \/ \E f \in Flow : Claims(f) \/ Unclaims(f)

LEMMA ActivatingMeans ==
    ASSUME TypeInv, NEW f \in Flow, NEW s \in Sub
    PROVE  Activating(f, s) <=> pc[f] \in Activates /\ The(f) = s
    BY DEF Activating, Activates, TypeInv, FlowsOK

LEMMA ClaimStepKeeps ==
    ASSUME TypeInv, TypeInv', Claimed, SingleActivator, ClaimStep
    PROVE  Claimed' /\ SingleActivator'
<1>1. \A f, g \in Flow : pc[f] \in Activates /\ pc[g] \in Activates /\ The(f) = The(g) => f = g
    BY Running, ActivatingMeans DEF SingleActivator, TypeInv, Activates
<1>2. \A f \in Flow : pc[f] # "idle" => The(f) \in Sub
    BY Running DEF TypeInv
<1>3. applied \in [Sub -> BOOLEAN] /\ "idle" \notin Activates
    BY DEF TypeInv, DocsOK, Activates
<1> DEFINE Kept == /\ \A f \in Flow : pc'[f] \in Activates => applied'[task'[f].sub]
                   /\ \A f, g \in Flow : /\ pc'[f] \in Activates /\ pc'[g] \in Activates
                                         /\ task'[f].sub = task'[g].sub
                                         => f = g
<1>4. Kept
    <2>1. CASE applied' = applied /\ \A f \in Flow : StillActivates(f)
        BY <1>1, <2>1 DEF Claimed, StillActivates, The
    <2>2. ASSUME NEW f \in Flow, Claims(f) PROVE Kept
        BY <1>1, <1>2, <1>3, <2>2 DEF Claimed, StillActivates, Claims, The
    <2>3. ASSUME NEW f \in Flow, Unclaims(f) PROVE Kept
        BY <1>1, <1>2, <1>3, <2>3 DEF Claimed, StillActivates, Unclaims, The
    <2> QED
        BY <2>1, <2>2, <2>3 DEF ClaimStep
<1> QED
    BY <1>4 DEF Claimed, SingleActivator, Activating, Activates, The

\* A step on which the flow activates nothing and changes no plan.
Calm == Step \ (Activates \cup PlanSteps)

GoesCalm(f) == GoesTo(f, Calm)

LEMMA CalmFlows ==
    ASSUME TypeInv, Quiet, NEW f \in Flow, pc[f] # "idle", GoesCalm(f)
    PROVE  /\ \A g \in Flow : StillActivates(g) /\ pc'[g] \notin PlanSteps
           /\ \A g \in Flow : task'[g] # None => task'[g].kind # "UPDATED"
           /\ pc'[f] \notin Activates
<1>1. /\ pc'[f] \in Calm \cup {"idle"}
      /\ \A g \in Flow \ {f} : pc'[g] = pc[g] /\ task'[g] = task[g]
      /\ task'[f] \in {task[f], None}
    BY DEF GoesCalm, GoesTo, Return, TypeInv, FlowsOK
<1>2. pc'[f] \notin Activates \cup PlanSteps
    BY <1>1 DEF Calm, Activates, PlanSteps
<1> QED
    BY <1>1, <1>2 DEF Quiet, StillActivates

LEMMA GiveBackQuiet ==
    ASSUME TypeInv, Quiet, NEW f \in Flow, pc[f] # "idle", GiveBack(f)
    PROVE  \A e \in inbox' : e.kind # "UPDATED"
    BY DEF TypeInv, FlowsOK, Quiet, GiveBack

\* Most steps leave the claims and the schedule alone.
LEMMA CalmKeeps ==
    ASSUME TypeInv, Quiet, NEW f \in Flow, pc[f] # "idle", GoesCalm(f),
           UNCHANGED <<applied, scheduled>>, inbox' = inbox \/ GiveBack(f)
    PROVE  Quiet' /\ ClaimStep
<1>1. \A e \in inbox' : e.kind # "UPDATED"
    BY GiveBackQuiet DEF Quiet
<1> QED
    BY <1>1, CalmFlows DEF Quiet, ClaimStep, NoPlanChange

LEMMA ServiceClaims ==
    ASSUME TypeInv, Quiet, NEW f \in Flow, ServiceNext(f)
    PROVE  Quiet' /\ ClaimStep
<1>1. CASE UpdateFromWebhook(f)
    <2>1. pc[f] # "idle" /\ GoesCalm(f)
        BY <1>1 DEF UpdateFromWebhook,
           GoesCalm, GoesTo, Goto, GotoWith, Calm, Activates, PlanSteps, Step
    <2> QED
        BY <1>1, <2>1, CalmKeeps DEF UpdateFromWebhook, subVars
<1>2. CASE UpdateStatus(f)
    <2>1. pc[f] # "idle" /\ GoesCalm(f)
        BY <1>2, AfterUpdateStatusGoes DEF UpdateStatus, TypeInv, GoesCalm, GoesTo, Goto,
           GotoWith, Calm, Activates,
           PlanSteps, Step
    <2> QED
        BY <1>2, <2>1, CalmKeeps DEF UpdateStatus, WriteStatus, subVars
<1>3. CASE CreateForStatus(f)
    <2>1. pc[f] # "idle" /\ GoesCalm(f)
        BY <1>3, AfterUpdateStatusGoes DEF CreateForStatus, TypeInv, GoesCalm, GoesTo, Goto,
           GotoWith, Calm, Activates,
           PlanSteps, Step
    <2> QED
        BY <1>3, <2>1, CalmKeeps DEF CreateForStatus, WriteStatus, subVars
<1>4. CASE ClaimActivation(f)
    <2>1. pc[f] # "idle" /\ The(f) \in Sub
        BY <1>4, Running DEF ClaimActivation, TypeInv
    <2>2. CASE Claimable(The(f))
        <3>1. GotoWith(f, "loadUser", Doc(The(f)))
            BY <1>4, <2>2 DEF ClaimActivation
        <3>2. Claims(f)
            BY <1>4, <2>1, <2>2, <3>1 DEF ClaimActivation, GotoWith, Claims, Claimable,
                                          StillActivates, TypeInv, FlowsOK
        <3>3. Quiet'
            BY <1>4, <3>1 DEF ClaimActivation, GotoWith, Quiet, NoPlanChange, PlanSteps, TypeInv,
                              FlowsOK
        <3> QED
            BY <3>2, <3>3 DEF ClaimStep
    <2>3. CASE ~Claimable(The(f))
        <3>1. GoesCalm(f)
            BY <1>4, <2>3 DEF ClaimActivation, AfterActivation, GoesCalm, GoesTo, Goto,
               GotoWith, Calm, Activates,
           PlanSteps, Step
        <3> QED
            BY <1>4, <2>1, <2>3, <3>1, CalmKeeps DEF ClaimActivation
    <2> QED
        BY <2>2, <2>3
<1>5. CASE LoadUser(f)
    <2>1. /\ pc[f] = "loadUser" /\ task' = task
          /\ \E step \in {"saveUser", "rollback"} : pc' = [pc EXCEPT ![f] = step]
        BY <1>5 DEF LoadUser, Goto
    <2> QED
        BY <1>5, <2>1 DEF LoadUser, Quiet, NoPlanChange, PlanSteps, ClaimStep, StillActivates,
                          Activates, TypeInv, FlowsOK, subVars
<1>6. CASE SaveUser(f)
    <2>1. pc[f] # "idle" /\ GoesCalm(f)
        BY <1>6 DEF SaveUser, AfterActivation,
           GoesCalm, GoesTo, Goto, GotoWith, Calm, Activates, PlanSteps, Step
    <2> QED
        BY <1>6, <2>1, CalmKeeps DEF SaveUser, subVars
<1>7. CASE Rollback(f)
    <2>1. pc[f] # "idle" /\ GoesCalm(f) /\ pc[f] \in Activates
        BY <1>7 DEF Rollback, AfterActivation, GoesCalm, GoesTo, Goto, GotoWith, Calm, Activates,
           PlanSteps, Step
    <2>2. \A e \in inbox' : e.kind # "UPDATED"
        BY <1>7, <2>1, GiveBackQuiet DEF Rollback, Quiet
    <2>3. Unclaims(f)
        BY <1>7, <2>1, CalmFlows DEF Rollback, Unclaims
    <2> QED
        BY <1>7, <2>1, <2>2, <2>3, CalmFlows DEF Rollback, Quiet, NoPlanChange, ClaimStep
<1>8. CASE ActivationError(f)
    <2>1. /\ pc[f] \in Activates /\ task' = task
          /\ pc' = [pc EXCEPT ![f] = "rollbackThrow"]
        BY <1>8 DEF ActivationError, Goto, Activates
    <2> QED
        BY <1>8, <2>1 DEF ActivationError, Quiet, NoPlanChange, PlanSteps, ClaimStep,
                          StillActivates, Activates, TypeInv, FlowsOK, subVars
<1>9. CASE RollbackThrow(f)
    <2>1. pc[f] # "idle" /\ GoesCalm(f) /\ pc[f] \in Activates
        BY <1>9 DEF RollbackThrow, GoesCalm, GoesTo, Goto, GotoWith, Calm, Activates,
           PlanSteps, Step
    <2>2. \A e \in inbox' : e.kind # "UPDATED"
        BY <1>9, <2>1, GiveBackQuiet DEF RollbackThrow, Quiet
    <2>3. Unclaims(f)
        BY <1>9, <2>1, CalmFlows DEF RollbackThrow, Unclaims
    <2> QED
        BY <1>9, <2>1, <2>2, <2>3, CalmFlows DEF RollbackThrow, Quiet, NoPlanChange, ClaimStep
<1>10. CASE SyncBillingData(f)
    <2>1. pc[f] # "idle" /\ GoesCalm(f)
        BY <1>10 DEF SyncBillingData,
           GoesCalm, GoesTo, Goto, GotoWith, Calm, Activates, PlanSteps, Step
    <2> QED
        BY <1>10, <2>1, CalmKeeps DEF SyncBillingData, subVars
<1>11. CASE GrabDowngrade(f)
    <2>1. pc[f] # "idle" /\ scheduled[The(f)] = NoPlan
        BY <1>11, Running DEF GrabDowngrade, TypeInv, Quiet
    <2>2. GoesCalm(f)
        BY <1>11, <2>1 DEF GrabDowngrade, GoesCalm, GoesTo, Goto, GotoWith, Calm, Activates,
           PlanSteps, Step
    <2> QED
        BY <1>11, <2>1, <2>2, CalmKeeps DEF GrabDowngrade
<1>12. CASE SetGrabbedPlan(f)
    BY <1>12 DEF SetGrabbedPlan, Quiet, PlanSteps
<1>13. CASE ReadForCancel(f)
    <2>1. pc[f] # "idle" /\ GoesCalm(f)
        BY <1>13 DEF ReadForCancel,
           GoesCalm, GoesTo, Goto, GotoWith, Calm, Activates, PlanSteps, Step
    <2> QED
        BY <1>13, <2>1, CalmKeeps DEF ReadForCancel, subVars
<1>14. CASE SetCancelled(f)
    <2>1. pc[f] # "idle" /\ GoesCalm(f)
        BY <1>14 DEF SetCancelled,
           GoesCalm, GoesTo, Goto, GotoWith, Calm, Activates, PlanSteps, Step
    <2> QED
        BY <1>14, <2>1, CalmKeeps DEF SetCancelled, subVars
<1>15. CASE ExpireFlag(f)
    <2>1. pc[f] # "idle" /\ GoesCalm(f)
        BY <1>15 DEF ExpireFlag,
           GoesCalm, GoesTo, Goto, GotoWith, Calm, Activates, PlanSteps, Step
    <2> QED
        BY <1>15, <2>1, CalmKeeps DEF ExpireFlag, subVars
<1>16. CASE ExpireLoad(f)
    <2>1. pc[f] # "idle" /\ GoesCalm(f)
        BY <1>16 DEF ExpireLoad,
           GoesCalm, GoesTo, Goto, GotoWith, Calm, Activates, PlanSteps, Step
    <2> QED
        BY <1>16, <2>1, CalmKeeps DEF ExpireLoad, subVars
<1>17. CASE ExpireSave(f)
    <2>1. pc[f] # "idle" /\ GoesCalm(f)
        BY <1>17 DEF ExpireSave,
           GoesCalm, GoesTo, Goto, GotoWith, Calm, Activates, PlanSteps, Step
    <2> QED
        BY <1>17, <2>1, CalmKeeps DEF ExpireSave, subVars
<1>18. CASE Suspend(f)
    <2>1. pc[f] # "idle" /\ GoesCalm(f)
        BY <1>18 DEF Suspend,
           GoesCalm, GoesTo, Goto, GotoWith, Calm, Activates, PlanSteps, Step
    <2> QED
        BY <1>18, <2>1, CalmKeeps DEF Suspend, subVars
<1>19. CASE DropPro(f)
    <2>1. pc[f] # "idle" /\ GoesCalm(f)
        BY <1>19 DEF DropPro,
           GoesCalm, GoesTo, Goto, GotoWith, Calm, Activates, PlanSteps, Step
    <2> QED
        BY <1>19, <2>1, CalmKeeps DEF DropPro, subVars
<1>20. CASE AskPayPalToResume(f)
    <2>1. pc[f] # "idle" /\ GoesCalm(f)
        BY <1>20 DEF AskPayPalToResume,
           GoesCalm, GoesTo, Goto, GotoWith, Calm, Activates, PlanSteps, Step
    <2> QED
        BY <1>20, <2>1, CalmKeeps DEF AskPayPalToResume, subVars
<1>21. CASE Resume(f)
    <2>1. pc[f] # "idle" /\ GoesCalm(f)
        BY <1>21 DEF Resume,
           GoesCalm, GoesTo, Goto, GotoWith, Calm, Activates, PlanSteps, Step
    <2> QED
        BY <1>21, <2>1, CalmKeeps DEF Resume, subVars
<1>22. CASE RaisePro(f)
    <2>1. pc[f] # "idle" /\ GoesCalm(f)
        BY <1>22 DEF RaisePro,
           GoesCalm, GoesTo, Goto, GotoWith, Calm, Activates, PlanSteps, Step
    <2> QED
        BY <1>22, <2>1, CalmKeeps DEF RaisePro, subVars
<1>23. CASE Attach(f)
    <2>1. pc[f] # "idle" /\ GoesCalm(f)
        BY <1>23 DEF Attach, AfterAttach,
           GoesCalm, GoesTo, Goto, GotoWith, Calm, Activates, PlanSteps, Step
    <2> QED
        BY <1>23, <2>1, CalmKeeps DEF Attach, subVars
<1>24. CASE AttachRead(f)
    <2>1. pc[f] # "idle" /\ GoesCalm(f)
        BY <1>24 DEF AttachRead,
           GoesCalm, GoesTo, Goto, GotoWith, Calm, Activates, PlanSteps, Step
    <2> QED
        BY <1>24, <2>1, CalmKeeps DEF AttachRead, subVars
<1>25. CASE AttachAskPayPal(f)
    <2>1. pc[f] # "idle" /\ GoesCalm(f)
        BY <1>25 DEF AttachAskPayPal,
           GoesCalm, GoesTo, Goto, GotoWith, Calm, Activates, PlanSteps, Step
    <2> QED
        BY <1>25, <2>1, CalmKeeps DEF AttachAskPayPal, subVars
<1>26. CASE AttachUpsert(f)
    <2>1. pc[f] # "idle" /\ GoesCalm(f)
        BY <1>26 DEF AttachUpsert, AfterAttach,
           GoesCalm, GoesTo, Goto, GotoWith, Calm, Activates, PlanSteps, Step
    <2> QED
        BY <1>26, <2>1, CalmKeeps DEF AttachUpsert, subVars
<1> QED
    BY <1>1, <1>2, <1>3, <1>4, <1>5, <1>6, <1>7, <1>8, <1>9, <1>10, <1>11, <1>12, <1>13,
       <1>14, <1>15, <1>16, <1>17, <1>18, <1>19, <1>20, <1>21, <1>22, <1>23, <1>24,
       <1>25, <1>26 DEF ServiceNext

LEMMA DispatchClaims ==
    ASSUME TypeInv, Quiet, NEW f \in Flow, DispatchNext(f)
    PROVE  Quiet' /\ ClaimStep
<1>1. ASSUME NEW e \in inbox, Dispatch(f, e) PROVE Quiet' /\ ClaimStep
    <2>1. e.kind # "UPDATED" /\ e.kind \in EventKind
        BY DEF Quiet, TypeInv, InboxOK
    <2>2. FirstCall(e.kind) \notin Activates \cup PlanSteps
        BY <2>1 DEF FirstCall, EventKind, Activates, PlanSteps
    <2>3. /\ pc' = [pc EXCEPT ![f] = FirstCall(e.kind)] /\ task' = [task EXCEPT ![f] = e]
          /\ inbox' \subseteq inbox /\ UNCHANGED <<applied, scheduled>>
        BY <1>1 DEF Dispatch, subVars
    <2> QED
        BY <2>1, <2>2, <2>3 DEF Quiet, NoPlanChange, ClaimStep, StillActivates, TypeInv, FlowsOK
<1>2. CASE ReadUpdated(f)
    BY <1>2 DEF ReadUpdated, Quiet, PlanSteps
<1>3. CASE Upgrade(f)
    BY <1>3 DEF Upgrade, Quiet, PlanSteps
<1>4. CASE ClearScheduled(f)
    BY <1>4 DEF ClearScheduled, Quiet, PlanSteps
<1>5. CASE ScheduleDowngrade(f)
    BY <1>5 DEF ScheduleDowngrade, Quiet, PlanSteps
<1> QED
    BY <1>1, <1>2, <1>3, <1>4, <1>5 DEF DispatchNext

LEMMA ReconciliationClaims ==
    ASSUME TypeInv, Quiet, NEW f \in Flow, ReconciliationNext(f)
    PROVE  Quiet' /\ ClaimStep
<1>1. ASSUME NEW s \in Sub, FindDeferred(f, s) \/ FindDowngrade(f, s)
                            \/ FindToVerify(f, s) \/ FindOrphan(f, s)
      PROVE  Quiet' /\ ClaimStep
    <2>1. ~FindDowngrade(f, s)
        BY DEF Quiet, FindDowngrade
    <2>2. PICK kind \in TaskKind, step \in {"takeDeferred", "verify", "heal"},
               d \in DocShape \cup {None} : BeginPass(f, kind, s, step, d)
        BY <1>1, <2>1, DocTypes DEF TypeInv, FindDeferred, FindToVerify, FindOrphan, TaskKind
    <2>3. /\ pc' = [pc EXCEPT ![f] = step] /\ inbox' = inbox /\ UNCHANGED <<applied, scheduled>>
          /\ \A g \in Flow \ {f} : task'[g] = task[g]
          /\ task'[f].kind = kind
        BY <2>2 DEF BeginPass, TypeInv, FlowsOK, subVars
    <2> QED
        BY <2>3 DEF Quiet, NoPlanChange, ClaimStep, StillActivates, Activates, PlanSteps,
           TaskKind,
                    TypeInv, FlowsOK
<1>2. CASE TakeDeferred(f)
    <2>1. pc[f] # "idle" /\ GoesCalm(f)
        BY <1>2 DEF TakeDeferred,
           GoesCalm, GoesTo, Goto, GotoWith, Calm, Activates, PlanSteps, Step
    <2> QED
        BY <1>2, <2>1, CalmKeeps DEF TakeDeferred, subVars
<1>3. CASE TakeDowngrade(f)
    BY <1>3 DEF TakeDowngrade, Quiet, PlanSteps
<1>4. CASE CopyFeatures(f)
    BY <1>4 DEF CopyFeatures, Quiet, PlanSteps
<1>5. CASE MarkApplied(f)
    BY <1>5 DEF MarkApplied, Quiet, PlanSteps
<1>6. CASE VerifyWithPayPal(f)
    <2>1. pc[f] # "idle" /\ GoesCalm(f)
        BY <1>6 DEF VerifyWithPayPal,
           GoesCalm, GoesTo, Goto, GotoWith, Calm, Activates, PlanSteps, Step
    <2> QED
        BY <1>6, <2>1, CalmKeeps DEF VerifyWithPayPal, subVars
<1>7. CASE CorrectStatus(f)
    <2>1. pc[f] # "idle" /\ GoesCalm(f)
        BY <1>7 DEF CorrectStatus,
           GoesCalm, GoesTo, Goto, GotoWith, Calm, Activates, PlanSteps, Step
    <2> QED
        BY <1>7, <2>1, CalmKeeps DEF CorrectStatus, subVars
<1>8. CASE Heal(f)
    <2>1. pc[f] # "idle" /\ GoesCalm(f)
        BY <1>8 DEF Heal,
           GoesCalm, GoesTo, Goto, GotoWith, Calm, Activates, PlanSteps, Step
    <2> QED
        BY <1>8, <2>1, CalmKeeps DEF Heal, subVars
<1> QED
    BY <1>1, <1>2, <1>3, <1>4, <1>5, <1>6, <1>7, <1>8 DEF ReconciliationNext

LEMMA FlowClaims ==
    ASSUME TypeInv, Quiet, NEW f \in Flow, FlowNext(f)
    PROVE  Quiet' /\ ClaimStep
<1>1. ASSUME NEW s \in Sub, NEW u \in User, RequestAttach(f, s, u) PROVE Quiet' /\ ClaimStep
    <2>1. /\ pc' = [pc EXCEPT ![f] = "attach"] /\ inbox' = inbox
          /\ UNCHANGED <<applied, scheduled>>
          /\ \A g \in Flow \ {f} : task'[g] = task[g]
          /\ task'[f].kind = "attach"
        BY <1>1 DEF RequestAttach, TypeInv, FlowsOK, subVars
    <2> QED
        BY <2>1 DEF Quiet, NoPlanChange, ClaimStep, StillActivates, Activates, PlanSteps, TypeInv,
                    FlowsOK
<1>2. CASE Crash(f)
    <2>1. pc[f] # "idle" /\ GoesCalm(f)
        BY <1>2 DEF Crash, GoesCalm, GoesTo
    <2> QED
        BY <1>2, <2>1, CalmKeeps DEF Crash, subVars
<1>3. CASE Stall(f)
    <2>1. \A e \in inbox' : e.kind # "UPDATED"
        BY <1>3, GiveBackQuiet DEF Stall
    <2> QED
        BY <1>3, <2>1 DEF Stall, Quiet, NoPlanChange, ClaimStep, StillActivates, subVars, flowVars
<1> QED
    BY <1>1, <1>2, <1>3, ServiceClaims, DispatchClaims, ReconciliationClaims DEF FlowNext

\* PayPal reports no change of plan.
LEMMA ReportQuiet ==
    ASSUME TypeInv, Quiet, NEW s \in Sub, NEW kind, Report(s, kind)
    PROVE  \A e \in inbox' : e.kind # "UPDATED"
    BY DEF Quiet, NoPlanChange, Report

LEMMA PayPalClaims ==
    ASSUME TypeInv, Quiet, PayPalNext
    PROVE  Quiet' /\ ClaimStep
<1> DEFINE Untouched == (\A e \in inbox' : e.kind # "UPDATED") /\ elsewhere' = elsewhere
<1>1. Untouched
    <2>1. ASSUME NEW s \in Sub, NEW u \in User \cup {NoUser}, NEW p \in Plan,
                 PayPalCreates(s, u, p)
          PROVE  Untouched
        BY <2>1, ReportQuiet DEF PayPalCreates, Quiet, elsewhere
    <2>2. CASE PayPalChanges
        BY <2>2, ReportQuiet
           DEF PayPalChanges, PayPalActivates, PayPalReportsPayment, PayPalRefunds, PayPalRenews,
               PayPalRevises, PayPalMovesTo, elsewhere
    <2> QED
        BY <2>1, <2>2 DEF PayPalNext
<1> QED
    BY <1>1 DEF Quiet, NoPlanChange, ClaimStep, StillActivates, elsewhere, subVars, flowVars

LEMMA NextClaims == TypeInv /\ ClaimInv /\ [Next]_vars => ClaimInv'
<1> SUFFICES ASSUME TypeInv, ClaimInv, [Next]_vars PROVE ClaimInv'
    OBVIOUS
<1>1. TypeInv'
    BY NextTypes
<1>2. Quiet' /\ ClaimStep
    <2>1. CASE \E s \in Sub : PreRegister(s)
        BY <2>1 DEF PreRegister, ClaimInv, Quiet, NoPlanChange, ClaimStep, StillActivates,
           flowVars
    <2>2. CASE Tick \/ UNCHANGED vars
        BY <2>2 DEF Tick, ClaimInv, Quiet, NoPlanChange, ClaimStep, StillActivates, vars, subVars,
                    flowVars
    <2> QED
        BY <2>1, <2>2, PayPalClaims, FlowClaims DEF Next, ClaimInv
<1> QED
    BY <1>1, <1>2, ClaimStepKeeps DEF ClaimInv

\* tryActivateFeatures' claim: however many events, payments and attach requests
\* race, fail, roll back and are repeated, one flow at most activates a
\* subscription, while no change of plan hands out the claim anew.
THEOREM ActivatorIsSingle == NoPlanChange => (Spec => []SingleActivator)
<1>1. Init /\ NoPlanChange => ClaimInv
    BY DEF Init, ClaimInv, Quiet, NoPlanChange, Claimed, SingleActivator, Activating, Activates,
           PlanSteps
<1>2. TypeInv /\ ClaimInv /\ [Next]_vars => ClaimInv'
    BY NextClaims
<1>3. ClaimInv => SingleActivator
    BY DEF ClaimInv
<1> QED
    BY <1>1, <1>2, <1>3, InitTypes, NextTypes, PTL DEF Spec

-----------------------------------------------------------------------------
(* A claim that is set is made good: its holder is still at work, or the   *)
(* owner has the features of the subscription's plan.                      *)

\* A subscription has the plan PayPal has of it, or none yet; so have the
\* events about it, what is done of them, and what was read of it.  An attach
\* request names a user.
OfPlan(s, p) == p \in {NoPlan, ppPlan[s]}

Attaches == {"attach", "attachRead", "attachAsk", "attachUpsert"}

PlansAgree ==
    /\ \A s \in Sub : /\ OfPlan(s, plan[s])
                      /\ ppStatus[s] = Absent => ppPlan[s] = NoPlan
                      /\ Present(s) \/ plan[s] = NoPlan
    /\ \A e \in inbox : OfPlan(e.sub, e.plan)
    /\ \A f \in Flow : pc[f] # "idle" => OfPlan(The(f), task[f].plan)
    /\ \A f \in Flow : pc[f] = "attachUpsert" => OfPlan(The(f), doc[f].plan)
    /\ \A f \in Flow : pc[f] \in Attaches => task[f].user # NoUser

\* What an activation read, and what users were granted, is the plan.
PlansGranted ==
    /\ \A f \in Flow : pc[f] \in {"loadUser", "saveUser"} => doc[f].plan \in {NoPlan, plan[The(f)]}
    /\ \A u \in User : features[u] # None => features[u].plan = plan[features[u].sub]

Granted(s) ==
    /\ owner[s] # NoUser
    /\ \/ slips[s] \cap {"claimed", "takenOver"} # {}
       \/ features[owner[s]] # None
       \/ \E f \in Flow : pc[f] \in Activates /\ The(f) = s

ClaimsGranted == \A s \in Sub : applied[s] => Granted(s)

GrantInv == PlansAgree /\ PlansGranted /\ ClaimsGranted

\* What a step of a flow may do to plans and events, to what flows work on, to
\* what users were granted, and to claims.
PlanKept(s) ==
    \/ plan'[s] = plan[s] /\ (Present(s) => status'[s] # Absent)
    \/ OfPlan(s, plan'[s]) /\ (plan[s] = NoPlan \/ plan'[s] # NoPlan) /\ status'[s] # Absent

PlansKept ==
    /\ UNCHANGED <<ppStatus, ppPlan>>
    /\ \A s \in Sub : PlanKept(s)
    /\ \A e \in inbox' : OfPlan(e.sub, e.plan)

TasksKept ==
    \A g \in Flow :
        /\ pc'[g] # "idle" => OfPlan(task'[g].sub, task'[g].plan)
        /\ pc'[g] = "attachUpsert" => OfPlan(task'[g].sub, doc'[g].plan)
        /\ pc'[g] \in Attaches => task'[g].user # NoUser
        /\ pc'[g] \in {"loadUser", "saveUser"} =>
              \/ pc[g] \in {"loadUser", "saveUser"} /\ task'[g] = task[g] /\ doc'[g] = doc[g]
              \/ UNCHANGED plan /\ doc'[g].plan = plan[task'[g].sub]

GrantsKept ==
    \A u \in User : \/ features'[u] = features[u]
                    \/ \E f \in Flow : /\ pc[f] = "saveUser" /\ UNCHANGED plan
                                       /\ features'[u] # None
                                       /\ features'[u] = [sub |-> The(f), plan |-> doc[f].plan]

ClaimsKept ==
    \A s \in Sub :
        /\ slips[s] \subseteq slips'[s]
        /\ owner[s] # NoUser => owner'[s] # NoUser
        /\ applied'[s] => \/ applied[s]
                          \/ owner[s] # NoUser
                             /\ \E f \in Flow : pc'[f] \in Activates /\ task'[f].sub = s

\* An activation goes on, or ends with its claim undone, its slip or its grant.
ActivationsEnd ==
    \A g \in Flow : pc[g] \in Activates =>
        \/ pc'[g] \in Activates /\ task'[g] = task[g]
        \/ ~applied'[The(g)]
        \/ "claimed" \in slips'[The(g)]
        \/ pc[g] = "saveUser" /\ UNCHANGED owner /\ features'[doc[g].owner] # None

GrantStep == PlansKept /\ TasksKept /\ GrantsKept /\ ClaimsKept /\ ActivationsEnd

LEMMA GrantStepKeeps ==
    ASSUME TypeInv, TypeInv', OwnInv, OwnStep, GrantInv, GrantStep
    PROVE  GrantInv'
<1>1. \A f \in Flow : pc[f] # "idle" => The(f) \in Sub
    BY Running DEF TypeInv
<1>2. \A f \in Flow : pc'[f] # "idle" => task'[f].sub \in Sub
    BY DEF TypeInv, FlowsOK, Task
\* A plan, once there, stays.
<1>3. \A s \in Sub : plan[s] # NoPlan => plan'[s] = plan[s]
    BY DEF GrantInv, PlansAgree, GrantStep, PlansKept, PlanKept, OfPlan
<1>4. PlansAgree'
    <2>1. \A s \in Sub : /\ OfPlan(s, plan[s])'
                         /\ ppStatus'[s] = Absent => ppPlan'[s] = NoPlan
                         /\ status'[s] # Absent \/ plan'[s] = NoPlan
        BY DEF GrantInv, PlansAgree, GrantStep, PlansKept, PlanKept, OfPlan, Present
    <2>2. \A e \in inbox' : OfPlan(e.sub, e.plan)'
        BY DEF GrantStep, PlansKept, OfPlan
    <2>3. \A f \in Flow :
             /\ pc'[f] # "idle" => task'[f].plan \in {NoPlan, ppPlan'[task'[f].sub]}
             /\ pc'[f] = "attachUpsert" => doc'[f].plan \in {NoPlan, ppPlan'[task'[f].sub]}
             /\ pc'[f] \in Attaches => task'[f].user # NoUser
        BY DEF GrantStep, PlansKept, TasksKept, OfPlan
    <2> QED
        BY <2>1, <2>2, <2>3 DEF PlansAgree, OfPlan, The, Present
<1>5. PlansGranted'
    <2>1. ASSUME NEW f \in Flow, pc'[f] \in {"loadUser", "saveUser"}
          PROVE  doc'[f].plan \in {NoPlan, plan'[task'[f].sub]}
        <3>1. CASE /\ pc[f] \in {"loadUser", "saveUser"} /\ task'[f] = task[f]
                   /\ doc'[f] = doc[f]
            BY <1>1, <1>3, <3>1 DEF GrantInv, PlansGranted, The
        <3> QED
            BY <2>1, <3>1 DEF GrantStep, TasksKept
    <2>2. ASSUME NEW u \in User, features'[u] # None
          PROVE  features'[u].plan = plan'[features'[u].sub]
        <3>1. CASE features'[u] = features[u]
            <4>1. features[u].sub \in Sub /\ features[u].plan \in Plan
                BY <2>2, <3>1 DEF TypeInv, UsersOK, Features
            <4>2. features[u].plan = plan[features[u].sub]
                BY <2>2, <3>1 DEF GrantInv, PlansGranted
            <4> QED
                BY <1>3, <3>1, <4>1, <4>2, NoneAssumption
        <3>2. ASSUME NEW f \in Flow, pc[f] = "saveUser", UNCHANGED plan,
                     features'[u] = [sub |-> The(f), plan |-> doc[f].plan]
              PROVE  features'[u].plan = plan'[features'[u].sub]
            <4>1. doc[f].plan \in Plan
                BY <3>2 DEF TypeInv, FlowsOK, ReadsOK
            <4>2. doc[f].plan = plan[The(f)]
                BY <3>2, <4>1, NoneAssumption DEF GrantInv, PlansGranted
            <4> QED
                BY <3>2, <4>2
        <3> QED
            BY <3>1, <3>2 DEF GrantStep, GrantsKept
    <2> QED
        BY <2>1, <2>2 DEF PlansGranted, The
<1>6. ASSUME NEW s \in Sub, applied'[s]
      PROVE  /\ owner'[s] # NoUser
             /\ \/ slips'[s] \cap {"claimed", "takenOver"} # {}
                \/ features'[owner'[s]] # None
                \/ \E f \in Flow : pc'[f] \in Activates /\ task'[f].sub = s
    <2>1. CASE ~applied[s]
        BY <1>6, <2>1 DEF GrantStep, ClaimsKept
    <2>2. CASE applied[s]
        <3>1. Granted(s)
            BY <2>2 DEF GrantInv, ClaimsGranted
        <3>2. owner'[s] # NoUser /\ slips[s] \subseteq slips'[s]
            BY <3>1 DEF Granted, GrantStep, ClaimsKept
        <3>3. owner'[s] = owner[s] \/ "takenOver" \in slips'[s]
            BY <3>1 DEF Granted, OwnStep, OwnersKept, TakenOver
        <3>4. owner[s] \in User
            BY <3>1 DEF Granted, TypeInv, DocsOK
        <3>5. CASE features[owner[s]] # None
            <4>1. features'[owner[s]] # None
                BY <3>4, <3>5 DEF GrantStep, GrantsKept
            <4> QED
                BY <3>2, <3>3, <4>1
        <3>6. ASSUME NEW f \in Flow, pc[f] \in Activates, The(f) = s
              PROVE  \/ slips'[s] \cap {"claimed", "takenOver"} # {}
                     \/ features'[owner'[s]] # None
                     \/ pc'[f] \in Activates /\ task'[f].sub = s
            <4>1. CASE pc'[f] \in Activates /\ task'[f] = task[f]
                BY <3>6, <4>1 DEF The
            <4>2. CASE pc[f] = "saveUser" /\ UNCHANGED owner /\ features'[doc[f].owner] # None
                <5>1. doc[f].owner # NoUser
                    BY <4>2, NoneAssumption, RegisteredAssumption DEF TypeInv, FlowsOK, ReadsOK
                <5>2. "takenOver" \in slips[s] \/ owner[s] = doc[f].owner
                    BY <3>6, <4>2, <5>1 DEF OwnInv, ReadsHold, Granting, TakenOver
                <5> QED
                    BY <3>2, <4>2, <5>2
            <4> QED
                BY <1>6, <3>6, <4>1, <4>2 DEF GrantStep, ActivationsEnd
        <3> QED
            BY <3>1, <3>2, <3>5, <3>6 DEF Granted
    <2> QED
        BY <2>1, <2>2
<1> QED
    BY <1>4, <1>5, <1>6 DEF GrantInv, ClaimsGranted, Granted, The

\* Steps after which a flow neither activates nor relies on PayPal's answer, and
\* attaches only if it did before.
Modest == Step \ (Activates \cup Attaches)

GoesModest(f) ==
    GoesTo(f, Modest \cup IF pc[f] \in Attaches THEN Attaches \ {"attachUpsert"} ELSE {})

LEMMA ModestFlows ==
    ASSUME TypeInv, PlansAgree, NEW f \in Flow, pc[f] # "idle", GoesModest(f)
    PROVE  /\ TasksKept
           /\ pc'[f] \notin Activates
           /\ \A g \in Flow \ {f} : pc'[g] = pc[g] /\ task'[g] = task[g] /\ doc'[g] = doc[g]
<1>1. /\ \/ pc'[f] \in Modest \cup {"idle"}
         \/ pc[f] \in Attaches /\ pc'[f] \in Attaches \ {"attachUpsert"}
      /\ pc'[f] # "idle" => task'[f] = task[f]
      /\ \A g \in Flow \ {f} : pc'[g] = pc[g] /\ task'[g] = task[g] /\ doc'[g] = doc[g]
    BY DEF GoesModest, GoesTo, Return, TypeInv, FlowsOK
<1>2. /\ pc'[f] \notin Activates \cup {"attachUpsert"}
      /\ pc'[f] \in Attaches => pc[f] \in Attaches
    BY <1>1 DEF Modest, Activates, Attaches
<1> QED
    BY <1>1, <1>2 DEF TasksKept, PlansAgree, Activates, Attaches, The

LEMMA EventsGivenBack ==
    ASSUME TypeInv, PlansAgree, NEW f \in Flow, pc[f] # "idle", inbox' = inbox \/ GiveBack(f)
    PROVE  \A e \in inbox' : OfPlan(e.sub, e.plan)
    BY DEF PlansAgree, GiveBack, The

\* A flow that is not activating, and changes no claim and no features.
LEMMA ModestGrants ==
    ASSUME TypeInv, PlansAgree, NEW f \in Flow, pc[f] \notin Activates \cup {"idle"},
           GoesModest(f), UNCHANGED <<applied, features, ppStatus, ppPlan>>,
           \A s \in Sub : PlanKept(s),
           \A s \in Sub : slips[s] \subseteq slips'[s] /\ (owner[s] # NoUser => owner'[s] # NoUser),
           inbox' = inbox \/ GiveBack(f)
    PROVE  GrantStep
<1>1. /\ TasksKept
      /\ pc'[f] \notin Activates
      /\ \A g \in Flow \ {f} : pc'[g] = pc[g] /\ task'[g] = task[g] /\ doc'[g] = doc[g]
    BY ModestFlows
<1>2. PlansKept
    BY EventsGivenBack DEF PlansKept
<1>3. GrantsKept /\ ClaimsKept
    BY DEF GrantsKept, ClaimsKept
<1>4. ActivationsEnd
    BY <1>1 DEF ActivationsEnd
<1> QED
    BY <1>1, <1>2, <1>3, <1>4 DEF GrantStep

\* Most of them change neither plan nor owner.
LEMMA ModestKeeps ==
    ASSUME TypeInv, PlansAgree, NEW f \in Flow, pc[f] \notin Activates \cup {"idle"},
           GoesModest(f), UNCHANGED <<owner, plan, applied, features, ppStatus, ppPlan>>,
           status' = status \/ \E st \in Status : status' = [status EXCEPT ![The(f)] = st],
           slips' = slips \/ \E more : slips' = [slips EXCEPT ![The(f)] = @ \cup more],
           inbox' = inbox \/ GiveBack(f)
    PROVE  GrantStep
<1>1. The(f) \in Sub
    BY Running DEF TypeInv
<1>2. \A s \in Sub : PlanKept(s)
    BY <1>1 DEF TypeInv, DocsOK, PlanKept, Present, Status, Absent
<1>3. \A s \in Sub : slips[s] \subseteq slips'[s]
    BY <1>1 DEF TypeInv, CountsOK
<1> QED
    BY <1>2, <1>3, ModestGrants

\* The upserts of webhooks: the plan of the event, in a document that has none
\* or with a status for it.
LEMMA WebhookPlan ==
    ASSUME TypeInv, PlansAgree, NEW f \in Flow, pc[f] # "idle",
           NEW st \in Status, status' = [status EXCEPT ![The(f)] = st],
           \/ plan' = [plan EXCEPT ![The(f)] = IF Present(The(f)) THEN @ ELSE task[f].plan]
           \/ plan' = [plan EXCEPT ![The(f)] = IF task[f].plan # NoPlan THEN task[f].plan ELSE @]
    PROVE  \A s \in Sub : PlanKept(s)
<1>1. The(f) \in Sub /\ OfPlan(The(f), task[f].plan)
    BY Running DEF TypeInv, PlansAgree
<1>2. \A s \in Sub \ {The(f)} : PlanKept(s)
    BY <1>1 DEF PlanKept, Present, TypeInv, DocsOK
<1>3. status'[The(f)] # Absent /\ status[The(f)] \in Status \cup {Absent}
    BY <1>1 DEF TypeInv, DocsOK, Status, Absent
<1>4. \/ plan'[The(f)] = plan[The(f)]
      \/ plan'[The(f)] = task[f].plan /\ (task[f].plan # NoPlan \/ ~Present(The(f)))
    BY <1>1 DEF TypeInv, DocsOK
<1>5. Present(The(f)) \/ plan[The(f)] = NoPlan
    BY <1>1 DEF PlansAgree
<1>6. PlanKept(The(f))
    BY <1>1, <1>3, <1>4, <1>5 DEF PlanKept, Present, OfPlan
<1> QED
    BY <1>2, <1>6

LEMMA ServiceGrants ==
    ASSUME TypeInv, OwnInv, Quiet, PlansAgree, NEW f \in Flow, ServiceNext(f)
    PROVE  GrantStep
<1>1. CASE UpdateFromWebhook(f)
    <2>1. pc[f] \notin Activates \cup {"idle"} /\ GoesModest(f)
        BY <1>1 DEF UpdateFromWebhook, GoesModest, GoesTo, Activates, Attaches
    <2>2. \A s \in Sub : PlanKept(s)
        BY <1>1, <2>1, WebhookPlan DEF UpdateFromWebhook, Status
    <2> QED
        BY <1>1, <2>1, <2>2, ModestGrants DEF UpdateFromWebhook, userVars, ppVars
<1>2. CASE UpdateStatus(f)
    <2>1. pc[f] \notin Activates \cup {"idle"} /\ GoesModest(f)
        BY <1>2, AfterUpdateStatusGoes DEF UpdateStatus, TypeInv, GoesModest, GoesTo, Goto,
           Modest, Activates, Attaches, Step
    <2>2. \A s \in Sub : PlanKept(s)
        <3>1. CASE WriteStatus(f)
            BY <2>1, <3>1, WebhookPlan DEF WriteStatus, NewStatus, Status
        <3>2. CASE UNCHANGED subVars
            BY <3>2 DEF subVars, PlanKept, Present
        <3> QED
            BY <1>2, <3>1, <3>2 DEF UpdateStatus
    <2>3. UNCHANGED <<applied, owner>> /\ (inbox' = inbox \/ GiveBack(f))
        BY <1>2 DEF UpdateStatus, WriteStatus, subVars
    <2> QED
        BY <1>2, <2>1, <2>2, <2>3, ModestGrants DEF UpdateStatus, userVars, ppVars
<1>3. CASE CreateForStatus(f)
    <2>1. pc[f] \notin Activates \cup {"idle"} /\ GoesModest(f)
        BY <1>3, AfterUpdateStatusGoes DEF CreateForStatus, TypeInv, GoesModest, GoesTo, Goto,
           Modest, Activates, Attaches, Step
    <2>2. \A s \in Sub : PlanKept(s)
        <3>1. CASE WriteStatus(f)
            BY <2>1, <3>1, WebhookPlan DEF WriteStatus, NewStatus, Status
        <3>2. CASE UNCHANGED subVars
            BY <3>2 DEF subVars, PlanKept, Present
        <3> QED
            BY <1>3, <3>1, <3>2 DEF CreateForStatus
    <2>3. UNCHANGED <<applied, owner>> /\ (inbox' = inbox \/ GiveBack(f))
        BY <1>3 DEF CreateForStatus, WriteStatus, subVars
    <2> QED
        BY <1>3, <2>1, <2>2, <2>3, ModestGrants DEF CreateForStatus, userVars, ppVars
<1>4. CASE ClaimActivation(f)
    <2>1. pc[f] \notin Activates \cup {"idle"} /\ The(f) \in Sub
        BY <1>4, Running DEF ClaimActivation, TypeInv, Activates
    <2>2. CASE Claimable(The(f))
        <3>1. /\ pc' = [pc EXCEPT ![f] = "loadUser"] /\ task' = task
              /\ doc' = [doc EXCEPT ![f] = Doc(The(f))]
              /\ applied' = [applied EXCEPT ![The(f)] = TRUE] /\ owner[The(f)] # NoUser
            BY <1>4, <2>2 DEF ClaimActivation, GotoWith, Claimable
        <3>2. UNCHANGED <<status, plan, owner, features, ppStatus, ppPlan, inbox, slips>>
            BY <1>4 DEF ClaimActivation, userVars, ppVars
        <3>3. PlansKept /\ GrantsKept
            BY <3>2 DEF PlansKept, PlanKept, Present, PlansAgree, GrantsKept
        <3>4. TasksKept
            BY <2>1, <3>1, <3>2 DEF TasksKept, PlansAgree, Attaches, TypeInv, FlowsOK, Doc, The
        <3>5. ClaimsKept
            BY <2>1, <3>1, <3>2 DEF ClaimsKept, TypeInv, DocsOK, FlowsOK, Activates, The
        <3>6. ActivationsEnd
            BY <2>1, <3>1 DEF ActivationsEnd, TypeInv, FlowsOK
        <3> QED
            BY <3>3, <3>4, <3>5, <3>6 DEF GrantStep
    <2>3. CASE ~Claimable(The(f))
        <3>1. GoesModest(f)
            BY <1>4, <2>3 DEF ClaimActivation, AfterActivation, GoesModest, GoesTo, Goto,
               GotoWith, Modest, Activates, Attaches, Step
        <3> QED
            BY <1>4, <2>1, <2>3, <3>1, ModestKeeps DEF ClaimActivation, userVars, ppVars
    <2> QED
        BY <2>2, <2>3
<1>5. CASE LoadUser(f)
    <2>1. /\ pc[f] = "loadUser" /\ task' = task /\ doc' = doc
          /\ \E step \in {"saveUser", "rollback"} : pc' = [pc EXCEPT ![f] = step]
          /\ UNCHANGED <<subVars, features, ppStatus, ppPlan, inbox, slips>>
        BY <1>5 DEF LoadUser, Goto, userVars, ppVars
    <2>2. PlansKept /\ GrantsKept /\ ClaimsKept
        BY <2>1 DEF PlansKept, PlanKept, Present, PlansAgree, GrantsKept, ClaimsKept, subVars
    <2>3. TasksKept /\ ActivationsEnd
        BY <2>1 DEF TasksKept, ActivationsEnd, Activates, Attaches, PlansAgree, TypeInv, FlowsOK,
           The
    <2> QED
        BY <2>2, <2>3 DEF GrantStep
<1>6. CASE SaveUser(f)
    <2>1. pc[f] # "idle" /\ GoesModest(f)
        BY <1>6 DEF SaveUser, AfterActivation, GoesModest, GoesTo, Goto, GotoWith, Modest,
           Activates, Attaches, Step
    <2>2. /\ doc[f].owner \in User /\ doc[f].plan \in Plan /\ The(f) \in Sub
          /\ pc[f] = "saveUser" /\ UNCHANGED <<subVars, ppStatus, ppPlan, inbox, slips>>
          /\ features' = [features EXCEPT ![doc[f].owner] =
                             [sub |-> The(f), plan |-> doc[f].plan]]
        BY <1>6, <2>1, Running, RegisteredAssumption
           DEF SaveUser, TypeInv, FlowsOK, ReadsOK, ppVars
    <2>3. /\ features'[doc[f].owner] = [sub |-> The(f), plan |-> doc[f].plan]
          /\ features'[doc[f].owner] # None
          /\ \A u \in User \ {doc[f].owner} : features'[u] = features[u]
        BY <2>2, NoFeaturesAssumption DEF TypeInv, UsersOK, Features
    <2>4. PlansKept /\ ClaimsKept
        BY <2>2 DEF PlansKept, PlanKept, Present, PlansAgree, ClaimsKept, subVars
    <2>5. GrantsKept
        BY <2>2, <2>3 DEF GrantsKept, subVars
    <2>6. /\ TasksKept
          /\ \A g \in Flow \ {f} : pc'[g] = pc[g] /\ task'[g] = task[g]
        BY <2>1, ModestFlows
    <2>7. ActivationsEnd
        BY <2>2, <2>3, <2>6 DEF ActivationsEnd, subVars
    <2> QED
        BY <2>4, <2>5, <2>6, <2>7 DEF GrantStep
<1>7. CASE Rollback(f)
    <2>1. pc[f] # "idle" /\ The(f) \in Sub /\ GoesModest(f)
        BY <1>7, Running DEF Rollback, AfterActivation, TypeInv, GoesModest, GoesTo, Goto, GotoWith,
           Modest, Activates, Attaches, Step
    <2>2. /\ UNCHANGED <<status, plan, owner, features, ppStatus, ppPlan>>
          /\ applied' = [applied EXCEPT ![The(f)] = FALSE]
          /\ inbox' = inbox \/ GiveBack(f)
        BY <1>7 DEF Rollback, userVars, ppVars
    <2>3. \A s \in Sub : slips[s] \subseteq slips'[s]
        BY <1>7, <2>1 DEF Rollback, TypeInv, CountsOK
    <2>4. PlansKept /\ GrantsKept /\ ClaimsKept
        BY <2>1, <2>2, <2>3, EventsGivenBack
           DEF PlansKept, PlanKept, Present, GrantsKept, ClaimsKept, TypeInv, DocsOK
    <2>5. TasksKept /\ \A g \in Flow \ {f} : pc'[g] = pc[g] /\ task'[g] = task[g]
        BY <2>1, ModestFlows
    <2>6. ActivationsEnd
        BY <2>1, <2>2, <2>5 DEF ActivationsEnd, TypeInv, DocsOK
    <2> QED
        BY <2>4, <2>5, <2>6 DEF GrantStep
<1>9. CASE RollbackThrow(f)
    <2>1. pc[f] # "idle" /\ The(f) \in Sub /\ GoesModest(f)
        BY <1>9, Running DEF RollbackThrow, TypeInv, GoesModest, GoesTo, Goto, GotoWith,
           Modest, Activates, Attaches, Step
    <2>2. /\ UNCHANGED <<status, plan, owner, features, ppStatus, ppPlan>>
          /\ applied' = [applied EXCEPT ![The(f)] = FALSE]
          /\ inbox' = inbox \/ GiveBack(f)
        BY <1>9 DEF RollbackThrow, userVars, ppVars
    <2>3. \A s \in Sub : slips[s] \subseteq slips'[s]
        BY <1>9, <2>1 DEF RollbackThrow, TypeInv, CountsOK
    <2>4. PlansKept /\ GrantsKept /\ ClaimsKept
        BY <2>1, <2>2, <2>3, EventsGivenBack
           DEF PlansKept, PlanKept, Present, GrantsKept, ClaimsKept, TypeInv, DocsOK
    <2>5. TasksKept /\ \A g \in Flow \ {f} : pc'[g] = pc[g] /\ task'[g] = task[g]
        BY <2>1, ModestFlows
    <2>6. ActivationsEnd
        BY <2>1, <2>2, <2>5 DEF ActivationsEnd, TypeInv, DocsOK
    <2> QED
        BY <2>4, <2>5, <2>6 DEF GrantStep
<1>8. CASE ActivationError(f)
    <2>1. /\ pc[f] \in {"loadUser", "saveUser"} /\ task' = task /\ doc' = doc
          /\ pc' = [pc EXCEPT ![f] = "rollbackThrow"]
          /\ UNCHANGED <<subVars, features, ppStatus, ppPlan, inbox, slips>>
        BY <1>8 DEF ActivationError, Goto, userVars, ppVars
    <2>2. PlansKept /\ GrantsKept /\ ClaimsKept
        BY <2>1 DEF PlansKept, PlanKept, Present, PlansAgree, GrantsKept, ClaimsKept, subVars
    <2>3. TasksKept /\ ActivationsEnd
        BY <2>1 DEF TasksKept, ActivationsEnd, Activates, Attaches, PlansAgree, TypeInv, FlowsOK,
           The
    <2> QED
        BY <2>2, <2>3 DEF GrantStep
<1>10. CASE SyncBillingData(f)
    <2>1. pc[f] \notin Activates \cup {"idle"} /\ GoesModest(f)
        BY <1>10 DEF SyncBillingData, GoesModest, GoesTo, Goto, GotoWith, Modest,
           Activates, Attaches, Step
    <2> QED
        BY <1>10, <2>1, ModestKeeps DEF SyncBillingData, Status, subVars, userVars, ppVars
<1>11. CASE GrabDowngrade(f)
    <2>1. pc[f] \notin Activates \cup {"idle"} /\ scheduled[The(f)] = NoPlan
        BY <1>11, Running DEF GrabDowngrade, TypeInv, Quiet, Activates
    <2>2. GoesModest(f)
        BY <1>11, <2>1 DEF GrabDowngrade, GoesModest, GoesTo, Goto, Modest, Activates, Attaches,
           Step
    <2> QED
        BY <1>11, <2>1, <2>2, ModestKeeps DEF GrabDowngrade, userVars, ppVars
<1>12. CASE SetGrabbedPlan(f)
    BY <1>12 DEF SetGrabbedPlan, Quiet, PlanSteps
<1>13. CASE ReadForCancel(f)
    <2>1. pc[f] \notin Activates \cup {"idle"} /\ GoesModest(f)
        BY <1>13 DEF ReadForCancel, GoesModest, GoesTo, Goto, GotoWith, Modest,
           Activates, Attaches, Step
    <2> QED
        BY <1>13, <2>1, ModestKeeps DEF ReadForCancel, EndIs, Status, subVars, userVars, ppVars
<1>14. CASE SetCancelled(f)
    <2>1. pc[f] \notin Activates \cup {"idle"} /\ GoesModest(f)
        BY <1>14 DEF SetCancelled, GoesModest, GoesTo, Goto, GotoWith, Modest,
           Activates, Attaches, Step
    <2> QED
        BY <1>14, <2>1, ModestKeeps DEF SetCancelled, Status, subVars, userVars, ppVars
<1>15. CASE ExpireFlag(f)
    <2>1. pc[f] \notin Activates \cup {"idle"} /\ GoesModest(f)
        BY <1>15 DEF ExpireFlag, GoesModest, GoesTo, Goto, GotoWith, Modest,
           Activates, Attaches, Step
    <2> QED
        BY <1>15, <2>1, ModestKeeps DEF ExpireFlag, EndIs, Status, subVars, userVars, ppVars
<1>16. CASE ExpireLoad(f)
    <2>1. pc[f] \notin Activates \cup {"idle"} /\ GoesModest(f)
        BY <1>16 DEF ExpireLoad, GoesModest, GoesTo, Goto, GotoWith, Modest,
           Activates, Attaches, Step
    <2> QED
        BY <1>16, <2>1, ModestKeeps DEF ExpireLoad, Status, subVars, userVars, ppVars
<1>17. CASE ExpireSave(f)
    <2>1. pc[f] \notin Activates \cup {"idle"} /\ GoesModest(f)
        BY <1>17 DEF ExpireSave, GoesModest, GoesTo, Goto, GotoWith, Modest,
           Activates, Attaches, Step
    <2> QED
        BY <1>17, <2>1, ModestKeeps DEF ExpireSave, Status, subVars, userVars, ppVars
<1>18. CASE Suspend(f)
    <2>1. pc[f] \notin Activates \cup {"idle"} /\ GoesModest(f)
        BY <1>18 DEF Suspend, GoesModest, GoesTo, Goto, GotoWith, Modest,
           Activates, Attaches, Step
    <2> QED
        BY <1>18, <2>1, ModestKeeps DEF Suspend, Status, subVars, userVars, ppVars
<1>19. CASE DropPro(f)
    <2>1. pc[f] \notin Activates \cup {"idle"} /\ GoesModest(f)
        BY <1>19 DEF DropPro, GoesModest, GoesTo, Goto, GotoWith, Modest,
           Activates, Attaches, Step
    <2> QED
        BY <1>19, <2>1, ModestKeeps DEF DropPro, Status, subVars, userVars, ppVars
<1>20. CASE AskPayPalToResume(f)
    <2>1. pc[f] \notin Activates \cup {"idle"} /\ GoesModest(f)
        BY <1>20 DEF AskPayPalToResume, GoesModest, GoesTo, Goto, GotoWith, Modest,
           Activates, Attaches, Step
    <2> QED
        BY <1>20, <2>1, ModestKeeps DEF AskPayPalToResume, Status, subVars, userVars, ppVars
<1>21. CASE Resume(f)
    <2>1. pc[f] \notin Activates \cup {"idle"} /\ GoesModest(f)
        BY <1>21 DEF Resume, GoesModest, GoesTo, Goto, GotoWith, Modest,
           Activates, Attaches, Step
    <2> QED
        BY <1>21, <2>1, ModestKeeps DEF Resume, Status, subVars, userVars, ppVars
<1>22. CASE RaisePro(f)
    <2>1. pc[f] \notin Activates \cup {"idle"} /\ GoesModest(f)
        BY <1>22 DEF RaisePro, GoesModest, GoesTo, Goto, GotoWith, Modest,
           Activates, Attaches, Step
    <2> QED
        BY <1>22, <2>1, ModestKeeps DEF RaisePro, Status, subVars, userVars, ppVars
<1>23. CASE Attach(f)
    <2>1. pc[f] \notin Activates \cup {"idle"} /\ GoesModest(f)
        BY <1>23 DEF Attach, AfterAttach, GoesModest, GoesTo, Goto, Modest, Activates, Attaches,
           Step
    <2>2. The(f) \in Sub
        BY <2>1, Running DEF TypeInv
    <2>3. \A s \in Sub : owner[s] # NoUser => owner'[s] # NoUser
        BY <1>23, <2>2 DEF Attach, TypeInv, DocsOK
    <2> QED
        BY <1>23, <2>1, <2>3, ModestGrants DEF Attach, PlanKept, Present, userVars, ppVars
<1>24. CASE AttachRead(f)
    <2>1. pc[f] \notin Activates \cup {"idle"} /\ GoesModest(f)
        BY <1>24 DEF AttachRead, GoesModest, GoesTo, Goto, GotoWith, Modest,
           Activates, Attaches, Step
    <2> QED
        BY <1>24, <2>1, ModestKeeps DEF AttachRead, Status, subVars, userVars, ppVars
<1>25. CASE AttachAskPayPal(f)
    <2>1. CASE ppStatus[The(f)] = Absent
        <3>1. pc[f] \notin Activates \cup {"idle"} /\ GoesModest(f)
            BY <1>25, <2>1 DEF AttachAskPayPal, GoesModest, GoesTo, Activates, Attaches
        <3> QED
            BY <1>25, <3>1, ModestKeeps DEF AttachAskPayPal, subVars, userVars, ppVars
    <2>2. CASE ppStatus[The(f)] # Absent
        <3>1. /\ pc[f] = "attachAsk" /\ task' = task
              /\ pc' = [pc EXCEPT ![f] = "attachUpsert"]
              /\ doc' = [doc EXCEPT ![f] = PayPalDoc(The(f))]
              /\ UNCHANGED <<subVars, features, ppStatus, ppPlan, inbox, slips>>
            BY <1>25, <2>2 DEF AttachAskPayPal, GotoWith, userVars, ppVars
        <3>2. PlansKept /\ GrantsKept /\ ClaimsKept
            BY <3>1 DEF PlansKept, PlanKept, Present, PlansAgree, GrantsKept, ClaimsKept, subVars
        <3>3. PayPalDoc(The(f)).plan = ppPlan[The(f)]
            BY DEF PayPalDoc
        <3>4. TasksKept
            BY <3>1, <3>3 DEF TasksKept, PlansAgree, Attaches, OfPlan, TypeInv, FlowsOK, The
        <3>5. ActivationsEnd
            BY <3>1 DEF ActivationsEnd, Activates, TypeInv, FlowsOK
        <3> QED
            BY <3>2, <3>4, <3>5 DEF GrantStep
    <2> QED
        BY <2>1, <2>2
<1>26. CASE AttachUpsert(f)
    <2>1. pc[f] \notin Activates \cup {"idle"} /\ GoesModest(f)
        BY <1>26 DEF AttachUpsert, AfterAttach, GoesModest, GoesTo, Goto, Modest, Activates,
           Attaches, Step
    <2>2. The(f) \in Sub /\ doc[f].status \in Status /\ OfPlan(The(f), doc[f].plan)
          /\ task[f].user # NoUser
        BY <1>26, <2>1, Running DEF AttachUpsert, TypeInv, FlowsOK, ReadsOK, PlansAgree, Attaches
    <2>3. \A s \in Sub : PlanKept(s)
        <3>1. \A s \in Sub \ {The(f)} : PlanKept(s)
            BY <1>26, <2>2 DEF AttachUpsert, PlanKept, Present, TypeInv, DocsOK
        <3>2. ASSUME Present(The(f)) PROVE PlanKept(The(f))
            BY <1>26, <3>2 DEF AttachUpsert, PlanKept, Present
        <3>3. ASSUME ~Present(The(f)) PROVE PlanKept(The(f))
            <4>1. plan[The(f)] = NoPlan /\ status'[The(f)] \in Status
                  /\ plan'[The(f)] = doc[f].plan
                BY <1>26, <2>2, <3>3 DEF AttachUpsert, PlansAgree, TypeInv, DocsOK
            <4>2. OfPlan(The(f), plan'[The(f)])
                BY <2>2, <4>1
            <4>3. status'[The(f)] # Absent
                BY <4>1 DEF Status, Absent
            <4> QED
                BY <4>1, <4>2, <4>3 DEF PlanKept
        <3> QED
            BY <3>1, <3>2, <3>3
    <2>4. \A s \in Sub : slips[s] \subseteq slips'[s] /\ (owner[s] # NoUser => owner'[s] # NoUser)
        BY <1>26, <2>2 DEF AttachUpsert, TypeInv, DocsOK, CountsOK
    <2> QED
        BY <1>26, <2>1, <2>3, <2>4, ModestGrants DEF AttachUpsert, userVars, ppVars
<1> QED
    BY <1>1, <1>2, <1>3, <1>4, <1>5, <1>6, <1>7, <1>8, <1>9, <1>10, <1>11, <1>12, <1>13,
       <1>14, <1>15, <1>16, <1>17, <1>18, <1>19, <1>20, <1>21, <1>22, <1>23, <1>24,
       <1>25, <1>26 DEF ServiceNext

\* A flow that starts on an event, a request or a pass of a cron.
LEMMA StartGrants ==
    ASSUME TypeInv, PlansAgree, NEW f \in Flow, NEW step \in Step \ Activates, NEW t,
           pc[f] = "idle", pc' = [pc EXCEPT ![f] = step], task' = [task EXCEPT ![f] = t],
           \A g \in Flow \ {f} : doc'[g] = doc[g],
           step # "attachUpsert", OfPlan(t.sub, t.plan), step \in Attaches => t.user # NoUser,
           inbox' \subseteq inbox, UNCHANGED <<subVars, features, ppStatus, ppPlan, slips>>
    PROVE  GrantStep
<1>1. /\ pc'[f] = step /\ task'[f] = t
      /\ \A g \in Flow \ {f} : pc'[g] = pc[g] /\ task'[g] = task[g] /\ doc'[g] = doc[g]
    BY DEF TypeInv, FlowsOK
<1>2. PlansKept /\ GrantsKept /\ ClaimsKept
    BY DEF PlansKept, PlanKept, Present, PlansAgree, GrantsKept, ClaimsKept, subVars
<1>3. TasksKept
    BY <1>1 DEF TasksKept, PlansAgree, Activates, Attaches, The
<1>4. ActivationsEnd
    BY <1>1 DEF ActivationsEnd, Activates
<1> QED
    BY <1>2, <1>3, <1>4 DEF GrantStep

LEMMA DispatchGrants ==
    ASSUME TypeInv, OwnInv, Quiet, PlansAgree, NEW f \in Flow, DispatchNext(f)
    PROVE  GrantStep
<1>1. ASSUME NEW e \in inbox, Dispatch(f, e) PROVE GrantStep
    <2>1. FirstCall(e.kind) \in Modest
        BY DEF TypeInv, InboxOK, FirstCall, EventKind, Modest, Activates, Attaches, Step
    <2>2. /\ FirstCall(e.kind) \in Step \ Activates /\ FirstCall(e.kind) \notin Attaches
          /\ FirstCall(e.kind) # "attachUpsert"
        BY <2>1 DEF Modest, Attaches
    <2>3. OfPlan(e.sub, e.plan)
        BY DEF PlansAgree
    <2> QED
        BY <1>1, <2>2, <2>3, StartGrants DEF Dispatch, subVars, userVars, ppVars
<1>2. CASE ReadUpdated(f)
    BY <1>2 DEF ReadUpdated, Quiet, PlanSteps
<1>3. CASE Upgrade(f)
    BY <1>3 DEF Upgrade, Quiet, PlanSteps
<1>4. CASE ClearScheduled(f)
    BY <1>4 DEF ClearScheduled, Quiet, PlanSteps
<1>5. CASE ScheduleDowngrade(f)
    BY <1>5 DEF ScheduleDowngrade, Quiet, PlanSteps
<1> QED
    BY <1>1, <1>2, <1>3, <1>4, <1>5 DEF DispatchNext

LEMMA ReconciliationGrants ==
    ASSUME TypeInv, OwnInv, Quiet, PlansAgree, NEW f \in Flow, ReconciliationNext(f)
    PROVE  GrantStep
<1>1. ASSUME NEW s \in Sub, FindDeferred(f, s) \/ FindDowngrade(f, s)
                            \/ FindToVerify(f, s) \/ FindOrphan(f, s)
      PROVE  GrantStep
    <2>1. ~FindDowngrade(f, s)
        BY DEF Quiet, FindDowngrade
    <2>2. PICK kind \in TaskKind, step \in {"takeDeferred", "verify", "heal"},
               d \in DocShape \cup {None} : BeginPass(f, kind, s, step, d)
        BY <1>1, <2>1, DocTypes DEF TypeInv, FindDeferred, FindToVerify, FindOrphan, TaskKind
    <2>3. /\ step \in Step \ Activates /\ step \notin Attaches /\ step # "attachUpsert"
        BY DEF Step, Activates, Attaches
    <2>4. PICK t : t.plan = NoPlan /\ task' = [task EXCEPT ![f] = t]
        BY <2>2 DEF BeginPass
    <2>5. OfPlan(t.sub, t.plan)
        BY <2>4 DEF OfPlan
    <2>6. /\ pc[f] = "idle" /\ pc' = [pc EXCEPT ![f] = step] /\ inbox' = inbox
          /\ \A g \in Flow \ {f} : doc'[g] = doc[g]
          /\ UNCHANGED <<subVars, features, ppStatus, ppPlan, slips>>
        BY <2>2 DEF BeginPass, TypeInv, FlowsOK, userVars, ppVars
    <2> QED
        BY <2>3, <2>4, <2>5, <2>6, StartGrants
<1>2. CASE TakeDeferred(f)
    <2>1. pc[f] \notin Activates \cup {"idle"} /\ GoesModest(f)
        BY <1>2 DEF TakeDeferred, GoesModest, GoesTo, Goto, GotoWith, Modest,
           Activates, Attaches, Step
    <2> QED
        BY <1>2, <2>1, ModestKeeps DEF TakeDeferred, Status, subVars, userVars, ppVars
<1>3. CASE TakeDowngrade(f)
    BY <1>3 DEF TakeDowngrade, Quiet, PlanSteps
<1>4. CASE CopyFeatures(f)
    BY <1>4 DEF CopyFeatures, Quiet, PlanSteps
<1>5. CASE MarkApplied(f)
    BY <1>5 DEF MarkApplied, Quiet, PlanSteps
<1>6. CASE VerifyWithPayPal(f)
    <2>1. pc[f] \notin Activates \cup {"idle"} /\ GoesModest(f)
        BY <1>6 DEF VerifyWithPayPal, GoesModest, GoesTo, Goto, GotoWith, Modest,
           Activates, Attaches, Step
    <2> QED
        BY <1>6, <2>1, ModestKeeps DEF VerifyWithPayPal, Status, subVars, userVars, ppVars
<1>7. CASE CorrectStatus(f)
    <2>1. pc[f] \notin Activates \cup {"idle"} /\ GoesModest(f)
        BY <1>7 DEF CorrectStatus, GoesModest, GoesTo, Activates
    <2>2. doc[f].status \in Status
        BY <1>7, <2>1 DEF CorrectStatus, TypeInv, FlowsOK, ReadsOK
    <2> QED
        BY <1>7, <2>1, <2>2, ModestKeeps DEF CorrectStatus, userVars, ppVars
<1>8. CASE Heal(f)
    <2>1. pc[f] \notin Activates \cup {"idle"} /\ GoesModest(f)
        BY <1>8 DEF Heal, GoesModest, GoesTo, Activates
    <2>2. The(f) \in Sub
        BY <2>1, Running DEF TypeInv
    <2>3. \A s \in Sub : owner[s] # NoUser => owner'[s] # NoUser
        BY <1>8, <2>2 DEF Heal, TypeInv, DocsOK
    <2> QED
        BY <1>8, <2>1, <2>3, ModestGrants DEF Heal, PlanKept, Present, userVars, ppVars
<1> QED
    BY <1>1, <1>2, <1>3, <1>4, <1>5, <1>6, <1>7, <1>8 DEF ReconciliationNext

LEMMA FlowGrants ==
    ASSUME TypeInv, OwnInv, Quiet, PlansAgree, NEW f \in Flow, FlowNext(f)
    PROVE  GrantStep
<1>1. ASSUME NEW s \in Sub, NEW u \in User, RequestAttach(f, s, u) PROVE GrantStep
    <2>1. /\ "attach" \in Step \ Activates /\ "attach" # "attachUpsert"
        BY DEF Step, Activates
    <2>2. PICK t : t.plan = NoPlan /\ t.user = u /\ task' = [task EXCEPT ![f] = t]
        BY <1>1 DEF RequestAttach
    <2>3. OfPlan(t.sub, t.plan) /\ t.user # NoUser
        BY <2>2, NoneAssumption DEF OfPlan
    <2>4. /\ pc[f] = "idle" /\ pc' = [pc EXCEPT ![f] = "attach"] /\ inbox' = inbox
          /\ \A g \in Flow \ {f} : doc'[g] = doc[g]
          /\ UNCHANGED <<subVars, features, ppStatus, ppPlan, slips>>
        BY <1>1 DEF RequestAttach, userVars, ppVars
    <2> QED
        BY <2>1, <2>2, <2>3, <2>4, StartGrants
<1>2. CASE Crash(f)
    <2>1. /\ pc[f] # "idle" /\ GoesModest(f) /\ The(f) \in Sub
          /\ inbox' = inbox \/ GiveBack(f)
          /\ UNCHANGED <<subVars, features, ppStatus, ppPlan>>
        BY <1>2, Running DEF Crash, TypeInv, GoesModest, GoesTo, userVars, ppVars
    <2>2. /\ \A s \in Sub : slips[s] \subseteq slips'[s]
          /\ pc[f] \in Activates => "claimed" \in slips'[The(f)]
        BY <1>2, <2>1, ActivatingMeans DEF Crash, TypeInv, CountsOK
    <2>3. PlansKept /\ GrantsKept /\ ClaimsKept
        BY <2>1, <2>2, EventsGivenBack
           DEF PlansKept, PlanKept, Present, GrantsKept, ClaimsKept, subVars
    <2>4. TasksKept /\ \A g \in Flow \ {f} : pc'[g] = pc[g] /\ task'[g] = task[g]
        BY <2>1, ModestFlows
    <2>5. ActivationsEnd
        BY <2>2, <2>4 DEF ActivationsEnd
    <2> QED
        BY <2>3, <2>4, <2>5 DEF GrantStep
<1>3. CASE Stall(f)
    <2>1. \A e \in inbox' : OfPlan(e.sub, e.plan)
        BY <1>3, EventsGivenBack DEF Stall
    <2>2. UNCHANGED <<subVars, features, ppStatus, ppPlan, slips, pc, task, doc>>
        BY <1>3 DEF Stall, userVars, ppVars, flowVars
    <2>3. PlansKept /\ GrantsKept /\ ClaimsKept /\ ActivationsEnd
        BY <2>1, <2>2 DEF PlansKept, PlanKept, Present, GrantsKept, ClaimsKept, ActivationsEnd,
                          subVars
    <2>4. TasksKept
        BY <2>2 DEF TasksKept, PlansAgree, The, subVars
    <2> QED
        BY <2>3, <2>4 DEF GrantStep
<1> QED
    BY <1>1, <1>2, <1>3, ServiceGrants, DispatchGrants, ReconciliationGrants DEF FlowNext

LEMMA PreRegisterGrants ==
    ASSUME TypeInv, PlansAgree, NEW s \in Sub, PreRegister(s)
    PROVE  GrantStep
<1>1. plan[s] = NoPlan
    BY DEF PlansAgree, PreRegister
<1>2. /\ UNCHANGED <<applied, features, ppStatus, ppPlan, inbox, slips, pc, task, doc>>
      /\ owner' = [owner EXCEPT ![s] = ppCustom[s]] /\ ppCustom[s] # NoUser
      /\ plan' = [plan EXCEPT ![s] = ppPlan[s]]
      /\ status' = [status EXCEPT ![s] = "APPROVAL_PENDING"]
    BY DEF PreRegister, userVars, ppVars, flowVars
<1>3. \A t \in Sub : PlanKept(t)
    BY <1>1, <1>2 DEF PlanKept, OfPlan, Present, Absent, TypeInv, DocsOK
<1>4. PlansKept /\ GrantsKept /\ ClaimsKept /\ ActivationsEnd
    BY <1>2, <1>3 DEF PlansKept, PlansAgree, GrantsKept, ClaimsKept, ActivationsEnd, TypeInv,
                      DocsOK
<1>5. TasksKept
    BY <1>2 DEF TasksKept, PlansAgree, The
<1> QED
    BY <1>4, <1>5 DEF GrantStep

\* What PayPal reports has the plan it now has; a plan it had stays.
LEMMA PayPalGrants ==
    ASSUME TypeInv, Quiet, GrantInv, PayPalNext
    PROVE  GrantInv'
<1> DEFINE Creates(s, p) == /\ ppStatus[s] = Absent
                            /\ ppStatus' = [ppStatus EXCEPT ![s] = "APPROVAL_PENDING"]
                            /\ ppPlan' = [ppPlan EXCEPT ![s] = p]
           Stays == ppPlan' = ppPlan /\ \A s \in Sub : ppStatus'[s] = Absent => ppStatus[s] = Absent
<1>1. elsewhere' = elsewhere
    BY DEF PayPalNext, PayPalChanges, PayPalCreates, PayPalActivates, PayPalReportsPayment,
           PayPalRenews, PayPalRevises, PayPalMovesTo, PayPalRefunds, elsewhere
<1>2. \A e \in inbox' : e \in inbox \/ e.plan \in {NoPlan, ppPlan'[e.sub]}
    <2>1. ASSUME NEW s \in Sub, NEW kind, Report(s, kind)
          PROVE  \A e \in inbox' : e \in inbox \/ e.plan \in {NoPlan, ppPlan'[e.sub]}
        BY <2>1 DEF Report
    <2> QED
        BY <2>1 DEF PayPalNext, PayPalChanges, PayPalCreates, PayPalActivates,
           PayPalReportsPayment, PayPalRenews, PayPalRevises, PayPalMovesTo, PayPalRefunds
<1>3. Stays \/ \E s \in Sub, p \in Plan : Creates(s, p)
    <2>1. ASSUME NEW s \in Sub, NEW p \in Plan, PayPalRevises(s, p) PROVE FALSE
        BY <2>1 DEF PayPalRevises, Report, Quiet, NoPlanChange
    <2>2. ASSUME NEW s \in Sub, NEW m \in PayPalMoves, PayPalMovesTo(s, m) PROVE Stays
        BY <2>2 DEF PayPalMovesTo, PayPalMoves, TypeInv, PayPalOK, Absent
    <2>3. ASSUME NEW s \in Sub, PayPalActivates(s) PROVE Stays
        BY <2>3 DEF PayPalActivates, TypeInv, PayPalOK, Absent
    <2>4. ASSUME NEW s \in Sub, \/ PayPalReportsPayment(s) \/ PayPalRefunds(s)
                                \/ \E kind \in {"SALE_COMPLETED", "RENEWED"} : PayPalRenews(s, kind)
          PROVE  Stays
        BY <2>4 DEF PayPalReportsPayment, PayPalRefunds, PayPalRenews
    <2>5. ASSUME NEW s \in Sub, NEW u \in User \cup {NoUser}, NEW p \in Plan,
                 PayPalCreates(s, u, p)
          PROVE  Creates(s, p)
        BY <2>5 DEF PayPalCreates
    <2> QED
        BY <2>1, <2>2, <2>3, <2>4, <2>5 DEF PayPalNext, PayPalChanges
<1>4. \A s \in Sub : /\ ppPlan'[s] = ppPlan[s] \/ ppPlan[s] = NoPlan
                     /\ ppStatus'[s] = Absent => ppPlan'[s] = NoPlan
    BY <1>3 DEF GrantInv, PlansAgree, TypeInv, PayPalOK, Absent
<1>5. \A s \in Sub : \A p : OfPlan(s, p) => p \in {NoPlan, ppPlan'[s]}
    BY <1>4 DEF OfPlan
<1>6. \A f \in Flow : pc[f] # "idle" => The(f) \in Sub
    BY Running DEF TypeInv
<1>7. \A e \in inbox : e.sub \in Sub
    BY DEF TypeInv, InboxOK, Task
<1>8. PlansAgree'
    <2>1. \A s \in Sub : /\ plan'[s] \in {NoPlan, ppPlan'[s]}
                         /\ ppStatus'[s] = Absent => ppPlan'[s] = NoPlan
                         /\ status'[s] # Absent \/ plan'[s] = NoPlan
        BY <1>1, <1>4, <1>5 DEF GrantInv, PlansAgree, elsewhere, subVars, Present
    <2>2. \A e \in inbox' : e.plan \in {NoPlan, ppPlan'[e.sub]}
        BY <1>2, <1>5, <1>7 DEF GrantInv, PlansAgree
    <2>3. \A f \in Flow :
             /\ pc'[f] # "idle" => task'[f].plan \in {NoPlan, ppPlan'[task'[f].sub]}
             /\ pc'[f] = "attachUpsert" => doc'[f].plan \in {NoPlan, ppPlan'[task'[f].sub]}
             /\ pc'[f] \in Attaches => task'[f].user # NoUser
        BY <1>1, <1>5, <1>6 DEF GrantInv, PlansAgree, elsewhere, flowVars, The
    <2> QED
        BY <2>1, <2>2, <2>3 DEF PlansAgree, OfPlan, The, Present
<1>9. PlansGranted' /\ ClaimsGranted'
    BY <1>1 DEF GrantInv, PlansGranted, ClaimsGranted, Granted, elsewhere, subVars, userVars,
                flowVars, The
<1> QED
    BY <1>8, <1>9 DEF GrantInv

LEMMA NextGrants ==
    ASSUME TypeInv, OwnInv, ClaimInv, GrantInv, [Next]_vars
    PROVE  GrantInv'
<1>1. TypeInv' /\ OwnStep
    BY NextTypes, NextOwns
<1>2. CASE PayPalNext
    BY <1>2, PayPalGrants DEF ClaimInv
<1>3. CASE Tick \/ UNCHANGED vars
    <2>1. UNCHANGED <<subVars, userVars, ppVars, inbox, flowVars, slips>>
        BY <1>3 DEF Tick, vars
    <2>2. PlansAgree'
        BY <2>1 DEF GrantInv, PlansAgree, OfPlan, Present, subVars, ppVars, flowVars, The
    <2>3. PlansGranted' /\ ClaimsGranted'
        BY <2>1 DEF GrantInv, PlansGranted, ClaimsGranted, Granted, subVars, userVars, flowVars,
                    The
    <2> QED
        BY <2>2, <2>3 DEF GrantInv
<1>4. CASE (\E s \in Sub : PreRegister(s)) \/ (\E f \in Flow : FlowNext(f))
    <2>1. GrantStep
        BY <1>4, PreRegisterGrants, FlowGrants DEF ClaimInv, GrantInv
    <2> QED
        BY <1>1, <2>1, GrantStepKeeps
<1> QED
    BY <1>2, <1>3, <1>4 DEF Next

\* The inductive invariant of activation: a claim belongs to a flow at work, or
\* its owner has the features of the plan PayPal has of the subscription.
THEOREM GrantsHoldGood ==
    NoPlanChange => (Spec => [](TypeInv /\ OwnInv /\ ClaimInv /\ GrantInv))
<1>1. Init /\ NoPlanChange => ClaimInv
    BY DEF Init, ClaimInv, Quiet, NoPlanChange, Claimed, SingleActivator, Activating, Activates,
           PlanSteps
<1>2. Init => OwnInv
    BY DEF Init, OwnInv, AbsentUnowned, HealsPresent, ReadsHold, GrantsHold, Granting
<1>3. Init => GrantInv
    BY DEF Init, GrantInv, PlansAgree, PlansGranted, ClaimsGranted, OfPlan, Attaches
<1>4. TypeInv /\ OwnInv /\ [Next]_vars => OwnInv'
    BY NextTypes, NextOwns, OwnStepKeeps
<1>5. TypeInv /\ ClaimInv /\ [Next]_vars => ClaimInv'
    BY NextClaims
<1>6. TypeInv /\ OwnInv /\ ClaimInv /\ GrantInv /\ [Next]_vars => GrantInv'
    BY NextGrants
<1> QED
    BY <1>1, <1>2, <1>3, <1>4, <1>5, <1>6, InitTypes, NextTypes, PTL DEF Spec

\* features_applied means what it says once nobody is activating: the owner of
\* the subscription was given features, and those they have of it are of its
\* plan; unless a process died between the claim and the save or an attach took
\* the subscription over, and while no change of plan hands out the claim anew.
THEOREM AppliedMeansGranted == NoPlanChange => (Spec => []AppliedIsGranted)
<1>1. TypeInv /\ GrantInv => AppliedIsGranted
    <2> SUFFICES ASSUME TypeInv, GrantInv, NEW s \in Sub, applied[s],
                        slips[s] \cap {"claimed", "takenOver"} = {},
                        \A f \in Flow : task[f] = None
                 PROVE  /\ owner[s] # NoUser /\ features[owner[s]] # None
                        /\ features[owner[s]].sub = s => features[owner[s]].plan = plan[s]
        BY DEF AppliedIsGranted
    <2>1. Granted(s)
        BY DEF GrantInv, ClaimsGranted
    <2>2. \A f \in Flow : pc[f] \notin Activates
        BY DEF TypeInv, FlowsOK, Activates
    <2>3. owner[s] # NoUser /\ features[owner[s]] # None
        BY <2>1, <2>2 DEF Granted
    <2>4. owner[s] \in User
        BY <2>3 DEF TypeInv, DocsOK
    <2> QED
        BY <2>3, <2>4 DEF GrantInv, PlansGranted
<1> QED
    BY <1>1, GrantsHoldGood, PTL

-----------------------------------------------------------------------------
(* The plan.  Events are handled one after another, in the order PayPal    *)
(* sent them: then plan and schedule are what PayPal last said.            *)

\* One worker that handles its events in order.
PlanInOrder == InOrder /\ \A f, g \in Flow : f = g

Sale == {"SALE_COMPLETED", "SALE_REFUNDED"}

\* A change of the plan of s is still to be handled, or a payment lost one; one
\* that came after e.
Revising(s) == "lost" \in slips[s] \/ \E l \in inbox : l.sub = s /\ l.kind = "UPDATED"

LaterRevision(e) == \E l \in inbox : l.sub = e.sub /\ l.kind = "UPDATED" /\ l.id > e.id

\* An event tells PayPal's plan, or a later one does.
LastPlan(e) ==
    /\ e.id \in 1..sent /\ e.kind \in Kinds /\ ppStatus[e.sub] # Absent
    /\ IF e.kind \in Sale THEN e.plan = NoPlan
                          ELSE e.plan = ppPlan[e.sub] \/ LaterRevision(e)

EventsPlan ==
    /\ \A e \in inbox : LastPlan(e)
    /\ \A f \in Flow : pc[f] # "idle" /\ Kind(f) \in EventKind => LastPlan(task[f])

\* The document of s is there, or an ACTIVATED of an id below n is still to be
\* handled, which creates it.
Storing == {"updateStatus", "createForStatus"}

Introduces(f, s, n) ==
    pc[f] \in Storing /\ Kind(f) = "ACTIVATED" /\ The(f) = s /\ task[f].id < n

Introduced(s, n) ==
    \/ Present(s)
    \/ \E a \in inbox : a.sub = s /\ a.kind = "ACTIVATED" /\ a.id < n
    \/ \E f \in Flow : Introduces(f, s, n)

\* Revisions and payments come after the activation.
Relying == {"UPDATED", "SALE_COMPLETED"}

ActivatedFirst ==
    /\ \A e \in inbox : e.kind \in Relying => Introduced(e.sub, e.id)
    /\ \A f \in Flow : pc[f] # "idle" /\ Kind(f) \in Relying => Present(The(f))
    /\ \A s \in Sub : ppStatus[s] \notin {Absent, "APPROVAL_PENDING"} => Introduced(s, sent + 1)

Revises == {"readUpdated", "upgrade", "clearSuperseded", "clearReverted", "schedule"}

\* What the flow has read is still so, and the plan it is about to store is
\* PayPal's, or a revision is still to be handled.
ReadsPlan(f) ==
    /\ pc[f] = "updateFromWebhook" => Kind(f) = "CREATED"
    /\ pc[f] \in Revises => Kind(f) = "UPDATED"
    /\ pc[f] = "upgrade" => doc[f].scheduled = scheduled[The(f)]
    /\ pc[f] \in {"clearSuperseded", "clearReverted"} => plan[The(f)] = task[f].plan
    /\ pc[f] \in {"grabDowngrade", "setPlan"} => Kind(f) \in {"SALE_COMPLETED", "RENEWED"}
    /\ pc[f] = "setPlan" => /\ scheduled[The(f)] = NoPlan
                            /\ doc[f].scheduled = ppPlan[The(f)] \/ Revising(The(f))
    /\ pc[f] = "attachUpsert" => /\ ppStatus[The(f)] # Absent
                                 /\ doc[f].plan = ppPlan[The(f)] \/ Revising(The(f))
    /\ pc[f] \in {"setCancelled", "verify", "correct"} => Present(The(f))

\* The flow has a plan of s to store: that of a revision, that it took off
\* the schedule, or that of a renewal which takes nothing off it.
Renewing == {"grabDowngrade", "updateStatus", "createForStatus"}

Due(f, s) ==
    /\ pc[f] # "idle" /\ The(f) = s
    /\ \/ pc[f] \in Revises \cup {"setPlan"}
       \/ pc[f] \in Renewing /\ Kind(f) = "RENEWED" /\ scheduled[s] = NoPlan

\* A renewal that is still to be handled will store the plan.
RenewalDue(s) == scheduled[s] = NoPlan /\ \E e \in inbox : e.sub = s /\ e.kind = "RENEWED"

Agreed(s) == ppPlan[s] \in {plan[s], scheduled[s]} /\ scheduled[s] \in {NoPlan, ppPlan[s]}

PlanSettled(s) ==
    ~Present(s) \/ Agreed(s) \/ Revising(s) \/ RenewalDue(s) \/ \E f \in Flow : Due(f, s)

DocKnown(s) ==
    /\ Present(s) => ppStatus[s] # Absent
    /\ ~Present(s) => scheduled[s] = NoPlan
    /\ ppStatus[s] # Absent => ppPlan[s] \in Plan

PlanInv ==
    /\ EventsPlan /\ ActivatedFirst
    /\ \A f \in Flow : ReadsPlan(f)
    /\ \A s \in Sub : DocKnown(s) /\ PlanSettled(s)

\* What a step of a flow at work on s may do to the plan of s.
PlanStep(f, s) ==
    /\ UNCHANGED <<ppStatus, ppPlan, sent>>
    /\ inbox' = inbox \/ GiveBack(f)
    /\ pc'[f] = "idle" \/ task'[f] = task[f]
    /\ \A t \in Sub \ {s} :
          status'[t] = status[t] /\ plan'[t] = plan[t] /\ scheduled'[t] = scheduled[t]
    /\ Present(s) => status'[s] # Absent
    /\ pc[f] \in Storing /\ Kind(f) = "ACTIVATED"
          => status'[s] # Absent \/ pc'[f] \in Storing \/ GiveBack(f)
    /\ ReadsPlan(f)'
    /\ DocKnown(s)'
    /\ PlanSettled(s)'

\* A plan that was lost stays lost.
LostStays == \A s \in Sub : "lost" \in slips[s] => "lost" \in slips'[s]

LEMMA RevisingStays ==
    ASSUME LostStays, inbox \subseteq inbox'
    PROVE  /\ \A s \in Sub : Revising(s) => Revising(s)'
           /\ \A e : LaterRevision(e) => LaterRevision(e)'
    BY DEF Revising, LostStays, LaterRevision

\* An event that a flow gives back, and what it tells.
LEMMA GivesBack ==
    ASSUME PlanInOrder, TypeInv, PlanInv, NEW f \in Flow, pc[f] # "idle",
           inbox' = inbox \/ GiveBack(f)
    PROVE  /\ inbox \subseteq inbox'
           /\ \A e \in inbox' : e \in inbox \/ (e = task[f] /\ Kind(f) \in EventKind)
           /\ GiveBack(f) /\ Kind(f) \in EventKind => task[f] \in inbox'
           /\ Kind(f) \in EventKind => LastPlan(task[f])
<1>1. task[f].id > 0 => Kind(f) \in EventKind
    BY DEF TypeInv, FlowsOK, ReadsOK, Kind
<1>2. Kind(f) \in EventKind => LastPlan(task[f])
    BY DEF PlanInv, EventsPlan
<1>3. Kind(f) \in EventKind => task[f].id > 0
    BY <1>2 DEF LastPlan
<1> QED
    BY <1>1, <1>2, <1>3 DEF GiveBack

LEMMA PlanStepKeeps ==
    ASSUME PlanInOrder, LostStays, TypeInv, PlanInv, NEW f \in Flow, NEW s \in Sub, pc[f] # "idle",
           s = The(f), PlanStep(f, s)
    PROVE  PlanInv'
<1>1. /\ inbox \subseteq inbox'
      /\ \A e \in inbox' : e \in inbox \/ (e = task[f] /\ Kind(f) \in EventKind)
      /\ GiveBack(f) /\ Kind(f) \in EventKind => task[f] \in inbox'
      /\ Kind(f) \in EventKind => LastPlan(task[f])
    BY GivesBack DEF PlanStep
<1>2. /\ \A t \in Sub : Revising(t) => Revising(t)'
      /\ \A e : LaterRevision(e) => LaterRevision(e)'
    BY <1>1, RevisingStays
<1>3. \A e : LastPlan(e) => LastPlan(e)'
    BY <1>2 DEF LastPlan, PlanStep
<1>4. \A g \in Flow : g = f
    BY DEF PlanInOrder
<1>5. EventsPlan'
    <2>1. \A e \in inbox' : LastPlan(e)
        BY <1>1 DEF PlanInv, EventsPlan
    <2>2. pc'[f] # "idle" /\ task'[f].kind \in EventKind => LastPlan(task[f]) /\ task'[f] = task[f]
        BY DEF PlanInv, EventsPlan, PlanStep, Kind
    <2> QED
        BY <1>3, <1>4, <2>1, <2>2 DEF EventsPlan, Kind, LastPlan, LaterRevision
<1>6. \A t \in Sub : Present(t) => status'[t] # Absent
    BY DEF PlanStep, Present
<1>7. ASSUME NEW t \in Sub, NEW n, Introduced(t, n) PROVE Introduced(t, n)'
    <2>1. CASE Present(t) \/ \E a \in inbox : a.sub = t /\ a.kind = "ACTIVATED" /\ a.id < n
        BY <1>1, <1>6, <2>1 DEF Introduced, Present
    <2>2. CASE Introduces(f, t, n)
        <3>1. /\ t = s /\ Kind(f) = "ACTIVATED" /\ Kind(f) \in EventKind /\ task[f].id < n
              /\ status'[s] # Absent \/ pc'[f] \in Storing \/ GiveBack(f)
            BY <2>2 DEF Introduces, PlanStep, EventKind
        <3>2. CASE status'[s] # Absent
            BY <3>1, <3>2 DEF Introduced, Present
        <3>3. CASE pc'[f] \in Storing
            <4>1. task'[f] = task[f]
                BY <3>3 DEF PlanStep, Storing
            <4> QED
                BY <3>1, <3>3, <4>1 DEF Introduced, Introduces, Kind, The
        <3>4. CASE GiveBack(f)
            BY <1>1, <3>1, <3>4 DEF Introduced, Kind, The
        <3> QED
            BY <3>1, <3>2, <3>3, <3>4
    <2> QED
        BY <1>4, <1>7, <2>1, <2>2 DEF Introduced
<1>8. ActivatedFirst'
    <2>1. ASSUME NEW e \in inbox', e.kind \in Relying PROVE Introduced(e.sub, e.id)'
        <3>1. CASE e \in inbox
            <4>1. Introduced(e.sub, e.id) /\ e.sub \in Sub
                BY <2>1, <3>1 DEF PlanInv, ActivatedFirst, TypeInv, InboxOK, Task
            <4> QED
                BY <1>7, <4>1
        <3>2. CASE e = task[f]
            <4>1. Present(s) /\ e.sub = s
                BY <2>1, <3>2 DEF PlanInv, ActivatedFirst, Kind, The
            <4> QED
                BY <1>6, <4>1 DEF Introduced, Present
        <3> QED
            BY <1>1, <3>1, <3>2
    <2>2. ASSUME pc'[f] # "idle", task'[f].kind \in Relying PROVE status'[task'[f].sub] # Absent
        BY <1>6, <2>2 DEF PlanStep, PlanInv, ActivatedFirst, Kind, The
    <2>3. ppStatus' = ppStatus /\ \E n : n = sent + 1 /\ n = sent' + 1
        BY DEF PlanStep
    <2>4. PICK n : n = sent + 1 /\ n = sent' + 1
        BY <2>3
    <2>5. \A t \in Sub : ppStatus'[t] \notin {Absent, "APPROVAL_PENDING"} => Introduced(t, n)'
        BY <1>7, <2>3, <2>4 DEF PlanInv, ActivatedFirst
    <2> QED
        BY <1>4, <2>1, <2>2, <2>4, <2>5 DEF ActivatedFirst, Introduced, Introduces, Kind, The,
           Present
<1>9. \A g \in Flow : ReadsPlan(g)'
    BY <1>4 DEF PlanStep
<1>10. ASSUME NEW t \in Sub PROVE DocKnown(t)' /\ PlanSettled(t)'
    <2>1. CASE t = s
        BY <2>1 DEF PlanStep
    <2>2. CASE t # s
        <3>1. /\ status'[t] = status[t] /\ plan'[t] = plan[t] /\ scheduled'[t] = scheduled[t]
              /\ ppStatus' = ppStatus /\ ppPlan' = ppPlan
            BY <2>2 DEF PlanStep
        <3>2. ~\E g \in Flow : Due(g, t)
            BY <1>4, <2>2 DEF Due
        <3>3. DocKnown(t)' /\ (Agreed(t) => Agreed(t)') /\ (Present(t)' => Present(t))
            BY <3>1 DEF PlanInv, DocKnown, Agreed, Present
        <3>4. RenewalDue(t) => RenewalDue(t)'
            BY <1>1, <3>1 DEF RenewalDue
        <3> QED
            BY <1>2, <3>2, <3>3, <3>4 DEF PlanInv, PlanSettled
    <2> QED
        BY <2>1, <2>2
<1> QED
    BY <1>5, <1>8, <1>9, <1>10 DEF PlanInv

\* A step after which the flow has nothing to do with the plan.
Planless == Step \ (Revises \cup Renewing \cup {"updateFromWebhook", "setPlan", "attachUpsert",
                                           "setCancelled", "verify", "correct"})

\* A step that leaves plan and schedule alone: if it ends a flow that had a
\* plan to store, the event is given back, or the plan is lost.
LEMMA PlanlessKeeps ==
    ASSUME PlanInOrder, LostStays, TypeInv, PlanInv, NEW f \in Flow, pc[f] # "idle", GoesTo(f,
           Planless),
           UNCHANGED <<plan, scheduled, ppStatus, ppPlan, sent>>,
           \/ status' = status
           \/ Present(The(f)) /\ \E st \in Status : status' = [status EXCEPT ![The(f)] = st],
           \/ pc[f] \notin Revises \cup Renewing \cup {"setPlan"} /\ inbox' = inbox
           \/ /\ GiveBack(f)
              /\ pc[f] = "setPlan" /\ Kind(f) = "SALE_COMPLETED" => "lost" \in slips'[The(f)]
    PROVE  PlanInv'
<1>1. PICK s \in Sub : s = The(f)
    BY Running DEF TypeInv
<1>2. /\ pc'[f] \in Planless \cup {"idle"}
      /\ pc'[f] = "idle" \/ task'[f] = task[f]
    BY DEF GoesTo, Return, TypeInv, FlowsOK
<1>3. ReadsPlan(f)'
    BY <1>2 DEF Planless, Revises, Renewing, ReadsPlan
<1>4. /\ \A t \in Sub \ {s} : status'[t] = status[t]
      /\ Present(s) <=> status'[s] # Absent
    BY <1>1 DEF TypeInv, DocsOK, Present, Status, Absent
<1>5. /\ inbox \subseteq inbox'
      /\ GiveBack(f) /\ Kind(f) \in EventKind => task[f] \in inbox'
    BY GivesBack
<1>6. PlanSettled(s)'
    <2>1. CASE ~Present(s) \/ Agreed(s)
        BY <1>4, <2>1 DEF PlanSettled, Present, Agreed
    <2>2. CASE Revising(s) \/ RenewalDue(s)
        BY <1>5, <2>2 DEF PlanSettled, Revising, LostStays, RenewalDue
    <2>3. CASE Due(f, s)
        <3>1. GiveBack(f)
            BY <2>3 DEF Due
        <3>2. CASE pc[f] \in Revises
            BY <1>1, <1>5, <3>1, <3>2 DEF PlanInv, ReadsPlan, PlanSettled, Revising, Kind, The,
               EventKind
        <3>3. CASE pc[f] \in Renewing /\ Kind(f) = "RENEWED" /\ scheduled[s] = NoPlan
            BY <1>1, <1>5, <3>1, <3>3 DEF PlanSettled, RenewalDue, Kind, The, EventKind
        <3>4. CASE pc[f] = "setPlan"
            <4>1. CASE Kind(f) = "SALE_COMPLETED"
                <5>1. "lost" \in slips'[s]
                    BY <1>1, <3>4, <4>1 DEF Revises, Renewing
                <5> QED
                    BY <5>1 DEF PlanSettled, Revising
            <4>2. CASE Kind(f) # "SALE_COMPLETED"
                <5>1. Kind(f) = "RENEWED" /\ scheduled[s] = NoPlan
                    BY <1>1, <3>4, <4>2 DEF PlanInv, ReadsPlan
                <5> QED
                    BY <1>1, <1>5, <3>1, <5>1 DEF PlanSettled, RenewalDue, Kind, The, EventKind
            <4> QED
                BY <4>1, <4>2
        <3> QED
            BY <2>3, <3>2, <3>3, <3>4 DEF Due
    <2> QED
        BY <1>1, <2>1, <2>2, <2>3 DEF PlanInv, PlanSettled, PlanInOrder
<1>7. DocKnown(s)'
    BY <1>1, <1>4 DEF PlanInv, DocKnown, Present
<1>8. PlanStep(f, s)
    BY <1>1, <1>2, <1>3, <1>4, <1>6, <1>7 DEF PlanStep, Storing, Renewing
<1> QED
    BY <1>1, <1>8, PlanStepKeeps

\* The plan a flow has from its event is PayPal's, or a revision is due.
LEMMA EventPlanTells ==
    ASSUME PlanInOrder, TypeInv, PlanInv, NEW f \in Flow, pc[f] # "idle",
           Kind(f) \in EventKind \ Sale
    PROVE  /\ ppStatus[The(f)] # Absent
           /\ task[f].plan = ppPlan[The(f)] \/ Revising(The(f))
           /\ ppPlan[The(f)] \in Plan
<1>1. LastPlan(task[f]) /\ task[f].kind \notin Sale /\ The(f) \in Sub
    BY Running DEF PlanInv, EventsPlan, Kind, TypeInv
<1>2. ppStatus[The(f)] # Absent /\ (task[f].plan = ppPlan[The(f)] \/ LaterRevision(task[f]))
    BY <1>1 DEF LastPlan, The
<1> QED
    BY <1>1, <1>2 DEF LaterRevision, Revising, The, PlanInv, DocKnown

\* updateStatus stores the plan of the event; that of a payment has none.
LEMMA WriteStatusSettles ==
    ASSUME PlanInOrder, LostStays, TypeInv, PlanInv, NEW f \in Flow, pc[f] \in Storing,
           WriteStatus(f),
           AfterUpdateStatus(f), Present(The(f)) \/ pc[f] = "createForStatus",
           UNCHANGED <<ppStatus, ppPlan, sent, inbox>>
    PROVE  PlanInv'
<1>0. PICK s \in Sub : s = The(f)
    BY Running DEF TypeInv, Storing
<1>1. /\ s = The(f) /\ Kind(f) \in StatusKind /\ pc[f] \in {"updateStatus", "createForStatus"}
      /\ pc[f] # "idle"
    BY <1>0 DEF TypeInv, Storing, FlowsOK, ReadsOK, Kind
<1>2. /\ pc'[f] \in {"idle", "claim", "grabDowngrade", "expireFlag"}
      /\ pc'[f] = "idle" \/ task'[f] = task[f]
      /\ pc'[f] = "grabDowngrade" => Kind(f) = "SALE_COMPLETED"
    BY <1>1 DEF AfterUpdateStatus, StatusKind, Goto, Return, TypeInv, FlowsOK
<1>3. /\ status'[s] # Absent /\ scheduled' = scheduled
      /\ \A t \in Sub \ {s} : status'[t] = status[t] /\ plan'[t] = plan[t]
      /\ plan'[s] = IF task[f].plan # NoPlan THEN task[f].plan ELSE plan[s]
    BY <1>1 DEF WriteStatus, NewStatus, TypeInv, DocsOK, Absent
<1>4. ReadsPlan(f)'
    BY <1>2 DEF ReadsPlan, Revises, Kind
<1>5. ppStatus[s] # Absent
    BY <1>1 DEF PlanInv, EventsPlan, LastPlan, StatusKind, EventKind, Kind, The
<1>6. DocKnown(s)'
    BY <1>1, <1>3, <1>5 DEF PlanInv, DocKnown, Present
<1>7. PlanSettled(s)'
    <2>1. CASE Kind(f) = "SALE_COMPLETED"
        <3>1. task[f].plan = NoPlan /\ Present(s)
            BY <1>1, <2>1 DEF PlanInv, EventsPlan, LastPlan, Sale, EventKind, Kind, ActivatedFirst,
               Relying
        <3>2. ~Due(f, s)
            BY <1>1, <2>1 DEF Due, Revises
        <3>3. Agreed(s) \/ Revising(s) \/ RenewalDue(s)
            BY <1>1, <3>1, <3>2 DEF PlanInv, PlanSettled, PlanInOrder
        <3> QED
            BY <1>3, <3>1, <3>3 DEF PlanSettled, Agreed, Revising, LostStays, RenewalDue
    <2>2. CASE Kind(f) # "SALE_COMPLETED"
        <3>1. /\ task[f].plan = ppPlan[s] \/ Revising(s)
              /\ ppPlan[s] \in Plan
            BY <1>1, <2>2, EventPlanTells DEF StatusKind, EventKind, Sale
        <3>2. Revising(s) \/ scheduled[s] \in {NoPlan, ppPlan[s]}
            BY <1>1 DEF PlanInv, DocKnown, PlanSettled, Agreed, RenewalDue, Due, Revises,
               PlanInOrder
        <3>3. CASE Revising(s)
            BY <3>3 DEF PlanSettled, Revising, LostStays
        <3>4. CASE task[f].plan = ppPlan[s] /\ scheduled[s] \in {NoPlan, ppPlan[s]}
            <4>1. plan'[s] = ppPlan[s]
                BY <1>3, <3>1, <3>4, NoneAssumption
            <4> QED
                BY <1>3, <3>4, <4>1 DEF PlanSettled, Agreed
        <3> QED
            BY <3>1, <3>2, <3>3, <3>4
    <2> QED
        BY <2>1, <2>2
<1>8. PlanStep(f, s)
    BY <1>1, <1>2, <1>3, <1>4, <1>6, <1>7 DEF PlanStep
<1> QED
    BY <1>1, <1>8, PlanStepKeeps

LEMMA ServicePlans ==
    ASSUME PlanInOrder, LostStays, TypeInv, PlanInv, NEW f \in Flow, ServiceNext(f)
    PROVE  PlanInv'
<1>0. pc[f] # "idle" => \E s \in Sub : s = The(f)
    BY Running DEF TypeInv
<1>1. CASE UpdateFromWebhook(f)
    <2>1. PICK s \in Sub : s = The(f)
        BY <1>0, <1>1 DEF UpdateFromWebhook
    <2>2. /\ pc[f] = "updateFromWebhook" /\ pc'[f] = "idle" /\ scheduled' = scheduled
          /\ UNCHANGED <<ppStatus, ppPlan, sent, inbox>>
          /\ \A t \in Sub \ {s} : status'[t] = status[t] /\ plan'[t] = plan[t]
          /\ status'[s] # Absent
          /\ plan'[s] = IF Present(s) THEN plan[s] ELSE task[f].plan
        BY <1>1, <2>1 DEF UpdateFromWebhook, Return, TypeInv, DocsOK, FlowsOK, Absent, ppVars
    <2>3. /\ ppStatus[s] # Absent
          /\ task[f].plan = ppPlan[s] \/ Revising(s)
        BY <2>1, <2>2, EventPlanTells DEF PlanInv, ReadsPlan, EventKind, Sale
    <2>4. ReadsPlan(f)' /\ DocKnown(s)'
        BY <2>2, <2>3 DEF ReadsPlan, Revises, PlanInv, DocKnown, Present
    <2>5. PlanSettled(s)'
        <3>1. CASE Present(s)
            <4>1. Agreed(s) \/ Revising(s) \/ RenewalDue(s)
                BY <2>2, <3>1 DEF PlanInv, PlanSettled, Due, Revises, Renewing, PlanInOrder
            <4> QED
                BY <2>2, <3>1, <4>1 DEF PlanSettled, Agreed, Revising, LostStays, RenewalDue
        <3>2. CASE ~Present(s)
            BY <2>2, <2>3, <3>2 DEF PlanInv, DocKnown, PlanSettled, Agreed, Revising, LostStays
        <3> QED
            BY <3>1, <3>2
    <2>6. PlanStep(f, s)
        BY <2>2, <2>4, <2>5 DEF PlanStep, Storing
    <2> QED
        BY <2>1, <2>2, <2>6, PlanStepKeeps
<1>2. CASE UpdateStatus(f)
    <2>1. pc[f] = "updateStatus" /\ UNCHANGED <<ppStatus, ppPlan, sent, inbox>>
        BY <1>2 DEF UpdateStatus, ppVars
    <2>2. CASE Present(The(f))
        BY <1>2, <2>1, <2>2, WriteStatusSettles DEF UpdateStatus, Storing
    <2>3. CASE ~Present(The(f))
        <3>1. PICK s \in Sub : s = The(f)
            BY <1>0, <2>1
        <3>2. /\ pc'[f] = "createForStatus" /\ UNCHANGED <<status, plan, scheduled, task>>
              /\ ~Present(s)
            BY <1>2, <2>3, <3>1 DEF UpdateStatus, Goto, subVars, TypeInv, FlowsOK
        <3>3. ReadsPlan(f)' /\ DocKnown(s)' /\ PlanSettled(s)'
            BY <2>1, <3>2 DEF ReadsPlan, Revises, PlanInv, DocKnown, PlanSettled, Present
        <3>4. PlanStep(f, s)
            BY <2>1, <3>2, <3>3 DEF PlanStep, Storing, Present
        <3> QED
            BY <2>1, <3>1, <3>4, PlanStepKeeps
    <2> QED
        BY <2>2, <2>3
<1>3. CASE CreateForStatus(f)
    <2>1. pc[f] = "createForStatus" /\ UNCHANGED <<ppStatus, ppPlan, sent>>
        BY <1>3 DEF CreateForStatus, ppVars
    <2>2. CASE Present(The(f))
        <3>1. GoesTo(f, Planless) /\ GiveBack(f) /\ UNCHANGED <<status, plan, scheduled>>
            BY <1>3, <2>2 DEF CreateForStatus, GoesTo, subVars
        <3> QED
            BY <2>1, <3>1, PlanlessKeeps
    <2>3. CASE ~Present(The(f))
        BY <1>3, <2>1, <2>3, WriteStatusSettles DEF CreateForStatus, Storing
    <2> QED
        BY <2>2, <2>3
<1>4. CASE ClaimActivation(f) \/ LoadUser(f) \/ SaveUser(f) \/ Rollback(f) \/ ActivationError(f)
           \/ SyncBillingData(f) \/ DropPro(f) \/ RaisePro(f)
    <2>1. /\ GoesTo(f, Planless) /\ pc[f] # "idle"
          /\ pc[f] \notin Revises \cup Renewing \cup {"setPlan"}
          /\ UNCHANGED <<status, plan, scheduled, ppStatus, ppPlan, sent, inbox>>
        BY <1>4 DEF ClaimActivation, LoadUser, SaveUser, Rollback, ActivationError,
           SyncBillingData, DropPro, RaisePro, AfterActivation, Goto, GotoWith, GoesTo,
           Planless, Revises, Renewing, Step, subVars, ppVars
    <2> QED
        BY <2>1, PlanlessKeeps
<1>5. CASE RollbackThrow(f)
    <2>1. /\ GoesTo(f, Planless) /\ pc[f] = "rollbackThrow" /\ GiveBack(f)
          /\ UNCHANGED <<status, plan, scheduled, ppStatus, ppPlan, sent>>
        BY <1>5 DEF RollbackThrow, GoesTo, ppVars
    <2> QED
        BY <2>1, PlanlessKeeps
<1>6. CASE GrabDowngrade(f)
    <2>1. PICK s \in Sub : s = The(f)
        BY <1>0, <1>6 DEF GrabDowngrade
    <2>2. /\ pc[f] = "grabDowngrade" /\ UNCHANGED <<status, plan, ppStatus, ppPlan, sent, inbox>>
          /\ \A t \in Sub \ {s} : scheduled'[t] = scheduled[t]
        BY <1>6, <2>1 DEF GrabDowngrade, ppVars, TypeInv, DocsOK
    <2>3. Kind(f) \in {"SALE_COMPLETED", "RENEWED"}
        BY <2>2 DEF PlanInv, ReadsPlan
    <2>4. \/ ~Present(s) \/ Agreed(s) \/ Revising(s) \/ RenewalDue(s)
          \/ Kind(f) = "RENEWED" /\ scheduled[s] = NoPlan
        BY <2>2 DEF PlanInv, PlanSettled, Due, Revises, PlanInOrder
    <2>5. CASE scheduled[s] # NoPlan
        <3>1. /\ scheduled'[s] = NoPlan /\ pc'[f] = "setPlan" /\ task'[f] = task[f]
              /\ doc'[f].scheduled = scheduled[s]
            BY <1>6, <2>1, <2>5 DEF GrabDowngrade, GotoWith, Doc, TypeInv, DocsOK, FlowsOK
        <3>2. Revising(s) \/ scheduled[s] = ppPlan[s]
            BY <2>4, <2>5 DEF PlanInv, DocKnown, Agreed, RenewalDue
        <3>3. ReadsPlan(f)' /\ DocKnown(s)' /\ PlanSettled(s)'
            BY <2>1, <2>2, <2>3, <3>1, <3>2 DEF ReadsPlan, Revises, Revising, LostStays, PlanInv,
               DocKnown,
               PlanSettled, Due, Present, Kind, The
        <3>4. PlanStep(f, s)
            BY <2>2, <3>1, <3>3 DEF PlanStep, Storing, Present
        <3> QED
            BY <2>1, <2>2, <3>4, PlanStepKeeps
    <2>6. CASE scheduled[s] = NoPlan
        <3>1. /\ scheduled' = scheduled
              /\ IF Kind(f) = "RENEWED" THEN pc'[f] = "updateStatus" /\ task'[f] = task[f]
                                        ELSE pc'[f] = "idle"
            BY <1>6, <2>1, <2>6 DEF GrabDowngrade, Goto, Return, TypeInv, FlowsOK
        <3>2. ReadsPlan(f)' /\ DocKnown(s)'
            BY <2>2, <3>1 DEF ReadsPlan, Revises, PlanInv, DocKnown, Present
        <3>3. PlanSettled(s)'
            BY <2>1, <2>2, <2>4, <2>6, <3>1 DEF PlanSettled, Agreed, Revising, LostStays,
               RenewalDue, Due,
               Renewing, Present, Kind, The
        <3>4. PlanStep(f, s)
            BY <2>2, <3>1, <3>2, <3>3 DEF PlanStep, Storing, Present
        <3> QED
            BY <2>1, <2>2, <3>4, PlanStepKeeps
    <2> QED
        BY <2>5, <2>6
<1>7. CASE SetGrabbedPlan(f)
    <2>1. PICK s \in Sub : s = The(f)
        BY <1>0, <1>7 DEF SetGrabbedPlan
    <2>2. /\ pc[f] = "setPlan" /\ pc'[f] = "claim" /\ task'[f] = task[f]
          /\ UNCHANGED <<status, scheduled, ppStatus, ppPlan, sent, inbox>>
          /\ \A t \in Sub \ {s} : plan'[t] = plan[t]
          /\ plan'[s] = doc[f].scheduled
        BY <1>7, <2>1 DEF SetGrabbedPlan, GotoWith, ppVars, TypeInv, DocsOK, FlowsOK
    <2>3. scheduled[s] = NoPlan /\ (doc[f].scheduled = ppPlan[s] \/ Revising(s))
        BY <2>1, <2>2 DEF PlanInv, ReadsPlan
    <2>4. ReadsPlan(f)' /\ DocKnown(s)'
        BY <2>2 DEF ReadsPlan, Revises, PlanInv, DocKnown, Present
    <2>5. PlanSettled(s)'
        BY <2>2, <2>3 DEF PlanSettled, Agreed, Revising, LostStays
    <2>6. PlanStep(f, s)
        BY <2>2, <2>4, <2>5 DEF PlanStep, Storing, Present
    <2> QED
        BY <2>1, <2>2, <2>6, PlanStepKeeps
<1>8. CASE ReadForCancel(f) \/ AttachAskPayPal(f)
    <2>1. PICK s \in Sub : s = The(f)
        BY <1>0, <1>8 DEF ReadForCancel, AttachAskPayPal
    <2>2. /\ pc[f] \in {"cancel", "attachAsk"}
          /\ UNCHANGED <<status, plan, scheduled, ppStatus, ppPlan, sent, inbox>>
          /\ \/ pc'[f] = "idle"
             \/ pc'[f] = "setCancelled" /\ Present(s) /\ task'[f] = task[f]
             \/ /\ pc'[f] = "attachUpsert" /\ ppStatus[s] # Absent /\ task'[f] = task[f]
                /\ doc'[f].plan = ppPlan[s]
        BY <1>8, <2>1 DEF ReadForCancel, AttachAskPayPal, GotoWith, Return, PayPalDoc, subVars,
           ppVars, TypeInv, FlowsOK
    <2>3. ReadsPlan(f)' /\ DocKnown(s)'
        BY <2>1, <2>2 DEF ReadsPlan, Revises, PlanInv, DocKnown, Present, The
    <2>4. PlanSettled(s)'
        BY <2>2 DEF PlanInv, PlanSettled, Agreed, Revising, LostStays, RenewalDue, Due, Revises,
           Renewing,
           Present, PlanInOrder
    <2>5. PlanStep(f, s)
        BY <2>2, <2>3, <2>4 DEF PlanStep, Storing, Present
    <2> QED
        BY <2>1, <2>2, <2>5, PlanStepKeeps
<1>9. CASE SetCancelled(f) \/ Suspend(f) \/ Resume(f)
    <2>1. /\ GoesTo(f, Planless) /\ pc[f] # "idle"
          /\ pc[f] \notin Revises \cup Renewing \cup {"setPlan"}
          /\ UNCHANGED <<plan, scheduled, ppStatus, ppPlan, sent, inbox>>
        BY <1>9 DEF SetCancelled, Suspend, Resume, GotoWith, GoesTo, Planless, Revises, Renewing,
           Step, ppVars
    <2>2. \/ status' = status
          \/ Present(The(f)) /\ \E st \in Status : status' = [status EXCEPT ![The(f)] = st]
        BY <1>9 DEF SetCancelled, Suspend, Resume, Status, PlanInv, ReadsPlan
    <2> QED
        BY <2>1, <2>2, PlanlessKeeps
<1>10. CASE ExpireFlag(f) \/ ExpireLoad(f) \/ ExpireSave(f) \/ AskPayPalToResume(f) \/ Attach(f)
            \/ AttachRead(f)
    <2>1. UNCHANGED <<status, plan, scheduled, ppStatus, ppPlan, sent, inbox>>
        BY <1>10 DEF ExpireFlag, ExpireLoad, ExpireSave, AskPayPalToResume, Attach, AttachRead,
           subVars, ppVars
    <2>2. pc[f] # "idle" /\ pc[f] \notin Revises \cup Renewing \cup {"setPlan"}
        BY <1>10 DEF ExpireFlag, ExpireLoad, ExpireSave, AskPayPalToResume, Attach, AttachRead,
           Revises, Renewing
    <2>3. {"expireLoad", "expireSave", "resume", "claim", "attachRead", "attachAsk"}
          \subseteq Planless
        BY DEF Planless, Step, Revises, Renewing
    <2>4. \/ Return(f)
          \/ \E step \in {"expireLoad", "expireSave", "resume", "claim", "attachRead", "attachAsk"} :
                \/ pc' = [pc EXCEPT ![f] = step] /\ UNCHANGED <<task, doc>>
                \/ \E d : GotoWith(f, step, d)
        <3>1. CASE ExpireFlag(f)
            BY <3>1 DEF ExpireFlag
        <3>2. CASE ExpireLoad(f) \/ ExpireSave(f)
            BY <3>2 DEF ExpireLoad, ExpireSave
        <3>3. CASE AskPayPalToResume(f)
            BY <3>3 DEF AskPayPalToResume, Goto
        <3>4. CASE Attach(f) \/ AttachRead(f)
            BY <3>4 DEF Attach, AttachRead, AfterAttach, Goto
        <3> QED
            BY <1>10, <3>1, <3>2, <3>3, <3>4
    <2>5. GoesTo(f, Planless)
        BY <2>3, <2>4 DEF GoesTo, GotoWith
    <2> QED
        BY <2>1, <2>2, <2>5, PlanlessKeeps
<1>11. CASE AttachUpsert(f)
    <2>1. PICK s \in Sub : s = The(f)
        BY <1>0, <1>11 DEF AttachUpsert
    <2>2. /\ pc[f] = "attachUpsert" /\ GoesTo(f, {"claim"})
          /\ UNCHANGED <<scheduled, ppStatus, ppPlan, sent, inbox>>
        BY <1>11 DEF AttachUpsert, AfterAttach, Goto, GoesTo, ppVars
    <2>3. CASE Present(s)
        <3>1. UNCHANGED <<status, plan>> /\ GoesTo(f, Planless)
            BY <1>11, <2>1, <2>2, <2>3
               DEF AttachUpsert, GoesTo, Planless, Step, Revises, Renewing
        <3> QED
            BY <2>2, <3>1, PlanlessKeeps DEF Revises, Renewing
    <2>4. CASE ~Present(s)
        <3>1. doc[f].status \in Status
            BY <2>2 DEF TypeInv, FlowsOK, ReadsOK
        <3>2. /\ status'[s] # Absent /\ plan'[s] = doc[f].plan
              /\ \A t \in Sub \ {s} : status'[t] = status[t] /\ plan'[t] = plan[t]
            BY <1>11, <2>1, <2>4, <3>1 DEF AttachUpsert, TypeInv, DocsOK, Status, Absent
        <3>3. pc'[f] \in {"idle", "claim"} /\ (pc'[f] = "idle" \/ task'[f] = task[f])
            BY <2>2 DEF GoesTo, Return, TypeInv, FlowsOK
        <3>4. ppStatus[s] # Absent /\ (doc[f].plan = ppPlan[s] \/ Revising(s))
            BY <2>1, <2>2 DEF PlanInv, ReadsPlan
        <3>5. ReadsPlan(f)' /\ DocKnown(s)'
            BY <2>2, <3>2, <3>3, <3>4 DEF ReadsPlan, Revises, PlanInv, DocKnown, Present
        <3>6. PlanSettled(s)'
            BY <2>2, <2>4, <3>2, <3>4 DEF PlanInv, DocKnown, PlanSettled, Agreed, Revising,
               LostStays
        <3>7. PlanStep(f, s)
            BY <2>2, <3>2, <3>3, <3>5, <3>6 DEF PlanStep, Storing, Present
        <3> QED
            BY <2>1, <2>2, <3>7, PlanStepKeeps
    <2> QED
        BY <2>3, <2>4
<1> QED
    BY <1>1, <1>2, <1>3, <1>4, <1>5, <1>6, <1>7, <1>8, <1>9, <1>10, <1>11 DEF ServiceNext

\* A flow starts on something that is not an event.
LEMMA StartPlans ==
    ASSUME PlanInOrder, LostStays, TypeInv, PlanInv, NEW f \in Flow,
           NEW step \in Planless \cup {"verify"},
           NEW t, pc[f] = "idle", pc' = [pc EXCEPT ![f] = step], task' = [task EXCEPT ![f] = t],
           t.kind \notin EventKind, step = "verify" => Present(t.sub),
           UNCHANGED <<status, plan, scheduled, ppStatus, ppPlan, sent, inbox>>
    PROVE  PlanInv'
<1>1. pc'[f] = step /\ task'[f] = t /\ \A g \in Flow : g = f
    BY DEF TypeInv, FlowsOK, PlanInOrder
<1>2. EventsPlan'
    BY <1>1 DEF PlanInv, EventsPlan, LastPlan, LaterRevision, Kind
<1>3. \A s, n : Introduced(s, n) => Introduced(s, n)'
    BY <1>1 DEF Introduced, Introduces, Present, Storing
<1>4. t.kind \notin Relying
    BY DEF Relying, EventKind
<1>5. ActivatedFirst'
    <2>1. \A e \in inbox' : e.kind \in Relying => Introduced(e.sub, e.id)'
        BY <1>3 DEF PlanInv, ActivatedFirst
    <2>2. PICK n : n = sent + 1 /\ n = sent' + 1
        OBVIOUS
    <2>3. \A s \in Sub : ppStatus'[s] \notin {Absent, "APPROVAL_PENDING"} => Introduced(s, n)'
        BY <1>3, <2>2 DEF PlanInv, ActivatedFirst
    <2> QED
        BY <1>1, <1>4, <2>1, <2>2, <2>3 DEF ActivatedFirst, Introduced, Introduces, Kind, Present
<1>6. ReadsPlan(f)'
    BY <1>1 DEF ReadsPlan, Planless, Revises, Renewing, Present, The
<1>7. ASSUME NEW s \in Sub PROVE DocKnown(s)' /\ PlanSettled(s)'
    <2>1. ~\E g \in Flow : Due(g, s)
        BY <1>1 DEF Due
    <2> QED
        BY <2>1 DEF PlanInv, DocKnown, PlanSettled, Agreed, Revising, LostStays, RenewalDue, Present
<1> QED
    BY <1>1, <1>2, <1>5, <1>6, <1>7 DEF PlanInv

\* An event is handed out: the document it relies on is there, and the plan it
\* tells is going to be stored.
LEMMA HandOutPlans ==
    ASSUME PlanInOrder, LostStays, TypeInv, PlanInv, NEW f \in Flow, NEW e \in inbox, Dispatch(f, e)
    PROVE  PlanInv'
<1>1. /\ pc[f] = "idle" /\ \A g \in Flow : g = f
      /\ UNCHANGED <<status, plan, scheduled, ppStatus, ppPlan, sent>> /\ inbox' = inbox \ {e}
      /\ pc'[f] = FirstCall(e.kind) /\ task'[f] = e
    BY DEF Dispatch, subVars, ppVars, TypeInv, FlowsOK, PlanInOrder
<1>2. \A l \in inbox : e.id <= l.id
    BY DEF Dispatch, PlanInOrder
<1>3. /\ e.kind \in EventKind /\ e.sub \in Sub /\ e.id \in Nat
      /\ \A l \in inbox : l.id \in Nat
    BY CountAssumption DEF TypeInv, InboxOK, Task
<1>4. \A l \in inbox : LaterRevision(l) => LaterRevision(l)'
    BY <1>1, <1>2, <1>3 DEF LaterRevision
<1>5. \A l \in inbox : LastPlan(l)'
    BY <1>1, <1>4 DEF PlanInv, EventsPlan, LastPlan
<1>6. EventsPlan'
    BY <1>1, <1>5 DEF EventsPlan, LastPlan, LaterRevision
<1>7. ASSUME NEW s \in Sub, NEW n, Introduced(s, n) PROVE Introduced(s, n)'
    <2>1. CASE Present(s)
        BY <1>1, <2>1 DEF Introduced, Present
    <2>2. ASSUME NEW a \in inbox, a.sub = s, a.kind = "ACTIVATED", a.id < n
          PROVE  Introduced(s, n)'
        <3>1. CASE a = e
            BY <1>1, <2>2, <3>1 DEF Introduced, Introduces, FirstCall, Storing, Kind, The
        <3>2. CASE a # e
            BY <1>1, <2>2, <3>2 DEF Introduced
        <3> QED
            BY <3>1, <3>2
    <2>3. ~\E g \in Flow : Introduces(g, s, n)
        BY <1>1 DEF Introduces, Storing
    <2> QED
        BY <1>7, <2>1, <2>2, <2>3 DEF Introduced
<1>8. ASSUME e.kind \in Relying PROVE Present(e.sub)
    <2>1. Introduced(e.sub, e.id)
        BY <1>8 DEF PlanInv, ActivatedFirst
    <2>2. ~\E g \in Flow : Introduces(g, e.sub, e.id)
        BY <1>1 DEF Introduces, Storing
    <2> QED
        BY <1>2, <1>3, <2>1, <2>2 DEF Introduced
<1>9. ActivatedFirst'
    <2>1. \A l \in inbox' : l.kind \in Relying => Introduced(l.sub, l.id)'
        BY <1>1, <1>7 DEF PlanInv, ActivatedFirst, TypeInv, InboxOK, Task
    <2>2. PICK n : n = sent + 1 /\ n = sent' + 1
        BY <1>1
    <2>3. \A s \in Sub : ppStatus'[s] \notin {Absent, "APPROVAL_PENDING"} => Introduced(s, n)'
        BY <1>1, <1>7, <2>2 DEF PlanInv, ActivatedFirst
    <2> QED
        BY <1>1, <1>8, <2>1, <2>2, <2>3
           DEF ActivatedFirst, Introduced, Introduces, Kind, The, Present
<1>10. ReadsPlan(f)'
    BY <1>1, <1>3 DEF ReadsPlan, FirstCall, EventKind, Revises, Kind
<1>11. ASSUME NEW s \in Sub PROVE DocKnown(s)' /\ PlanSettled(s)'
    <2>1. ~\E g \in Flow : Due(g, s)
        BY <1>1 DEF Due
    <2>2. DocKnown(s)' /\ (Agreed(s) => Agreed(s)') /\ (Present(s)' => Present(s))
        BY <1>1 DEF PlanInv, DocKnown, Agreed, Present
    <2>3. CASE Revising(s)
        <3>1. CASE "lost" \in slips[s]
            BY <2>2, <3>1 DEF PlanSettled, Revising, LostStays
        <3>2. ASSUME NEW l \in inbox, l.sub = s, l.kind = "UPDATED" PROVE PlanSettled(s)'
            <4>1. Revising(s)' \/ Due(f, s)'
                BY <1>1, <3>2 DEF Revising, Due, FirstCall, Revises, The
            <4> QED
                BY <2>2, <4>1 DEF PlanSettled
        <3> QED
            BY <2>2, <2>3, <3>1, <3>2 DEF Revising
    <2>4. CASE RenewalDue(s)
        <3>1. PICK l \in inbox : l.sub = s /\ l.kind = "RENEWED" /\ scheduled[s] = NoPlan
            BY <2>4 DEF RenewalDue
        <3>2. RenewalDue(s)' \/ Due(f, s)'
            BY <1>1, <3>1 DEF RenewalDue, Due, FirstCall, Renewing, Kind, The
        <3> QED
            BY <2>2, <3>2 DEF PlanSettled
    <2> QED
        BY <2>1, <2>2, <2>3, <2>4 DEF PlanInv, PlanSettled
<1> QED
    BY <1>1, <1>6, <1>9, <1>10, <1>11 DEF PlanInv

\* The handler of UPDATED.
LEMMA RevisionPlans ==
    ASSUME PlanInOrder, LostStays, TypeInv, PlanInv, NEW f \in Flow,
           ReadUpdated(f) \/ Upgrade(f) \/ ClearScheduled(f) \/ ScheduleDowngrade(f)
    PROVE  PlanInv'
<1>1. pc[f] \in Revises /\ UNCHANGED <<status, ppStatus, ppPlan, sent, inbox>>
    BY DEF ReadUpdated, Upgrade, ClearScheduled, ScheduleDowngrade, Revises, subVars, ppVars
<1>2. PICK s \in Sub : s = The(f)
    BY <1>1, Running DEF TypeInv, Revises
<1>3. /\ Kind(f) = "UPDATED" /\ pc[f] # "idle" /\ Present(s)
      /\ task[f].plan = ppPlan[s] \/ Revising(s)
      /\ pc[f] \notin Storing
    BY <1>1, <1>2, EventPlanTells
       DEF PlanInv, ReadsPlan, ActivatedFirst, Relying, EventKind, Sale, Revises, Storing
<1>4. CASE ReadUpdated(f)
    <2>1. /\ UNCHANGED <<plan, scheduled>> /\ task'[f] = task[f]
          /\ \/ pc'[f] = "upgrade" /\ doc'[f].scheduled = scheduled[s]
             \/ pc'[f] = "schedule"
             \/ pc'[f] = "clearReverted" /\ task[f].plan = plan[s]
             \/ pc'[f] = "syncBilling" /\ task[f].plan = plan[s] /\ scheduled[s] = NoPlan
        BY <1>2, <1>3, <1>4 DEF ReadUpdated, GotoWith, Doc, subVars, TypeInv, FlowsOK
    <2>2. ReadsPlan(f)' /\ DocKnown(s)'
        BY <1>1, <1>2, <1>3, <2>1 DEF ReadsPlan, Revises, PlanInv, DocKnown, Present, Kind, The
    <2>3. PlanSettled(s)'
        BY <1>1, <1>2, <1>3, <2>1 DEF PlanSettled, Agreed, Revising, LostStays, Due, Revises, The
    <2>4. PlanStep(f, s)
        BY <1>1, <1>3, <2>1, <2>2, <2>3 DEF PlanStep, Present
    <2> QED
        BY <1>2, <1>3, <2>4, PlanStepKeeps
<1>5. CASE Upgrade(f)
    <2>1. /\ scheduled' = scheduled /\ task'[f] = task[f]
          /\ \A t \in Sub \ {s} : plan'[t] = plan[t]
          /\ plan'[s] = task[f].plan
          /\ \/ pc'[f] = "clearSuperseded"
             \/ pc'[f] \in {"claim", "syncBilling"} /\ scheduled[s] = NoPlan
        BY <1>2, <1>5 DEF Upgrade, WritePlan, AfterUpgrade, Goto, GotoWith, TypeInv, DocsOK,
           FlowsOK,
           PlanInv, ReadsPlan
    <2>2. ReadsPlan(f)' /\ DocKnown(s)'
        BY <1>1, <1>2, <1>3, <2>1 DEF ReadsPlan, Revises, PlanInv, DocKnown, Present, Kind, The
    <2>3. PlanSettled(s)'
        BY <1>1, <1>2, <1>3, <2>1 DEF PlanSettled, Agreed, Revising, LostStays, Due, Revises, The
    <2>4. PlanStep(f, s)
        BY <1>1, <1>3, <2>1, <2>2, <2>3 DEF PlanStep, Present
    <2> QED
        BY <1>2, <1>3, <2>4, PlanStepKeeps
<1>6. CASE ClearScheduled(f)
    <2>1. /\ plan' = plan /\ task'[f] = task[f]
          /\ \A t \in Sub \ {s} : scheduled'[t] = scheduled[t]
          /\ scheduled'[s] = NoPlan /\ plan[s] = task[f].plan
          /\ pc'[f] \in {"claim", "syncBilling"}
        BY <1>2, <1>6 DEF ClearScheduled, AfterUpgrade, GotoWith, TypeInv, DocsOK, FlowsOK, PlanInv,
           ReadsPlan
    <2>2. ReadsPlan(f)' /\ DocKnown(s)'
        BY <1>1, <2>1 DEF ReadsPlan, Revises, PlanInv, DocKnown, Present
    <2>3. PlanSettled(s)'
        BY <1>1, <1>3, <2>1 DEF PlanSettled, Agreed, Revising, LostStays
    <2>4. PlanStep(f, s)
        BY <1>1, <1>3, <2>1, <2>2, <2>3 DEF PlanStep, Present
    <2> QED
        BY <1>2, <1>3, <2>4, PlanStepKeeps
<1>7. CASE ScheduleDowngrade(f)
    <2>1. /\ plan' = plan /\ task'[f] = task[f] /\ pc'[f] = "syncBilling"
          /\ \A t \in Sub \ {s} : scheduled'[t] = scheduled[t]
          /\ scheduled'[s] = task[f].plan
        BY <1>2, <1>7 DEF ScheduleDowngrade, GotoWith, TypeInv, DocsOK, FlowsOK
    <2>2. ReadsPlan(f)' /\ DocKnown(s)'
        BY <1>1, <1>3, <2>1 DEF ReadsPlan, Revises, PlanInv, DocKnown, Present
    <2>3. PlanSettled(s)'
        BY <1>1, <1>3, <2>1 DEF PlanSettled, Agreed, Revising, LostStays
    <2>4. PlanStep(f, s)
        BY <1>1, <1>3, <2>1, <2>2, <2>3 DEF PlanStep, Present
    <2> QED
        BY <1>2, <1>3, <2>4, PlanStepKeeps
<1> QED
    BY <1>4, <1>5, <1>6, <1>7

LEMMA ReconciliationPlans ==
    ASSUME PlanInOrder, LostStays, TypeInv, PlanInv, NEW f \in Flow, ReconciliationNext(f)
    PROVE  PlanInv'
<1>1. ASSUME NEW t \in Sub, \/ FindDeferred(f, t) \/ FindDowngrade(f, t)
                            \/ FindToVerify(f, t) \/ FindOrphan(f, t)
      PROVE  PlanInv'
    <2>1. PICK kind \in {"cronDeferred", "cronDowngrade", "cronVerify", "cronOrphan"},
               step \in {"takeDeferred", "takeDowngrade", "verify", "heal"} :
                   \E d : BeginPass(f, kind, t, step, d)
        BY <1>1 DEF FindDeferred, FindDowngrade, FindToVerify, FindOrphan
    <2>2. step \in Planless \cup {"verify"} /\ kind \notin EventKind /\ Present(t)
        BY <1>1 DEF Planless, Step, Revises, Renewing, EventKind, FindDeferred, FindDowngrade,
           FindToVerify, FindOrphan, Present, Absent
    <2>3. PICK r : r.kind = kind /\ r.sub = t /\ task' = [task EXCEPT ![f] = r]
        BY <2>1 DEF BeginPass
    <2>4. /\ pc[f] = "idle" /\ pc' = [pc EXCEPT ![f] = step]
          /\ UNCHANGED <<status, plan, scheduled, ppStatus, ppPlan, sent, inbox>>
        BY <2>1 DEF BeginPass, subVars, ppVars
    <2> QED
        BY <2>2, <2>3, <2>4, StartPlans
<1>2. CASE TakeDeferred(f) \/ CopyFeatures(f) \/ MarkApplied(f) \/ Heal(f)
    <2>1. /\ GoesTo(f, Planless) /\ pc[f] # "idle"
          /\ pc[f] \notin Revises \cup Renewing \cup {"setPlan"}
          /\ UNCHANGED <<status, plan, scheduled, ppStatus, ppPlan, sent, inbox>>
        BY <1>2 DEF TakeDeferred, CopyFeatures, MarkApplied, Heal, Goto, GoesTo, Planless,
           Revises, Renewing, Step, subVars, ppVars
    <2> QED
        BY <2>1, PlanlessKeeps
<1>3. CASE TakeDowngrade(f)
    <2>1. pc[f] = "takeDowngrade" /\ UNCHANGED <<status, ppStatus, ppPlan, sent, inbox>>
        BY <1>3 DEF TakeDowngrade, ppVars
    <2>2. PICK s \in Sub : s = The(f)
        BY <2>1, Running DEF TypeInv
    <2>3. GoesTo(f, {"copyFeatures"})
        BY <1>3 DEF TakeDowngrade, Goto, GoesTo
    <2>4. CASE scheduled[s] # doc[f].scheduled
        <3>1. UNCHANGED <<plan, scheduled>> /\ GoesTo(f, Planless)
            BY <1>3, <2>2, <2>4 DEF TakeDowngrade, GoesTo
        <3> QED
            BY <2>1, <3>1, PlanlessKeeps DEF Revises, Renewing
    <2>5. CASE scheduled[s] = doc[f].scheduled
        <3>1. scheduled[s] \in Plan
            BY <2>1, <2>5 DEF TypeInv, FlowsOK, ReadsOK
        <3>2. /\ scheduled'[s] = NoPlan /\ plan'[s] = scheduled[s]
              /\ \A t \in Sub \ {s} : scheduled'[t] = scheduled[t] /\ plan'[t] = plan[t]
            BY <1>3, <2>2, <2>5 DEF TakeDowngrade, TypeInv, DocsOK
        <3>3. pc'[f] \in {"idle", "copyFeatures"} /\ (pc'[f] = "idle" \/ task'[f] = task[f])
            BY <2>3 DEF GoesTo, Return, TypeInv, FlowsOK
        <3>4. Revising(s) \/ scheduled[s] = ppPlan[s]
            BY <2>1, <3>1, NoneAssumption DEF PlanInv, DocKnown, PlanSettled, Agreed, RenewalDue,
               Due, Revises, Renewing, PlanInOrder
        <3>5. ReadsPlan(f)' /\ DocKnown(s)' /\ PlanSettled(s)'
            BY <2>1, <3>2, <3>3, <3>4 DEF ReadsPlan, Revises, PlanInv, DocKnown, Present,
               PlanSettled, Agreed, Revising, LostStays
        <3>6. PlanStep(f, s)
            BY <2>1, <3>2, <3>3, <3>5 DEF PlanStep, Storing, Present
        <3> QED
            BY <2>1, <2>2, <3>6, PlanStepKeeps
    <2> QED
        BY <2>4, <2>5
<1>4. CASE VerifyWithPayPal(f)
    <2>1. /\ pc[f] = "verify"
          /\ UNCHANGED <<status, plan, scheduled, ppStatus, ppPlan, sent, inbox>>
        BY <1>4 DEF VerifyWithPayPal, subVars, ppVars
    <2>2. PICK s \in Sub : s = The(f)
        BY <2>1, Running DEF TypeInv
    <2>3. pc'[f] = "idle" \/ (pc'[f] = "correct" /\ task'[f] = task[f])
        BY <1>4 DEF VerifyWithPayPal, GotoWith, Return, TypeInv, FlowsOK
    <2>4. ReadsPlan(f)' /\ DocKnown(s)'
        BY <2>1, <2>2, <2>3 DEF ReadsPlan, Revises, PlanInv, DocKnown, Present, The
    <2>5. PlanSettled(s)'
        BY <2>1 DEF PlanInv, PlanSettled, Agreed, Revising, LostStays, RenewalDue, Due, Revises,
           Renewing,
           Present, PlanInOrder
    <2>6. PlanStep(f, s)
        BY <2>1, <2>3, <2>4, <2>5 DEF PlanStep, Storing, Present
    <2> QED
        BY <2>1, <2>2, <2>6, PlanStepKeeps
<1>5. CASE CorrectStatus(f)
    <2>1. /\ pc[f] = "correct" /\ GoesTo(f, Planless)
          /\ UNCHANGED <<plan, scheduled, ppStatus, ppPlan, sent, inbox>>
          /\ status' = [status EXCEPT ![The(f)] = doc[f].status]
        BY <1>5 DEF CorrectStatus, GoesTo, ppVars
    <2>2. Present(The(f)) /\ doc[f].status \in Status
        BY <2>1 DEF PlanInv, ReadsPlan, TypeInv, FlowsOK, ReadsOK
    <2> QED
        BY <2>1, <2>2, PlanlessKeeps DEF Revises, Renewing
<1> QED
    BY <1>1, <1>2, <1>3, <1>4, <1>5 DEF ReconciliationNext

LEMMA FlowPlans ==
    ASSUME PlanInOrder, LostStays, TypeInv, PlanInv, NEW f \in Flow, FlowNext(f)
    PROVE  PlanInv'
<1>1. ASSUME NEW s \in Sub, NEW u \in User, RequestAttach(f, s, u) PROVE PlanInv'
    <2>1. PICK r : r.kind = "attach" /\ task' = [task EXCEPT ![f] = r]
        BY <1>1 DEF RequestAttach
    <2>2. "attach" \in Planless /\ "attach" \notin EventKind
        BY DEF Planless, Step, Revises, Renewing, EventKind
    <2>3. /\ pc[f] = "idle" /\ pc' = [pc EXCEPT ![f] = "attach"]
          /\ UNCHANGED <<status, plan, scheduled, ppStatus, ppPlan, sent, inbox>>
        BY <1>1 DEF RequestAttach, subVars, ppVars
    <2> QED
        BY <2>1, <2>2, <2>3, StartPlans
<1>2. CASE Crash(f)
    <2>1. /\ GoesTo(f, Planless) /\ pc[f] # "idle" /\ GiveBack(f)
          /\ UNCHANGED <<status, plan, scheduled, ppStatus, ppPlan, sent>>
        BY <1>2 DEF Crash, GoesTo, subVars, ppVars
    <2>2. pc[f] = "setPlan" /\ Kind(f) = "SALE_COMPLETED" => "lost" \in slips'[The(f)]
        <3>1. PICK s \in Sub : s = The(f)
            BY <2>1, Running DEF TypeInv
        <3> QED
            BY <1>2, <3>1 DEF Crash, TypeInv, CountsOK
    <2> QED
        BY <2>1, <2>2, PlanlessKeeps
<1>3. CASE Stall(f)
    <2>1. /\ pc[f] # "idle" /\ GiveBack(f)
          /\ UNCHANGED <<status, plan, scheduled, ppStatus, ppPlan, sent, pc, task, doc>>
        BY <1>3 DEF Stall, flowVars, subVars, ppVars
    <2>2. PICK s \in Sub : s = The(f)
        BY <2>1, Running DEF TypeInv
    <2>3. inbox \subseteq inbox'
        BY <2>1, GivesBack
    <2>4. ReadsPlan(f)' /\ DocKnown(s)'
        BY <2>1, <2>2, <2>3
           DEF PlanInv, ReadsPlan, DocKnown, Revising, LostStays, Present, Kind, The
    <2>5. PlanSettled(s)'
        BY <2>1, <2>3 DEF PlanInv, PlanSettled, Agreed, Revising, LostStays, RenewalDue, Due,
           Present, Kind,
           The
    <2>6. PlanStep(f, s)
        BY <2>1, <2>4, <2>5 DEF PlanStep, Present
    <2> QED
        BY <2>1, <2>2, <2>6, PlanStepKeeps
<1>4. CASE DispatchNext(f)
    BY <1>4, HandOutPlans, RevisionPlans DEF DispatchNext
<1> QED
    BY <1>1, <1>2, <1>3, <1>4, ServicePlans, ReconciliationPlans DEF FlowNext

-----------------------------------------------------------------------------
(* PayPal moves.                                                           *)

\* Who has paid until some date has a subscription.
PaidExists == \A s \in Sub : ppUntil[s] # NoDate => ppStatus[s] # Absent

LEMMA FlowLeavesPayPal ==
    ASSUME NEW f \in Flow, FlowNext(f)
    PROVE  UNCHANGED ppVars
<1>1. ServiceNext(f) => UNCHANGED ppVars
    BY DEF ServiceNext, UpdateFromWebhook, UpdateStatus, CreateForStatus, ClaimActivation,
           LoadUser, SaveUser, Rollback, ActivationError, RollbackThrow, SyncBillingData,
           GrabDowngrade, SetGrabbedPlan, ReadForCancel, SetCancelled, ExpireFlag, ExpireLoad,
           ExpireSave, Suspend, DropPro, AskPayPalToResume, Resume, RaisePro, Attach, AttachRead,
           AttachAskPayPal, AttachUpsert
<1>2. DispatchNext(f) => UNCHANGED ppVars
    BY DEF DispatchNext, Dispatch, ReadUpdated, Upgrade, ClearScheduled, ScheduleDowngrade
<1>3. ReconciliationNext(f) => UNCHANGED ppVars
    BY DEF ReconciliationNext, FindDeferred, FindDowngrade, FindToVerify, FindOrphan, BeginPass,
           TakeDeferred, TakeDowngrade, CopyFeatures, MarkApplied, VerifyWithPayPal,
           CorrectStatus, Heal
<1> QED
    BY <1>1, <1>2, <1>3 DEF FlowNext, RequestAttach, Crash, Stall

LEMMA NextPaid ==
    ASSUME TypeInv, PaidExists, [Next]_vars
    PROVE  PaidExists'
<1>1. ASSUME UNCHANGED ppVars PROVE PaidExists'
    BY <1>1 DEF ppVars, PaidExists
<1>2. ASSUME NEW s \in Sub, NEW u \in User \cup {NoUser}, NEW p \in Plan, PayPalCreates(s, u, p)
      PROVE  PaidExists'
    BY <1>2 DEF PayPalCreates, PaidExists, TypeInv, PayPalOK, Absent
<1>3. CASE PayPalChanges
    BY <1>3 DEF PayPalChanges, PayPalActivates, PayPalReportsPayment, PayPalRenews, PayPalRevises,
       PayPalMovesTo, PayPalRefunds, PayPalMoves, PaidExists, TypeInv, PayPalOK, Absent
<1>4. CASE (\E s \in Sub : PreRegister(s)) \/ Tick \/ UNCHANGED vars
    BY <1>1, <1>4 DEF PreRegister, Tick, vars
<1> QED
    BY <1>1, <1>2, <1>3, <1>4, FlowLeavesPayPal DEF Next, PayPalNext

\* PayPal has status st and plan p of s now, and tells what it changed.
PlanMove(s, st, p) ==
    /\ ppStatus' = [ppStatus EXCEPT ![s] = st]
    /\ ppPlan' = [ppPlan EXCEPT ![s] = p]
    /\ st # Absent
    /\ sent' \in {sent, sent + 1} /\ inbox \subseteq inbox'
    /\ \A e \in inbox' \ inbox :
          /\ e.sub = s /\ e.id = sent' /\ sent' = sent + 1 /\ e.kind \in Kinds
          /\ IF e.kind \in Sale THEN e.plan = NoPlan ELSE e.plan = p
          /\ e.kind \in Relying => ppStatus[s] \notin {Absent, "APPROVAL_PENDING"}
    /\ \/ p = ppPlan[s] \/ ppStatus[s] = Absent
       \/ \E e \in inbox' : e.sub = s /\ e.kind = "UPDATED" /\ e.id = sent + 1
    /\ \/ st = "APPROVAL_PENDING" \/ ppStatus[s] \notin {Absent, "APPROVAL_PENDING"}
       \/ \E e \in inbox' : e.sub = s /\ e.kind = "ACTIVATED" /\ e.id = sent' /\ sent' = sent + 1

LEMMA ReportMoves ==
    ASSUME TypeInv, NEW s \in Sub, NEW st \in Status, NEW p \in Plan, NEW kind \in EventKind,
           Report(s, kind), ppStatus' = [ppStatus EXCEPT ![s] = st],
           ppPlan' = [ppPlan EXCEPT ![s] = p],
           kind \in Relying => ppStatus[s] \notin {Absent, "APPROVAL_PENDING"},
           p = ppPlan[s] \/ ppStatus[s] = Absent \/ kind = "UPDATED",
           \/ st = "APPROVAL_PENDING" \/ ppStatus[s] \notin {Absent, "APPROVAL_PENDING"}
           \/ kind = "ACTIVATED"
    PROVE  PlanMove(s, st, p)
<1>1. ppPlan'[s] = p /\ st # Absent /\ sent' = sent + 1 /\ kind \in Kinds
    BY DEF Report, TypeInv, PayPalOK, Status, Absent
<1>2. PICK d, q, n : /\ n = sent + 1 /\ q = IF kind \in Sale THEN NoPlan ELSE p
                     /\ inbox' = inbox \cup {[kind |-> kind, sub |-> s, user |-> NoUser, id |-> n,
                                              plan |-> q, until |-> d]}
    BY <1>1 DEF Report, Sale
<1> DEFINE new == [kind |-> kind, sub |-> s, user |-> NoUser, id |-> n, plan |-> q, until |-> d]
<1>3. /\ new.kind = kind /\ new.sub = s /\ new.id = sent + 1 /\ new.plan = q
      /\ inbox' = inbox \cup {new}
    BY <1>2
<1> HIDE DEF new
<1> QED
    BY <1>1, <1>2, <1>3 DEF PlanMove

LEMMA MovePlans ==
    ASSUME PlanInOrder, LostStays, TypeInv, PlanInv, NEW s \in Sub, NEW st, NEW p \in Plan,
           PlanMove(s, st, p), UNCHANGED <<status, plan, scheduled, pc, task, doc>>
    PROVE  PlanInv'
<1>1. /\ sent \in Nat /\ sent' \in {sent, sent + 1}
      /\ ppStatus'[s] = st /\ ppPlan'[s] = p /\ st # Absent /\ inbox \subseteq inbox'
      /\ \A t \in Sub \ {s} : ppStatus'[t] = ppStatus[t] /\ ppPlan'[t] = ppPlan[t]
    BY CountAssumption DEF PlanMove, TypeInv, PayPalOK
<1>2. /\ \A t \in Sub : Revising(t) => Revising(t)'
      /\ \A e : LaterRevision(e) => LaterRevision(e)'
    BY <1>1, RevisingStays
<1>3. ppStatus[s] = Absent \/ p = ppPlan[s] \/ Revising(s)'
    BY DEF PlanMove, Revising, LostStays
<1>4. ASSUME NEW e, e.sub \in Sub, LastPlan(e) PROVE LastPlan(e)'
    <2>1. e.id \in 1..sent' /\ e.id < sent + 1
        BY <1>1, <1>4 DEF LastPlan
    <2>2. CASE e.sub = s
        <3>1. ppStatus[s] # Absent
            BY <1>4, <2>2 DEF LastPlan
        <3>2. p = ppPlan[s] \/ LaterRevision(e)'
            BY <2>1, <2>2, <3>1 DEF PlanMove, LaterRevision
        <3> QED
            BY <1>1, <1>2, <1>4, <2>1, <2>2, <3>2 DEF LastPlan
    <2>3. CASE e.sub # s
        BY <1>1, <1>2, <1>4, <2>1, <2>3 DEF LastPlan
    <2> QED
        BY <2>2, <2>3
<1>5. /\ \A e \in inbox : e.sub \in Sub /\ LastPlan(e)
      /\ \A f \in Flow : pc[f] # "idle" /\ Kind(f) \in EventKind
                            => task[f].sub \in Sub /\ LastPlan(task[f])
    BY Running DEF TypeInv, InboxOK, Task, PlanInv, EventsPlan, The
<1>6. EventsPlan'
    <2>1. ASSUME NEW e \in inbox' PROVE LastPlan(e)'
        <3>1. CASE e \in inbox
            BY <1>4, <1>5, <3>1
        <3>2. CASE e \notin inbox
            BY <1>1, <3>2 DEF PlanMove, LastPlan
        <3> QED
            BY <3>1, <3>2
    <2>2. ASSUME NEW f \in Flow, pc[f] # "idle", Kind(f) \in EventKind PROVE LastPlan(task[f])'
        <3>1. PICK t : t = task[f] /\ t = task'[f]
            OBVIOUS
        <3>2. LastPlan(t)'
            BY <1>4, <1>5, <2>2, <3>1
        <3> QED
            BY <3>1, <3>2 DEF LastPlan, LaterRevision
    <2> QED
        BY <2>1, <2>2 DEF EventsPlan, Kind, LastPlan, LaterRevision
<1>7. /\ \A e \in inbox : e.id \in Nat
      /\ \A f \in Flow : pc[f] # "idle" => task[f].id \in Nat
    BY Running, CountAssumption DEF TypeInv, InboxOK, Task
<1>8. ASSUME NEW t \in Sub, NEW n \in Nat, NEW m \in Nat, n <= m, Introduced(t, n)
      PROVE  Introduced(t, m)'
    <2>1. CASE Present(t)
        BY <2>1 DEF Introduced, Present
    <2>2. ASSUME NEW a \in inbox, a.sub = t, a.kind = "ACTIVATED", a.id < n
          PROVE  Introduced(t, m)'
        BY <1>1, <1>7, <1>8, <2>2 DEF Introduced
    <2>3. ASSUME NEW f \in Flow, Introduces(f, t, n) PROVE Introduced(t, m)'
        BY <1>7, <1>8, <2>3 DEF Introduced, Introduces, Storing, Kind, The
    <2> QED
        BY <1>8, <2>1, <2>2, <2>3 DEF Introduced
<1>9. ActivatedFirst'
    <2>1. ASSUME NEW e \in inbox', e.kind \in Relying PROVE Introduced(e.sub, e.id)'
        <3>1. CASE e \in inbox
            BY <1>5, <1>7, <1>8, <2>1, <3>1 DEF PlanInv, ActivatedFirst
        <3>2. CASE e \notin inbox
            <4>1. e.sub = s /\ e.id = sent + 1 /\ ppStatus[s] \notin {Absent, "APPROVAL_PENDING"}
                BY <2>1, <3>2 DEF PlanMove
            <4>2. PICK n \in Nat : n = sent + 1 /\ n = e.id
                BY <1>1, <4>1
            <4>3. Introduced(s, n)
                BY <4>1, <4>2 DEF PlanInv, ActivatedFirst
            <4> QED
                BY <1>8, <4>1, <4>2, <4>3
        <3> QED
            BY <3>1, <3>2
    <2>2. PICK n \in Nat, m \in Nat : n = sent + 1 /\ m = sent' + 1 /\ n <= m
        BY <1>1
    <2>3. ASSUME NEW t \in Sub, ppStatus'[t] \notin {Absent, "APPROVAL_PENDING"}
          PROVE  Introduced(t, m)'
        <3>1. CASE ppStatus[t] \notin {Absent, "APPROVAL_PENDING"}
            BY <1>8, <2>2, <3>1 DEF PlanInv, ActivatedFirst
        <3>2. CASE ppStatus[t] \in {Absent, "APPROVAL_PENDING"}
            <4>1. t = s /\ st # "APPROVAL_PENDING"
                BY <1>1, <2>3, <3>2
            <4>2. PICK e \in inbox' : e.sub = s /\ e.kind = "ACTIVATED" /\ e.id = sent'
                BY <3>2, <4>1 DEF PlanMove
            <4> QED
                BY <1>1, <2>2, <4>1, <4>2 DEF Introduced
        <3> QED
            BY <3>1, <3>2
    <2>4. \A f \in Flow : pc[f] # "idle" /\ Kind(f) \in Relying => Present(The(f))
        BY DEF PlanInv, ActivatedFirst
    <2> QED
        BY <2>1, <2>2, <2>3, <2>4 DEF ActivatedFirst, Introduced, Introduces, Kind, The, Present
<1>10. ASSUME NEW f \in Flow PROVE ReadsPlan(f)'
    <2>1. CASE pc[f] = "setPlan"
        <3>1. PICK t \in Sub : t = The(f) /\ ppStatus[t] # Absent
            BY <1>5, <2>1 DEF PlanInv, ReadsPlan, EventKind, LastPlan, The
        <3>2. doc[f].scheduled = ppPlan'[t] \/ Revising(t)'
            BY <1>1, <1>2, <1>3, <2>1, <3>1 DEF PlanInv, ReadsPlan
        <3> QED
            BY <2>1, <3>1, <3>2 DEF PlanInv, ReadsPlan, Revises, Revising, LostStays, Kind, The
    <2>2. CASE pc[f] = "attachUpsert"
        <3>1. PICK t \in Sub : t = The(f) /\ ppStatus[t] # Absent
            BY <2>2, Running DEF PlanInv, ReadsPlan, TypeInv
        <3>2. ppStatus'[t] # Absent /\ (doc[f].plan = ppPlan'[t] \/ Revising(t)')
            BY <1>1, <1>2, <1>3, <2>2, <3>1 DEF PlanInv, ReadsPlan
        <3> QED
            BY <2>2, <3>1, <3>2 DEF PlanInv, ReadsPlan, Revises, Revising, LostStays, Kind, The
    <2>3. CASE pc[f] \notin {"setPlan", "attachUpsert"}
        BY <2>3 DEF PlanInv, ReadsPlan, Kind, The, Present
    <2> QED
        BY <2>1, <2>2, <2>3
<1>11. ASSUME NEW t \in Sub PROVE DocKnown(t)' /\ PlanSettled(t)'
    <2>1. DocKnown(t)'
        BY <1>1 DEF PlanInv, DocKnown, Present
    <2>2. Present(t) /\ Agreed(t) => Agreed(t)' \/ Revising(t)'
        BY <1>1, <1>3 DEF PlanInv, DocKnown, Agreed
    <2>3. RenewalDue(t) => RenewalDue(t)'
        BY <1>1 DEF RenewalDue
    <2>4. (\E f \in Flow : Due(f, t)) => (\E f \in Flow : Due(f, t))'
        BY DEF Due, Kind, The
    <2> QED
        BY <1>2, <2>1, <2>2, <2>3, <2>4 DEF PlanInv, PlanSettled, Present
<1> QED
    BY <1>6, <1>9, <1>10, <1>11 DEF PlanInv

LEMMA PayPalPlans ==
    ASSUME PlanInOrder, LostStays, TypeInv, PaidExists, PlanInv, PayPalNext
    PROVE  PlanInv'
<1>1. UNCHANGED <<status, plan, scheduled, pc, task, doc>>
    BY DEF PayPalNext, PayPalCreates, PayPalChanges, PayPalActivates, PayPalReportsPayment,
           PayPalRenews, PayPalRevises, PayPalMovesTo, PayPalRefunds, elsewhere, subVars, flowVars
<1>2. \A s \in Sub : /\ ppPlan = [ppPlan EXCEPT ![s] = ppPlan[s]]
                     /\ ppStatus = [ppStatus EXCEPT ![s] = ppStatus[s]]
                     /\ ppStatus[s] # Absent => ppPlan[s] \in Plan /\ ppStatus[s] \in Status
    BY DEF TypeInv, PayPalOK, PlanInv, DocKnown
<1>3. ASSUME NEW s \in Sub, NEW u, NEW p \in Plan, PayPalCreates(s, u, p) PROVE PlanInv'
    <2>1. CASE Report(s, "CREATED")
        <3>1. PlanMove(s, "APPROVAL_PENDING", p)
            BY <1>3, <2>1, ReportMoves DEF PayPalCreates, Status, EventKind, Relying
        <3> QED
            BY <1>1, <3>1, MovePlans
    <2>2. CASE UNCHANGED <<sent, inbox>>
        <3>1. PlanMove(s, "APPROVAL_PENDING", p)
            BY <1>3, <2>2 DEF PayPalCreates, PlanMove, Absent
        <3> QED
            BY <1>1, <3>1, MovePlans
    <2> QED
        BY <1>3, <2>1, <2>2 DEF PayPalCreates
<1>4. ASSUME NEW s \in Sub, PayPalActivates(s) PROVE PlanInv'
    <2>1. PlanMove(s, "ACTIVE", ppPlan[s]) /\ ppPlan[s] \in Plan
        BY <1>2, <1>4, ReportMoves DEF PayPalActivates, Status, EventKind, Relying, Absent
    <2> QED
        BY <1>1, <2>1, MovePlans
<1>5. ASSUME NEW s \in Sub, NEW kind \in {"SALE_COMPLETED", "RENEWED"},
             PayPalRenews(s, kind) \/ (PayPalReportsPayment(s) /\ kind = "SALE_COMPLETED")
      PROVE  PlanInv'
    <2>1. ppStatus[s] = "ACTIVE" /\ Report(s, kind) /\ UNCHANGED <<ppStatus, ppPlan>>
        BY <1>5 DEF PayPalRenews, PayPalReportsPayment
    <2>2. PlanMove(s, "ACTIVE", ppPlan[s]) /\ ppPlan[s] \in Plan
        BY <1>2, <2>1, ReportMoves DEF Status, EventKind, Relying, Absent
    <2> QED
        BY <1>1, <2>2, MovePlans
<1>6. ASSUME NEW s \in Sub, NEW p \in Plan, PayPalRevises(s, p) PROVE PlanInv'
    <2>1. PlanMove(s, ppStatus[s], p)
        BY <1>2, <1>6, ReportMoves DEF PayPalRevises, Status, EventKind, Relying, Absent
    <2> QED
        BY <1>1, <2>1, MovePlans
<1>7. ASSUME NEW s \in Sub, NEW m \in PayPalMoves, PayPalMovesTo(s, m) PROVE PlanInv'
    <2>1. /\ m[2] \in Status /\ m[3] \in EventKind /\ m[3] \notin Relying
          /\ m[1] \notin {Absent, "APPROVAL_PENDING"}
        BY DEF PayPalMoves, Status, EventKind, Relying, Absent
    <2>2. PlanMove(s, m[2], ppPlan[s]) /\ ppPlan[s] \in Plan
        BY <1>2, <1>7, <2>1, ReportMoves DEF PayPalMovesTo
    <2> QED
        BY <1>1, <2>2, MovePlans
<1>8. ASSUME NEW s \in Sub, PayPalRefunds(s) PROVE PlanInv'
    <2>1. Report(s, "SALE_REFUNDED") /\ UNCHANGED <<ppStatus, ppPlan>>
        BY <1>8 DEF PayPalRefunds
    <2>2. ppStatus[s] # Absent
        BY <1>8 DEF PayPalRefunds, PaidExists
    <2>3. PlanMove(s, ppStatus[s], ppPlan[s]) /\ ppPlan[s] \in Plan
        BY <1>2, <2>1, <2>2, ReportMoves DEF EventKind, Relying
    <2> QED
        BY <1>1, <2>3, MovePlans
<1> QED
    BY <1>3, <1>4, <1>5, <1>6, <1>7, <1>8 DEF PayPalNext, PayPalChanges

\* createSubscription registers the plan it asked PayPal for.
LEMMA PreRegisterPlans ==
    ASSUME LostStays, TypeInv, PlanInv, NEW s \in Sub, PreRegister(s)
    PROVE  PlanInv'
<1>1. /\ ~Present(s) /\ ppStatus[s] = "APPROVAL_PENDING"
      /\ UNCHANGED <<scheduled, ppStatus, ppPlan, sent, inbox, pc, task, doc>>
      /\ status'[s] # Absent /\ plan'[s] = ppPlan[s]
      /\ \A t \in Sub \ {s} : status'[t] = status[t] /\ plan'[t] = plan[t]
    BY DEF PreRegister, TypeInv, DocsOK, Absent, ppVars, flowVars
<1>2. EventsPlan'
    BY <1>1 DEF PlanInv, EventsPlan, LastPlan, LaterRevision, Kind
<1>3. \A t \in Sub : Present(t) => status'[t] # Absent
    BY <1>1 DEF Present
<1>4. \A t \in Sub : \A n : Introduced(t, n) => Introduced(t, n)'
    BY <1>1, <1>3 DEF Introduced, Introduces, Present, Kind, The
<1>5. ActivatedFirst'
    <2>1. \A e \in inbox' : e.kind \in Relying => Introduced(e.sub, e.id)'
        BY <1>1, <1>4 DEF PlanInv, ActivatedFirst, TypeInv, InboxOK, Task
    <2>2. PICK n : n = sent + 1 /\ n = sent' + 1
        BY <1>1
    <2>3. \A t \in Sub : ppStatus'[t] \notin {Absent, "APPROVAL_PENDING"} => Introduced(t, n)'
        BY <1>1, <1>4, <2>2 DEF PlanInv, ActivatedFirst
    <2>4. \A f \in Flow : pc'[f] # "idle" /\ task'[f].kind \in Relying
                             => status'[task'[f].sub] # Absent
        BY <1>1, <1>3, Running DEF PlanInv, ActivatedFirst, TypeInv, Kind, The
    <2> QED
        BY <2>1, <2>2, <2>3, <2>4 DEF ActivatedFirst, Introduced, Introduces, Kind, The, Present
<1>6. ASSUME NEW f \in Flow PROVE ReadsPlan(f)'
    <2>1. CASE pc[f] \in {"clearSuperseded", "clearReverted"}
        <3>1. Present(The(f)) /\ The(f) \in Sub
            BY <2>1, Running DEF PlanInv, ReadsPlan, ActivatedFirst, Relying, Revises, TypeInv
        <3> QED
            BY <1>1, <2>1, <3>1 DEF PlanInv, ReadsPlan, Revises, Kind, The
    <2>2. CASE pc[f] \in {"setCancelled", "verify", "correct"}
        <3>1. Present(The(f)) /\ The(f) \in Sub
            BY <2>2, Running DEF PlanInv, ReadsPlan, TypeInv
        <3> QED
            BY <1>1, <1>3, <2>2, <3>1 DEF ReadsPlan, Revises, Present, The
    <2>3. CASE pc[f] \notin {"clearSuperseded", "clearReverted", "setCancelled", "verify",
                             "correct"}
        BY <1>1, <2>3, Running DEF PlanInv, ReadsPlan, Revising, LostStays, Kind, The, TypeInv
    <2> QED
        BY <2>1, <2>2, <2>3
<1>7. ASSUME NEW t \in Sub PROVE DocKnown(t)' /\ PlanSettled(t)'
    <2>1. CASE t = s
        BY <1>1, <2>1 DEF PlanInv, DocKnown, PlanSettled, Agreed, Present, Absent
    <2>2. CASE t # s
        <3>1. (\E f \in Flow : Due(f, t)) => (\E f \in Flow : Due(f, t))'
            BY <1>1 DEF Due, Kind, The
        <3> QED
            BY <1>1, <2>2, <3>1 DEF PlanInv, DocKnown, PlanSettled, Agreed, Revising, LostStays,
               RenewalDue,
               Present
    <2> QED
        BY <2>1, <2>2
<1> QED
    BY <1>2, <1>5, <1>6, <1>7 DEF PlanInv

LEMMA SamePlans ==
    ASSUME LostStays, TypeInv, PlanInv,
           UNCHANGED <<status, plan, scheduled, ppStatus, ppPlan, sent, inbox, pc, task, doc>>
    PROVE  PlanInv'
<1>1. EventsPlan' /\ ActivatedFirst'
    BY DEF PlanInv, EventsPlan, LastPlan, LaterRevision, ActivatedFirst, Introduced, Introduces,
           Present, Kind, The
<1>2. ASSUME NEW f \in Flow PROVE ReadsPlan(f)'
    <2>1. CASE pc[f] \in {"setPlan", "attachUpsert"}
        <3>1. The(f) \in Sub
            BY <2>1, Running DEF TypeInv
        <3> QED
            BY <2>1, <3>1 DEF PlanInv, ReadsPlan, Revises, Revising, LostStays, Kind, The
    <2>2. CASE pc[f] \notin {"setPlan", "attachUpsert"}
        BY <2>2 DEF PlanInv, ReadsPlan, Present, Kind, The
    <2> QED
        BY <2>1, <2>2
<1>3. \A s \in Sub : DocKnown(s)' /\ PlanSettled(s)'
    BY DEF PlanInv, DocKnown, PlanSettled, Agreed, Revising, LostStays, RenewalDue, Due, Present,
       Kind, The
<1> QED
    BY <1>1, <1>2, <1>3 DEF PlanInv

LEMMA LossesStay ==
    ASSUME TypeInv, [Next]_vars
    PROVE  LostStays
<1>1. ASSUME UNCHANGED slips PROVE LostStays
    BY <1>1 DEF LostStays
<1>2. ASSUME NEW f \in Flow, \/ ReadForCancel(f) \/ ExpireFlag(f) \/ AttachUpsert(f)
                             \/ CorrectStatus(f) \/ Crash(f)
      PROVE  LostStays
    <2>1. CASE ReadForCancel(f) \/ ExpireFlag(f)
        BY <2>1 DEF LostStays, ReadForCancel, ExpireFlag, EndIs, TypeInv, CountsOK
    <2>2. CASE AttachUpsert(f)
        BY <2>2 DEF LostStays, AttachUpsert, TypeInv, CountsOK
    <2>3. CASE CorrectStatus(f)
        BY <2>3 DEF LostStays, CorrectStatus, EndIs, TypeInv, CountsOK
    <2>4. CASE Crash(f)
        BY <2>4 DEF LostStays, Crash, TypeInv, CountsOK
    <2> QED
        BY <1>2, <2>1, <2>2, <2>3, <2>4
<1>3. ASSUME NEW f \in Flow, ServiceNext(f) PROVE LostStays
    <2>1. \/ UNCHANGED slips
          \/ ReadForCancel(f) \/ ExpireFlag(f) \/ AttachUpsert(f)
        BY <1>3 DEF ServiceNext, UpdateFromWebhook, UpdateStatus, CreateForStatus, ClaimActivation,
           LoadUser, SaveUser, Rollback, ActivationError, RollbackThrow, SyncBillingData,
           GrabDowngrade, SetGrabbedPlan, SetCancelled, ExpireLoad, ExpireSave, Suspend, DropPro,
           AskPayPalToResume, Resume, RaisePro, Attach, AttachRead, AttachAskPayPal
    <2> QED
        BY <1>1, <1>2, <2>1
<1>4. ASSUME NEW f \in Flow, DispatchNext(f) PROVE LostStays
    BY <1>1, <1>4
       DEF DispatchNext, Dispatch, ReadUpdated, Upgrade, ClearScheduled, ScheduleDowngrade
<1>5. ASSUME NEW f \in Flow, ReconciliationNext(f) PROVE LostStays
    BY <1>1, <1>2, <1>5
       DEF ReconciliationNext, FindDeferred, FindDowngrade, FindToVerify, FindOrphan, BeginPass,
           TakeDeferred, TakeDowngrade, CopyFeatures, MarkApplied, VerifyWithPayPal, Heal
<1>6. ASSUME NEW f \in Flow, FlowNext(f) PROVE LostStays
    BY <1>1, <1>2, <1>3, <1>4, <1>5, <1>6 DEF FlowNext, RequestAttach, Stall
<1>7. CASE PayPalNext
    BY <1>1, <1>7 DEF PayPalNext, PayPalCreates, PayPalChanges, PayPalActivates,
       PayPalReportsPayment, PayPalRenews, PayPalRevises, PayPalMovesTo, PayPalRefunds, elsewhere
<1> QED
    BY <1>1, <1>6, <1>7 DEF Next, PreRegister, Tick, vars

LEMMA NextPlans ==
    ASSUME PlanInOrder, TypeInv, PaidExists, PlanInv, [Next]_vars
    PROVE  PlanInv'
<1>1. CASE Tick \/ UNCHANGED vars
    BY <1>1, LossesStay, SamePlans DEF Tick, vars, subVars, ppVars, flowVars
<1> QED
    BY <1>1, LossesStay, FlowPlans, PayPalPlans, PreRegisterPlans DEF Next

\* The inductive invariant of the plan: an event that waits, a step that the
\* handler is at, or document and schedule themselves say PayPal's last word.
THEOREM PlanInvariant == PlanInOrder => (Spec => [](TypeInv /\ PlanInv))
<1> SUFFICES ASSUME PlanInOrder PROVE Spec => [](TypeInv /\ PlanInv)
    OBVIOUS
<1>1. Init => PaidExists /\ PlanInv
    <2> SUFFICES ASSUME Init PROVE PaidExists /\ PlanInv
        OBVIOUS
    <2>1. PaidExists /\ EventsPlan /\ ActivatedFirst
        BY DEF Init, PaidExists, EventsPlan, ActivatedFirst
    <2>2. \A f \in Flow : ReadsPlan(f)
        BY DEF Init, ReadsPlan, Revises
    <2>3. \A s \in Sub : DocKnown(s) /\ PlanSettled(s)
        BY DEF Init, DocKnown, PlanSettled, Present
    <2> QED
        BY <2>1, <2>2, <2>3 DEF PlanInv
<1>2. TypeInv /\ PaidExists /\ PlanInv /\ [Next]_vars => PaidExists' /\ PlanInv'
    BY NextPaid, NextPlans
<1> QED
    BY <1>1, <1>2, TypesHold, PTL DEF Spec

\* The handler of UPDATED, the renewals and the downgrade cron together: with
\* one worker and events in order, once every event is handled the plan of a
\* subscription is PayPal's or is scheduled to become it, whatever crashes and
\* stalled jobs there were in between.  The one exception is a payment whose
\* process died after taking the scheduled plan and before storing it.
THEOREM PlanIsPayPals == PlanInOrder => (Spec => []PlanFollowsPayPal)
<1>1. TypeInv /\ PlanInv => PlanFollowsPayPal
    BY DEF PlanInv, PlanSettled, Agreed, Revising, RenewalDue, Due, PlanFollowsPayPal, TypeInv,
           FlowsOK
<1> QED
    BY <1>1, PlanInvariant, PTL

=============================================================================
