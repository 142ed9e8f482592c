--------------------------- MODULE Checkout_proofs ---------------------------
(***************************************************************************)
(* Theorems about Checkout, for any number of subscriptions, users and     *)
(* requests: the types, that the endpoints use the lock as RedisLock says  *)
(* and exclude each other by it, and that documents, users and PayPal      *)
(* agree on the status of a subscription and the access of its owner once  *)
(* everything is handled.                                                  *)
(***************************************************************************)
EXTENDS Checkout, SubscriptionLifecycle_proofs, RedisLock_proofs

-----------------------------------------------------------------------------
(* Types.  What webhooks, crons and PayPal do keeps them already.          *)

LEMMA BeginRequestTypes ==
    ASSUME TypeInv, NEW f \in Flow, NEW kind \in TaskKind, NEW s \in Sub, NEW u \in User,
           NEW p \in Plan \cup {NoPlan}, NEW step \in {"createLock", "changeLock"},
           NEW d \in DocShape \cup {None}, BeginRequest(f, kind, s, u, p, step, d),
           step = "changeLock" => kind \in ChangeKind \cup {"cancelDowngrade"}
    PROVE  TypeInv'
<1> USE DEF TypeInv
<1> DEFINE t == [kind |-> kind, sub |-> s, plan |-> p, until |-> NoDate, user |-> u, id |-> 0]
<1>1. t \in Task /\ t.id = 0 /\ t.user # NoUser
    BY CountAssumption, NoneAssumption DEF Task
<1>2. FlowsOK'
    <2>1. /\ task' = [task EXCEPT ![f] = t] /\ pc' = [pc EXCEPT ![f] = step]
          /\ doc' = [doc EXCEPT ![f] = d] /\ pro' = pro
        BY DEF BeginRequest
    <2>2. ReadsOK(step, t, d) /\ step \in Step /\ step # "idle"
        BY <1>1 DEF ReadsOK, DocSteps, Step
    <2> QED
        BY <1>1, <2>1, <2>2, NoTaskAssumption DEF FlowsOK
<1>3. CountsOK'
    BY CountAssumption DEF BeginRequest, kept, CountsOK
<1>4. DocsOK' /\ UsersOK' /\ PayPalOK' /\ InboxOK'
    BY DEF BeginRequest, kept, DocsOK, subVars, UsersOK, userVars, PayPalOK, ppVars, InboxOK
<1> QED
    BY <1>2, <1>3, <1>4

\* A step of a request that changes only what the request does next.
LEMMA GoesOnTypes ==
    ASSUME TypeInv, NEW f \in Flow, pc[f] # "idle", UNCHANGED <<kept, tasks>>,
           \/ Return(f)
           \/ \E step \in Plain : Goto(f, step)
           \/ \E step \in Plain, d \in DocShape \cup {None} : GotoWith(f, step, d)
    PROVE  TypeInv'
<1> USE DEF TypeInv
<1>1. FlowsOK'
    BY ReturnTypes, PlainTypes
<1>2. DocsOK' /\ UsersOK' /\ PayPalOK' /\ InboxOK' /\ CountsOK'
    BY DEF kept, DocsOK, subVars, UsersOK, userVars, PayPalOK, ppVars, InboxOK, CountsOK
<1> QED
    BY <1>1, <1>2

LEMMA RequestNextTypes ==
    ASSUME TypeInv, NEW f \in Flow, RequestNext(f)
    PROVE  TypeInv'
<1>1. ASSUME NEW s \in Sub, NEW u \in User, NEW p \in Plan, RequestCreate(f, s, u, p)
      PROVE  TypeInv'
    <2>1. BeginRequest(f, "create", s, u, p, "createLock", None) /\ "create" \in TaskKind
        BY <1>1 DEF RequestCreate, TaskKind
    <2> QED
        BY <2>1, BeginRequestTypes
<1>2. ASSUME NEW s \in Sub, NEW u \in User,
             NEW kind \in {"cancel", "resume", "renewOn", "renewOff", "cancelDowngrade"},
             RequestChange(f, kind, s, u)
      PROVE  TypeInv'
    <2>1. /\ BeginRequest(f, kind, s, u, NoPlan, "changeLock", Doc(s)) /\ kind \in TaskKind
          /\ Doc(s) \in DocShape \cup {None} /\ kind \in ChangeKind \cup {"cancelDowngrade"}
        BY <1>2, DocTypes DEF RequestChange, TaskKind, ChangeKind, TypeInv
    <2> QED
        BY <2>1, BeginRequestTypes
<1> QED
    BY <1>1, <1>2 DEF RequestNext

LEMMA CreateAtPayPalTypes ==
    ASSUME TypeInv, NEW f \in Flow, CreateAtPayPal(f)
    PROVE  TypeInv'
<1> USE DEF TypeInv
<1>0. /\ pc[f] # "idle" /\ The(f) \in Sub /\ task[f].plan \in Plan \cup {NoPlan}
      /\ task[f].user \in User \cup {NoUser}
    BY Running DEF CreateAtPayPal
<1>1. /\ ppStatus' \in [Sub -> Status \cup {Absent}] /\ ppPlan' \in [Sub -> Plan \cup {NoPlan}]
      /\ ppUntil' \in [Sub -> Date \cup {NoDate}] /\ ppCustom' \in [Sub -> User \cup {NoUser}]
    BY <1>0 DEF CreateAtPayPal, PayPalOK, Status
<1>2. sent' \in 0..MaxEvents /\ past' \in [Sub -> SUBSET EventKind] /\ InboxOK'
    BY <1>0, <1>1, ReportTypes DEF CreateAtPayPal, EventKind, PayPalOK, InboxOK
<1>3. FlowsOK'
    BY <1>0, PlainTypes DEF CreateAtPayPal, Plain
<1>4. PayPalOK' /\ DocsOK' /\ UsersOK' /\ CountsOK'
    BY <1>1, <1>2 DEF CreateAtPayPal, PayPalOK, DocsOK, subVars, UsersOK, userVars, CountsOK
<1> QED
    BY <1>2, <1>3, <1>4

LEMMA RegisterTypes ==
    ASSUME TypeInv, NEW f \in Flow, Register(f)
    PROVE  TypeInv'
<1> USE DEF TypeInv
<1>0. /\ The(f) \in Sub /\ task[f].plan \in Plan \cup {NoPlan}
      /\ task[f].user \in User \cup {NoUser}
    BY Running DEF Register
<1>1. DocsOK'
    BY <1>0 DEF Register, DocsOK, Status
<1>2. FlowsOK'
    BY ReturnTypes DEF Register
<1>3. UsersOK' /\ PayPalOK' /\ InboxOK' /\ CountsOK'
    BY DEF Register, UsersOK, userVars, PayPalOK, ppVars, InboxOK, CountsOK
<1> QED
    BY <1>1, <1>2, <1>3

\* What an endpoint asks of PayPal, and what follows.
LEMMA ChangesTypes ==
    ASSUME NEW kind \in ChangeKind
    PROVE  /\ Changes(kind).to \in Status /\ Changes(kind).event \in EventKind
           /\ Changes(kind).next \in {"cancel", "suspend", "askToResume"}
    BY DEF ChangeKind, Changes, Status, EventKind

LEMMA ChangeAtPayPalTypes ==
    ASSUME TypeInv, NEW f \in Flow, ChangeAtPayPal(f)
    PROVE  TypeInv'
<1> USE DEF TypeInv
<1>0. pc[f] # "idle" /\ The(f) \in Sub /\ Kind(f) \in ChangeKind
    BY Running DEF ChangeAtPayPal, FlowsOK, ReadsOK, Kind
<1>1. /\ ppStatus' \in [Sub -> Status \cup {Absent}] /\ ppPlan' \in [Sub -> Plan \cup {NoPlan}]
      /\ ppUntil' \in [Sub -> Date \cup {NoDate}] /\ ppCustom' \in [Sub -> User \cup {NoUser}]
    BY <1>0, ChangesTypes DEF ChangeAtPayPal, PayPalOK
<1>2. sent' \in 0..MaxEvents /\ past' \in [Sub -> SUBSET EventKind] /\ InboxOK'
    BY <1>0, <1>1, ChangesTypes, ReportTypes DEF ChangeAtPayPal
<1>3. FlowsOK'
    <2>1. Changes(Kind(f)).next \in Plain
        BY <1>0, ChangesTypes DEF Plain
    <2> QED
        BY <1>0, <2>1, PlainTypes DEF ChangeAtPayPal
<1>4. CountsOK'
    <2>1. slips' \in [Sub -> SUBSET Slip]
        BY <1>0 DEF ChangeAtPayPal, CountsOK, Slip
    <2> QED
        BY <2>1 DEF ChangeAtPayPal, CountsOK
<1>5. PayPalOK' /\ DocsOK' /\ UsersOK'
    BY <1>1, <1>2 DEF ChangeAtPayPal, PayPalOK, DocsOK, subVars, UsersOK, userVars
<1> QED
    BY <1>2, <1>3, <1>4, <1>5

LEMMA RevertAtPayPalTypes ==
    ASSUME TypeInv, NEW f \in Flow, RevertAtPayPal(f)
    PROVE  TypeInv'
<1> USE DEF TypeInv
<1>0. pc[f] # "idle" /\ The(f) \in Sub /\ doc[f].plan \in Plan \cup {NoPlan}
    BY Running DEF RevertAtPayPal, FlowsOK, ReadsOK, DocSteps, DocShape
<1>1. /\ ppStatus' \in [Sub -> Status \cup {Absent}] /\ ppPlan' \in [Sub -> Plan \cup {NoPlan}]
      /\ ppUntil' \in [Sub -> Date \cup {NoDate}] /\ ppCustom' \in [Sub -> User \cup {NoUser}]
    BY <1>0 DEF RevertAtPayPal, PayPalOK
<1>2. sent' \in 0..MaxEvents /\ past' \in [Sub -> SUBSET EventKind] /\ InboxOK'
    BY <1>0, <1>1, ReportTypes DEF RevertAtPayPal, EventKind
<1>3. FlowsOK'
    BY <1>0, PlainTypes DEF RevertAtPayPal, Plain
<1>4. PayPalOK' /\ DocsOK' /\ UsersOK' /\ CountsOK'
    BY <1>1, <1>2 DEF RevertAtPayPal, PayPalOK, DocsOK, subVars, UsersOK, userVars, CountsOK
<1> QED
    BY <1>2, <1>3, <1>4

LEMMA UnscheduleTypes ==
    ASSUME TypeInv, NEW f \in Flow, Unschedule(f)
    PROVE  TypeInv'
<1> USE DEF TypeInv
<1>1. DocsOK'
    BY DEF Unschedule, DocsOK
<1>2. FlowsOK'
    BY ReturnTypes DEF Unschedule
<1>3. UsersOK' /\ PayPalOK' /\ InboxOK' /\ CountsOK'
    BY DEF Unschedule, UsersOK, userVars, PayPalOK, ppVars, InboxOK, CountsOK
<1> QED
    BY <1>1, <1>2, <1>3

\* A request that does not get its lock is over.
LEMMA RefusedTypes ==
    ASSUME TypeInv, NEW f \in Flow, NEW r, NEW step, TakeLock(f, r, step), Return(f)
    PROVE  TypeInv'
<1> USE DEF TypeInv
<1>1. FlowsOK'
    BY ReturnTypes
<1>2. CountsOK'
    BY CountAssumption DEF TakeLock, Fault, CountsOK
<1>3. DocsOK' /\ UsersOK' /\ PayPalOK' /\ InboxOK'
    BY DEF TakeLock, DocsOK, subVars, UsersOK, userVars, PayPalOK, ppVars, InboxOK
<1> QED
    BY <1>1, <1>2, <1>3

LEMMA ChangeLockTypes ==
    ASSUME TypeInv, NEW f \in Flow, ChangeLock(f)
    PROVE  TypeInv'
<1>1. CASE Return(f)
    BY <1>1, RefusedTypes DEF ChangeLock
<1>2. CASE ~Return(f)
    <2> DEFINE step == IF Kind(f) = "cancelDowngrade" THEN "readDowngrade" ELSE "changeAtPayPal"
    <2>1. Goto(f, step) /\ UNCHANGED <<kept, tasks>> /\ pc[f] = "changeLock"
        BY <1>2 DEF ChangeLock, TakeLock, kept
    <2>2. step \in Step /\ step # "idle" /\ ReadsOK(step, task[f], doc[f])
        BY <2>1 DEF Step, TypeInv, FlowsOK, ReadsOK, DocSteps, Kind
    <2>3. FlowsOK'
        BY <2>1, <2>2, GotoTypes DEF TypeInv
    <2>4. DocsOK' /\ UsersOK' /\ PayPalOK' /\ InboxOK' /\ CountsOK'
        BY <2>1 DEF kept, TypeInv, DocsOK, subVars, UsersOK, userVars, PayPalOK, ppVars, InboxOK,
                    CountsOK
    <2> QED
        BY <2>3, <2>4 DEF TypeInv
<1> QED
    BY <1>1, <1>2

LEMMA ReadDowngradeTypes ==
    ASSUME TypeInv, NEW f \in Flow, ReadDowngrade(f)
    PROVE  TypeInv'
<1>1. CASE Return(f)
    BY <1>1, GoesOnTypes DEF ReadDowngrade
<1>2. CASE ~Return(f)
    <2>1. /\ GotoWith(f, "revertAtPayPal", Doc(The(f))) /\ UNCHANGED <<kept, tasks>>
          /\ pc[f] = "readDowngrade"
        BY <1>2 DEF ReadDowngrade
    <2>2. The(f) \in Sub
        BY <2>1, Running DEF TypeInv
    <2>3. Doc(The(f)) \in DocShape
        BY <2>2, DocTypes DEF TypeInv
    <2>4. ReadsOK("revertAtPayPal", task[f], Doc(The(f))) /\ "revertAtPayPal" \in Step
        BY <2>1, <2>3 DEF Step, TypeInv, FlowsOK, ReadsOK
    <2>5. FlowsOK'
        BY <2>1, <2>3, <2>4, GotoWithTypes DEF TypeInv
    <2>6. DocsOK' /\ UsersOK' /\ PayPalOK' /\ InboxOK' /\ CountsOK'
        BY <2>1 DEF kept, TypeInv, DocsOK, subVars, UsersOK, userVars, PayPalOK, ppVars, InboxOK,
                    CountsOK
    <2> QED
        BY <2>5, <2>6 DEF TypeInv
<1> QED
    BY <1>1, <1>2

LEMMA RequestStepTypes ==
    ASSUME TypeInv, NEW f \in Flow, RequestStep(f)
    PROVE  TypeInv'
<1>1. CASE CreateLock(f)
    <2>1. CASE Return(f)
        BY <1>1, <2>1, RefusedTypes DEF CreateLock
    <2>2. CASE ~Return(f)
        BY <1>1, <2>2, GoesOnTypes DEF CreateLock, TakeLock, Plain, kept
    <2> QED
        BY <2>1, <2>2
<1>2. CASE ChangeRefused(f) \/ RevertLater(f)
    BY <1>2, GoesOnTypes DEF ChangeRefused, RevertLater
<1>3. CASE Unlock(f)
    <2>1. UNCHANGED vars
        BY <1>3 DEF Unlock
    <2> QED
        BY <2>1, NextTypes
<1> QED
    BY <1>1, <1>2, <1>3, CreateAtPayPalTypes, RegisterTypes, ChangeLockTypes,
       ChangeAtPayPalTypes, ReadDowngradeTypes, RevertAtPayPalTypes, UnscheduleTypes
       DEF RequestStep

LEMMA CheckoutNextTypes == TypeInv /\ [CheckoutNext]_checkoutVars => TypeInv'
<1> SUFFICES ASSUME TypeInv, [CheckoutNext]_checkoutVars PROVE TypeInv'
    OBVIOUS
<1>1. ASSUME NEW r \in Resource, ExpireLock(r) PROVE TypeInv'
    <2>1. faults' \in 0..MaxFaults
        BY <1>1, FaultTypes DEF ExpireLock, TypeInv, CountsOK
    <2>2. UNCHANGED <<subVars, userVars, ppVars, inbox, flowVars, tasks, now, slips>>
        BY <1>1 DEF ExpireLock
    <2> QED
        BY <2>1, <2>2 DEF TypeInv, DocsOK, subVars, UsersOK, userVars, PayPalOK, ppVars, InboxOK,
                          FlowsOK, flowVars, CountsOK
<1>2. CASE PayPalChanges \/ Tick \/ \E f \in Flow : FlowNext(f)
    <2>1. Next
        BY <1>2 DEF Next, PayPalNext
    <2> QED
        BY <2>1, NextTypes
<1>3. CASE UNCHANGED checkoutVars
    <2>1. UNCHANGED vars
        BY <1>3 DEF checkoutVars
    <2> QED
        BY <2>1, NextTypes
<1> QED
    BY <1>1, <1>2, <1>3, RequestNextTypes, RequestStepTypes DEF CheckoutNext

\* The requests of the endpoints keep the types too.
THEOREM CheckoutTypes == CheckoutSpec => []TypeInv
<1>1. CheckoutInit => TypeInv
    BY InitTypes DEF CheckoutInit
<1>2. TypeInv /\ [CheckoutNext]_checkoutVars => TypeInv'
    BY CheckoutNextTypes
<1> QED
    BY <1>1, <1>2, PTL DEF CheckoutSpec


-----------------------------------------------------------------------------
(* The lock.  Requests use it as RedisLock says, and nothing else does.    *)

LEMMA TakeLockUses ==
    ASSUME NEW f \in Flow, NEW r \in Sub \cup User, NEW step, TakeLock(f, r, step)
    PROVE  LockNext \/ UNCHANGED lockVars
    BY ResourceAssumption DEF TakeLock, LockNext

LEMMA RequestUsesLock ==
    ASSUME TypeInv, NEW f \in Flow, RequestNext(f) \/ RequestStep(f)
    PROVE  LockNext \/ UNCHANGED lockVars
<1>1. CASE CreateLock(f)
    <2>1. task[f].user \in User
        BY <1>1, Running DEF CreateLock, TypeInv, FlowsOK, ReadsOK
    <2> QED
        BY <1>1, <2>1, TakeLockUses DEF CreateLock
<1>2. CASE ChangeLock(f)
    <2>1. The(f) \in Sub
        BY <1>2, Running DEF ChangeLock, TypeInv
    <2> QED
        BY <1>2, <2>1, TakeLockUses DEF ChangeLock
<1>3. CASE Unlock(f)
    BY <1>3, ResourceAssumption DEF Unlock, LockNext
<1>4. CASE RequestNext(f)
    BY <1>4 DEF RequestNext, RequestCreate, RequestChange, BeginRequest
<1>5. CASE CreateAtPayPal(f) \/ Register(f) \/ ChangeAtPayPal(f) \/ ChangeRefused(f)
    BY <1>5 DEF CreateAtPayPal, Register, ChangeAtPayPal, ChangeRefused
<1>6. CASE ReadDowngrade(f) \/ RevertAtPayPal(f) \/ RevertLater(f) \/ Unschedule(f)
    BY <1>6 DEF ReadDowngrade, RevertAtPayPal, RevertLater, Unschedule
<1> QED
    BY <1>1, <1>2, <1>3, <1>4, <1>5, <1>6 DEF RequestStep

\* The endpoints implement the lock: whatever requests, webhooks and crons do,
\* the keys change as acquireLock, releaseLock and the TTL change them.
THEOREM CheckoutLocks == CheckoutSpec => LockSpec
<1>1. CheckoutInit => LockInit
    BY DEF CheckoutInit
<1>2. TypeInv /\ [CheckoutNext]_checkoutVars => [LockNext]_lockVars
    <2> SUFFICES ASSUME TypeInv, [CheckoutNext]_checkoutVars PROVE LockNext \/ UNCHANGED lockVars
        OBVIOUS
    <2>1. ASSUME NEW r \in Resource, ExpireLock(r) PROVE LockNext
        BY <2>1 DEF ExpireLock, LockNext
    <2>2. CASE UNCHANGED checkoutVars
        BY <2>2 DEF checkoutVars
    <2> QED
        BY <2>1, <2>2, RequestUsesLock DEF CheckoutNext
<1> QED
    BY <1>1, <1>2, CheckoutTypes, PTL DEF CheckoutSpec, LockSpec

\* So a request that is in time holds the lock of its section, and of two in
\* the section of one subscription or user one has outlived its TTL.
THEOREM CheckoutExcludes == CheckoutSpec => [](LockTypeOK /\ TimelyHolds /\ MutualExclusion)
<1>1. CheckoutSpec => [](LockTypeOK /\ TimelyHolds) /\ []MutualExclusion
    BY CheckoutLocks, LockIsHeld, LockExcludes
<1> QED
    BY <1>1, PTL

-----------------------------------------------------------------------------
(* The sections.  What a request does at PayPal it does in the section of  *)
(* its subscription.                                                       *)

RequestKind == ChangeKind \cup {"create", "cancelDowngrade"}

Waiting == {"createLock", "changeLock"}

\* A request past its lock: what it locked is its user or its subscription.
Locked(f) == IF Kind(f) = "create" THEN task[f].user ELSE The(f)

Section(f) == IF pc[f] # "idle" /\ Kind(f) \in RequestKind /\ pc[f] \notin Waiting
              THEN {Locked(f)} ELSE {Outside}

SectionOK(f) ==
    /\ pc[f] # "idle" => inside[f] \in Section(f)
    /\ pc[f] # "idle" /\ Kind(f) \in RequestKind => task[f].user \in User
    /\ pc[f] \in Waiting => Kind(f) \in RequestKind
    /\ pc[f] = "createLock" => Kind(f) = "create"
    /\ pc[f] = "changeLock" => Kind(f) # "create"

InSection == \A f \in Flow : SectionOK(f)

\* The steps of webhooks and crons, which the requests share.
Shared == Step \ Waiting

\* Flow f goes on with what it does, or ends; the other flows wait.
GoesOn(f) ==
    /\ \A g \in Flow \ {f} : pc'[g] = pc[g] /\ task'[g] = task[g]
    /\ pc'[f] # "idle" => /\ task'[f] = task[f]
                          /\ pc'[f] = pc[f] \/ {pc[f], pc'[f]} \cap Waiting = {}

\* Flow f starts on something that is not a request.
Starts(f) ==
    /\ \A g \in Flow \ {f} : pc'[g] = pc[g] /\ task'[g] = task[g]
    /\ task'[f].kind \notin RequestKind /\ pc'[f] \notin Waiting

LEMMA GoesToGoesOn ==
    ASSUME TypeInv, NEW f \in Flow, GoesTo(f, Shared), pc[f] \notin Waiting \/ Return(f)
    PROVE  GoesOn(f)
    BY DEF GoesTo, Return, GoesOn, Shared, TypeInv, FlowsOK

LEMMA ServiceGoesOn ==
    ASSUME TypeInv, NEW f \in Flow, ServiceNext(f)
    PROVE  GoesOn(f) /\ pc[f] # "idle"
<1>1. CASE UpdateFromWebhook(f) \/ SetGrabbedPlan(f) \/ SyncBillingData(f) \/ RollbackThrow(f)
           \/ ActivationError(f) \/ DropPro(f) \/ RaisePro(f) \/ ExpireSave(f)
    <2>1. GoesTo(f, Shared) /\ pc[f] \notin Waiting \cup {"idle"}
        BY <1>1 DEF UpdateFromWebhook, SetGrabbedPlan, SyncBillingData, RollbackThrow,
           ActivationError, DropPro, RaisePro, ExpireSave, Goto, GotoWith, GoesTo, Shared,
           Waiting, Step
    <2> QED
        BY <2>1, GoesToGoesOn
<1>2. CASE UpdateStatus(f) \/ CreateForStatus(f)
    <2>1. GoesTo(f, Shared) /\ pc[f] \notin Waiting \cup {"idle"}
        BY <1>2, AfterUpdateStatusGoes DEF TypeInv, UpdateStatus, CreateForStatus, Goto, GoesTo,
           Shared, Waiting, Step
    <2> QED
        BY <2>1, GoesToGoesOn
<1>3. CASE ClaimActivation(f) \/ SaveUser(f) \/ Rollback(f)
    <2>1. GoesTo(f, Shared) /\ pc[f] \notin Waiting \cup {"idle"}
        BY <1>3 DEF ClaimActivation, SaveUser, Rollback, AfterActivation, Goto, GotoWith, GoesTo,
           Shared, Waiting, Step
    <2> QED
        BY <2>1, GoesToGoesOn
<1>4. CASE LoadUser(f) \/ GrabDowngrade(f) \/ ReadForCancel(f) \/ SetCancelled(f)
    <2>1. GoesTo(f, Shared) /\ pc[f] \notin Waiting \cup {"idle"}
        BY <1>4 DEF LoadUser, GrabDowngrade, ReadForCancel, SetCancelled, Goto, GotoWith, GoesTo,
           Shared, Waiting, Step
    <2> QED
        BY <2>1, GoesToGoesOn
<1>5. CASE ExpireFlag(f) \/ ExpireLoad(f) \/ Suspend(f) \/ AskPayPalToResume(f) \/ Resume(f)
    <2>1. GoesTo(f, Shared) /\ pc[f] \notin Waiting \cup {"idle"}
        BY <1>5 DEF ExpireFlag, ExpireLoad, Suspend, AskPayPalToResume, Resume, Goto, GotoWith,
           GoesTo, Shared, Waiting, Step
    <2> QED
        BY <2>1, GoesToGoesOn
<1>6. CASE Attach(f) \/ AttachRead(f) \/ AttachAskPayPal(f) \/ AttachUpsert(f)
    <2>1. GoesTo(f, Shared) /\ pc[f] \notin Waiting \cup {"idle"}
        BY <1>6 DEF Attach, AttachRead, AttachAskPayPal, AttachUpsert, AfterAttach, Goto,
           GotoWith, GoesTo, Shared, Waiting, Step
    <2> QED
        BY <2>1, GoesToGoesOn
<1> QED
    BY <1>1, <1>2, <1>3, <1>4, <1>5, <1>6 DEF ServiceNext

LEMMA DispatchGoesOn ==
    ASSUME TypeInv, NEW f \in Flow, DispatchNext(f)
    PROVE  IF pc[f] = "idle" THEN Starts(f) ELSE GoesOn(f)
<1>1. ASSUME NEW e \in inbox, Dispatch(f, e) PROVE Starts(f) /\ pc[f] = "idle"
    <2>1. e.kind \in EventKind
        BY DEF TypeInv, InboxOK
    <2>2. e.kind \notin RequestKind /\ FirstCall(e.kind) \notin Waiting
        BY <2>1 DEF EventKind, RequestKind, ChangeKind, FirstCall, Waiting
    <2> QED
        BY <1>1, <2>2 DEF Dispatch, Starts, TypeInv, FlowsOK
<1>2. CASE ReadUpdated(f) \/ Upgrade(f) \/ ClearScheduled(f) \/ ScheduleDowngrade(f)
    <2>1. GoesTo(f, Shared) /\ pc[f] \notin Waiting \cup {"idle"}
        BY <1>2 DEF ReadUpdated, Upgrade, ClearScheduled, ScheduleDowngrade, AfterUpgrade, Goto,
           GotoWith, GoesTo, Shared, Waiting, Step
    <2> QED
        BY <2>1, GoesToGoesOn
<1> QED
    BY <1>1, <1>2 DEF DispatchNext

LEMMA ReconciliationGoesOn ==
    ASSUME TypeInv, NEW f \in Flow, ReconciliationNext(f)
    PROVE  IF pc[f] = "idle" THEN Starts(f) ELSE GoesOn(f)
<1>1. ASSUME NEW s \in Sub, \/ FindDeferred(f, s) \/ FindDowngrade(f, s)
                            \/ FindToVerify(f, s) \/ FindOrphan(f, s)
      PROVE  Starts(f) /\ pc[f] = "idle"
    BY <1>1 DEF FindDeferred, FindDowngrade, FindToVerify, FindOrphan, BeginPass, Starts, Waiting,
       RequestKind, ChangeKind, TypeInv, FlowsOK
<1>2. CASE TakeDeferred(f) \/ TakeDowngrade(f) \/ CopyFeatures(f) \/ MarkApplied(f)
           \/ VerifyWithPayPal(f) \/ CorrectStatus(f) \/ Heal(f)
    <2>1. GoesTo(f, Shared) /\ pc[f] \notin Waiting \cup {"idle"}
        BY <1>2 DEF TakeDeferred, TakeDowngrade, CopyFeatures, MarkApplied, VerifyWithPayPal,
           CorrectStatus, Heal, Goto, GotoWith, GoesTo, Shared, Waiting, Step
    <2> QED
        BY <2>1, GoesToGoesOn
<1> QED
    BY <1>1, <1>2 DEF ReconciliationNext

LEMMA FlowGoesOn ==
    ASSUME TypeInv, NEW f \in Flow, FlowNext(f)
    PROVE  IF pc[f] = "idle" THEN Starts(f) ELSE GoesOn(f)
<1>1. ASSUME NEW s \in Sub, NEW u \in User, RequestAttach(f, s, u)
      PROVE  Starts(f) /\ pc[f] = "idle"
    BY <1>1 DEF RequestAttach, Starts, Waiting, RequestKind, ChangeKind, TypeInv, FlowsOK
<1>2. CASE Crash(f)
    BY <1>2, GoesToGoesOn DEF Crash, GoesTo
<1>3. CASE Stall(f)
    BY <1>3 DEF Stall, flowVars, GoesOn
<1> QED
    BY <1>1, <1>2, <1>3, ServiceGoesOn, DispatchGoesOn, ReconciliationGoesOn DEF FlowNext

LEMMA KeptSection ==
    ASSUME NEW g \in Flow, SectionOK(g), pc'[g] = pc[g], task'[g] = task[g],
           inside'[g] = inside[g]
    PROVE  SectionOK(g)'
<1>1. Section(g)' = Section(g) /\ Kind(g)' = Kind(g)
    BY DEF Section, Locked, Kind, The, Waiting
<1> QED
    BY <1>1 DEF SectionOK, Waiting

LEMMA GoesOnInSection ==
    ASSUME InSection, NEW f \in Flow, GoesOn(f), UNCHANGED lockVars, pc[f] # "idle"
    PROVE  InSection'
<1>1. inside' = inside
    BY DEF lockVars
<1>2. \A g \in Flow \ {f} : SectionOK(g)'
    BY <1>1, KeptSection DEF InSection, GoesOn
<1>3. SectionOK(f)'
    <2>1. CASE pc'[f] = "idle"
        BY <2>1 DEF SectionOK, Waiting
    <2>2. CASE pc'[f] = pc[f] /\ task'[f] = task[f]
        BY <1>1, <2>2, KeptSection DEF InSection
    <2>3. CASE pc'[f] # "idle" /\ task'[f] = task[f] /\ {pc[f], pc'[f]} \cap Waiting = {}
        <3>1. pc[f] \notin Waiting /\ pc'[f] \notin Waiting
            BY <2>3
        <3>2. Section(f)' = Section(f) /\ Kind(f)' = Kind(f)
            BY <2>3, <3>1 DEF Section, Locked, Kind, The, Waiting
        <3>3. SectionOK(f)
            BY DEF InSection
        <3> QED
            BY <1>1, <2>3, <3>1, <3>2, <3>3 DEF SectionOK, Waiting
    <2> QED
        BY <2>1, <2>2, <2>3 DEF GoesOn
<1> QED
    BY <1>2, <1>3 DEF InSection

LEMMA FlowInSection ==
    ASSUME TypeInv, InSection, NEW f \in Flow, FlowNext(f), UNCHANGED lockVars,
           pc[f] # "idle" \/ inside[f] = Outside
    PROVE  InSection'
<1>1. CASE pc[f] = "idle"
    <2>1. \A g \in Flow \ {f} : SectionOK(g)'
        BY <1>1, FlowGoesOn, KeptSection DEF Starts, InSection, lockVars
    <2>2. SectionOK(f)'
        BY <1>1, FlowGoesOn DEF Starts, SectionOK, Section, Kind, The, lockVars, Waiting
    <2> QED
        BY <2>1, <2>2 DEF InSection
<1>2. CASE pc[f] # "idle"
    BY <1>2, FlowGoesOn, GoesOnInSection
<1> QED
    BY <1>1, <1>2

LEMMA RequestInSection ==
    ASSUME TypeInv, LockTypeOK, InSection, NEW f \in Flow, RequestNext(f) \/ RequestStep(f)
    PROVE  InSection'
<1>1. CASE RequestNext(f)
    <2>1. PICK kind \in RequestKind, s \in Sub, u \in User, p \in Plan \cup {NoPlan},
               step \in Waiting :
               /\ \E d : BeginRequest(f, kind, s, u, p, step, d)
               /\ step = "createLock" <=> kind = "create"
        BY <1>1 DEF RequestNext, RequestCreate, RequestChange, RequestKind, ChangeKind, Waiting
    <2>2. /\ pc[f] = "idle" /\ inside[f] = Outside /\ inside' = inside /\ pc'[f] = step
          /\ task'[f].kind = kind /\ task'[f].user \in User
          /\ \A g \in Flow \ {f} : pc'[g] = pc[g] /\ task'[g] = task[g]
        BY <2>1 DEF BeginRequest, lockVars, TypeInv, FlowsOK
    <2>3. \A g \in Flow \ {f} : SectionOK(g)'
        BY <2>2, KeptSection DEF InSection
    <2>4. SectionOK(f)'
        BY <2>1, <2>2 DEF SectionOK, Section, Kind, The, Waiting
    <2> QED
        BY <2>3, <2>4 DEF InSection
<1>2. ASSUME NEW r \in Sub \cup User, NEW step \in Shared \ {"idle"}, TakeLock(f, r, step),
             pc[f] \in Waiting, r = Locked(f)
      PROVE  InSection'
    <2>1. /\ \A g \in Flow \ {f} : inside'[g] = inside[g] /\ pc'[g] = pc[g]
          /\ task' = task \/ task' = [task EXCEPT ![f] = None]
          /\ \/ pc'[f] = "idle"
             \/ inside'[f] = r /\ pc'[f] = step /\ task'[f] = task[f]
        BY <1>2, ResourceAssumption DEF TakeLock, Acquire, AcquireUnanswered, Goto, Return,
           LockTypeOK, TypeInv, FlowsOK, lockVars
    <2>2. \A g \in Flow \ {f} : task'[g] = task[g]
        BY <2>1 DEF TypeInv, FlowsOK
    <2>3. \A g \in Flow \ {f} : SectionOK(g)'
        BY <2>1, <2>2, KeptSection DEF InSection
    <2>4. SectionOK(f)'
        BY <1>2, <2>1 DEF InSection, SectionOK, Section, Locked, Kind, The, Shared, Waiting
    <2> QED
        BY <2>3, <2>4 DEF InSection
<1>3. CASE CreateLock(f)
    <2>1. task[f].user \in User /\ task[f].user = Locked(f) /\ pc[f] \in Waiting
        BY <1>3, Running DEF CreateLock, TypeInv, FlowsOK, ReadsOK, InSection, SectionOK, Locked,
           Waiting
    <2> QED
        BY <1>2, <1>3, <2>1 DEF CreateLock, Shared, Step, Waiting
<1>4. CASE ChangeLock(f)
    <2> DEFINE step == IF Kind(f) = "cancelDowngrade" THEN "readDowngrade" ELSE "changeAtPayPal"
    <2>1. The(f) \in Sub /\ The(f) = Locked(f) /\ pc[f] \in Waiting
        BY <1>4, Running DEF ChangeLock, TypeInv, InSection, SectionOK, Locked, Waiting
    <2>2. step \in Shared \ {"idle"}
        BY DEF Shared, Step, Waiting
    <2> QED
        BY <1>2, <1>4, <2>1, <2>2 DEF ChangeLock
<1>5. CASE Unlock(f)
    <2>1. /\ \A g \in Flow \ {f} : inside'[g] = inside[g]
          /\ pc[f] = "idle" /\ UNCHANGED <<pc, task>>
        BY <1>5, ResourceAssumption DEF Unlock, Release, Exit, LockTypeOK, vars, flowVars
    <2> QED
        BY <2>1, KeptSection DEF InSection, SectionOK, Waiting
<1>6. ASSUME GoesOn(f), UNCHANGED lockVars, pc[f] # "idle" PROVE InSection'
    BY <1>6, GoesOnInSection
<1>7. CASE CreateAtPayPal(f) \/ Register(f) \/ ChangeRefused(f)
    <2>1. GoesTo(f, Shared) /\ pc[f] \notin Waiting \cup {"idle"} /\ UNCHANGED lockVars
        BY <1>7 DEF CreateAtPayPal, Register, ChangeRefused, Goto, GoesTo, Shared, Waiting, Step
    <2> QED
        BY <1>6, <2>1, GoesToGoesOn
<1>8. CASE ChangeAtPayPal(f)
    <2>1. Changes(Kind(f)).next \in Shared
        BY <1>8, ChangesTypes DEF ChangeAtPayPal, TypeInv, FlowsOK, ReadsOK, Kind, Shared, Step,
           Waiting
    <2>2. GoesTo(f, Shared) /\ pc[f] \notin Waiting \cup {"idle"} /\ UNCHANGED lockVars
        BY <1>8, <2>1 DEF ChangeAtPayPal, GotoWith, GoesTo, Waiting
    <2> QED
        BY <1>6, <2>2, GoesToGoesOn
<1>9. CASE ReadDowngrade(f) \/ RevertAtPayPal(f) \/ RevertLater(f) \/ Unschedule(f)
    <2>1. GoesTo(f, Shared) /\ pc[f] \notin Waiting \cup {"idle"} /\ UNCHANGED lockVars
        BY <1>9 DEF ReadDowngrade, RevertAtPayPal, RevertLater, Unschedule, Goto, GotoWith,
           GoesTo, Shared, Waiting, Step
    <2> QED
        BY <1>6, <2>1, GoesToGoesOn
<1> QED
    BY <1>1, <1>3, <1>4, <1>5, <1>7, <1>8, <1>9 DEF RequestStep

LEMMA NextInSection ==
    ASSUME TypeInv, LockTypeOK, InSection, [CheckoutNext]_checkoutVars
    PROVE  InSection'
<1>1. ASSUME UNCHANGED <<pc, task, inside>> PROVE InSection'
    BY <1>1, KeptSection DEF InSection
<1>2. ASSUME NEW r \in Resource, ExpireLock(r) PROVE InSection'
    BY <1>1, <1>2 DEF ExpireLock, Expire, flowVars
<1>3. CASE (PayPalChanges \/ Tick) /\ UNCHANGED lockVars
    <2>1. UNCHANGED <<pc, task>>
        BY <1>3 DEF Tick, PayPalChanges, PayPalActivates, PayPalReportsPayment, PayPalRenews,
           PayPalRevises, PayPalMovesTo, PayPalRefunds, elsewhere, flowVars
    <2> QED
        BY <1>1, <1>3, <2>1 DEF lockVars
<1>4. CASE UNCHANGED checkoutVars
    BY <1>1, <1>4 DEF checkoutVars, vars, flowVars, lockVars
<1> QED
    BY <1>2, <1>3, <1>4, FlowInSection, RequestInSection DEF CheckoutNext

\* Of two requests that are past the lock, on one subscription or, if they
\* create one, for one user, one has outlived its lock.
OneRequestAtATime ==
    \A f, g \in Flow :
        /\ f # g
        /\ \A h \in {f, g} : pc[h] # "idle" /\ Kind(h) \in RequestKind /\ pc[h] \notin Waiting
        /\ Locked(f) = Locked(g)
        => {f, g} \cap overrun # {}

\* What the lock is for: while their locks last, no two requests change one
\* subscription at PayPal or in MongoDB at the same time, nor do two create one
\* for the same user, with whatever crashes and expired locks around them.
THEOREM RequestsExclude == CheckoutSpec => []OneRequestAtATime
<1>1. CheckoutInit => InSection
    BY DEF CheckoutInit, Init, InSection, SectionOK, Section, Waiting
<1>2. TypeInv /\ LockTypeOK /\ InSection /\ [CheckoutNext]_checkoutVars => InSection'
    BY NextInSection
<1>3. TypeInv /\ LockTypeOK /\ InSection /\ MutualExclusion => OneRequestAtATime
    <2> SUFFICES ASSUME TypeInv, LockTypeOK, InSection, MutualExclusion, NEW f \in Flow,
                        NEW g \in Flow, f # g, Locked(f) = Locked(g),
                        \A h \in {f, g} : /\ pc[h] # "idle" /\ Kind(h) \in RequestKind
                                          /\ pc[h] \notin Waiting
                 PROVE  {f, g} \cap overrun # {}
        BY DEF OneRequestAtATime
    <2>1. inside[f] = Locked(f) /\ inside[g] = Locked(f)
        BY DEF InSection, SectionOK, Section
    <2>2. Locked(f) # Outside
        BY Running, ResourceAssumption, MarkAssumption DEF Locked, TypeInv, InSection, SectionOK
    <2> QED
        BY <2>1, <2>2, ResourceAssumption DEF MutualExclusion
<1> QED
    BY <1>1, <1>2, <1>3, CheckoutTypes, CheckoutExcludes, PTL DEF CheckoutSpec


-----------------------------------------------------------------------------
(* The status.  Events are handled one after another, in the order PayPal  *)
(* sent them: then the last word about a subscription is PayPal's.         *)

\* One worker that handles its events in order, and requests between them; and
\* no refund, which cancels here what goes on at PayPal.
OneByOne == (\A f, g \in Flow : f = g) /\ InOrder /\ "SALE_REFUNDED" \notin Kinds

\* The events that report a change of the status, and those that say what it is.
Turning == {"CREATED", "ACTIVATED", "CANCELLED", "SUSPENDED", "RE_ACTIVATED", "EXPIRED"}

Telling == Turning \cup {"SALE_COMPLETED", "RENEWED"}

Told(kind) ==
    CASE kind = "CREATED" -> "APPROVAL_PENDING"
      [] kind \in {"ACTIVATED", "RE_ACTIVATED", "SALE_COMPLETED", "RENEWED"} -> "ACTIVE"
      [] kind \in {"CANCELLED", "SUSPENDED", "EXPIRED"} -> kind

\* A change of s is still to be handled; one that came after e.
Later(s) == \E l \in inbox : l.sub = s /\ l.kind \in Turning

LaterThan(e) == \E l \in inbox : l.sub = e.sub /\ l.kind \in Turning /\ l.id > e.id

\* An event tells PayPal's status, or a later one does.
LastWord(e) ==
    /\ e.kind # "SALE_REFUNDED" /\ e.id \in 1..sent /\ ppStatus[e.sub] # Absent
    /\ e.kind \in Telling => ppStatus[e.sub] = Told(e.kind) \/ LaterThan(e)

EventsTell ==
    /\ \A e \in inbox : LastWord(e)
    /\ \A f \in Flow : pc[f] # "idle" /\ Kind(f) \in EventKind => LastWord(task[f])

\* The steps that write a status, for an event and besides, and what they write.
Owing == {"updateFromWebhook", "updateStatus", "createForStatus", "cancel", "setCancelled",
          "suspend", "askToResume", "resume"}

Writing == Owing \cup {"register", "attachUpsert", "correct"}

Writes(f) ==
    CASE pc[f] \in {"updateFromWebhook", "register"} -> "APPROVAL_PENDING"
      [] pc[f] \in {"updateStatus", "createForStatus"} -> NewStatus(Kind(f))
      [] pc[f] \in {"cancel", "setCancelled"} -> "CANCELLED"
      [] pc[f] = "suspend" -> "SUSPENDED"
      [] pc[f] \in {"askToResume", "resume"} -> "ACTIVE"
      [] pc[f] \in {"attachUpsert", "correct"} -> doc[f].status

\* What a flow is about to write is PayPal's status, or a change of it is
\* still to be handled.
WritesTell ==
    \A f \in Flow : pc[f] \in Writing =>
        ppStatus[The(f)] # Absent /\ (ppStatus[The(f)] = Writes(f) \/ Later(The(f)))

\* A flow that handles a change of s and has not come to write it.
Owes(f, s) == pc[f] \in Owing /\ Kind(f) \in Turning /\ The(f) = s

\* The status is PayPal's, or a change of it is still to be handled.
Settled(s) ==
    Later(s) \/ ~Present(s) \/ status[s] = ppStatus[s] \/ \E f \in Flow : Owes(f, s)

\* A subscription is there only if PayPal has it, which the create endpoint
\* has not created before it does.
Creating == {"createLock", "createAtPayPal"}

KnownToPayPal ==
    /\ \A s \in Sub : Present(s) => ppStatus[s] # Absent
    /\ \A f \in Flow : pc[f] \in Creating => ppStatus[The(f)] = Absent

StatusInv == EventsTell /\ WritesTell /\ KnownToPayPal /\ \A s \in Sub : Settled(s)

\* What a step of a flow at work on s may do to the status of s.
StatusStep(f, s) ==
    /\ UNCHANGED <<ppStatus, sent>>
    /\ inbox' = inbox \/ GiveBack(f)
    /\ pc'[f] = "idle" \/ task'[f] = task[f]
    /\ \A t \in Sub : \/ status'[t] = status[t]
                      \/ t = s /\ ppStatus[s] # Absent /\ (status'[s] = ppStatus[s] \/ Later(s))
    /\ Owes(f, s) => \/ pc'[f] \in Owing \/ Later(s) \/ GiveBack(f)
                     \/ status'[s] \in {Absent, ppStatus[s]}
    /\ pc'[f] \in Writing => ppStatus[s] # Absent /\ (ppStatus[s] = Writes(f)' \/ Later(s))
    /\ pc'[f] \in Creating => ppStatus[s] = Absent

LEMMA LaterStays ==
    ASSUME inbox \subseteq inbox'
    PROVE  (\A s : Later(s) => Later(s)') /\ (\A e : LaterThan(e) => LaterThan(e)')
    BY DEF Later, LaterThan

LEMMA StatusStepKeeps ==
    ASSUME OneByOne, TypeInv, StatusInv, NEW f \in Flow, NEW s \in Sub, pc[f] # "idle",
           s = The(f), StatusStep(f, s)
    PROVE  StatusInv'
<1>1. inbox \subseteq inbox' /\ \A e \in inbox' : e \in inbox \/ (e = task[f] /\ e.id > 0)
    BY DEF StatusStep, GiveBack
<1>2. (\A t : Later(t) => Later(t)') /\ (\A e : LaterThan(e) => LaterThan(e)')
    BY <1>1, LaterStays
<1>3. \A e : LastWord(e) => LastWord(e)'
    BY <1>2 DEF LastWord, StatusStep
<1>4. \A g \in Flow : g = f
    BY DEF OneByOne
<1>5. task[f].id > 0 => Kind(f) \in EventKind
    BY DEF TypeInv, FlowsOK, ReadsOK, Kind
<1>6. EventsTell'
    <2>1. \A e \in inbox' : LastWord(e)
        BY <1>1, <1>5 DEF StatusInv, EventsTell
    <2>2. pc'[f] # "idle" /\ task'[f].kind \in EventKind => LastWord(task[f]) /\ task'[f] = task[f]
        BY DEF StatusInv, EventsTell, StatusStep, Kind
    <2> QED
        BY <1>3, <1>4, <2>1, <2>2 DEF EventsTell, Kind, LastWord, LaterThan
<1>7. WritesTell'
    <2>1. pc'[f] \in Writing => task'[f] = task[f] /\ pc'[f] # "idle"
        BY DEF StatusStep, Writing, Owing
    <2>2. pc'[f] \in Writing => ppStatus'[s] # Absent /\ (ppStatus'[s] = Writes(f)' \/ Later(s)')
        BY <1>2 DEF StatusStep
    <2> QED
        BY <1>4, <2>1, <2>2 DEF WritesTell, The, Later
<1>8. KnownToPayPal'
    <2>1. \A t \in Sub : status'[t] # Absent => ppStatus'[t] # Absent
        BY DEF StatusInv, KnownToPayPal, Present, StatusStep
    <2>2. pc'[f] \in Creating => ppStatus'[task'[f].sub] = Absent
        BY DEF StatusStep, Creating, The
    <2> QED
        BY <1>4, <2>1, <2>2 DEF KnownToPayPal, Present, The
<1>9. ASSUME NEW t \in Sub PROVE Settled(t)'
    <2>1. CASE Later(t)
        BY <1>2, <2>1 DEF Settled
    <2>2. CASE \E g \in Flow : Owes(g, t)
        <3>1. Owes(f, s) /\ t = s
            BY <1>4, <2>2 DEF Owes
        <3>2. CASE pc'[f] \in Owing
            <4>1. task'[f] = task[f]
                BY <3>2 DEF StatusStep, Owing
            <4> QED
                BY <3>1, <3>2, <4>1 DEF Owes, Settled, Kind, The
        <3>3. CASE GiveBack(f)
            <4>1. Kind(f) \in EventKind /\ pc[f] # "idle"
                BY <3>1 DEF Owes, Turning, EventKind
            <4>2. task[f].id > 0
                BY <4>1 DEF StatusInv, EventsTell, LastWord
            <4>3. task[f] \in inbox'
                BY <3>3, <4>2 DEF GiveBack
            <4> QED
                BY <3>1, <4>3 DEF Owes, Settled, Later, Kind, The
        <3> QED
            BY <1>2, <3>1, <3>2, <3>3 DEF StatusStep, Settled, Present
    <2>3. CASE ~Present(t) \/ status[t] = ppStatus[t]
        BY <1>2, <2>3 DEF StatusStep, Settled, Present
    <2> QED
        BY <2>1, <2>2, <2>3 DEF StatusInv, Settled
<1> QED
    BY <1>6, <1>7, <1>8, <1>9 DEF StatusInv

\* A step on which the flow neither writes a status nor comes to write one.
Apart == Step \ (Writing \cup Creating)

LEMMA ApartKeeps ==
    ASSUME OneByOne, TypeInv, StatusInv, NEW f \in Flow, pc[f] # "idle", GoesTo(f, Apart),
           UNCHANGED <<status, ppStatus, sent>>,
           (pc[f] \notin Owing /\ inbox' = inbox) \/ GiveBack(f)
    PROVE  StatusInv'
<1>1. The(f) \in Sub
    BY Running DEF TypeInv
<1>2. /\ pc'[f] \in Apart \cup {"idle"}
      /\ pc'[f] = "idle" \/ task'[f] = task[f]
    BY DEF GoesTo, Return, TypeInv, FlowsOK
<1>3. pc'[f] \notin Writing /\ pc'[f] \notin Creating
    BY <1>2 DEF Apart, Writing, Owing, Creating
<1>4. StatusStep(f, The(f))
    BY <1>1, <1>2, <1>3 DEF StatusStep, Owes
<1> QED
    BY <1>1, <1>4, StatusStepKeeps

LEMMA ServiceTells ==
    ASSUME OneByOne, TypeInv, StatusInv, NEW f \in Flow, ServiceNext(f)
    PROVE  StatusInv'
<1> DEFINE s == The(f)
<1>0. /\ pc[f] # "idle" => s \in Sub
      /\ pc[f] \in Writing => ppStatus[s] # Absent /\ (ppStatus[s] = Writes(f) \/ Later(s))
    BY Running DEF TypeInv, StatusInv, WritesTell
<1>1. CASE UpdateFromWebhook(f)
    <2>1. pc[f] = "updateFromWebhook" /\ Return(f)
        BY <1>1 DEF UpdateFromWebhook
    <2>2. StatusStep(f, s)
        BY <1>0, <1>1, <2>1 DEF UpdateFromWebhook, StatusStep, Writes, Writing, Owing, Creating,
           Return, TypeInv, FlowsOK, DocsOK, ppVars
    <2> QED
        BY <1>0, <2>1, <2>2, StatusStepKeeps
<1>2. CASE UpdateStatus(f)
    <2>1. pc[f] = "updateStatus" /\ s \in Sub
        BY <1>0, <1>2 DEF UpdateStatus
    <2>2. CASE Present(s)
        <3>1. /\ pc'[f] \in {"idle", "claim", "grabDowngrade", "expireFlag"}
              /\ pc'[f] = "idle" \/ task'[f] = task[f]
              /\ status' = [status EXCEPT ![s] = NewStatus(Kind(f))]
            BY <1>2, <2>1, <2>2, AfterUpdateStatusGoes
               DEF UpdateStatus, WriteStatus, Goto, Return, TypeInv, FlowsOK
        <3>2. StatusStep(f, s)
            BY <1>0, <1>2, <2>1, <3>1 DEF UpdateStatus, StatusStep, Writes, Writing, Owing,
               Creating, TypeInv, DocsOK, ppVars
        <3> QED
            BY <2>1, <3>2, StatusStepKeeps
    <2>3. CASE ~Present(s)
        <3>1. Goto(f, "createForStatus") /\ UNCHANGED subVars
            BY <1>2, <2>3 DEF UpdateStatus
        <3>2. pc'[f] = "createForStatus" /\ UNCHANGED <<task, status>> /\ Writes(f)' = Writes(f)
            BY <2>1, <3>1 DEF Goto, Writes, Kind, subVars, TypeInv, FlowsOK
        <3>3. StatusStep(f, s)
            BY <1>0, <1>2, <2>1, <3>2 DEF UpdateStatus, StatusStep, Writing, Owing, Creating,
               ppVars
        <3> QED
            BY <2>1, <3>3, StatusStepKeeps
    <2> QED
        BY <2>2, <2>3
<1>3. CASE CreateForStatus(f)
    <2>1. pc[f] = "createForStatus" /\ s \in Sub
        BY <1>0, <1>3 DEF CreateForStatus
    <2>2. CASE Present(s)
        <3>1. GoesTo(f, Apart) /\ GiveBack(f) /\ UNCHANGED <<status, ppStatus, sent>>
            BY <1>3, <2>2 DEF CreateForStatus, GoesTo, subVars, ppVars
        <3> QED
            BY <2>1, <3>1, ApartKeeps
    <2>3. CASE ~Present(s)
        <3>1. /\ pc'[f] \in {"idle", "claim", "grabDowngrade", "expireFlag"}
              /\ pc'[f] = "idle" \/ task'[f] = task[f]
              /\ status' = [status EXCEPT ![s] = NewStatus(Kind(f))]
            BY <1>3, <2>1, <2>3, AfterUpdateStatusGoes
               DEF CreateForStatus, WriteStatus, Goto, Return, TypeInv, FlowsOK
        <3>2. StatusStep(f, s)
            BY <1>0, <1>3, <2>1, <2>3, <3>1 DEF CreateForStatus, StatusStep, Writes, Writing, Owing,
               Creating, TypeInv, DocsOK, ppVars
        <3> QED
            BY <2>1, <3>2, StatusStepKeeps
    <2> QED
        BY <2>2, <2>3
<1>4. CASE ClaimActivation(f) \/ SaveUser(f) \/ Rollback(f)
    <2>1. /\ GoesTo(f, Apart) /\ pc[f] # "idle" /\ pc[f] \notin Owing
          /\ UNCHANGED <<status, ppStatus, sent, inbox>>
        BY <1>4 DEF ClaimActivation, SaveUser, Rollback, AfterActivation, Goto, GotoWith, GoesTo,
           Apart, Writing, Owing, Creating, Step, subVars, ppVars
    <2> QED
        BY <2>1, ApartKeeps
<1>5. CASE SetGrabbedPlan(f) \/ SyncBillingData(f) \/ ActivationError(f) \/ LoadUser(f)
           \/ DropPro(f) \/ RaisePro(f) \/ ExpireSave(f)
    <2>1. /\ GoesTo(f, Apart) /\ pc[f] # "idle" /\ pc[f] \notin Owing
          /\ UNCHANGED <<status, ppStatus, sent, inbox>>
        BY <1>5 DEF SetGrabbedPlan, SyncBillingData, ActivationError, LoadUser, DropPro, RaisePro,
           ExpireSave, Goto, GotoWith, GoesTo, Apart, Writing, Owing, Creating, Step, subVars,
           ppVars
    <2> QED
        BY <2>1, ApartKeeps
<1>6. CASE RollbackThrow(f)
    <2>1. GoesTo(f, Apart) /\ pc[f] # "idle" /\ GiveBack(f) /\ UNCHANGED <<status, ppStatus, sent>>
        BY <1>6 DEF RollbackThrow, GoesTo, ppVars
    <2> QED
        BY <2>1, ApartKeeps
<1>7. CASE GrabDowngrade(f)
    <2>1. pc[f] = "grabDowngrade" /\ s \in Sub /\ UNCHANGED <<status, ppStatus, sent, inbox>>
        BY <1>0, <1>7 DEF GrabDowngrade, ppVars
    <2>2. CASE ~Goto(f, "updateStatus")
        <3>1. GoesTo(f, Apart)
            BY <1>7, <2>2 DEF GrabDowngrade, GotoWith, GoesTo, Apart, Writing, Owing, Creating, Step
        <3> QED
            BY <2>1, <3>1, ApartKeeps DEF Owing
    <2>3. CASE Goto(f, "updateStatus")
        <3>1. pc'[f] = "updateStatus" /\ task' = task
            BY <2>3 DEF Goto, TypeInv, FlowsOK
        <3>2. Kind(f) = "RENEWED"
            BY <1>7, <3>1 DEF GrabDowngrade, GotoWith, Return, TypeInv, FlowsOK
        <3>3. ppStatus[s] # Absent /\ (ppStatus[s] = "ACTIVE" \/ LaterThan(task[f]))
            BY <2>1, <3>2 DEF StatusInv, EventsTell, LastWord, EventKind, Telling, Told, Kind,
               Turning, The
        <3>4. Writes(f)' = "ACTIVE"
            BY <3>1, <3>2 DEF Writes, NewStatus, Kind
        <3>5. StatusStep(f, s)
            BY <2>1, <3>1, <3>3, <3>4 DEF StatusStep, Owes, Owing, Creating, LaterThan, Later, The
        <3> QED
            BY <2>1, <3>5, StatusStepKeeps
    <2> QED
        BY <2>2, <2>3
<1>8. CASE ReadForCancel(f)
    <2>1. pc[f] = "cancel" /\ s \in Sub /\ UNCHANGED <<status, ppStatus, sent, inbox>>
        BY <1>0, <1>8 DEF ReadForCancel, subVars, ppVars
    <2>2. ppStatus[s] # Absent /\ (ppStatus[s] = "CANCELLED" \/ Later(s))
        BY <1>0, <2>1 DEF Writing, Owing, Writes
    <2>3. CASE Present(s) /\ status[s] # "CANCELLED"
        <3>1. pc'[f] = "setCancelled" /\ task' = task
            BY <1>8, <2>3 DEF ReadForCancel, GotoWith, TypeInv, FlowsOK
        <3>2. Writes(f)' = "CANCELLED"
            BY <3>1 DEF Writes
        <3>3. StatusStep(f, s)
            BY <2>1, <2>2, <3>1, <3>2 DEF StatusStep, Owing, Creating
        <3> QED
            BY <2>1, <3>3, StatusStepKeeps
    <2>4. CASE ~(Present(s) /\ status[s] # "CANCELLED")
        <3>1. pc'[f] = "idle"
            BY <1>8, <2>4 DEF ReadForCancel, Return, TypeInv, FlowsOK
        <3>2. StatusStep(f, s)
            BY <2>1, <2>2, <2>4, <3>1 DEF StatusStep, Writing, Owing, Creating, Present
        <3> QED
            BY <2>1, <3>2, StatusStepKeeps
    <2> QED
        BY <2>3, <2>4
<1>9. CASE SetCancelled(f)
    <2>1. /\ pc[f] = "setCancelled" /\ s \in Sub /\ UNCHANGED <<ppStatus, sent, inbox>>
          /\ status' = [status EXCEPT ![s] = "CANCELLED"]
        BY <1>0, <1>9 DEF SetCancelled, ppVars
    <2>2. pc'[f] \in {"idle", "expireFlag"} /\ (pc'[f] = "idle" \/ task'[f] = task[f])
        BY <1>9 DEF SetCancelled, GotoWith, Return, TypeInv, FlowsOK
    <2>3. StatusStep(f, s)
        BY <1>0, <2>1, <2>2 DEF StatusStep, Writes, Writing, Owing, Creating, TypeInv, DocsOK
    <2> QED
        BY <2>1, <2>3, StatusStepKeeps
<1>10. CASE ExpireFlag(f) \/ ExpireLoad(f) \/ AttachRead(f) \/ Attach(f)
    <2>1. /\ GoesTo(f, Apart) /\ pc[f] # "idle" /\ pc[f] \notin Owing
          /\ UNCHANGED <<status, ppStatus, sent, inbox>>
        BY <1>10 DEF ExpireFlag, ExpireLoad, AttachRead, Attach, AfterAttach, Goto, GotoWith,
           GoesTo, Apart, Writing, Owing, Creating, Step, subVars, ppVars
    <2> QED
        BY <2>1, ApartKeeps
<1>11. CASE Suspend(f) \/ Resume(f)
    <2>1. /\ pc[f] \in {"suspend", "resume"} /\ s \in Sub /\ UNCHANGED <<ppStatus, sent, inbox>>
          /\ \/ status' = status /\ ~Present(s)
             \/ status' = [status EXCEPT ![s] = Writes(f)]
        BY <1>0, <1>11 DEF Suspend, Resume, ppVars, Writes
    <2>2. /\ pc'[f] \in {"idle", "dropPro", "raisePro"}
          /\ pc'[f] = "idle" \/ task'[f] = task[f]
        BY <1>11 DEF Suspend, Resume, GotoWith, Return, TypeInv, FlowsOK
    <2>3. StatusStep(f, s)
        BY <1>0, <2>1, <2>2 DEF StatusStep, Writing, Owing, Creating, TypeInv, DocsOK, Present
    <2> QED
        BY <2>1, <2>3, StatusStepKeeps
<1>12. CASE AskPayPalToResume(f)
    <2>1. pc[f] = "askToResume" /\ s \in Sub /\ UNCHANGED <<status, ppStatus, sent, inbox>>
        BY <1>0, <1>12 DEF AskPayPalToResume, subVars, ppVars
    <2>2. \/ pc'[f] = "resume" /\ task' = task
          \/ pc'[f] = "idle" /\ ppStatus[s] # "ACTIVE"
        BY <1>12 DEF AskPayPalToResume, Goto, Return, TypeInv, FlowsOK
    <2>3. pc'[f] = "resume" => Writes(f)' = "ACTIVE"
        BY DEF Writes
    <2>4. StatusStep(f, s)
        BY <1>0, <2>1, <2>2, <2>3 DEF StatusStep, Writes, Writing, Owing, Creating
    <2> QED
        BY <2>1, <2>4, StatusStepKeeps
<1>13. CASE AttachAskPayPal(f)
    <2>1. pc[f] = "attachAsk" /\ s \in Sub /\ UNCHANGED <<status, ppStatus, sent, inbox>>
        BY <1>0, <1>13 DEF AttachAskPayPal, subVars, ppVars
    <2>2. \/ pc'[f] = "idle"
          \/ /\ pc'[f] = "attachUpsert" /\ task' = task /\ ppStatus[s] # Absent
             /\ doc'[f].status = ppStatus[s]
        BY <1>13 DEF AttachAskPayPal, GotoWith, Return, PayPalDoc, TypeInv, FlowsOK
    <2>3. pc'[f] = "attachUpsert" => Writes(f)' = ppStatus[s]
        BY <2>2 DEF Writes
    <2>4. StatusStep(f, s)
        BY <2>1, <2>2, <2>3 DEF StatusStep, Writing, Owes, Owing, Creating
    <2> QED
        BY <2>1, <2>4, StatusStepKeeps
<1>14. CASE AttachUpsert(f)
    <2>1. /\ pc[f] = "attachUpsert" /\ s \in Sub /\ UNCHANGED <<ppStatus, sent, inbox>>
          /\ status' = status \/ status' = [status EXCEPT ![s] = Writes(f)]
        BY <1>0, <1>14 DEF AttachUpsert, ppVars, Writes
    <2>2. pc'[f] \in {"idle", "claim"} /\ (pc'[f] = "idle" \/ task'[f] = task[f])
        BY <1>14 DEF AttachUpsert, AfterAttach, Goto, Return, TypeInv, FlowsOK
    <2>3. StatusStep(f, s)
        BY <1>0, <2>1, <2>2 DEF StatusStep, Writing, Owes, Owing, Creating, TypeInv, DocsOK
    <2> QED
        BY <2>1, <2>3, StatusStepKeeps
<1> QED
    BY <1>1, <1>2, <1>3, <1>4, <1>5, <1>6, <1>7, <1>8, <1>9, <1>10, <1>11, <1>12, <1>13, <1>14
       DEF ServiceNext

\* A flow starts on something that is not an event.
LEMMA StartTells ==
    ASSUME OneByOne, TypeInv, StatusInv, NEW f \in Flow, NEW step \in Step \ Writing, NEW t,
           pc[f] = "idle", pc' = [pc EXCEPT ![f] = step], task' = [task EXCEPT ![f] = t],
           t.kind \notin EventKind, step \in Creating => ppStatus[t.sub] = Absent,
           UNCHANGED <<status, ppStatus, sent, inbox>>
    PROVE  StatusInv'
<1>1. pc'[f] = step /\ task'[f] = t /\ \A g \in Flow : g = f
    BY DEF TypeInv, FlowsOK, OneByOne
<1>2. EventsTell'
    BY <1>1 DEF StatusInv, EventsTell, LastWord, LaterThan, Kind
<1>3. WritesTell' /\ KnownToPayPal'
    BY <1>1 DEF WritesTell, StatusInv, KnownToPayPal, Present, The
<1>4. ASSUME NEW s \in Sub PROVE Settled(s)'
    <2>1. ~\E g \in Flow : Owes(g, s)
        BY <1>1 DEF Owes, Owing
    <2> QED
        BY <2>1 DEF StatusInv, Settled, Later, Present
<1> QED
    BY <1>2, <1>3, <1>4 DEF StatusInv

\* An event is handed out: what it tells is what its handler is going to write.
LEMMA DispatchTells ==
    ASSUME OneByOne, TypeInv, StatusInv, NEW f \in Flow, DispatchNext(f)
    PROVE  StatusInv'
<1>1. ASSUME NEW e \in inbox, Dispatch(f, e) PROVE StatusInv'
    <2>1. /\ pc[f] = "idle" /\ \A g \in Flow : g = f
          /\ UNCHANGED <<status, ppStatus, sent>> /\ inbox' = inbox \ {e}
          /\ pc'[f] = FirstCall(e.kind) /\ task'[f] = e
        BY <1>1 DEF Dispatch, subVars, ppVars, TypeInv, FlowsOK, OneByOne
    <2>2. \A l \in inbox : e.id <= l.id
        BY <1>1 DEF Dispatch, OneByOne
    <2>3. /\ e.kind \in EventKind \ {"SALE_REFUNDED"} /\ e.sub \in Sub /\ e.id \in Nat
          /\ \A l \in inbox : l.id \in Nat
        BY CountAssumption DEF TypeInv, InboxOK, Task, StatusInv, EventsTell, LastWord
    <2>4. \A l \in inbox : LaterThan(l) => LaterThan(l)'
        BY <2>1, <2>2, <2>3 DEF LaterThan
    <2>5. \A l \in inbox : LastWord(l) /\ LastWord(l)'
        BY <2>1, <2>4 DEF StatusInv, EventsTell, LastWord
    <2>6. EventsTell'
        BY <2>1, <2>5 DEF EventsTell, LastWord, LaterThan
    <2>7. LaterThan(e) => Later(e.sub)'
        BY <2>1, <2>3 DEF LaterThan, Later
    <2>8. FirstCall(e.kind) \in Writing => e.kind \in Telling /\ Writes(f)' = Told(e.kind)
        BY <2>1, <2>3
           DEF FirstCall, EventKind, Telling, Turning, Writing, Owing, Writes, Told, NewStatus, Kind
    <2>9. WritesTell'
        BY <2>1, <2>5, <2>7, <2>8 DEF WritesTell, LastWord, The, Later
    <2>10. KnownToPayPal'
        <3>1. FirstCall(e.kind) \notin Creating
            BY <2>3 DEF FirstCall, EventKind, Creating
        <3> QED
            BY <2>1, <3>1 DEF StatusInv, KnownToPayPal, Present, The
    <2>11. ASSUME NEW s \in Sub PROVE Settled(s)'
        <3>1. ~\E g \in Flow : Owes(g, s)
            BY <2>1 DEF Owes, Owing
        <3>2. CASE Later(s)
            <4>1. PICK l \in inbox : l.sub = s /\ l.kind \in Turning
                BY <3>2 DEF Later
            <4>2. CASE l # e
                BY <2>1, <4>1, <4>2 DEF Settled, Later
            <4>3. CASE l = e
                <5>1. FirstCall(e.kind) \in Owing
                    BY <4>1, <4>3 DEF Turning, FirstCall, Owing
                <5> QED
                    BY <2>1, <4>1, <4>3, <5>1 DEF Settled, Owes, Kind, The
            <4> QED
                BY <4>2, <4>3
        <3> QED
            BY <2>1, <3>1, <3>2 DEF StatusInv, Settled, Present
    <2> QED
        BY <2>6, <2>9, <2>10, <2>11 DEF StatusInv
<1>2. CASE ReadUpdated(f) \/ Upgrade(f) \/ ClearScheduled(f) \/ ScheduleDowngrade(f)
    <2>1. /\ GoesTo(f, Apart) /\ pc[f] # "idle" /\ pc[f] \notin Owing
          /\ UNCHANGED <<status, ppStatus, sent, inbox>>
        BY <1>2 DEF ReadUpdated, Upgrade, ClearScheduled, ScheduleDowngrade, AfterUpgrade, Goto,
           GotoWith, GoesTo, Apart, Writing, Owing, Creating, Step, subVars, ppVars
    <2> QED
        BY <2>1, ApartKeeps
<1> QED
    BY <1>1, <1>2 DEF DispatchNext

LEMMA ReconciliationTells ==
    ASSUME OneByOne, TypeInv, StatusInv, NEW f \in Flow, ReconciliationNext(f)
    PROVE  StatusInv'
<1> DEFINE s == The(f)
<1>1. ASSUME NEW t \in Sub, \/ FindDeferred(f, t) \/ FindDowngrade(f, t)
                            \/ FindToVerify(f, t) \/ FindOrphan(f, t)
      PROVE  StatusInv'
    <2>1. PICK kind \in {"cronDeferred", "cronDowngrade", "cronVerify", "cronOrphan"},
               step \in {"takeDeferred", "takeDowngrade", "verify", "heal"} :
                   \E d : BeginPass(f, kind, t, step, d)
        BY <1>1 DEF FindDeferred, FindDowngrade, FindToVerify, FindOrphan
    <2>2. step \in Step \ Writing /\ step \notin Creating /\ kind \notin EventKind
        BY DEF Step, Writing, Owing, Creating, EventKind
    <2>3. PICK r : r.kind = kind /\ task' = [task EXCEPT ![f] = r]
        BY <2>1 DEF BeginPass
    <2>4. /\ pc[f] = "idle" /\ pc' = [pc EXCEPT ![f] = step]
          /\ UNCHANGED <<status, ppStatus, sent, inbox>>
        BY <2>1 DEF BeginPass, subVars, ppVars
    <2> QED
        BY <2>2, <2>3, <2>4, StartTells
<1>2. CASE TakeDeferred(f) \/ TakeDowngrade(f) \/ CopyFeatures(f) \/ MarkApplied(f) \/ Heal(f)
    <2>1. /\ GoesTo(f, Apart) /\ pc[f] # "idle" /\ pc[f] \notin Owing
          /\ UNCHANGED <<status, ppStatus, sent, inbox>>
        BY <1>2 DEF TakeDeferred, TakeDowngrade, CopyFeatures, MarkApplied, Heal, Goto, GoesTo,
           Apart, Writing, Owing, Creating, Step, subVars, ppVars
    <2> QED
        BY <2>1, ApartKeeps
<1>3. CASE VerifyWithPayPal(f)
    <2>1. pc[f] = "verify" /\ s \in Sub /\ UNCHANGED <<status, ppStatus, sent, inbox>>
        BY <1>3, Running DEF VerifyWithPayPal, subVars, ppVars, TypeInv
    <2>2. \/ pc'[f] = "idle"
          \/ /\ pc'[f] = "correct" /\ task' = task /\ ppStatus[s] # Absent
             /\ doc'[f].status = ppStatus[s]
        BY <1>3 DEF VerifyWithPayPal, GotoWith, Return, PayPalDoc, TypeInv, FlowsOK, FinalStatus,
           Absent
    <2>3. pc'[f] = "correct" => Writes(f)' = ppStatus[s]
        BY <2>2 DEF Writes
    <2>4. StatusStep(f, s)
        BY <2>1, <2>2, <2>3 DEF StatusStep, Writing, Owes, Owing, Creating
    <2> QED
        BY <2>1, <2>4, StatusStepKeeps
<1>4. CASE CorrectStatus(f)
    <2>1. /\ pc[f] = "correct" /\ s \in Sub /\ UNCHANGED <<ppStatus, sent, inbox>>
          /\ status' = [status EXCEPT ![s] = Writes(f)]
        BY <1>4, Running DEF CorrectStatus, ppVars, Writes, TypeInv
    <2>2. ppStatus[s] # Absent /\ (ppStatus[s] = Writes(f) \/ Later(s))
        BY <2>1 DEF StatusInv, WritesTell, Writing
    <2>3. pc'[f] = "idle"
        BY <1>4 DEF CorrectStatus, Return, TypeInv, FlowsOK
    <2>4. StatusStep(f, s)
        BY <2>1, <2>2, <2>3 DEF StatusStep, Writing, Owes, Owing, Creating, TypeInv, DocsOK
    <2> QED
        BY <2>1, <2>4, StatusStepKeeps
<1> QED
    BY <1>1, <1>2, <1>3, <1>4 DEF ReconciliationNext

LEMMA FlowTells ==
    ASSUME OneByOne, TypeInv, StatusInv, NEW f \in Flow, FlowNext(f)
    PROVE  StatusInv'
<1>1. ASSUME NEW s \in Sub, NEW u \in User, RequestAttach(f, s, u) PROVE StatusInv'
    <2>1. PICK r : r.kind = "attach" /\ task' = [task EXCEPT ![f] = r]
        BY <1>1 DEF RequestAttach
    <2>2. /\ "attach" \in Step \ Writing /\ "attach" \notin Creating /\ "attach" \notin EventKind
        BY DEF Step, Writing, Owing, Creating, EventKind
    <2>3. /\ pc[f] = "idle" /\ pc' = [pc EXCEPT ![f] = "attach"]
          /\ UNCHANGED <<status, ppStatus, sent, inbox>>
        BY <1>1 DEF RequestAttach, subVars, ppVars
    <2> QED
        BY <2>1, <2>2, <2>3, StartTells
<1>2. CASE Crash(f)
    <2>1. /\ GoesTo(f, Apart) /\ pc[f] # "idle" /\ GiveBack(f)
          /\ UNCHANGED <<status, ppStatus, sent>>
        BY <1>2 DEF Crash, GoesTo, subVars, ppVars
    <2> QED
        BY <2>1, ApartKeeps
<1>3. CASE Stall(f)
    <2>1. /\ pc[f] # "idle" /\ The(f) \in Sub /\ GiveBack(f)
          /\ UNCHANGED <<status, ppStatus, sent, pc, task, doc>>
        BY <1>3, Running DEF Stall, flowVars, subVars, ppVars, TypeInv
    <2>2. Writes(f)' = Writes(f)
        BY <2>1 DEF Writes, Kind
    <2>3. StatusStep(f, The(f))
        BY <2>1, <2>2 DEF StatusStep, StatusInv, WritesTell, KnownToPayPal
    <2> QED
        BY <2>1, <2>3, StatusStepKeeps
<1> QED
    BY <1>1, <1>2, <1>3, ServiceTells, DispatchTells, ReconciliationTells DEF FlowNext

\* PayPal has status st of s now, and reports what it tells.
Moved(s, st, kind) ==
    /\ ppStatus' = [ppStatus EXCEPT ![s] = st]
    /\ Report(s, kind)
    /\ st # Absent
    /\ kind \in Telling => st = Told(kind)
    /\ kind \in Turning \/ st = ppStatus[s]

\* After a report every event tells what it told, or the new one does.
LEMMA ReportTells ==
    ASSUME OneByOne, TypeInv, StatusInv, NEW s \in Sub, NEW st \in Status,
           NEW kind \in EventKind, Moved(s, st, kind), task' = task
    PROVE  /\ \A e \in inbox' : LastWord(e)'
           /\ \A f \in Flow : pc[f] # "idle" /\ Kind(f) \in EventKind => LastWord(task[f])'
           /\ \A t \in Sub : Later(t) => Later(t)'
           /\ \A t \in Sub : ppStatus'[t] = ppStatus[t] \/ Later(t)'
           /\ kind \in Turning => Later(s)'
           /\ ppStatus' \in [Sub -> Status \cup {Absent}]
           /\ \A t \in Sub \ {s} : ppStatus'[t] = ppStatus[t]
           /\ ppStatus'[s] = st
<1>0. PICK p, d, n : /\ n = sent + 1
                     /\ inbox' = inbox \cup {[kind |-> kind, sub |-> s, user |-> NoUser, id |-> n,
                                              plan |-> p, until |-> d]}
    BY DEF Moved, Report
<1>1. /\ sent' = sent + 1 /\ sent \in Nat /\ kind # "SALE_REFUNDED"
      /\ ppStatus' = [ppStatus EXCEPT ![s] = st] /\ ppStatus \in [Sub -> Status \cup {Absent}]
    BY CountAssumption DEF Moved, Report, TypeInv, PayPalOK, OneByOne
<1> DEFINE new == [kind |-> kind, sub |-> s, user |-> NoUser, id |-> n, plan |-> p, until |-> d]
<1>2. /\ new.kind = kind /\ new.sub = s /\ new.id = sent + 1
      /\ inbox' = inbox \cup {new}
    BY <1>0
<1> HIDE DEF new
<1>3. (\A t : Later(t) => Later(t)') /\ (\A e : LaterThan(e) => LaterThan(e)')
    BY <1>2, LaterStays
<1>4. ASSUME NEW e, e.sub \in Sub, LastWord(e) PROVE LastWord(e)'
    <2>1. e.id \in 1..sent' /\ e.id < new.id
        BY <1>1, <1>2, <1>4 DEF LastWord
    <2>2. CASE kind \in Turning /\ e.sub = s
        <3>1. LaterThan(e)'
            BY <1>2, <2>1, <2>2 DEF LaterThan
        <3> QED
            BY <1>1, <1>4, <2>1, <2>2, <3>1 DEF LastWord, Moved
    <2>3. CASE ~(kind \in Turning /\ e.sub = s)
        <3>1. ppStatus'[e.sub] = ppStatus[e.sub]
            BY <1>1, <1>4, <2>3 DEF Moved
        <3> QED
            BY <1>3, <1>4, <2>1, <3>1 DEF LastWord
    <2> QED
        BY <2>2, <2>3
<1>5. LastWord(new)'
    BY <1>1, <1>2 DEF LastWord, Moved
<1>6. /\ \A e \in inbox : e.sub \in Sub /\ LastWord(e)
      /\ \A f \in Flow : pc[f] # "idle" /\ Kind(f) \in EventKind
                            => task[f].sub \in Sub /\ LastWord(task[f])
    BY Running DEF TypeInv, InboxOK, Task, StatusInv, EventsTell, The
<1>7. kind \in Turning => Later(s)'
    BY <1>2 DEF Later
<1>8. \A t \in Sub : ppStatus'[t] = ppStatus[t] \/ Later(t)'
    BY <1>1, <1>7 DEF Moved
<1>9. \A e \in inbox' : LastWord(e)'
    BY <1>2, <1>4, <1>5, <1>6
<1>10. ASSUME NEW f \in Flow, pc[f] # "idle", Kind(f) \in EventKind
       PROVE  LastWord(task[f])'
    <2>1. PICK t : t = task[f] /\ t = task'[f]
        OBVIOUS
    <2>2. LastWord(t)'
        BY <1>4, <1>6, <1>10, <2>1
    <2> QED
        BY <2>1, <2>2 DEF LastWord, LaterThan
<1> QED
    BY <1>1, <1>3, <1>7, <1>8, <1>9, <1>10

\* PayPal changes a subscription it has: no flow creates it, and what flows are
\* about to write is made good by the event.
LEMMA MovedTells ==
    ASSUME OneByOne, TypeInv, StatusInv, NEW s \in Sub, NEW st \in Status,
           NEW kind \in EventKind, Moved(s, st, kind), ppStatus[s] # Absent,
           UNCHANGED <<status, pc, task, doc>>
    PROVE  StatusInv'
<1>1. EventsTell'
    BY ReportTells DEF EventsTell, Kind, LastWord, LaterThan
<1>2. WritesTell'
    <2> SUFFICES ASSUME NEW f \in Flow, pc[f] \in Writing
                 PROVE  /\ ppStatus'[The(f)] # Absent
                        /\ \/ ppStatus'[The(f)] = Writes(f)
                           \/ \E l \in inbox' : l.sub = The(f) /\ l.kind \in Turning
        BY DEF WritesTell, Writes, Later, The, Kind
    <2>1. The(f) \in Sub
        BY Running DEF TypeInv, Writing, Owing
    <2> QED
        BY <2>1, ReportTells DEF StatusInv, WritesTell, Later, Status, Absent
<1>3. KnownToPayPal'
    <2>1. \A t \in Sub : ppStatus'[t] = Absent <=> ppStatus[t] = Absent
        BY ReportTells DEF Status, Absent
    <2>2. \A f \in Flow : pc[f] \in Creating => The(f) \in Sub
        BY Running DEF TypeInv, Creating
    <2> QED
        BY <2>1, <2>2 DEF StatusInv, KnownToPayPal, Present, The
<1>4. ASSUME NEW t \in Sub PROVE Settled(t)'
    <2>1. (\E f \in Flow : Owes(f, t)) => (\E f \in Flow : Owes(f, t))'
        BY DEF Owes, Kind, The
    <2> QED
        BY <2>1, ReportTells DEF StatusInv, Settled, Present
<1> QED
    BY <1>1, <1>2, <1>3, <1>4 DEF StatusInv

LEMMA PayPalTells ==
    ASSUME OneByOne, TypeInv, StatusInv, PayPalChanges
    PROVE  StatusInv'
<1>1. UNCHANGED <<status, pc, task, doc>>
    BY DEF PayPalChanges, PayPalActivates, PayPalReportsPayment, PayPalRenews, PayPalRevises,
           PayPalMovesTo, PayPalRefunds, elsewhere, subVars, flowVars
<1>2. PICK s \in Sub :
        \/ PayPalActivates(s) \/ PayPalReportsPayment(s) \/ PayPalRefunds(s)
        \/ \E kind \in {"SALE_COMPLETED", "RENEWED"} : PayPalRenews(s, kind)
        \/ \E p \in Plan : PayPalRevises(s, p)
        \/ \E m \in PayPalMoves : PayPalMovesTo(s, m)
    BY DEF PayPalChanges
<1>3. ppStatus = [ppStatus EXCEPT ![s] = ppStatus[s]]
    BY DEF TypeInv, PayPalOK
<1>4. CASE PayPalActivates(s)
    <2>1. Moved(s, "ACTIVE", "ACTIVATED") /\ ppStatus[s] # Absent
        BY <1>4 DEF PayPalActivates, Moved, Absent, Telling, Turning, Told
    <2> QED
        BY <1>1, <2>1, MovedTells DEF Status, EventKind
<1>5. ASSUME NEW kind \in {"SALE_COMPLETED", "RENEWED"},
             PayPalRenews(s, kind) \/ (PayPalReportsPayment(s) /\ kind = "SALE_COMPLETED")
      PROVE  StatusInv'
    <2>1. Moved(s, "ACTIVE", kind) /\ ppStatus[s] # Absent
        BY <1>3, <1>5 DEF PayPalRenews, PayPalReportsPayment, Moved, Absent, Telling, Turning, Told
    <2> QED
        BY <1>1, <2>1, MovedTells DEF Status, EventKind
<1>6. ASSUME NEW p \in Plan, PayPalRevises(s, p) PROVE StatusInv'
    <2>1. Moved(s, ppStatus[s], "UPDATED") /\ ppStatus[s] \in Status /\ ppStatus[s] # Absent
        BY <1>3, <1>6 DEF PayPalRevises, Moved, Status, Absent, Telling, Turning
    <2> QED
        BY <1>1, <2>1, MovedTells DEF Status, EventKind
<1>7. ASSUME NEW m \in PayPalMoves, PayPalMovesTo(s, m) PROVE StatusInv'
    <2>1. /\ m[2] \in Status /\ m[3] \in EventKind /\ m[3] \in Turning
          /\ m[2] = Told(m[3]) /\ m[1] # Absent /\ m[2] # Absent
        BY DEF PayPalMoves, Status, EventKind, Turning, Told, Absent
    <2>2. Moved(s, m[2], m[3]) /\ ppStatus[s] # Absent
        BY <1>7, <2>1 DEF PayPalMovesTo, Moved
    <2> QED
        BY <1>1, <2>1, <2>2, MovedTells
<1>8. CASE PayPalRefunds(s)
    BY <1>8 DEF PayPalRefunds, Report, OneByOne
<1> QED
    BY <1>2, <1>4, <1>5, <1>6, <1>7, <1>8

LEMMA SameTells ==
    ASSUME StatusInv, UNCHANGED <<status, ppStatus, sent, inbox, pc, task, doc>>
    PROVE  StatusInv'
<1>1. EventsTell' /\ KnownToPayPal'
    BY DEF StatusInv, EventsTell, LastWord, LaterThan, Kind, KnownToPayPal, Present, The
<1>2. WritesTell'
    BY DEF StatusInv, WritesTell, Writes, Later, Kind, The
<1>3. \A s \in Sub : Settled(s)'
    BY DEF StatusInv, Settled, Later, Owes, Present, Kind, The
<1> QED
    BY <1>1, <1>2, <1>3 DEF StatusInv

LEMMA RequestNextTells ==
    ASSUME OneByOne, TypeInv, StatusInv, NEW f \in Flow, RequestNext(f)
    PROVE  StatusInv'
<1>1. PICK kind \in RequestKind, s \in Sub, u \in User, p \in Plan \cup {NoPlan}, step \in Waiting :
           /\ \E d : BeginRequest(f, kind, s, u, p, step, d)
           /\ step = "createLock" => ppStatus[s] = Absent
    BY DEF RequestNext, RequestCreate, RequestChange, RequestKind, ChangeKind, Waiting
<1>2. /\ step \in Step \ Writing /\ kind \notin EventKind
      /\ step \in Creating => ppStatus[s] = Absent
    BY <1>1 DEF Waiting, Step, Writing, Owing, RequestKind, ChangeKind, EventKind, Creating
<1>3. PICK r : r.kind = kind /\ r.sub = s /\ task' = [task EXCEPT ![f] = r]
    BY <1>1 DEF BeginRequest
<1>4. /\ pc[f] = "idle" /\ pc' = [pc EXCEPT ![f] = step]
      /\ UNCHANGED <<status, ppStatus, sent, inbox>>
    BY <1>1 DEF BeginRequest, kept, subVars, ppVars
<1> QED
    BY <1>2, <1>3, <1>4, StartTells

\* The endpoint creates a subscription no event is about yet.
LEMMA CreateAtPayPalTells ==
    ASSUME OneByOne, TypeInv, StatusInv, NEW f \in Flow, CreateAtPayPal(f)
    PROVE  StatusInv'
<1> DEFINE s == The(f)
<1>1. /\ pc[f] = "createAtPayPal" /\ s \in Sub /\ ppStatus[s] = Absent /\ ~Present(s)
      /\ status' = status /\ pc'[f] = "register" /\ task' = task /\ \A g \in Flow : g = f
    BY Running DEF CreateAtPayPal, TypeInv, FlowsOK, StatusInv, KnownToPayPal, Creating, subVars,
       Goto, OneByOne
<1>2. /\ ppStatus' = [ppStatus EXCEPT ![s] = "APPROVAL_PENDING"]
      /\ ppStatus \in [Sub -> Status \cup {Absent}]
      /\ Report(s, "CREATED") \/ (UNCHANGED <<sent, inbox>>)
    BY DEF CreateAtPayPal, TypeInv, PayPalOK
<1>3. "APPROVAL_PENDING" # Absent /\ "APPROVAL_PENDING" \in Status /\ "CREATED" \in EventKind
    BY DEF Absent, Status, EventKind
<1>4. /\ \A e \in inbox' : LastWord(e)'
      /\ Kind(f) \in EventKind => LastWord(task[f])'
      /\ \A t \in Sub : Later(t) => Later(t)'
    <2>1. CASE Report(s, "CREATED")
        <3>1. Moved(s, "APPROVAL_PENDING", "CREATED")
            BY <1>2, <1>3, <2>1 DEF Moved, Telling, Turning, Told
        <3> QED
            BY <1>1, <1>3, <3>1, ReportTells
    <2>2. CASE UNCHANGED <<sent, inbox>>
        <3>1. \A e : LastWord(e) /\ e.sub \in Sub => LastWord(e)'
            BY <1>1, <1>2, <2>2 DEF LastWord, LaterThan
        <3>2. \A e \in inbox : e.sub \in Sub
            BY DEF TypeInv, InboxOK, Task
        <3> QED
            BY <1>1, <2>2, <3>1, <3>2 DEF StatusInv, EventsTell, Later, The
    <2> QED
        BY <1>2, <2>1, <2>2
<1>5. EventsTell'
    BY <1>1, <1>4 DEF EventsTell, Kind, LastWord, LaterThan
<1>6. WritesTell'
    <2>1. Writes(f)' = "APPROVAL_PENDING"
        BY <1>1 DEF Writes
    <2> QED
        BY <1>1, <1>2, <1>3, <2>1 DEF WritesTell, The
<1>7. KnownToPayPal'
    BY <1>1, <1>2, <1>3 DEF StatusInv, KnownToPayPal, Creating, Present
<1>8. ASSUME NEW t \in Sub PROVE Settled(t)'
    <2>1. ~\E g \in Flow : Owes(g, t)
        BY <1>1 DEF Owes, Owing
    <2> QED
        BY <1>1, <1>2, <1>4, <2>1 DEF StatusInv, Settled, Present
<1> QED
    BY <1>5, <1>6, <1>7, <1>8 DEF StatusInv

\* What an endpoint changes at PayPal comes back as an event; the method that
\* follows writes the same.
LEMMA ReportingTells ==
    ASSUME OneByOne, TypeInv, StatusInv, NEW f \in Flow, NEW st \in Status,
           NEW kind \in EventKind, Moved(The(f), st, kind), ppStatus[The(f)] # Absent,
           pc[f] \notin Owing \cup {"idle"}, pc'[f] \notin Creating,
           pc'[f] \in Writing => kind \in Turning,
           task' = task, status' = status
    PROVE  StatusInv'
<1>1. The(f) \in Sub /\ \A g \in Flow : g = f
    BY Running DEF TypeInv, OneByOne
<1>2. EventsTell'
    BY <1>1, ReportTells DEF EventsTell, Kind, LastWord, LaterThan
<1>3. ASSUME pc'[f] \in Writing PROVE \E l \in inbox' : l.sub = The(f) /\ l.kind \in Turning
    BY <1>1, <1>3, ReportTells DEF Later
<1>4. WritesTell'
    BY <1>1, <1>3, ReportTells DEF WritesTell, Later, The, Status, Absent
<1>5. KnownToPayPal'
    <2>1. \A t \in Sub : ppStatus[t] # Absent => ppStatus'[t] # Absent
        BY <1>1, ReportTells DEF Status, Absent
    <2> QED
        BY <1>1, <2>1 DEF StatusInv, KnownToPayPal, Present
<1>6. ASSUME NEW t \in Sub PROVE Settled(t)'
    <2>1. ~\E g \in Flow : Owes(g, t)
        BY <1>1 DEF Owes
    <2> QED
        BY <1>1, <2>1, ReportTells DEF StatusInv, Settled, Present
<1> QED
    BY <1>2, <1>4, <1>5, <1>6 DEF StatusInv

LEMMA ChangesTell ==
    ASSUME NEW kind \in ChangeKind
    PROVE  /\ Changes(kind).event \in Turning /\ Changes(kind).to = Told(Changes(kind).event)
           /\ Absent \notin Changes(kind).from
    BY DEF ChangeKind, Changes, Turning, Told, Absent

LEMMA RequestStepTells ==
    ASSUME OneByOne, TypeInv, StatusInv, NEW f \in Flow, RequestStep(f)
    PROVE  StatusInv'
<1> DEFINE s == The(f)
<1>1. CASE CreateLock(f)
    <2>1. /\ pc[f] = "createLock" /\ s \in Sub /\ UNCHANGED <<status, ppStatus, sent, inbox>>
          /\ ppStatus[s] = Absent
        BY <1>1, Running DEF CreateLock, TakeLock, kept, subVars, ppVars, TypeInv, StatusInv,
           KnownToPayPal, Creating
    <2>2. pc'[f] = "idle" \/ (pc'[f] = "createAtPayPal" /\ task'[f] = task[f])
        BY <1>1 DEF CreateLock, TakeLock, Goto, Return, TypeInv, FlowsOK
    <2>3. StatusStep(f, s)
        BY <2>1, <2>2 DEF StatusStep, Owes, Writing, Owing, Creating
    <2> QED
        BY <2>1, <2>3, StatusStepKeeps
<1>2. CASE ChangeLock(f) \/ ChangeRefused(f) \/ ReadDowngrade(f) \/ RevertLater(f) \/ Unschedule(f)
    <2>1. /\ GoesTo(f, Apart) /\ pc[f] # "idle" /\ pc[f] \notin Owing
          /\ UNCHANGED <<status, ppStatus, sent, inbox>>
        BY <1>2 DEF ChangeLock, TakeLock, ChangeRefused, ReadDowngrade, RevertLater, Unschedule,
           Goto, GotoWith, GoesTo, Apart, Writing, Owing, Creating, Step, kept, subVars, ppVars
    <2> QED
        BY <2>1, ApartKeeps
<1>3. CASE Register(f)
    <2>1. /\ pc[f] = "register" /\ s \in Sub /\ UNCHANGED <<ppStatus, sent, inbox>>
          /\ status' = status \/ status' = [status EXCEPT ![s] = Writes(f)]
        BY <1>3, Running DEF Register, ppVars, TypeInv, Writes
    <2>2. ppStatus[s] # Absent /\ (ppStatus[s] = Writes(f) \/ Later(s))
        BY <2>1 DEF StatusInv, WritesTell, Writing
    <2>3. pc'[f] = "idle"
        BY <1>3 DEF Register, Return, TypeInv, FlowsOK
    <2>4. StatusStep(f, s)
        BY <2>1, <2>2, <2>3 DEF StatusStep, Owes, Writing, Owing, Creating, TypeInv, DocsOK
    <2> QED
        BY <2>1, <2>4, StatusStepKeeps
<1>4. CASE ChangeAtPayPal(f)
    <2> DEFINE change == Changes(Kind(f))
    <2>1. pc[f] = "changeAtPayPal" /\ Kind(f) \in ChangeKind
        BY <1>4 DEF ChangeAtPayPal, TypeInv, FlowsOK, ReadsOK, Kind
    <2>2. /\ change.to \in Status /\ change.event \in EventKind /\ change.event \in Turning
          /\ change.to = Told(change.event) /\ change.to # Absent /\ Absent \notin change.from
          /\ change.next \in {"cancel", "suspend", "askToResume"}
        BY <2>1, ChangesTypes, ChangesTell DEF Status, Absent
    <2>3. Moved(s, change.to, change.event) /\ ppStatus[s] # Absent
        BY <1>4, <2>2 DEF ChangeAtPayPal, Moved
    <2>4. pc'[f] \notin Creating /\ task' = task /\ status' = status
        BY <1>4, <2>2 DEF ChangeAtPayPal, GotoWith, Creating, subVars, TypeInv, FlowsOK
    <2>5. pc[f] \notin Owing \cup {"idle"}
        BY <2>1 DEF Owing
    <2> QED
        BY <2>2, <2>3, <2>4, <2>5, ReportingTells
<1>5. CASE RevertAtPayPal(f)
    <2>1. /\ pc[f] = "revertAtPayPal" /\ pc'[f] = "unschedule" /\ task' = task
          /\ status' = status /\ ppStatus[s] \in {"ACTIVE", "SUSPENDED"} /\ ppStatus' = ppStatus
          /\ Report(s, "UPDATED")
        BY <1>5 DEF RevertAtPayPal, Goto, subVars, TypeInv, FlowsOK
    <2>2. /\ Moved(s, ppStatus[s], "UPDATED")
          /\ ppStatus[s] \in Status /\ ppStatus[s] # Absent
        BY <2>1 DEF Moved, Status, Absent, Telling, Turning, TypeInv, PayPalOK
    <2>3. pc[f] \notin Owing \cup {"idle"} /\ pc'[f] \notin Creating /\ pc'[f] \notin Writing
        BY <2>1 DEF Owing, Creating, Writing
    <2> QED
        BY <2>1, <2>2, <2>3, ReportingTells DEF Status, EventKind
<1>6. CASE Unlock(f)
    BY <1>6, SameTells DEF Unlock, vars, subVars, ppVars, flowVars
<1> QED
    BY <1>1, <1>2, <1>3, <1>4, <1>5, <1>6, CreateAtPayPalTells DEF RequestStep

LEMMA NextTells ==
    ASSUME OneByOne, TypeInv, StatusInv, [CheckoutNext]_checkoutVars
    PROVE  StatusInv'
<1>1. ASSUME NEW r \in Resource, ExpireLock(r) PROVE StatusInv'
    BY <1>1, SameTells DEF ExpireLock, subVars, ppVars, flowVars
<1>2. CASE Tick \/ UNCHANGED checkoutVars
    BY <1>2, SameTells DEF Tick, checkoutVars, vars, subVars, ppVars, flowVars
<1> QED
    BY <1>1, <1>2, RequestNextTells, RequestStepTells, PayPalTells, FlowTells DEF CheckoutNext

\* The inductive invariant of the status: what waits in the queue, what the flow
\* is about to write, or the document itself is PayPal's last word.
THEOREM StatusInvariant == OneByOne => (CheckoutSpec => [](TypeInv /\ StatusInv))
<1> SUFFICES ASSUME OneByOne PROVE CheckoutSpec => [](TypeInv /\ StatusInv)
    OBVIOUS
<1>1. CheckoutInit => StatusInv
    BY DEF CheckoutInit, Init, StatusInv, EventsTell, WritesTell, KnownToPayPal, Settled, Present,
           Writing, Owing, Creating
<1>2. TypeInv /\ StatusInv /\ [CheckoutNext]_checkoutVars => StatusInv'
    BY NextTells
<1> QED
    BY <1>1, <1>2, CheckoutTypes, PTL DEF CheckoutSpec

\* A request that dies between PayPal and MongoDB leaves no difference that its
\* webhook does not mend: once every event is handled, a subscription has
\* PayPal's status.  With events out of order it would not: a SUSPENDED handled
\* after the CANCELLED that followed it stays.
THEOREM StatusIsPayPals == OneByOne => (CheckoutSpec => []StatusAgrees)
<1>1. StatusInv /\ TypeInv => StatusAgrees
    BY DEF StatusInv, Settled, Later, Owes, Owing, StatusAgrees, TypeInv, FlowsOK
<1> QED
    BY <1>1, StatusInvariant, PTL

-----------------------------------------------------------------------------
(* The access.  It goes up and down with the status: by the same events,   *)
(* in the same order, and for a user with one subscription at a time.      *)

\* As OneByOne; no cron corrects a status without its access, and whoever owns a
\* subscription has created it: attached or healed ones may never be activated.
Sequential == OneByOne /\ Kinds \cap {"cronVerify", "cronOrphan", "attach"} = {}

\* Nobody owns two subscriptions: the end of one takes the access of the other.
OneEach == \A s, t \in Sub : owner[s] # NoUser /\ owner[s] = owner[t] => s = t

Pending == {Absent, "APPROVAL_PENDING"}

\* A change of s after its activation is still to be handled; one after e.
Switching == {"SUSPENDED", "RE_ACTIVATED", "CANCELLED", "EXPIRED"}

Switch(s) == \E l \in inbox : l.sub = s /\ l.kind \in Switching

SwitchAfter(e) == \E l \in inbox : l.sub = e.sub /\ l.kind \in Switching /\ l.id > e.id

\* PayPal's status after it sent an event, unless it sent a switch since.
Leaves(kind) ==
    CASE kind = "CREATED" -> {"APPROVAL_PENDING", "ACTIVE"}
      [] kind \in {"CANCELLED", "SUSPENDED", "EXPIRED"} -> {kind}
      [] kind = "UPDATED" -> {"ACTIVE", "SUSPENDED"}
      [] OTHER -> {"ACTIVE"}

EventOK(e) ==
    /\ e.kind # "SALE_REFUNDED" /\ e.id \in 1..sent
    /\ ppStatus[e.sub] \in Leaves(e.kind) \/ SwitchAfter(e)
    /\ e.kind \in {"CANCELLED", "EXPIRED"} => ppStatus[e.sub] = e.kind
    /\ ppStatus[e.sub] \in Pending => e.kind = "CREATED"
    /\ e.kind = "UPDATED" => e.plan \in Plan

\* What a flow at work is still going to do for its subscription: raise the
\* access, grant it, take it away.
On(f, s) == pc[f] # "idle" /\ The(f) = s

Resumes(f) == Kind(f) = "RE_ACTIVATED"

Starting(f) == Kind(f) = "ACTIVATED" /\ pc[f] \notin {"rollback", "syncBilling"}

HasClaim(f) == pc[f] \in {"loadUser", "saveUser", "rollback", "rollbackThrow"}

Stops(f) == Kind(f) \in {"SUSPENDED", "EXPIRED"}

Ends(f) == Kind(f) = "CANCELLED" \/ (Kind(f) = "cronDeferred" /\ pc[f] = "dropPro")

Closes(f) == Kind(f) \in {"CANCELLED", "cancel", "cronDeferred"}
             /\ pc[f] \in {"expireFlag", "expireLoad", "expireSave", "dropPro"}

\* A registered user pays for s; they have the access, or it is known why not.
Pays(s) == ppStatus[s] = "ACTIVE" /\ owner[s] \in Registered

Given(s) ==
    \/ isPro[owner[s]] \/ "claimed" \in slips[s] \/ Switch(s)
    \/ \E f \in Flow : On(f, s) /\ Resumes(f)

\* The activation of s is still to be handled, before event number n.
Awaited(s, n) ==
    \/ \E l \in inbox : l.sub = s /\ l.kind = "ACTIVATED" /\ l.id < n
    \/ \E f \in Flow : On(f, s) /\ Starting(f) /\ task[f].id < n

\* The cancellation of s has not taken the access, and is not going to now.
Spared(s) == deferred[s] \/ "ending" \in slips[s]

DocOK(s) ==
    /\ owner[s] # NoUser => Present(s) /\ plan[s] \in Plan
    /\ applied[s] => owner[s] # NoUser
    /\ scheduled[s] # NoPlan => Present(s)
    /\ status[s] = "CANCELLED" => ppStatus[s] = "CANCELLED"
    /\ ppStatus[s] \in Pending => ~applied[s] /\ scheduled[s] = NoPlan /\ status[s] \in Pending

\* Who pays is given the access once the activation is handled, whatever else
\* says so: a claim, a schedule, a revision.
PaidOK(s) ==
    Pays(s) =>
        /\ Given(s) \/ Awaited(s, sent + 1)
        /\ scheduled[s] # NoPlan => Given(s)
        /\ applied[s] => Given(s) \/ \E f \in Flow : On(f, s) /\ HasClaim(f)
        /\ \A e \in inbox : e.sub = s /\ e.kind = "UPDATED" => Given(s) \/ Awaited(s, e.id)

\* Who paused or ended is not, once that is handled.
EndedOK(s) ==
    owner[s] \in Registered /\ isPro[owner[s]] =>
        /\ ppStatus[s] \in {"SUSPENDED", "EXPIRED"} =>
               Switch(s) \/ \E f \in Flow : On(f, s) /\ Stops(f)
        /\ ppStatus[s] = "CANCELLED" =>
               Spared(s) \/ Switch(s) \/ \E f \in Flow : On(f, s) /\ Ends(f)
        /\ status[s] = "CANCELLED" => Spared(s) \/ \E f \in Flow : On(f, s) /\ Closes(f)

\* What kind of task a flow at a step is about.
KindsAt(step) ==
    CASE step \in {"createLock", "createAtPayPal", "register"} -> {"create"}
      [] step = "changeLock" -> ChangeKind \cup {"cancelDowngrade"}
      [] step = "changeAtPayPal" -> ChangeKind
      [] step \in {"readDowngrade", "revertAtPayPal", "unschedule"} -> {"cancelDowngrade"}
      [] step = "updateFromWebhook" -> {"CREATED"}
      [] step \in {"updateStatus", "createForStatus"} -> StatusKind
      [] step \in {"claim", "loadUser", "saveUser", "rollback", "rollbackThrow"} ->
             {"ACTIVATED", "UPDATED", "SALE_COMPLETED", "RENEWED"}
      [] step = "syncBilling" -> {"ACTIVATED", "UPDATED"}
      [] step \in {"grabDowngrade", "setPlan"} -> {"SALE_COMPLETED", "RENEWED"}
      [] step \in {"cancel", "setCancelled"} -> {"CANCELLED", "cancel"}
      [] step \in {"expireFlag", "expireLoad", "expireSave"} -> {"CANCELLED", "cancel", "EXPIRED"}
      [] step = "suspend" -> {"SUSPENDED", "renewOff"}
      [] step = "dropPro" -> {"SUSPENDED", "renewOff", "cronDeferred"}
      [] step \in {"askToResume", "resume", "raisePro"} -> {"RE_ACTIVATED", "resume", "renewOn"}
      [] step \in {"readUpdated", "upgrade", "clearSuperseded", "clearReverted", "schedule"} ->
             {"UPDATED"}
      [] step = "takeDeferred" -> {"cronDeferred"}
      [] step \in {"takeDowngrade", "copyFeatures", "markApplied"} -> {"cronDowngrade"}
      [] OTHER -> {}

\* The steps a flow may be at while its subscription waits for the approval.
Early == {"updateFromWebhook", "createLock", "createAtPayPal", "register", "changeLock",
          "changeAtPayPal", "readDowngrade", "revertAtPayPal", "unschedule"}

\* A request that has changed the status at PayPal.
Changed(f) == Kind(f) \in ChangeKind /\ pc[f] \notin {"changeLock", "changeAtPayPal"}

\* What a flow at work knows of its subscription ...
TaskOK(f) ==
    /\ Kind(f) \in KindsAt(pc[f])
    /\ Kind(f) \in EventKind => EventOK(task[f])
    /\ Kind(f) \in {"UPDATED", "cronDowngrade"} /\ Pays(The(f)) => Given(The(f))
    /\ Kind(f) = "cronDeferred" => ppStatus[The(f)] = "CANCELLED"
    /\ Changed(f) => Switch(The(f))
    /\ Changed(f) /\ Kind(f) = "cancel" => ppStatus[The(f)] = "CANCELLED"
    /\ Kind(f) \in ChangeKind \cup {"cancelDowngrade"} => owner[The(f)] # NoUser
    /\ Kind(f) = "create" => task[f].plan \in Plan /\ task[f].user \in User
    /\ pc[f] \notin Early => ppStatus[The(f)] \notin Pending

OwnerSteps == {"loadUser", "saveUser", "expireLoad", "expireSave", "dropPro", "raisePro",
               "copyFeatures"}

\* ... and has read.
StepOK(f) ==
    LET s == The(f) IN
    /\ pc[f] \in OwnerSteps \cup {"setCancelled", "takeDeferred", "takeDowngrade"} =>
           doc[f].owner = owner[s]
    /\ pc[f] \in OwnerSteps \cup {"markApplied"} => owner[s] # NoUser
    /\ pc[f] \in {"loadUser", "saveUser", "raisePro"} => status[s] = "ACTIVE"
    /\ pc[f] = "claim" /\ Kind(f) = "ACTIVATED" => status[s] = "ACTIVE"
    /\ pc[f] \in {"saveUser", "expireSave"} => pro[f] = isPro[owner[s]]
    /\ pc[f] \in {"loadUser", "revertAtPayPal"} => doc[f].plan \in Plan
    /\ pc[f] = "setPlan" => doc[f].scheduled \in Plan
    /\ pc[f] = "schedule" => Present(s)
    /\ pc[f] \in Creating => ppStatus[s] = Absent
    /\ pc[f] = "register" =>
           \/ ppStatus[s] \in Pending \/ Switch(s)
           \/ \E l \in inbox :
                  /\ l.sub = s /\ l.kind = "ACTIVATED"
                  /\ \A e \in inbox : e.sub = s /\ e.kind = "UPDATED" => l.id < e.id

FlowOK(f) == pc[f] # "idle" => TaskOK(f) /\ StepOK(f)

SubOK(s) == DocOK(s) /\ PaidOK(s) /\ EndedOK(s)

AccessInv ==
    /\ \A e \in inbox : EventOK(e)
    /\ \A f \in Flow : FlowOK(f)
    /\ \A s \in Sub : SubOK(s)
    /\ \A u \in User : isPro[u] => \E s \in Sub : owner[s] = u

\* What a step of a flow at work on s leaves alone elsewhere.
Alike(t) ==
    /\ status'[t] = status[t] /\ owner'[t] = owner[t] /\ plan'[t] = plan[t]
    /\ applied'[t] = applied[t] /\ deferred'[t] = deferred[t] /\ scheduled'[t] = scheduled[t]
    /\ slips'[t] = slips[t]

\* Events and flows of t stay, so do the reasons they are.
Stays(t) ==
    /\ \A e \in inbox : e.sub = t => e \in inbox'
    /\ \A g \in Flow : On(g, t) => pc'[g] = pc[g] /\ task'[g] = task[g]

LEMMA StaysOn ==
    ASSUME NEW t \in Sub, Stays(t)
    PROVE  /\ Switch(t) => Switch(t)'
           /\ \A n : Awaited(t, n) => Awaited(t, n)'
           /\ \A g \in Flow : On(g, t) =>
                 /\ On(g, t)' /\ Resumes(g)' = Resumes(g) /\ HasClaim(g)' = HasClaim(g)
                 /\ Stops(g)' = Stops(g) /\ Ends(g)' = Ends(g) /\ Closes(g)' = Closes(g)
<1>1. Switch(t) => Switch(t)'
    BY DEF Stays, Switch
<1>2. \A g \in Flow : On(g, t) =>
          /\ On(g, t)' /\ Resumes(g)' = Resumes(g) /\ HasClaim(g)' = HasClaim(g)
          /\ Stops(g)' = Stops(g) /\ Ends(g)' = Ends(g) /\ Closes(g)' = Closes(g)
          /\ Starting(g)' = Starting(g) /\ task'[g] = task[g]
    BY DEF Stays, On, Resumes, HasClaim, Stops, Ends, Closes, Starting, Kind, The
<1>3. ASSUME NEW n, Awaited(t, n) PROVE Awaited(t, n)'
    BY <1>2, <1>3 DEF Awaited, Stays
<1> QED
    BY <1>1, <1>2, <1>3

\* Numbers of events.
LEMMA Numbers ==
    ASSUME TypeInv
    PROVE  /\ sent \in Nat /\ \A e \in inbox : e.id \in Nat /\ e.sub \in Sub
           /\ \A f \in Flow : pc[f] # "idle" => task[f].id \in Nat
    BY Running, CountAssumption DEF TypeInv, PayPalOK, InboxOK, Task

LEMMA AwaitedLater ==
    ASSUME TypeInv, NEW t, NEW n \in Nat, NEW m \in Nat, n <= m, Awaited(t, n)
    PROVE  Awaited(t, m)
    BY Numbers DEF Awaited, On

\* Nothing happens to t.
LEMMA OtherSub ==
    ASSUME TypeInv, NEW t \in Sub, SubOK(t), Alike(t), Stays(t), ppStatus'[t] = ppStatus[t],
           \A e \in inbox' : e.sub = t => e \in inbox, sent' \in Nat, sent <= sent', TypeInv',
           owner[t] # NoUser => isPro'[owner[t]] = isPro[owner[t]]
    PROVE  SubOK(t)'
<1>1. DocOK(t)'
    BY DEF SubOK, DocOK, Alike, Present
<1>2. Given(t) /\ owner[t] # NoUser => Given(t)'
    BY StaysOn DEF Given, Alike
<1>3. Pays(t)' => Pays(t) /\ owner[t] # NoUser
    BY RegisteredAssumption, NoneAssumption DEF Pays, Alike
<1>4. PaidOK(t)'
    <2>1. Awaited(t, sent + 1) => Awaited(t, sent + 1)'
        <3>1. PICK n : n \in Nat /\ n = sent' + 1
            OBVIOUS
        <3>2. Awaited(t, sent + 1) => Awaited(t, n)
            BY <3>1, Numbers, AwaitedLater
        <3>3. Awaited(t, n)' => Awaited(t, sent + 1)'
            BY <3>1 DEF Awaited
        <3> QED
            BY <3>2, <3>3, StaysOn
    <2>2. \A e \in inbox' : e.sub = t => e \in inbox /\ (Awaited(t, e.id) => Awaited(t, e.id)')
        BY StaysOn
    <2> QED
        BY <1>2, <1>3, <2>1, <2>2, StaysOn DEF SubOK, PaidOK, Alike
<1>5. EndedOK(t)'
    <2>1. owner'[t] \in Registered /\ isPro'[owner'[t]]
          => owner[t] \in Registered /\ isPro[owner[t]]
        BY RegisteredAssumption, NoneAssumption DEF Alike
    <2> QED
        BY <2>1, StaysOn DEF SubOK, EndedOK, Spared, Alike
<1> QED
    BY <1>1, <1>4, <1>5 DEF SubOK

LEMMA OneEachUser ==
    ASSUME TypeInv, OneEach, NEW s \in Sub, NEW t \in Sub, t # s, owner[t] # NoUser,
           \A u \in User : isPro'[u] # isPro[u] => u = owner[s]
    PROVE  isPro'[owner[t]] = isPro[owner[t]]
    BY DEF OneEach, TypeInv, DocsOK

\* What a step of f, at work on s, may do.  The flow ends, or goes on with its
\* task to a step of the same handler.
Proceeds(f) ==
    \/ pc'[f] = "idle"
    \/ /\ task'[f] = task[f] /\ Kind(f) \in KindsAt(pc'[f])
       /\ pc[f] \in Early => pc'[f] \in Early
       /\ Changed(f)' => Changed(f)
       /\ StepOK(f)'

GivenNow(s) == isPro'[owner[s]] \/ "claimed" \in slips'[s] \/ Switch(s)

\* Who pays keeps the access, or the reason why it is to come.
PaidStep(f, s) ==
    Pays(s) =>
        /\ isPro[owner[s]] => isPro'[owner[s]] \/ Switch(s)
        /\ scheduled'[s] # NoPlan => scheduled[s] # NoPlan \/ Given(s)
        /\ applied'[s] => \/ applied[s] /\ ~HasClaim(f)
                          \/ Given(s) \/ GivenNow(s) \/ HasClaim(f)'
        /\ Resumes(f) => pc'[f] # "idle" \/ GiveBack(f) \/ GivenNow(s)
        /\ Starting(f) => \/ pc'[f] # "idle" /\ Starting(f)'
                          \/ GiveBack(f) \/ Given(s) \/ GivenNow(s)

\* Who does not pay gets none, and loses it if the one who was to take it stops.
EndedStep(f, s) ==
    owner[s] \in Registered /\ isPro'[owner[s]] =>
        /\ ~isPro[owner[s]] => (ppStatus[s] = "ACTIVE" \/ Switch(s)) /\ status'[s] # "CANCELLED"
        /\ Stops(f) => pc'[f] # "idle" \/ GiveBack(f)
        /\ Ends(f) => Spared(s)' \/ Switch(s)' \/ (pc'[f] # "idle" /\ Ends(f)')
        /\ Closes(f) => Spared(s)' \/ Closes(f)'
        /\ Spared(s) /\ ppStatus[s] = "CANCELLED" =>
               Spared(s)' \/ (Closes(f)' /\ (Switch(s) \/ Ends(f)'))
        /\ status'[s] = "CANCELLED" => status[s] = "CANCELLED" \/ Spared(s)' \/ Closes(f)'

AccessStep(f, s) ==
    /\ UNCHANGED <<ppStatus, sent, owner>>
    /\ inbox' = inbox \/ GiveBack(f)
    /\ \A t \in Sub \ {s} : Alike(t)
    /\ \A u \in User : isPro'[u] # isPro[u] => u = owner[s]
    /\ slips[s] \subseteq slips'[s]
    /\ Proceeds(f) /\ DocOK(s)' /\ PaidStep(f, s) /\ EndedStep(f, s)

\* A flow that has its claim, or that closes, is at work.
LEMMA AtWork ==
    ASSUME NEW f \in Flow
    PROVE  /\ HasClaim(f) \/ Closes(f) => pc[f] # "idle"
           /\ HasClaim(f)' \/ Closes(f)' => pc'[f] # "idle"
    BY DEF HasClaim, Closes

LEMMA AccessStepKeeps ==
    ASSUME OneByOne, OneEach, TypeInv, TypeInv', AccessInv, NEW f \in Flow, NEW s \in Sub,
           pc[f] # "idle", s = The(f), AccessStep(f, s)
    PROVE  AccessInv'
<1>1. /\ \A g \in Flow : g = f
      /\ inbox \subseteq inbox' /\ \A e \in inbox' : e \in inbox \/ e = task[f]
      /\ pc'[f] # "idle" => task'[f] = task[f]
      /\ TaskOK(f) /\ SubOK(s) /\ On(f, s) /\ ppStatus' = ppStatus /\ owner' = owner /\ sent' = sent
    BY DEF AccessStep, OneByOne, GiveBack, Proceeds, AccessInv, FlowOK, On
<1>2. ASSUME NEW e \in inbox', e \notin inbox
      PROVE  e = task[f] /\ Kind(f) \in EventKind /\ EventOK(e)
    BY <1>1, <1>2 DEF AccessStep, GiveBack, TypeInv, FlowsOK, ReadsOK, Kind, TaskOK
<1>3. ASSUME GiveBack(f), Kind(f) \in EventKind PROVE task[f] \in inbox'
    BY <1>1, <1>3 DEF GiveBack, TaskOK, EventOK
<1>4. (\A t : Switch(t) => Switch(t)') /\ (\A e : SwitchAfter(e) => SwitchAfter(e)')
    BY <1>1 DEF Switch, SwitchAfter
<1>5. \A e : EventOK(e) => EventOK(e)'
    BY <1>1, <1>4 DEF EventOK
<1>6. \A e \in inbox' : EventOK(e)'
    BY <1>2, <1>5 DEF AccessInv
<1>7. pc'[f] # "idle" => On(f, s)' /\ Kind(f)' = Kind(f) /\ (Resumes(f)' <=> Resumes(f))
                         /\ (Stops(f)' <=> Stops(f))
    BY <1>1 DEF On, Kind, Resumes, Stops, The
<1>8. Kind(f) \in Switching /\ GiveBack(f) => Switch(s)'
    BY <1>1, <1>3 DEF Switch, Switching, EventKind, Kind, The, On
<1>9. Pays(s)' <=> Pays(s)
    BY <1>1 DEF Pays
<1>10. GivenNow(s) => Given(s)'
    BY <1>1, <1>4 DEF GivenNow, Given
<1>11. Pays(s) /\ Given(s) => Given(s)'
    <2>1. Pays(s) /\ isPro[owner[s]] => Given(s)'
        BY <1>10 DEF AccessStep, PaidStep, GivenNow
    <2>2. "claimed" \in slips[s] \/ Switch(s) => Given(s)'
        BY <1>10 DEF AccessStep, GivenNow
    <2>3. Pays(s) /\ Resumes(f) => Given(s)'
        <3>1. Resumes(f) => Kind(f) \in Switching
            BY DEF Resumes, Switching
        <3>2. pc'[f] # "idle" /\ Resumes(f) => Given(s)'
            BY <1>7 DEF Given
        <3>3. Resumes(f) /\ GiveBack(f) => Given(s)'
            BY <1>8, <3>1 DEF Given
        <3> QED
            BY <1>10, <3>2, <3>3 DEF AccessStep, PaidStep
    <2> QED
        BY <1>1, <2>1, <2>2, <2>3 DEF Given
<1>12. ASSUME Pays(s), NEW n, Awaited(s, n) PROVE Awaited(s, n)' \/ Given(s)'
    <2>1. CASE \E l \in inbox : l.sub = s /\ l.kind = "ACTIVATED" /\ l.id < n
        BY <1>1, <2>1 DEF Awaited
    <2>2. CASE Starting(f) /\ task[f].id < n
        <3>1. pc'[f] # "idle" /\ Starting(f)' => Awaited(s, n)'
            BY <1>1, <1>7, <2>2 DEF Awaited
        <3>2. GiveBack(f) => Awaited(s, n)'
            <4>1. Kind(f) = "ACTIVATED" /\ The(f) = s
                BY <2>2 DEF Starting
            <4> QED
                BY <1>3, <2>2, <4>1 DEF Awaited, Kind, The, EventKind
        <3> QED
            BY <1>10, <1>11, <1>12, <2>2, <3>1, <3>2 DEF AccessStep, PaidStep
    <2> QED
        BY <1>1, <1>12, <2>1, <2>2 DEF Awaited
<1>13. PaidOK(s)'
    <2> SUFFICES ASSUME Pays(s) PROVE PaidOK(s)'
        BY <1>9 DEF PaidOK
    <2>1. PaidOK(s)
        BY <1>1 DEF SubOK
    <2>2. (Given(s) \/ Awaited(s, sent + 1))'
        <3>1. \A n : n = sent + 1 /\ Awaited(s, n) => Awaited(s, n)' \/ Given(s)'
            BY <1>12
        <3> QED
            BY <1>1, <1>11, <2>1, <3>1 DEF PaidOK, Awaited
    <2>3. scheduled'[s] # NoPlan => Given(s)'
        BY <1>11, <2>1 DEF PaidOK, AccessStep, PaidStep
    <2>4. applied'[s] => Given(s)' \/ \E g \in Flow : On(g, s)' /\ HasClaim(g)'
        <3>1. HasClaim(f)' => On(f, s)'
            BY <1>7, AtWork
        <3>2. applied[s] /\ ~HasClaim(f) => Given(s)
            BY <1>1, <2>1 DEF PaidOK
        <3> QED
            BY <1>10, <1>11, <3>1, <3>2 DEF AccessStep, PaidStep
    <2>5. ASSUME NEW e \in inbox', e.sub = s, e.kind = "UPDATED"
          PROVE  Given(s)' \/ Awaited(s, e.id)'
        <3>1. CASE e \in inbox
            <4>1. Given(s) \/ Awaited(s, e.id)
                BY <2>1, <2>5, <3>1 DEF PaidOK
            <4> QED
                BY <1>11, <1>12, <4>1
        <3>2. CASE e \notin inbox
            <4>1. Kind(f) = "UPDATED" /\ Given(s)
                BY <1>1, <1>2, <2>5, <3>2 DEF TaskOK, Kind
            <4> QED
                BY <1>11, <4>1
        <3> QED
            BY <3>1, <3>2
    <2> QED
        BY <2>2, <2>3, <2>4, <2>5 DEF PaidOK
<1>14. EndedOK(s)'
    <2> SUFFICES ASSUME owner[s] \in Registered, isPro'[owner[s]]
                 PROVE  /\ ppStatus[s] \in {"SUSPENDED", "EXPIRED"} =>
                               Switch(s)' \/ \E g \in Flow : On(g, s)' /\ Stops(g)'
                        /\ ppStatus[s] = "CANCELLED" =>
                               Spared(s)' \/ Switch(s)' \/ \E g \in Flow : On(g, s)' /\ Ends(g)'
                        /\ status'[s] = "CANCELLED" =>
                               Spared(s)' \/ \E g \in Flow : On(g, s)' /\ Closes(g)'
        BY <1>1 DEF EndedOK
    <2>0. EndedStep(f, s) /\ EndedOK(s) /\ DocOK(s)
        BY <1>1 DEF AccessStep, SubOK
    <2>1. Closes(f)' => On(f, s)'
        BY <1>7, AtWork
    <2>2. CASE ~isPro[owner[s]]
        BY <1>4, <2>0, <2>2 DEF EndedStep
    <2>4. /\ Stops(f) => pc'[f] # "idle" \/ GiveBack(f)
          /\ Ends(f) => Spared(s)' \/ Switch(s)' \/ (pc'[f] # "idle" /\ Ends(f)')
          /\ Closes(f) => Spared(s)' \/ Closes(f)'
          /\ Spared(s) /\ ppStatus[s] = "CANCELLED" =>
                 Spared(s)' \/ (Closes(f)' /\ (Switch(s) \/ Ends(f)'))
          /\ status'[s] = "CANCELLED" => status[s] = "CANCELLED" \/ Spared(s)' \/ Closes(f)'
        BY <2>0 DEF EndedStep
    <2>5. Switch(s) => Switch(s)'
        BY <1>4
    <2>3. CASE isPro[owner[s]]
        <3>1. ASSUME ppStatus[s] \in {"SUSPENDED", "EXPIRED"}
              PROVE  Switch(s)' \/ (On(f, s)' /\ Stops(f)')
            <4>1. Switch(s) \/ Stops(f)
                BY <1>1, <2>0, <2>3, <3>1 DEF EndedOK
            <4>2. Stops(f) => Kind(f) \in Switching
                BY DEF Stops, Switching
            <4> QED
                BY <1>7, <1>8, <2>4, <2>5, <4>1, <4>2
        <3>2. ASSUME ppStatus[s] = "CANCELLED"
              PROVE  Spared(s)' \/ Switch(s)' \/ (On(f, s)' /\ Ends(f)')
            <4>1. Spared(s) \/ Switch(s) \/ Ends(f)
                BY <1>1, <2>0, <2>3, <3>2 DEF EndedOK
            <4> QED
                BY <1>7, <2>1, <2>4, <2>5, <3>2, <4>1, AtWork
        <3>3. ASSUME status'[s] = "CANCELLED"
              PROVE  Spared(s)' \/ (On(f, s)' /\ Closes(f)')
            <4>1. status[s] = "CANCELLED" => Spared(s) \/ Closes(f)
                BY <1>1, <2>0, <2>3 DEF EndedOK
            <4>2. status[s] = "CANCELLED" => ppStatus[s] = "CANCELLED"
                BY <2>0 DEF DocOK
            <4> QED
                BY <2>1, <2>4, <3>3, <4>1, <4>2
        <3> QED
            BY <3>1, <3>2, <3>3
    <2> QED
        BY <2>2, <2>3
<1>15. SubOK(s)'
    BY <1>13, <1>14 DEF AccessStep, SubOK
<1>16. ASSUME NEW t \in Sub, t # s PROVE SubOK(t)'
    <2>1. Stays(t) /\ \A e \in inbox' : e.sub = t => e \in inbox
        BY <1>1, <1>16 DEF Stays, On, The
    <2>2. owner[t] # NoUser => isPro'[owner[t]] = isPro[owner[t]]
        BY <1>16, OneEachUser DEF AccessStep
    <2>3. Alike(t) /\ SubOK(t) /\ sent \in Nat
        BY <1>16, Numbers DEF AccessStep, AccessInv
    <2> QED
        BY <1>1, <2>1, <2>2, <2>3, OtherSub
<1>17. FlowOK(f)'
    <2> SUFFICES ASSUME pc'[f] # "idle" PROVE TaskOK(f)' /\ StepOK(f)'
        BY DEF FlowOK
    <2>1. Proceeds(f) /\ task'[f] = task[f] /\ The(f)' = s /\ Kind(f)' = Kind(f)
        BY <1>1, <1>7 DEF AccessStep, On, The
    <2>2. Kind(f) \in EventKind => EventOK(task[f])'
        <3>1. PICK e : e = task[f] /\ e = task'[f]
            BY <2>1
        <3>2. Kind(f) \in EventKind => EventOK(e)'
            BY <1>1, <1>5, <3>1 DEF TaskOK
        <3> QED
            BY <3>1, <3>2 DEF EventOK, SwitchAfter
    <2>3. TaskOK(f)'
        BY <1>1, <1>4, <1>9, <1>11, <2>1, <2>2 DEF TaskOK, Proceeds, Changed
    <2> QED
        BY <2>1, <2>3 DEF Proceeds
<1>18. \A u \in User : isPro'[u] => \E t \in Sub : owner'[t] = u
    BY <1>1 DEF AccessStep, AccessInv
<1> QED
    BY <1>1, <1>6, <1>15, <1>16, <1>17, <1>18 DEF AccessInv

LEMMA SameAccess ==
    ASSUME AccessInv, UNCHANGED <<subVars, userVars, ppVars, inbox, flowVars, slips>>
    PROVE  AccessInv'
<1>1. /\ UNCHANGED <<status, owner, plan, applied, deferred, scheduled, isPro, ppStatus, sent,
                     inbox, pc, task, doc, pro, slips>>
    BY DEF subVars, userVars, ppVars, flowVars
<1>2. \A s : Given(s)' = Given(s) /\ Pays(s)' = Pays(s) /\ Switch(s)' = Switch(s)
    BY <1>1 DEF Given, Pays, Switch, On, Resumes, Kind, The
<1>3. \A e \in inbox' : EventOK(e)'
    BY <1>1 DEF AccessInv, EventOK, SwitchAfter
<1>4. ASSUME NEW f \in Flow, pc'[f] # "idle" PROVE TaskOK(f)' /\ StepOK(f)'
    <2>1. TaskOK(f) /\ StepOK(f)
        BY <1>1, <1>4 DEF AccessInv, FlowOK
    <2>2. TaskOK(f)'
        BY <1>1, <1>2, <2>1 DEF TaskOK, Changed, Kind, The, EventOK, SwitchAfter
    <2>3. StepOK(f)'
        BY <1>1, <1>2, <2>1 DEF StepOK, Kind, The, Present
    <2> QED
        BY <2>2, <2>3
<1>5. ASSUME NEW s \in Sub PROVE SubOK(s)'
    <2>1. \A n : Awaited(s, n)' = Awaited(s, n)
        BY <1>1 DEF Awaited, On, Starting, Kind, The
    <2>2. DocOK(s)' /\ PaidOK(s)'
        BY <1>1, <1>2, <2>1 DEF AccessInv, SubOK, DocOK, PaidOK, Present, On, HasClaim, The
    <2>3. EndedOK(s)'
        BY <1>1, <1>2 DEF AccessInv, SubOK, EndedOK, Spared, On, Stops, Ends, Closes, Kind, The
    <2> QED
        BY <2>2, <2>3 DEF SubOK
<1> QED
    BY <1>1, <1>3, <1>4, <1>5 DEF AccessInv, FlowOK

\* The one flow is idle and starts: what it does is no reason for anything before.
LEMMA StartKeeps ==
    ASSUME OneByOne, AccessInv, NEW f \in Flow, pc[f] = "idle", FlowOK(f)',
           UNCHANGED <<subVars, userVars, ppVars, inbox, slips>>
    PROVE  AccessInv'
<1>1. /\ UNCHANGED <<status, owner, plan, applied, deferred, scheduled, isPro, ppStatus, sent,
                     inbox, slips>>
      /\ \A g \in Flow : g = f
    BY DEF subVars, userVars, ppVars, OneByOne
<1>2. \A s : ~\E g \in Flow : On(g, s)
    BY <1>1 DEF On
<1>3. \A s : (Given(s) => Given(s)') /\ Pays(s)' = Pays(s) /\ Switch(s)' = Switch(s)
    BY <1>1, <1>2 DEF Given, Pays, Switch
<1>4. \A e \in inbox' : EventOK(e)'
    BY <1>1 DEF AccessInv, EventOK, SwitchAfter
<1>5. ASSUME NEW s \in Sub PROVE SubOK(s)'
    <2>1. \A n : Awaited(s, n) => Awaited(s, n)'
        BY <1>1, <1>2 DEF Awaited
    <2>2. DocOK(s)' /\ PaidOK(s)'
        BY <1>1, <1>2, <1>3, <2>1 DEF AccessInv, SubOK, DocOK, PaidOK, Present
    <2>3. EndedOK(s)'
        BY <1>1, <1>2, <1>3 DEF AccessInv, SubOK, EndedOK, Spared
    <2> QED
        BY <2>2, <2>3 DEF SubOK
<1> QED
    BY <1>1, <1>4, <1>5 DEF AccessInv

\* A pass of a cron or a request starts with a document it has just read.
LEMMA PassKeeps ==
    ASSUME OneByOne, TypeInv, AccessInv, NEW f \in Flow, NEW s \in Sub, NEW r, NEW d, NEW step,
           pc[f] = "idle", r.sub = s, pc' = [pc EXCEPT ![f] = step],
           task' = [task EXCEPT ![f] = r], doc' = [doc EXCEPT ![f] = d],
           UNCHANGED <<subVars, userVars, ppVars, inbox, slips>>,
           \/ /\ r.kind = "cronDeferred" /\ step = "takeDeferred" /\ d = Doc(s)
              /\ status[s] = "CANCELLED"
           \/ /\ r.kind = "cronDowngrade" /\ step = "takeDowngrade" /\ d = Doc(s)
              /\ scheduled[s] # NoPlan
           \/ /\ r.kind = "create" /\ step = "createLock" /\ ppStatus[s] = Absent
              /\ r.plan \in Plan /\ r.user \in User
           \/ /\ r.kind \in ChangeKind \cup {"cancelDowngrade"} /\ step = "changeLock"
              /\ owner[s] # NoUser
    PROVE  AccessInv'
<1>1. /\ pc'[f] = step /\ task'[f] = r /\ doc'[f] = d /\ Kind(f)' = r.kind /\ The(f)' = s
      /\ UNCHANGED <<status, owner, scheduled, isPro, ppStatus, inbox, slips>>
    BY DEF TypeInv, FlowsOK, subVars, userVars, ppVars, Kind, The
<1>2. DocOK(s) /\ PaidOK(s)
    BY DEF AccessInv, SubOK
<1>3. Pays(s)' = Pays(s) /\ (Given(s) => Given(s)')
    BY <1>1 DEF Given, Pays, Switch, On, OneByOne
<1>4. TaskOK(f)'
    <2>1. r.kind \in KindsAt(step) /\ r.kind \notin EventKind /\ ~Changed(f)'
          /\ (step \in Early \/ ppStatus[s] \notin Pending)
        BY <1>1, <1>2 DEF KindsAt, ChangeKind, EventKind, Changed, Early, DocOK, Pending, Absent
    <2>2. r.kind = "cronDeferred" => ppStatus[s] = "CANCELLED"
        BY <1>2 DEF DocOK, ChangeKind
    <2>3. r.kind \in {"UPDATED", "cronDowngrade"} /\ Pays(s) => Given(s)
        BY <1>2 DEF PaidOK, ChangeKind
    <2> QED
        BY <1>1, <1>3, <2>1, <2>2, <2>3 DEF TaskOK, ChangeKind
<1>5. StepOK(f)'
    BY <1>1 DEF StepOK, OwnerSteps, Creating, Doc
<1> QED
    BY <1>4, <1>5, StartKeeps DEF FlowOK

\* An event is handed out: its handler now does what the event was to do.
LEMMA DispatchKeeps ==
    ASSUME OneByOne, TypeInv, AccessInv, NEW f \in Flow, NEW e \in inbox, Dispatch(f, e)
    PROVE  AccessInv'
<1> PICK s \in Sub : s = e.sub
    BY DEF TypeInv, InboxOK, Task
<1>1. /\ pc[f] = "idle" /\ \A g \in Flow : g = f
      /\ UNCHANGED <<status, owner, plan, applied, deferred, scheduled, isPro, ppStatus, sent,
                     slips>>
      /\ inbox' = inbox \ {e} /\ pc'[f] = FirstCall(e.kind) /\ task'[f] = e
    BY DEF Dispatch, subVars, userVars, ppVars, TypeInv, FlowsOK, OneByOne
<1>2. EventOK(e) /\ e.kind \in EventKind \ {"SALE_REFUNDED"} /\ e.id \in Nat
    BY CountAssumption DEF AccessInv, EventOK, TypeInv, InboxOK, Task
<1>3. \A l \in inbox : e.id <= l.id /\ l.id \in Nat
    BY CountAssumption DEF Dispatch, OneByOne, TypeInv, InboxOK, Task
<1>4. \A l \in inbox : SwitchAfter(l) => SwitchAfter(l)'
    BY <1>1, <1>2, <1>3 DEF SwitchAfter
<1>5. \A l \in inbox : EventOK(l)'
    BY <1>1, <1>4 DEF AccessInv, EventOK
<1>6. SwitchAfter(e) => Switch(s)'
    BY <1>1, <1>2 DEF SwitchAfter, Switch
<1>7. \A t : ~\E g \in Flow : On(g, t)
    BY <1>1 DEF On
<1>8. \A t : Switch(t) => Switch(t)' \/ (t = s /\ e.kind \in Switching)
    BY <1>1 DEF Switch
<1>9. On(f, s)' /\ Kind(f)' = e.kind /\ FirstCall(e.kind) # "idle"
    BY <1>1, <1>2 DEF On, The, Kind, FirstCall, EventKind
<1>10. \A t \in Sub : Pays(t) = Pays(t)' /\ (Pays(t) /\ Given(t) => Given(t)')
    <2>1. \A t \in Sub : Pays(t) = Pays(t)'
        BY <1>1 DEF Pays
    <2>2. ASSUME Pays(s), e.kind \in Switching PROVE Given(s)'
        <3>1. CASE e.kind = "RE_ACTIVATED"
            <4>1. Resumes(f)'
                BY <1>9, <3>1 DEF Resumes
            <4> QED
                BY <1>9, <4>1 DEF Given
        <3>2. CASE e.kind # "RE_ACTIVATED"
            <4>1. SwitchAfter(e)
                BY <1>2, <2>2, <3>2 DEF EventOK, Leaves, Pays, Switching
            <4> QED
                BY <1>6, <4>1 DEF Given
        <3> QED
            BY <3>1, <3>2
    <2>3. ASSUME NEW t \in Sub, Pays(t), Given(t) PROVE Given(t)'
        <3>1. CASE isPro[owner[t]] \/ "claimed" \in slips[t]
            BY <1>1, <3>1 DEF Given
        <3>2. CASE Switch(t)
            <4>1. Switch(t)' => Given(t)'
                BY DEF Given
            <4> QED
                BY <1>8, <2>2, <2>3, <3>2, <4>1
        <3> QED
            BY <1>7, <2>3, <3>1, <3>2 DEF Given
    <2> QED
        BY <2>1, <2>3
<1>11. \A t \in Sub : \A n : Awaited(t, n) => Awaited(t, n)'
    <2> SUFFICES ASSUME NEW t \in Sub, NEW n, Awaited(t, n) PROVE Awaited(t, n)'
        OBVIOUS
    <2>1. PICK l \in inbox : l.sub = t /\ l.kind = "ACTIVATED" /\ l.id < n
        BY <1>7 DEF Awaited
    <2>2. CASE l # e
        BY <1>1, <2>1, <2>2 DEF Awaited
    <2>3. CASE l = e
        <3>1. Starting(f)' /\ task'[f].id < n /\ s = t
            BY <1>1, <1>9, <2>1, <2>3 DEF Starting, FirstCall
        <3> QED
            BY <1>9, <3>1 DEF Awaited
    <2> QED
        BY <2>2, <2>3
<1>12. ASSUME NEW t \in Sub PROVE SubOK(t)'
    <2>0. DocOK(t) /\ PaidOK(t) /\ EndedOK(t)
        BY DEF AccessInv, SubOK
    <2>1. DocOK(t)'
        BY <1>1, <2>0 DEF DocOK, Present
    <2>2. PaidOK(t)'
        <3> SUFFICES ASSUME Pays(t) PROVE PaidOK(t)'
            BY <1>10 DEF PaidOK
        <3>1. /\ Given(t) \/ Awaited(t, sent + 1)
              /\ scheduled[t] # NoPlan => Given(t)
              /\ applied[t] => Given(t)
              /\ \A l \in inbox : l.sub = t /\ l.kind = "UPDATED" => Given(t) \/ Awaited(t, l.id)
            BY <1>7, <2>0 DEF PaidOK
        <3>2. Given(t) => Given(t)'
            BY <1>10
        <3>3. Awaited(t, sent + 1) => Awaited(t, sent + 1)'
            <4>1. \A n : n = sent + 1 /\ Awaited(t, n) => Awaited(t, n)'
                BY <1>11
            <4> QED
                BY <1>1, <4>1 DEF Awaited
        <3> QED
            BY <1>1, <1>11, <3>1, <3>2, <3>3 DEF PaidOK
    <2>3. EndedOK(t)'
        <3> SUFFICES ASSUME owner[t] \in Registered, isPro[owner[t]]
                     PROVE  EndedOK(t)'
            BY <1>1 DEF EndedOK
        <3>1. /\ ppStatus[t] \in {"SUSPENDED", "EXPIRED"} => Switch(t)
              /\ ppStatus[t] = "CANCELLED" => Spared(t) \/ Switch(t)
              /\ status[t] = "CANCELLED" => Spared(t)
            BY <1>7, <2>0 DEF EndedOK
        <3>2. Spared(t)' = Spared(t)
            BY <1>1 DEF Spared
        <3>3. ASSUME Switch(t), ppStatus[t] \in {"SUSPENDED", "EXPIRED"}
              PROVE  Switch(t)' \/ \E g \in Flow : On(g, t)' /\ Stops(g)'
            <4>1. CASE t = s /\ e.kind \in {"SUSPENDED", "EXPIRED"}
                BY <1>9, <4>1 DEF Stops
            <4>2. CASE t = s /\ e.kind \in {"RE_ACTIVATED", "CANCELLED"}
                BY <1>2, <1>6, <3>3, <4>2 DEF EventOK, Leaves
            <4> QED
                BY <1>8, <3>3, <4>1, <4>2 DEF Switching
        <3>4. ASSUME Switch(t), ppStatus[t] = "CANCELLED"
              PROVE  Switch(t)' \/ \E g \in Flow : On(g, t)' /\ Ends(g)'
            <4>1. CASE t = s /\ e.kind = "CANCELLED"
                BY <1>9, <4>1 DEF Ends
            <4>2. CASE t = s /\ e.kind \in {"RE_ACTIVATED", "SUSPENDED", "EXPIRED"}
                BY <1>2, <1>6, <3>4, <4>2 DEF EventOK, Leaves
            <4> QED
                BY <1>8, <3>4, <4>1, <4>2 DEF Switching
        <3> QED
            BY <1>1, <3>1, <3>2, <3>3, <3>4 DEF EndedOK
    <2> QED
        BY <2>1, <2>2, <2>3 DEF SubOK
<1>13. FlowOK(f)'
    <2>1. /\ FirstCall(e.kind) \in {"updateFromWebhook", "updateStatus", "readUpdated", "cancel",
                                    "suspend", "askToResume", "grabDowngrade"}
          /\ e.kind \in KindsAt(FirstCall(e.kind))
          /\ e.kind = "CREATED" => FirstCall(e.kind) \in Early
        BY <1>2 DEF FirstCall, EventKind, KindsAt, StatusKind, Early
    <2>2. StepOK(f)'
        BY <1>1, <2>1 DEF StepOK, OwnerSteps, Creating
    <2>3. EventOK(task[f])'
        <3>1. PICK l \in inbox : l = e /\ l = task'[f]
            BY <1>1
        <3> QED
            BY <1>5, <3>1 DEF EventOK, SwitchAfter
    <2>4. e.kind = "UPDATED" /\ Pays(s) => Given(s)
        <3>1. ~Awaited(s, e.id)
            BY <1>2, <1>3, <1>7 DEF Awaited
        <3> QED
            BY <3>1 DEF AccessInv, SubOK, PaidOK
    <2>5. /\ e.kind \notin ChangeKind \cup {"cancelDowngrade", "create", "cronDeferred",
                                            "cronDowngrade"}
          /\ ppStatus[s] \in Pending => e.kind = "CREATED"
        BY <1>2 DEF EventKind, ChangeKind, EventOK
    <2>6. The(f)' = s
        BY <1>1 DEF The
    <2> QED
        BY <1>1, <1>9, <1>10, <2>1, <2>2, <2>3, <2>4, <2>5, <2>6 DEF FlowOK, TaskOK, Changed
<1>14. \A l \in inbox' : EventOK(l)'
    BY <1>1, <1>5
<1> QED
    BY <1>1, <1>12, <1>13, <1>14 DEF AccessInv

\* PayPal moves s to st, as it may, and reports it.
Sends(s, st, kind) ==
    /\ ppStatus' = [ppStatus EXCEPT ![s] = st]
    /\ Report(s, kind)
    /\ kind = "UPDATED" => ppPlan'[s] \in Plan
    /\ \/ kind \in Switching /\ ppStatus[s] \in {"ACTIVE", "SUSPENDED"} /\ st \in Leaves(kind)
       \/ /\ kind \in {"SALE_COMPLETED", "RENEWED"}
          /\ ppStatus[s] = "ACTIVE" /\ st = "ACTIVE"
       \/ kind = "UPDATED" /\ ppStatus[s] \in {"ACTIVE", "SUSPENDED"} /\ st = ppStatus[s]
       \/ kind = "ACTIVATED" /\ ppStatus[s] = "APPROVAL_PENDING" /\ st = "ACTIVE"
       \/ kind = "CREATED" /\ ppStatus[s] = Absent /\ st = "APPROVAL_PENDING"

LEMMA SendsEvents ==
    ASSUME OneByOne, TypeInv, AccessInv, NEW s \in Sub, NEW st, NEW kind, Sends(s, st, kind)
    PROVE  /\ sent \in Nat /\ sent' = sent + 1 /\ ppStatus'[s] = st
           /\ \A t \in Sub \ {s} : ppStatus'[t] = ppStatus[t]
           /\ \E new : /\ inbox' = inbox \cup {new} /\ EventOK(new)'
                       /\ new.kind = kind /\ new.sub = s /\ new.id = sent + 1
           /\ \A e : e.sub \in Sub /\ EventOK(e) => EventOK(e)'
           /\ \A t : Switch(t) => Switch(t)'
           /\ kind \in Switching => Switch(s)'
           /\ ppStatus[s] \in Pending => \A e : e.sub = s /\ EventOK(e) => e.kind = "CREATED"
           /\ ppStatus[s] = Absent => \A e : e.sub = s => ~EventOK(e)
           /\ inbox \subseteq inbox'
<1>1. /\ sent' = sent + 1 /\ sent \in Nat /\ kind # "SALE_REFUNDED"
      /\ ppStatus'[s] = st /\ \A t \in Sub \ {s} : ppStatus'[t] = ppStatus[t]
    BY CountAssumption DEF Sends, Report, TypeInv, PayPalOK, OneByOne
<1>2. PICK p, d, n : /\ n = sent + 1 /\ (kind = "UPDATED" => p \in Plan)
                     /\ inbox' = inbox \cup {[kind |-> kind, sub |-> s, user |-> NoUser, id |-> n,
                                              plan |-> p, until |-> d]}
    <2> DEFINE p == IF kind \in {"SALE_COMPLETED", "SALE_REFUNDED"} THEN NoPlan ELSE ppPlan'[s]
               d == IF kind \in {"SALE_COMPLETED", "SALE_REFUNDED"} THEN NoDate ELSE ppUntil'[s]
    <2>1. /\ (kind = "UPDATED" => p \in Plan)
          /\ inbox' = inbox \cup {[kind |-> kind, sub |-> s, user |-> NoUser, id |-> sent + 1,
                                   plan |-> p, until |-> d]}
        BY DEF Sends, Report
    <2> QED
        BY <2>1
<1> DEFINE new == [kind |-> kind, sub |-> s, user |-> NoUser, id |-> n, plan |-> p, until |-> d]
<1>3. /\ new.kind = kind /\ new.sub = s /\ new.id = sent + 1 /\ inbox' = inbox \cup {new}
      /\ new.kind = "UPDATED" => new.plan \in Plan
    BY <1>2
<1> HIDE DEF new
<1>4. /\ \A t : Switch(t) => Switch(t)'
      /\ \A e : SwitchAfter(e) => SwitchAfter(e)'
      /\ kind \in Switching => Switch(s)'
    BY <1>3 DEF Switch, SwitchAfter
<1>5. st \in Leaves(kind) /\ (kind \in {"CANCELLED", "EXPIRED"} => st = kind)
      /\ (st \in Pending => kind = "CREATED")
    BY <1>1 DEF Sends, Leaves, Switching, Pending, Absent
<1>6. EventOK(new)'
    BY <1>1, <1>3, <1>5 DEF EventOK
<1>7. ppStatus[s] \in Pending => \A e : e.sub = s /\ EventOK(e) => e.kind = "CREATED"
    BY DEF EventOK
<1>8. ppStatus[s] = Absent => \A e : e.sub = s => ~EventOK(e)
    <2> SUFFICES ASSUME ppStatus[s] = Absent, NEW e, e.sub = s, EventOK(e) PROVE FALSE
        OBVIOUS
    <2>1. \A l \in inbox : l.sub = s => l.kind = "CREATED"
        BY <1>7 DEF AccessInv, Pending
    <2>2. ~SwitchAfter(e)
        BY <2>1 DEF SwitchAfter, Switching
    <2>3. e.kind = "CREATED"
        BY <1>7 DEF Pending
    <2> QED
        BY <2>2, <2>3 DEF EventOK, Leaves, Absent
<1>9. ASSUME NEW e, e.sub \in Sub, EventOK(e) PROVE EventOK(e)'
    <2>1. e.id \in 1..sent' /\ e.id < new.id
        BY <1>1, <1>3, <1>9 DEF EventOK
    <2>0. SwitchAfter(e) => SwitchAfter(e)'
        BY <1>4
    <2>2. CASE e.sub # s
        BY <1>1, <1>9, <2>0, <2>1, <2>2 DEF EventOK
    <2>3. CASE e.sub = s /\ kind \in Switching
        <3>1. SwitchAfter(e)'
            BY <1>3, <2>1, <2>3 DEF SwitchAfter
        <3>2. st \notin Pending
            BY <1>5, <2>3 DEF Switching
        <3> QED
            BY <1>1, <1>9, <2>1, <2>3, <3>1, <3>2 DEF EventOK, Sends, Switching
    <2>4. CASE e.sub = s /\ kind \in {"SALE_COMPLETED", "RENEWED", "UPDATED"}
        <3>1. ppStatus'[s] = ppStatus[s]
            BY <1>1, <2>4 DEF Sends, Switching
        <3> QED
            BY <1>9, <2>0, <2>1, <2>4, <3>1 DEF EventOK
    <2>5. CASE e.sub = s /\ kind = "ACTIVATED"
        <3>1. e.kind = "CREATED"
            BY <1>7, <1>9, <2>5 DEF Sends, Switching, Pending
        <3>2. ppStatus'[s] \in Leaves(e.kind)
            BY <1>1, <2>5, <3>1 DEF Sends, Switching, Leaves
        <3> QED
            BY <1>9, <2>1, <2>5, <3>1, <3>2 DEF EventOK
    <2>6. CASE e.sub = s /\ kind = "CREATED"
        BY <1>8, <1>9, <2>6 DEF Sends, Switching
    <2> QED
        BY <2>2, <2>3, <2>4, <2>5, <2>6 DEF Sends
<1> QED
    BY <1>1, <1>3, <1>4, <1>6, <1>7, <1>8, <1>9

\* The calls to PayPal that change a subscription.
Asking == {"createAtPayPal", "changeAtPayPal", "revertAtPayPal"}

\* After the report, what is to come of it is at hand.
LEMMA SendsKeeps ==
    ASSUME OneByOne, TypeInv, TypeInv', AccessInv, NEW s \in Sub, NEW st, NEW kind,
           Sends(s, st, kind), UNCHANGED <<subVars, userVars, task>>,
           slips[s] \subseteq slips'[s], \A t \in Sub \ {s} : slips'[t] = slips[t],
           \A f \in Flow : pc'[f] = pc[f] \/ (pc[f] \in Asking /\ The(f) = s),
           \A f \in Flow : FlowOK(f)'
    PROVE  AccessInv'
<1>1. /\ UNCHANGED <<status, owner, plan, applied, deferred, scheduled, isPro, task>>
      /\ slips[s] \subseteq slips'[s] /\ \A t \in Sub \ {s} : slips'[t] = slips[t]
      /\ sent \in Nat /\ sent' = sent + 1 /\ ppStatus'[s] = st /\ inbox \subseteq inbox'
      /\ \A t \in Sub \ {s} : ppStatus'[t] = ppStatus[t]
      /\ \A t : Switch(t) => Switch(t)'
      /\ kind \in Switching => Switch(s)'
    BY SendsEvents DEF subVars, userVars
<1>2. PICK new : /\ inbox' = inbox \cup {new} /\ EventOK(new)'
                 /\ new.kind = kind /\ new.sub = s /\ new.id = sent + 1
    BY SendsEvents
<1>3. \A e \in inbox : e.sub \in Sub /\ EventOK(e) /\ EventOK(e)'
    BY SendsEvents DEF TypeInv, InboxOK, Task, AccessInv
<1>4. \A f \in Flow, t \in Sub : On(f, t) /\ pc[f] \notin Asking =>
          /\ On(f, t)' /\ (Resumes(f) => Resumes(f)') /\ (HasClaim(f) => HasClaim(f)')
          /\ (Stops(f) => Stops(f)') /\ (Ends(f) => Ends(f)') /\ (Closes(f) => Closes(f)')
          /\ (Starting(f) => Starting(f)')
    BY <1>1 DEF On, Resumes, HasClaim, Stops, Ends, Closes, Starting, Kind, The
<1>5. \A f \in Flow : pc[f] \in Asking =>
          ~Resumes(f) /\ ~HasClaim(f) /\ ~Stops(f) /\ ~Ends(f) /\ ~Closes(f) /\ ~Starting(f)
    <2> SUFFICES ASSUME NEW f \in Flow, pc[f] \in Asking
                 PROVE  ~Resumes(f) /\ ~HasClaim(f) /\ ~Stops(f) /\ ~Ends(f) /\ ~Closes(f)
                        /\ ~Starting(f)
        OBVIOUS
    <2>1. Kind(f) \in {"create", "cancelDowngrade"} \cup ChangeKind
        BY DEF AccessInv, FlowOK, TaskOK, KindsAt, Asking
    <2> QED
        BY <2>1 DEF Asking, Resumes, HasClaim, Stops, Ends, Closes, Starting, ChangeKind
<1>6. (Given(s) => Given(s)') /\ \A n : Awaited(s, n) => Awaited(s, n)'
    <2>1. Given(s) => Given(s)'
        BY <1>1, <1>4, <1>5 DEF Given
    <2>2. ASSUME NEW n, Awaited(s, n) PROVE Awaited(s, n)'
        BY <1>1, <1>4, <1>5, <2>2 DEF Awaited
    <2> QED
        BY <2>1, <2>2
<1>7. DocOK(s) /\ PaidOK(s) /\ EndedOK(s)
    BY DEF AccessInv, SubOK
<1>8. ASSUME kind \in Switching PROVE SubOK(s)'
    <2>1. Given(s)' /\ Switch(s)'
        BY <1>1, <1>8 DEF Given
    <2>2. ppStatus[s] \notin {"CANCELLED"} \cup Pending /\ st \notin Pending
        BY <1>8 DEF Sends, Switching, Pending, Absent, Leaves
    <2>3. DocOK(s)'
        BY <1>1, <1>7, <2>2 DEF DocOK, Present
    <2>4. PaidOK(s)'
        BY <2>1 DEF PaidOK
    <2>5. EndedOK(s)'
        BY <1>1, <1>7, <2>1, <2>2 DEF EndedOK, DocOK
    <2> QED
        BY <2>3, <2>4, <2>5 DEF SubOK
<1>9. ASSUME kind \in {"SALE_COMPLETED", "RENEWED", "UPDATED"} PROVE SubOK(s)'
    <2>1. ppStatus[s] \in {"ACTIVE", "SUSPENDED"} /\ ppStatus'[s] = ppStatus[s]
        BY <1>1, <1>9 DEF Sends, Switching
    <2>2. DocOK(s)'
        BY <1>1, <1>7, <2>1 DEF DocOK, Present, Pending, Absent
    <2>3. PaidOK(s)'
        <3> SUFFICES ASSUME Pays(s)' PROVE PaidOK(s)'
            BY DEF PaidOK
        <3>1. Pays(s)
            BY <1>1, <2>1 DEF Pays
        <3>2. \A n : n = sent + 1 => Given(s)' \/ Awaited(s, n)'
            BY <1>6, <1>7, <3>1 DEF PaidOK
        <3>3. (Given(s) \/ Awaited(s, sent + 1))'
            <4>1. \A n \in Nat : Awaited(s, n)' /\ n = sent + 1 => Awaited(s, sent + 1)'
                <5>1. \A l \in inbox' : l.id \in Nat
                    BY CountAssumption DEF TypeInv, InboxOK, Task
                <5>2. \A f \in Flow : pc'[f] # "idle" => task'[f].id \in Nat
                    BY CountAssumption, Running DEF TypeInv, FlowsOK, Task
                <5> QED
                    BY <1>1, <5>1, <5>2 DEF Awaited, On
            <4> QED
                BY <1>1, <3>2, <4>1
        <3>4. \A e \in inbox' : e.sub = s /\ e.kind = "UPDATED" => (Given(s) \/ Awaited(s, e.id))'
            <4>1. \A e \in inbox : e.sub = s /\ e.kind = "UPDATED" => Given(s)' \/ Awaited(s, e.id)'
                BY <1>6, <1>7, <3>1 DEF PaidOK
            <4> QED
                BY <1>2, <3>2, <4>1
        <3>5. (scheduled[s] # NoPlan => Given(s))'
            BY <1>1, <1>6, <1>7, <3>1 DEF PaidOK
        <3>6. (applied[s] => Given(s) \/ \E f \in Flow : On(f, s) /\ HasClaim(f))'
            BY <1>1, <1>4, <1>5, <1>6, <1>7, <3>1 DEF PaidOK
        <3> QED
            BY <3>3, <3>4, <3>5, <3>6 DEF PaidOK
    <2>4. EndedOK(s)'
        <3>1. (\E f \in Flow : On(f, s) /\ Stops(f)) => \E f \in Flow : On(f, s)' /\ Stops(f)'
            BY <1>4, <1>5
        <3> QED
            BY <1>1, <1>7, <2>1, <3>1 DEF EndedOK, DocOK
    <2> QED
        BY <2>2, <2>3, <2>4 DEF SubOK
<1>10. ASSUME kind \in {"ACTIVATED", "CREATED"} PROVE SubOK(s)'
    <2>1. /\ ppStatus[s] \in Pending
          /\ kind = "ACTIVATED" => st = "ACTIVE"
          /\ kind = "CREATED" => st = "APPROVAL_PENDING"
        BY <1>10 DEF Sends, Switching, Pending
    <2>2. ~applied[s] /\ scheduled[s] = NoPlan /\ status[s] \in Pending
        BY <1>7, <2>1 DEF DocOK
    <2>3. DocOK(s)'
        BY <1>1, <1>7, <2>1, <2>2 DEF DocOK, Present, Pending, Absent
    <2>4. PaidOK(s)'
        <3> SUFFICES ASSUME Pays(s)' PROVE PaidOK(s)'
            BY DEF PaidOK
        <3>1. kind = "ACTIVATED"
            BY <1>1, <1>10, <2>1 DEF Pays
        <3>2. Awaited(s, sent + 1)'
            BY <1>1, <1>2, <3>1 DEF Awaited
        <3>3. \A e \in inbox' : e.sub = s => e.kind # "UPDATED"
            BY <1>2, <1>3, <2>1, <3>1 DEF EventOK
        <3> QED
            BY <1>1, <2>2, <3>2, <3>3 DEF PaidOK
    <2>5. EndedOK(s)'
        BY <1>1, <1>10, <2>1, <2>2 DEF EndedOK, Pending, Absent
    <2> QED
        BY <2>3, <2>4, <2>5 DEF SubOK
<1>11. ASSUME NEW t \in Sub, t # s PROVE SubOK(t)'
    <2>1. Stays(t) /\ \A e \in inbox' : e.sub = t => e \in inbox
        BY <1>1, <1>2, <1>11 DEF Stays, On
    <2> QED
        BY <1>1, <1>11, <2>1, OtherSub DEF Alike, AccessInv
<1> QED
    BY <1>1, <1>2, <1>3, <1>8, <1>9, <1>10, <1>11 DEF AccessInv, Sends

\* What a flow at work knows stays true when PayPal changes something.
LEMMA SendsFlow ==
    ASSUME OneByOne, TypeInv, AccessInv, NEW s \in Sub, NEW st, NEW kind, Sends(s, st, kind),
           kind # "CREATED", UNCHANGED <<subVars, userVars, slips, flowVars>>, NEW f \in Flow
    PROVE  FlowOK(f)'
<1> SUFFICES ASSUME pc[f] # "idle" PROVE TaskOK(f)' /\ StepOK(f)'
    BY DEF FlowOK, flowVars
<1> PICK t \in Sub : t = The(f)
    BY Running DEF TypeInv
<1>1. /\ UNCHANGED <<status, owner, plan, applied, deferred, scheduled, isPro, slips, pc, task,
                     doc, pro>>
      /\ sent \in Nat /\ sent' = sent + 1 /\ ppStatus'[s] = st
      /\ \A r \in Sub \ {s} : ppStatus'[r] = ppStatus[r]
      /\ \A r : Switch(r) => Switch(r)'
      /\ kind \in Switching => Switch(s)'
    BY SendsEvents DEF subVars, userVars, flowVars
<1>2. TaskOK(f) /\ StepOK(f) /\ t = The(f)' /\ Kind(f)' = Kind(f)
    BY <1>1 DEF AccessInv, FlowOK, The, Kind
<1>3. ppStatus[s] \notin {Absent, "CANCELLED"} /\ st \notin Pending
    BY DEF Sends, Switching, Pending, Absent, Leaves
<1>4. Kind(f) \in EventKind => EventOK(task[f])'
    <2>1. PICK e : e = task[f] /\ e = task'[f]
        BY <1>1
    <2>2. Kind(f) \in EventKind => EventOK(e)'
        BY <1>2, <2>1, SendsEvents DEF TaskOK, The
    <2> QED
        BY <2>1, <2>2 DEF EventOK, SwitchAfter
<1>5. Given(t) => Given(t)'
    BY <1>1 DEF Given, On, Resumes, Kind, The
<1>6. Kind(f) \in {"UPDATED", "cronDowngrade"} /\ Pays(t)' => Given(t)'
    <2> SUFFICES ASSUME Kind(f) \in {"UPDATED", "cronDowngrade"}, Pays(t)' PROVE Given(t)'
        OBVIOUS
    <2>1. pc[f] \notin Early /\ ppStatus[t] \notin Pending
        BY <1>2 DEF TaskOK, KindsAt, Early, ChangeKind
    <2>2. CASE Pays(t)
        BY <1>2, <1>5, <2>2 DEF TaskOK
    <2>3. CASE ~Pays(t)
        <3>1. t = s /\ ppStatus[s] # "ACTIVE" /\ st = "ACTIVE"
            BY <1>1, <2>3 DEF Pays
        <3>2. kind \in Switching
            BY <2>1, <3>1 DEF Sends, Pending
        <3> QED
            BY <1>1, <3>1, <3>2 DEF Given
    <2> QED
        BY <2>2, <2>3
<1>7. TaskOK(f)'
    BY <1>1, <1>2, <1>3, <1>4, <1>6 DEF TaskOK, Changed
<1>8. StepOK(f)'
    <2>1. pc[f] \in Creating => ppStatus'[t] = Absent
        BY <1>1, <1>2, <1>3 DEF StepOK
    <2>2. ASSUME pc[f] = "register"
          PROVE  \/ ppStatus'[t] \in Pending \/ Switch(t)'
                 \/ \E l \in inbox' :
                        /\ l.sub = t /\ l.kind = "ACTIVATED"
                        /\ \A e \in inbox' : e.sub = t /\ e.kind = "UPDATED" => l.id < e.id
        <3>1. PICK new : /\ inbox' = inbox \cup {new}
                         /\ new.kind = kind /\ new.sub = s /\ new.id = sent + 1
            BY SendsEvents
        <3>2. \A e \in inbox : e.id \in Nat /\ e.id <= sent /\ EventOK(e)
            BY Numbers DEF AccessInv, EventOK
        <3>3. CASE Switch(t)
            BY <1>1, <3>3
        <3>4. CASE ppStatus[t] \in Pending
            <4>1. CASE s # t
                BY <1>1, <3>4, <4>1
            <4>2. CASE s = t
                <5>1. kind = "ACTIVATED"
                    BY <3>4, <4>2 DEF Sends, Pending, Absent
                <5>2. \A e \in inbox' : e.sub = t => e.kind # "UPDATED"
                    BY <3>1, <3>2, <3>4, <5>1 DEF EventOK
                <5> QED
                    BY <3>1, <4>2, <5>1, <5>2
            <4> QED
                BY <4>1, <4>2
        <3>5. CASE \E l \in inbox :
                       /\ l.sub = t /\ l.kind = "ACTIVATED"
                       /\ \A e \in inbox : e.sub = t /\ e.kind = "UPDATED" => l.id < e.id
            <4>1. PICK l \in inbox :
                      /\ l.sub = t /\ l.kind = "ACTIVATED"
                      /\ \A e \in inbox : e.sub = t /\ e.kind = "UPDATED" => l.id < e.id
                BY <3>5
            <4>2. l \in inbox' /\ l.id < new.id
                BY <1>1, <3>1, <3>2, <4>1
            <4> QED
                BY <3>1, <4>1, <4>2
        <3> QED
            BY <1>2, <2>2, <3>3, <3>4, <3>5 DEF StepOK
    <2> QED
        BY <1>1, <1>2, <2>1, <2>2 DEF StepOK, Present
<1> QED
    BY <1>7, <1>8

LEMMA PayPalAccess ==
    ASSUME OneByOne, TypeInv, TypeInv', AccessInv, PayPalChanges
    PROVE  AccessInv'
<1>0. PICK s \in Sub : \E st, kind : kind # "CREATED" /\ Sends(s, st, kind)
    <2>1. PICK s \in Sub :
            \/ PayPalActivates(s) \/ PayPalReportsPayment(s) \/ PayPalRefunds(s)
            \/ \E kind \in {"SALE_COMPLETED", "RENEWED"} : PayPalRenews(s, kind)
            \/ \E p \in Plan : PayPalRevises(s, p)
            \/ \E m \in PayPalMoves : PayPalMovesTo(s, m)
        BY DEF PayPalChanges
    <2>2. ppStatus = [ppStatus EXCEPT ![s] = ppStatus[s]] /\ ppPlan \in [Sub -> Plan \cup {NoPlan}]
        BY DEF TypeInv, PayPalOK
    <2>3. CASE PayPalActivates(s)
        <3>1. Sends(s, "ACTIVE", "ACTIVATED")
            BY <2>3 DEF PayPalActivates, Sends
        <3> QED
            BY <3>1
    <2>4. ASSUME NEW kind \in {"SALE_COMPLETED", "RENEWED"},
                 PayPalRenews(s, kind) \/ (PayPalReportsPayment(s) /\ kind = "SALE_COMPLETED")
          PROVE  Sends(s, "ACTIVE", kind)
        BY <2>2, <2>4 DEF PayPalRenews, PayPalReportsPayment, Sends
    <2>5. ASSUME NEW p \in Plan, PayPalRevises(s, p) PROVE Sends(s, ppStatus[s], "UPDATED")
        BY <2>2, <2>5 DEF PayPalRevises, Sends
    <2>6. ASSUME NEW m \in PayPalMoves, PayPalMovesTo(s, m) PROVE Sends(s, m[2], m[3])
        <3>1. m[1] \in {"ACTIVE", "SUSPENDED"} /\ m[3] \in Switching /\ m[2] \in Leaves(m[3])
            BY DEF PayPalMoves, Switching, Leaves
        <3> QED
            BY <2>6, <3>1 DEF PayPalMovesTo, Sends, Switching
    <2>7. ASSUME NEW m \in PayPalMoves PROVE m[3] # "CREATED"
        BY DEF PayPalMoves
    <2>8. ~PayPalRefunds(s)
        BY DEF PayPalRefunds, Report, OneByOne
    <2> QED
        <3>1. CASE \E m \in PayPalMoves : PayPalMovesTo(s, m)
            BY <2>6, <2>7, <3>1
        <3>2. CASE \E p \in Plan : PayPalRevises(s, p)
            BY <2>5, <3>2
        <3>3. CASE \/ PayPalReportsPayment(s)
                   \/ \E kind \in {"SALE_COMPLETED", "RENEWED"} : PayPalRenews(s, kind)
            BY <2>4, <3>3
        <3> QED
            BY <2>1, <2>3, <2>8, <3>1, <3>2, <3>3
<1>1. PICK st, kind : kind # "CREATED" /\ Sends(s, st, kind)
    BY <1>0
<1>2. UNCHANGED <<subVars, userVars, slips, flowVars>>
    BY DEF PayPalChanges, PayPalActivates, PayPalReportsPayment, PayPalRenews, PayPalRevises,
           PayPalMovesTo, PayPalRefunds, elsewhere
<1>3. \A f \in Flow : FlowOK(f)'
    BY <1>1, <1>2, SendsFlow
<1> QED
    BY <1>1, <1>2, <1>3, SendsKeeps DEF flowVars

\* The endpoint creates a subscription.  PayPal may report that, or not.
LEMMA CreateAccess ==
    ASSUME OneByOne, TypeInv, TypeInv', AccessInv, NEW f \in Flow, CreateAtPayPal(f)
    PROVE  AccessInv'
<1> PICK s \in Sub : s = The(f)
    BY Running DEF CreateAtPayPal, TypeInv
<1>1. /\ pc[f] = "createAtPayPal" /\ pc'[f] = "register" /\ \A g \in Flow : g = f
      /\ UNCHANGED <<subVars, userVars, slips, task, status, owner, plan, applied, deferred,
                     scheduled, isPro>>
      /\ ppStatus' = [ppStatus EXCEPT ![s] = "APPROVAL_PENDING"]
      /\ ppStatus \in [Sub -> Status \cup {Absent}]
      /\ Report(s, "CREATED") \/ (UNCHANGED <<sent, inbox>>)
    BY DEF CreateAtPayPal, Goto, subVars, userVars, OneByOne, TypeInv, FlowsOK, PayPalOK
<1>2. TaskOK(f) /\ ppStatus[s] = Absent /\ Kind(f) = "create" /\ SubOK(s)
    BY <1>1 DEF AccessInv, FlowOK, StepOK, Creating, TaskOK, KindsAt
<1>3. FlowOK(f)'
    <2>1. The(f)' = s /\ Kind(f)' = "create" /\ ppStatus'[s] = "APPROVAL_PENDING"
        BY <1>1, <1>2 DEF The, Kind
    <2>2. TaskOK(f)'
        BY <1>1, <1>2, <2>1 DEF TaskOK, KindsAt, EventKind, Changed, ChangeKind, Early
    <2>3. StepOK(f)'
        BY <1>1, <2>1 DEF StepOK, OwnerSteps, Creating, Pending
    <2> QED
        BY <2>2, <2>3 DEF FlowOK
<1>4. CASE Report(s, "CREATED")
    <2>1. Sends(s, "APPROVAL_PENDING", "CREATED")
        BY <1>1, <1>2, <1>4 DEF Sends
    <2> QED
        BY <1>1, <1>3, <2>1, SendsKeeps DEF Asking
<1>5. CASE UNCHANGED <<sent, inbox>>
    <2>1. /\ ppStatus'[s] = "APPROVAL_PENDING" /\ \A t \in Sub \ {s} : ppStatus'[t] = ppStatus[t]
          /\ \A g \in Flow, t \in Sub : ~HasClaim(g) /\ ~Stops(g) /\ ~Ends(g) /\ ~Closes(g)
                                        /\ ~Resumes(g) /\ ~Starting(g)
          /\ \A t : Switch(t)' = Switch(t)
        BY <1>1, <1>2, <1>5
           DEF HasClaim, Stops, Ends, Closes, Resumes, Starting, Switch
    <2>2. \A e \in inbox : e.sub \in Sub /\ e.sub # s /\ EventOK(e)
        <3>1. \A e \in inbox : e.sub \in Sub /\ EventOK(e)
            BY DEF AccessInv, TypeInv, InboxOK, Task
        <3>2. ASSUME NEW e \in inbox, e.sub = s PROVE e.kind = "CREATED"
            BY <1>2, <3>1, <3>2 DEF EventOK, Pending
        <3> QED
            BY <1>2, <3>1, <3>2 DEF EventOK, SwitchAfter, Switching, Leaves, Absent
    <2>3. \A e \in inbox' : EventOK(e)'
        BY <1>1, <1>5, <2>1, <2>2 DEF EventOK, SwitchAfter
    <2>4. SubOK(s)'
        <3>1. DocOK(s)' /\ PaidOK(s)'
            BY <1>1, <1>2, <2>1 DEF SubOK, DocOK, PaidOK, Pays, Present, Pending, Absent
        <3>2. EndedOK(s)'
            BY <1>1, <1>2, <2>1 DEF SubOK, DocOK, EndedOK, Pending, Absent
        <3> QED
            BY <3>1, <3>2 DEF SubOK
    <2>5. ASSUME NEW t \in Sub, t # s PROVE SubOK(t)'
        <3>1. Stays(t) /\ Alike(t) /\ ppStatus'[t] = ppStatus[t] /\ SubOK(t) /\ sent \in Nat
            BY <1>1, <1>5, <2>1, <2>5, Numbers DEF Stays, On, The, Alike, AccessInv
        <3> QED
            BY <1>1, <1>5, <2>5, <3>1, OtherSub
    <2> QED
        BY <1>1, <1>3, <2>3, <2>4, <2>5 DEF AccessInv
<1> QED
    BY <1>1, <1>4, <1>5

\* An endpoint has PayPal change the status ...
LEMMA ChangeAccess ==
    ASSUME OneByOne, TypeInv, TypeInv', AccessInv, NEW f \in Flow, ChangeAtPayPal(f)
    PROVE  AccessInv'
<1> PICK s \in Sub : s = The(f)
    BY Running DEF ChangeAtPayPal, TypeInv
<1> PICK change : change = Changes(Kind(f))
    OBVIOUS
<1>1. /\ pc[f] = "changeAtPayPal" /\ pc'[f] = change.next /\ \A g \in Flow : g = f
      /\ UNCHANGED <<subVars, userVars, task, owner>>
      /\ slips[s] \subseteq slips'[s] /\ \A t \in Sub \ {s} : slips'[t] = slips[t]
      /\ ppStatus' = [ppStatus EXCEPT ![s] = change.to] /\ ppStatus[s] \in change.from
      /\ Report(s, change.event)
    BY DEF ChangeAtPayPal, GotoWith, subVars, userVars, OneByOne, TypeInv, FlowsOK, CountsOK
<1>2. TaskOK(f) /\ Kind(f) \in ChangeKind
    BY <1>1 DEF AccessInv, FlowOK, TaskOK, KindsAt
<1>3. /\ change.event \in {"CANCELLED", "SUSPENDED", "RE_ACTIVATED"}
      /\ change.to \in Leaves(change.event) /\ change.from \subseteq {"ACTIVE", "SUSPENDED"}
      /\ change.next \in {"cancel", "suspend", "askToResume"}
      /\ Kind(f) \in KindsAt(change.next)
      /\ Kind(f) = "cancel" => change.to = "CANCELLED"
    BY <1>2 DEF Changes, ChangeKind, Leaves, KindsAt
<1>4. Sends(s, change.to, change.event)
    BY <1>1, <1>3 DEF Sends, Switching
<1>5. FlowOK(f)'
    <2>1. /\ The(f)' = s /\ Kind(f)' = Kind(f) /\ ppStatus'[s] = change.to /\ Switch(s)'
        BY <1>1, <1>3, <1>4, SendsEvents DEF The, Kind, Switching
    <2>2. change.to \notin Pending /\ Kind(f) \notin EventKind \cup {"UPDATED", "cronDowngrade",
                                                                     "cronDeferred", "create"}
        BY <1>2, <1>3 DEF Leaves, Pending, Absent, ChangeKind, EventKind
    <2>3. TaskOK(f)'
        BY <1>1, <1>2, <1>3, <2>1, <2>2 DEF TaskOK
    <2>4. StepOK(f)'
        BY <1>1, <1>3 DEF StepOK, OwnerSteps, Creating
    <2> QED
        BY <2>3, <2>4 DEF FlowOK
<1> QED
    BY <1>1, <1>4, <1>5, SendsKeeps DEF Asking

\* ... or go back to the plan.
LEMMA RevertAccess ==
    ASSUME OneByOne, TypeInv, TypeInv', AccessInv, NEW f \in Flow, RevertAtPayPal(f)
    PROVE  AccessInv'
<1> PICK s \in Sub : s = The(f)
    BY Running DEF RevertAtPayPal, TypeInv
<1>1. /\ pc[f] = "revertAtPayPal" /\ pc'[f] = "unschedule" /\ \A g \in Flow : g = f
      /\ UNCHANGED <<subVars, userVars, slips, task, owner>>
      /\ ppStatus' = [ppStatus EXCEPT ![s] = ppStatus[s]] /\ ppStatus[s] \in {"ACTIVE", "SUSPENDED"}
      /\ Report(s, "UPDATED")
    BY DEF RevertAtPayPal, Goto, subVars, userVars, OneByOne, TypeInv, FlowsOK, PayPalOK
<1>2. TaskOK(f) /\ StepOK(f) /\ Kind(f) = "cancelDowngrade"
    BY <1>1 DEF AccessInv, FlowOK, TaskOK, KindsAt
<1>3. ppPlan'[s] \in Plan
    BY <1>1, <1>2 DEF RevertAtPayPal, StepOK, TypeInv, PayPalOK
<1>4. Sends(s, ppStatus[s], "UPDATED")
    BY <1>1, <1>3 DEF Sends
<1>5. FlowOK(f)'
    <2>1. The(f)' = s /\ Kind(f)' = "cancelDowngrade"
        BY <1>1, <1>2 DEF The, Kind
    <2>2. TaskOK(f)'
        BY <1>1, <1>2, <2>1 DEF TaskOK, KindsAt, EventKind, Changed, ChangeKind, Early
    <2>3. StepOK(f)'
        BY <1>1 DEF StepOK, OwnerSteps, Creating
    <2> QED
        BY <2>2, <2>3 DEF FlowOK
<1> QED
    BY <1>1, <1>4, <1>5, SendsKeeps DEF Asking

\* The endpoint stores what it created, if no webhook did.  Nothing else of the
\* user gives access, and the activation, if it came, is still to be handled.
LEMMA RegisterAccess ==
    ASSUME OneByOne, OneEach', TypeInv, TypeInv', AccessInv, NEW f \in Flow, Register(f),
           ~Present(The(f))
    PROVE  AccessInv'
<1> PICK s \in Sub : s = The(f)
    BY Running DEF Register, TypeInv
<1> PICK u : u = task[f].user
    OBVIOUS
<1>1. /\ pc[f] = "register" /\ pc'[f] = "idle" /\ \A g \in Flow : g = f
      /\ UNCHANGED <<applied, deferred, scheduled, isPro, slips, ppStatus, sent, inbox>>
      /\ status'[s] = "APPROVAL_PENDING" /\ owner'[s] = u /\ plan'[s] = task[f].plan
      /\ \A t \in Sub \ {s} : status'[t] = status[t] /\ owner'[t] = owner[t] /\ plan'[t] = plan[t]
    BY DEF Register, Return, userVars, ppVars, OneByOne, TypeInv, FlowsOK, DocsOK
<1>2. /\ TaskOK(f) /\ StepOK(f) /\ Kind(f) = "create" /\ SubOK(s)
      /\ u \in User /\ task[f].plan \in Plan
    BY <1>1 DEF AccessInv, FlowOK, TaskOK, KindsAt
<1>3. owner[s] = NoUser /\ ~applied[s] /\ scheduled[s] = NoPlan
    BY <1>2 DEF SubOK, DocOK
<1>4. ~isPro[u]
    <2>1. ASSUME isPro[u] PROVE FALSE
        <3>1. PICK t \in Sub : owner[t] = u
            BY <1>2, <2>1 DEF AccessInv
        <3>2. t # s /\ owner'[t] = owner'[s] /\ owner'[s] # NoUser
            BY <1>1, <1>2, <1>3, <3>1, NoneAssumption
        <3> QED
            BY <3>2 DEF OneEach
    <2> QED
        BY <2>1
<1>5. SubOK(s)'
    <2>1. DocOK(s)'
        BY <1>1, <1>2, <1>3 DEF DocOK, Present, Pending, Absent
    <2>2. PaidOK(s)'
        <3> SUFFICES ASSUME Pays(s)' PROVE PaidOK(s)'
            BY DEF PaidOK
        <3>1. CASE Switch(s)
            BY <1>1, <1>3, <3>1 DEF PaidOK, Given, Switch
        <3>2. CASE ~Switch(s)
            <4>1. PICK l \in inbox :
                      /\ l.sub = s /\ l.kind = "ACTIVATED"
                      /\ \A e \in inbox : e.sub = s /\ e.kind = "UPDATED" => l.id < e.id
                BY <1>1, <1>2, <3>2 DEF StepOK, Pays, Pending, Absent
            <4>2. l.id < sent + 1
                BY Numbers DEF AccessInv, EventOK
            <4> QED
                BY <1>1, <1>3, <4>1, <4>2 DEF PaidOK, Awaited
        <3> QED
            BY <3>1, <3>2
    <2>3. EndedOK(s)'
        BY <1>1, <1>4 DEF EndedOK
    <2> QED
        BY <2>1, <2>2, <2>3 DEF SubOK
<1>6. ASSUME NEW t \in Sub, t # s PROVE SubOK(t)'
    <2>1. Stays(t) /\ Alike(t) /\ SubOK(t) /\ sent \in Nat
        BY <1>1, <1>6, Numbers DEF Stays, On, The, Alike, AccessInv
    <2> QED
        BY <1>1, <1>6, <2>1, OtherSub
<1>7. \A e \in inbox' : EventOK(e)'
    BY <1>1 DEF AccessInv, EventOK, SwitchAfter
<1>8. \A w \in User : isPro'[w] => \E t \in Sub : owner'[t] = w
    <2>1. ASSUME NEW w \in User, isPro[w] PROVE \E t \in Sub : owner'[t] = w
        <3>1. PICK t \in Sub : owner[t] = w
            BY <2>1 DEF AccessInv
        <3>2. t # s
            BY <1>3, <3>1, NoneAssumption
        <3> QED
            BY <1>1, <3>1, <3>2
    <2> QED
        BY <1>1, <2>1
<1> QED
    BY <1>1, <1>5, <1>6, <1>7, <1>8 DEF AccessInv, FlowOK

\* What the flow at work relies on.
LEMMA Relies ==
    ASSUME OneByOne, AccessInv, NEW f \in Flow, NEW s \in Sub, pc[f] # "idle", s = The(f)
    PROVE  /\ TaskOK(f) /\ StepOK(f) /\ Kind(f) \in KindsAt(pc[f])
           /\ pc[f] \notin Early => ppStatus[s] \notin Pending
           /\ Kind(f) \in EventKind => Switch(s) \/ ppStatus[s] \in Leaves(Kind(f))
           /\ DocOK(s) /\ EndedOK(s)
           /\ Pays(s) => Present(s) /\ owner[s] # NoUser /\ owner[s] \in Registered
           /\ Pays(s) /\ applied[s] /\ ~HasClaim(f) => Given(s)
           /\ owner[s] \in Registered => Present(s) /\ owner[s] # NoUser
<1>1. TaskOK(f) /\ StepOK(f) /\ Kind(f) \in KindsAt(pc[f]) /\ DocOK(s) /\ PaidOK(s) /\ EndedOK(s)
    BY DEF AccessInv, FlowOK, TaskOK, SubOK
<1>2. owner[s] \in Registered => Present(s) /\ owner[s] # NoUser
    BY <1>1, RegisteredAssumption, NoneAssumption DEF DocOK
<1>3. \A g \in Flow : g = f
    BY DEF OneByOne
<1>4. Pays(s) /\ applied[s] /\ ~HasClaim(f) => Given(s)
    BY <1>1, <1>3 DEF PaidOK
<1>5. Kind(f) \in EventKind => Switch(s) \/ ppStatus[s] \in Leaves(Kind(f))
    BY <1>1 DEF TaskOK, EventOK, SwitchAfter, Switch, Kind, The
<1> QED
    BY <1>1, <1>2, <1>4, <1>5 DEF TaskOK, Pays

\* A step with nothing at stake: f neither owes s an access nor its end.
Harmless(f) ==
    /\ Kind(f) \notin {"RE_ACTIVATED", "SUSPENDED", "EXPIRED", "CANCELLED", "cronDeferred"}
    /\ ~Starting(f) /\ ~HasClaim(f) /\ ~Closes(f)

LEMMA HarmlessKeeps ==
    ASSUME OneByOne, OneEach, TypeInv, TypeInv', AccessInv, NEW f \in Flow, NEW s \in Sub,
           pc[f] # "idle", s = The(f), Harmless(f), Proceeds(f), DocOK(s)',
           UNCHANGED <<owner, deferred, isPro, ppStatus, sent, slips>>,
           inbox' = inbox \/ GiveBack(f),
           \A t \in Sub \ {s} : Alike(t),
           scheduled'[s] \in {scheduled[s], NoPlan}, applied'[s] => applied[s],
           status'[s] = "CANCELLED" => status[s] = "CANCELLED"
    PROVE  AccessInv'
<1>1. PaidStep(f, s)
    BY DEF PaidStep, Harmless, Resumes
<1>2. EndedStep(f, s)
    BY DEF EndedStep, Harmless, Stops, Ends, Spared
<1> QED
    BY <1>1, <1>2, AccessStepKeeps DEF AccessStep

LEMMA ActivationAccess ==
    ASSUME OneByOne, OneEach, TypeInv, TypeInv', StatusInv, AccessInv,
           NEW f \in Flow, NEW s \in Sub,
           pc[f] # "idle", s = The(f),
           \/ UpdateFromWebhook(f) \/ SyncBillingData(f) \/ GrabDowngrade(f) \/ SetGrabbedPlan(f)
           \/ ClaimActivation(f) \/ LoadUser(f) \/ SaveUser(f)
           \/ Rollback(f) \/ ActivationError(f) \/ RollbackThrow(f)
    PROVE  AccessInv'
<1>0. /\ TaskOK(f) /\ StepOK(f) /\ Kind(f) \in KindsAt(pc[f]) /\ DocOK(s)
      /\ pc[f] \notin Early => ppStatus[s] \notin Pending
    BY Relies
<1>1. CASE UpdateFromWebhook(f)
    <2>1. /\ pc[f] = "updateFromWebhook" /\ pc'[f] = "idle"
          /\ status' = [status EXCEPT ![s] = "APPROVAL_PENDING"]
          /\ plan' = [plan EXCEPT ![s] = IF Present(s) THEN @ ELSE task[f].plan]
          /\ UNCHANGED <<owner, applied, deferred, scheduled, isPro, ppStatus, sent, inbox, slips>>
        BY <1>1 DEF UpdateFromWebhook, Return, userVars, ppVars, TypeInv, FlowsOK
    <2>2. Harmless(f) /\ Proceeds(f)
        BY <1>0, <2>1 DEF KindsAt, Harmless, Starting, HasClaim, Closes, Proceeds
    <2>3. DocOK(s)' /\ \A t \in Sub \ {s} : Alike(t)
        BY <1>0, <2>1 DEF DocOK, Present, Pending, Absent, Alike, TypeInv, DocsOK
    <2>4. status'[s] # "CANCELLED"
        BY <2>1 DEF TypeInv, DocsOK
    <2> QED
        BY <2>1, <2>2, <2>3, <2>4, HarmlessKeeps
<1>2. CASE SyncBillingData(f)
    <2>1. /\ pc[f] = "syncBilling" /\ pc'[f] = "idle"
          /\ UNCHANGED <<status, owner, plan, applied, deferred, scheduled, isPro, ppStatus, sent,
                         inbox, slips>>
        BY <1>2 DEF SyncBillingData, Return, userVars, ppVars, TypeInv, FlowsOK
    <2>2. Harmless(f) /\ Proceeds(f)
        BY <1>0, <2>1 DEF KindsAt, Harmless, Starting, HasClaim, Closes, Proceeds
    <2>3. DocOK(s)' /\ \A t \in Sub \ {s} : Alike(t)
        BY <1>0, <2>1 DEF DocOK, Present, Alike
    <2> QED
        BY <2>1, <2>2, <2>3, HarmlessKeeps
<1>3. CASE GrabDowngrade(f)
    <2>1. /\ pc[f] = "grabDowngrade" /\ Kind(f) \in {"SALE_COMPLETED", "RENEWED"}
          /\ UNCHANGED <<status, owner, plan, deferred, isPro, ppStatus, sent, inbox, slips>>
          /\ \/ /\ scheduled' = [scheduled EXCEPT ![s] = NoPlan]
                /\ applied' = [applied EXCEPT ![s] = FALSE]
             \/ UNCHANGED <<scheduled, applied>>
        BY <1>0, <1>3 DEF GrabDowngrade, userVars, ppVars, KindsAt
    <2>2. \/ pc'[f] = "idle"
          \/ pc'[f] = "updateStatus" /\ task' = task
          \/ pc'[f] = "setPlan" /\ task' = task /\ doc'[f] = Doc(s) /\ scheduled[s] # NoPlan
        BY <1>3 DEF GrabDowngrade, GotoWith, Goto, Return, TypeInv, FlowsOK
    <2>3. Harmless(f)
        BY <2>1 DEF Harmless, Starting, HasClaim, Closes
    <2>4. StepOK(f)' \/ pc'[f] = "idle"
        BY <2>2 DEF StepOK, OwnerSteps, Creating, Doc, TypeInv, DocsOK
    <2>5. Proceeds(f)
        BY <2>1, <2>2, <2>4 DEF Proceeds, KindsAt, StatusKind, Early, Changed, ChangeKind, Kind
    <2>6. DocOK(s)' /\ \A t \in Sub \ {s} : Alike(t)
        BY <1>0, <2>1 DEF DocOK, Present, Alike, TypeInv, DocsOK
    <2> QED
        BY <2>1, <2>3, <2>5, <2>6, HarmlessKeeps DEF TypeInv, DocsOK
<1>4. CASE SetGrabbedPlan(f)
    <2>1. /\ pc[f] = "setPlan" /\ pc'[f] = "claim" /\ task' = task
          /\ Kind(f) \in {"SALE_COMPLETED", "RENEWED"} /\ doc[f].scheduled \in Plan
          /\ plan' = [plan EXCEPT ![s] = doc[f].scheduled]
          /\ UNCHANGED <<status, owner, applied, deferred, scheduled, isPro, ppStatus, sent, inbox,
                         slips>>
        BY <1>0, <1>4 DEF SetGrabbedPlan, GotoWith, userVars, ppVars, KindsAt, StepOK, TypeInv,
           FlowsOK
    <2>2. Harmless(f)
        BY <2>1 DEF Harmless, Starting, HasClaim, Closes
    <2>3. Proceeds(f)
        BY <2>1 DEF Proceeds, KindsAt, Early, Changed, ChangeKind, Kind, StepOK, OwnerSteps,
           Creating
    <2>4. DocOK(s)' /\ \A t \in Sub \ {s} : Alike(t)
        BY <1>0, <2>1 DEF DocOK, Present, Alike, TypeInv, DocsOK
    <2> QED
        BY <2>1, <2>2, <2>3, <2>4, HarmlessKeeps
<1> DEFINE Applying == {"ACTIVATED", "UPDATED", "SALE_COMPLETED", "RENEWED"}
<1>5. ASSUME Kind(f) \in Applying
      PROVE  /\ ~Resumes(f) /\ ~Stops(f) /\ ~Ends(f) /\ ~Closes(f)
             /\ Kind(f) # "UPDATED" \/ status[s] = "ACTIVE" => Switch(s) \/ ppStatus[s] = "ACTIVE"
    <2>1. Kind(f) \in EventKind /\ (Kind(f) # "UPDATED" => Leaves(Kind(f)) = {"ACTIVE"})
        BY <1>5 DEF EventKind, Leaves
    <2>2. Kind(f) = "UPDATED" /\ status[s] = "ACTIVE" => Switch(s) \/ ppStatus[s] = "ACTIVE"
        <3>1. \A g \in Flow : Kind(f) = "UPDATED" => ~Owes(g, s)
            BY DEF OneByOne, Owes, Turning
        <3>2. Kind(f) = "UPDATED" /\ status[s] = "ACTIVE" => Later(s) \/ ppStatus[s] = "ACTIVE"
            BY <3>1 DEF StatusInv, Settled, Present, Absent
        <3>3. ASSUME Later(s), ppStatus[s] = "SUSPENDED" PROVE Switch(s)
            <4>1. PICK l \in inbox : l.sub = s /\ l.kind \in Turning
                BY <3>3 DEF Later
            <4>2. ppStatus[s] \in Leaves(l.kind) \/ SwitchAfter(l)
                BY <4>1 DEF AccessInv, EventOK
            <4>3. CASE l.kind \in {"CREATED", "ACTIVATED"}
                <5>1. SwitchAfter(l)
                    BY <3>3, <4>2, <4>3 DEF Leaves
                <5> QED
                    BY <4>1, <5>1 DEF SwitchAfter, Switch
            <4>4. CASE l.kind \in Switching
                BY <4>1, <4>4 DEF Switch
            <4> QED
                BY <4>1, <4>3, <4>4 DEF Turning, Switching
        <3>4. Kind(f) = "UPDATED" => Switch(s) \/ ppStatus[s] \in {"ACTIVE", "SUSPENDED"}
            BY <2>1, Relies DEF Leaves
        <3> QED
            BY <3>2, <3>3, <3>4
    <2> QED
        BY <1>5, <2>1, <2>2, Relies DEF Resumes, Stops, Ends, Closes
<1>6. CASE ClaimActivation(f)
    <2>1. /\ pc[f] = "claim" /\ Kind(f) \in Applying /\ ppStatus[s] \notin Pending
          /\ UNCHANGED <<status, owner, plan, deferred, scheduled, isPro, ppStatus, sent, inbox,
                         slips>>
        BY <1>0, <1>6 DEF ClaimActivation, userVars, ppVars, KindsAt, Early
    <2>2. \A t \in Sub \ {s} : Alike(t)
        BY <1>6, <2>1 DEF ClaimActivation, Alike, TypeInv, DocsOK
    <2>3. CASE Claimable(s)
        <3>1. /\ pc'[f] = "loadUser" /\ task' = task /\ doc'[f] = Doc(s)
              /\ applied' = [applied EXCEPT ![s] = TRUE]
            BY <1>6, <2>3 DEF ClaimActivation, GotoWith, TypeInv, FlowsOK
        <3>2. Starting(f)' <=> Kind(f) = "ACTIVATED"
            BY <3>1 DEF Starting, Kind
        <3>3. StepOK(f)'
            BY <1>0, <2>1, <2>3, <3>1 DEF StepOK, OwnerSteps, Creating, Doc, Claimable, DocOK, The
        <3>4. Proceeds(f)
            BY <2>1, <3>1, <3>3 DEF Proceeds, KindsAt, Early, Changed, ChangeKind, Kind
        <3>5. DocOK(s)'
            BY <1>0, <2>1, <2>3, <3>1 DEF DocOK, Present, Claimable
        <3>6. PaidStep(f, s)
            BY <1>5, <2>1, <3>1, <3>2 DEF PaidStep, HasClaim, Starting
        <3>7. EndedStep(f, s)
            BY <1>5, <2>1 DEF EndedStep, Spared
        <3> QED
            BY <2>1, <2>2, <3>4, <3>5, <3>6, <3>7, AccessStepKeeps DEF AccessStep
    <2>4. CASE ~Claimable(s)
        <3>1. /\ applied' = applied
              /\ pc'[f] = "idle" \/ (pc'[f] = "syncBilling" /\ task' = task
                                     /\ Kind(f) \in {"ACTIVATED", "UPDATED"})
            BY <1>6, <2>4 DEF ClaimActivation, AfterActivation, GotoWith, Return, TypeInv, FlowsOK
        <3>2. Proceeds(f)
            BY <2>1, <3>1 DEF Proceeds, KindsAt, Early, Changed, ChangeKind, Kind, StepOK,
               OwnerSteps, Creating
        <3>3. Pays(s) /\ Starting(f) => Given(s)
            <4>1. Pays(s) /\ Starting(f) => applied[s]
                BY <1>0, <2>1, <2>4, Relies DEF Starting, StepOK, Claimable, TypeInv, DocsOK
            <4> QED
                BY <2>1, <4>1, Relies DEF HasClaim
        <3>4. DocOK(s)'
            BY <1>0, <2>1, <3>1 DEF DocOK, Present
        <3>5. PaidStep(f, s)
            BY <1>5, <2>1, <3>1, <3>3 DEF PaidStep, HasClaim
        <3>6. EndedStep(f, s)
            BY <1>5, <2>1 DEF EndedStep, Spared
        <3> QED
            BY <2>1, <2>2, <3>2, <3>4, <3>5, <3>6, AccessStepKeeps DEF AccessStep
    <2> QED
        BY <2>3, <2>4
<1>7. CASE LoadUser(f)
    <2>1. /\ pc[f] = "loadUser" /\ Kind(f) \in Applying /\ task' = task /\ doc' = doc
          /\ doc[f].owner = owner[s] /\ doc[f].plan \in Plan /\ owner[s] # NoUser
          /\ status[s] = "ACTIVE"
          /\ UNCHANGED <<status, owner, plan, applied, deferred, scheduled, isPro, ppStatus, sent,
                         inbox, slips>>
        BY <1>0, <1>7 DEF LoadUser, Goto, subVars, userVars, ppVars, KindsAt, StepOK, OwnerSteps
    <2>2. \/ pc'[f] = "saveUser" /\ pro'[f] = isPro[owner[s]]
          \/ pc'[f] = "rollback" /\ owner[s] \notin Registered
        BY <1>7, <2>1 DEF LoadUser, Goto, TypeInv, FlowsOK
    <2>3. StepOK(f)'
        BY <2>1, <2>2 DEF StepOK, OwnerSteps, Creating, The
    <2>4. Proceeds(f)
        BY <2>1, <2>2, <2>3 DEF Proceeds, KindsAt, Early, Changed, ChangeKind, Kind
    <2>5. DocOK(s)' /\ \A t \in Sub \ {s} : Alike(t)
        BY <1>0, <2>1 DEF DocOK, Present, Alike
    <2>6. PaidStep(f, s)
        BY <1>5, <2>1, <2>2 DEF PaidStep, Pays, HasClaim, Starting, Kind
    <2>7. EndedStep(f, s)
        BY <1>5, <2>1 DEF EndedStep, Spared
    <2> QED
        BY <2>1, <2>4, <2>5, <2>6, <2>7, AccessStepKeeps DEF AccessStep
<1>8. CASE SaveUser(f)
    <2>1. /\ pc[f] = "saveUser" /\ Kind(f) \in Applying
          /\ doc[f].owner = owner[s] /\ owner[s] # NoUser /\ status[s] = "ACTIVE"
          /\ pro[f] = isPro[owner[s]] /\ owner[s] \in User
          /\ UNCHANGED <<status, owner, plan, applied, deferred, scheduled, ppStatus, sent, inbox,
                         slips>>
        BY <1>0, <1>8 DEF SaveUser, subVars, ppVars, KindsAt, StepOK, OwnerSteps, TypeInv, DocsOK
    <2>2. isPro'[owner[s]] /\ \A u \in User : isPro'[u] # isPro[u] => u = owner[s]
        BY <1>8, <2>1 DEF SaveUser, TypeInv, UsersOK
    <2>3. pc'[f] = "idle" \/ (pc'[f] = "syncBilling" /\ task' = task
                              /\ Kind(f) \in {"ACTIVATED", "UPDATED"})
        BY <1>8 DEF SaveUser, AfterActivation, GotoWith, Return, TypeInv, FlowsOK
    <2>4. Proceeds(f)
        BY <2>1, <2>3 DEF Proceeds, KindsAt, Early, Changed, ChangeKind, Kind, StepOK,
           OwnerSteps, Creating
    <2>5. DocOK(s)' /\ \A t \in Sub \ {s} : Alike(t)
        BY <1>0, <2>1 DEF DocOK, Present, Alike
    <2>6. PaidStep(f, s)
        BY <1>5, <2>1, <2>2 DEF PaidStep, GivenNow
    <2>7. EndedStep(f, s)
        BY <1>5, <2>1 DEF EndedStep, Spared
    <2> QED
        BY <2>1, <2>2, <2>4, <2>5, <2>6, <2>7, AccessStepKeeps DEF AccessStep
<1>9. CASE Rollback(f)
    <2>1. /\ pc[f] = "rollback" /\ Kind(f) \in Applying
          /\ applied' = [applied EXCEPT ![s] = FALSE]
          /\ UNCHANGED <<status, owner, plan, deferred, scheduled, isPro, ppStatus, sent, inbox,
                         slips>>
        BY <1>0, <1>9 DEF Rollback, userVars, ppVars, KindsAt
    <2>2. pc'[f] = "idle" \/ (pc'[f] = "syncBilling" /\ task' = task
                              /\ Kind(f) \in {"ACTIVATED", "UPDATED"})
        BY <1>9 DEF Rollback, AfterActivation, GotoWith, Return, TypeInv, FlowsOK
    <2>3. Proceeds(f)
        BY <2>1, <2>2 DEF Proceeds, KindsAt, Early, Changed, ChangeKind, Kind, StepOK,
           OwnerSteps, Creating
    <2>4. DocOK(s)' /\ ~applied'[s] /\ \A t \in Sub \ {s} : Alike(t)
        BY <1>0, <2>1 DEF DocOK, Present, Alike, TypeInv, DocsOK
    <2>5. PaidStep(f, s)
        BY <1>5, <2>1, <2>4 DEF PaidStep, Starting
    <2>6. EndedStep(f, s)
        BY <1>5, <2>1 DEF EndedStep, Spared
    <2> QED
        BY <2>1, <2>3, <2>4, <2>5, <2>6, AccessStepKeeps DEF AccessStep
<1>10. CASE ActivationError(f)
    <2>1. /\ pc[f] \in {"loadUser", "saveUser"} /\ pc'[f] = "rollbackThrow" /\ task' = task
          /\ UNCHANGED <<status, owner, plan, applied, deferred, scheduled, isPro, ppStatus, sent,
                         inbox, slips>>
        BY <1>10 DEF ActivationError, Goto, subVars, userVars, ppVars, TypeInv, FlowsOK
    <2>2. Kind(f) \in Applying
        BY <1>0, <2>1 DEF KindsAt
    <2>3. Proceeds(f)
        BY <2>1, <2>2 DEF Proceeds, KindsAt, Early, Changed, ChangeKind, Kind, StepOK,
           OwnerSteps, Creating
    <2>4. DocOK(s)' /\ \A t \in Sub \ {s} : Alike(t)
        BY <1>0, <2>1 DEF DocOK, Present, Alike
    <2>5. PaidStep(f, s)
        BY <1>5, <2>1, <2>2 DEF PaidStep, HasClaim, Starting, Kind
    <2>6. EndedStep(f, s)
        BY <1>5, <2>1, <2>2 DEF EndedStep, Spared
    <2> QED
        BY <2>1, <2>3, <2>4, <2>5, <2>6, AccessStepKeeps DEF AccessStep
<1>11. CASE RollbackThrow(f)
    <2>1. /\ pc[f] = "rollbackThrow" /\ pc'[f] = "idle" /\ GiveBack(f) /\ Kind(f) \in Applying
          /\ applied' = [applied EXCEPT ![s] = FALSE]
          /\ UNCHANGED <<status, owner, plan, deferred, scheduled, isPro, ppStatus, sent, slips>>
        BY <1>0, <1>11 DEF RollbackThrow, Return, userVars, ppVars, KindsAt, TypeInv, FlowsOK
    <2>2. DocOK(s)' /\ ~applied'[s] /\ \A t \in Sub \ {s} : Alike(t)
        BY <1>0, <2>1 DEF DocOK, Present, Alike, TypeInv, DocsOK
    <2>3. PaidStep(f, s)
        BY <1>5, <2>1, <2>2 DEF PaidStep
    <2>4. EndedStep(f, s)
        BY <1>5, <2>1 DEF EndedStep, Spared
    <2> QED
        BY <2>1, <2>2, <2>3, <2>4, AccessStepKeeps DEF AccessStep, Proceeds
<1> QED
    BY <1>1, <1>2, <1>3, <1>4, <1>6, <1>7, <1>8, <1>9, <1>10, <1>11

\* The status that events carry.
LEMMA WriteAccess ==
    ASSUME OneByOne, OneEach, TypeInv, TypeInv', AccessInv, NEW f \in Flow, NEW s \in Sub,
           pc[f] # "idle", s = The(f), UpdateStatus(f) \/ CreateForStatus(f)
    PROVE  AccessInv'
<1>0. /\ pc[f] \in {"updateStatus", "createForStatus"} /\ Kind(f) \in StatusKind
      /\ ppStatus[s] \notin Pending /\ DocOK(s)
      /\ UNCHANGED <<owner, applied, deferred, scheduled, isPro, ppStatus, sent, slips>>
      /\ ~Resumes(f) /\ ~HasClaim(f) /\ ~Ends(f) /\ ~Closes(f)
    <2>1. pc[f] \in {"updateStatus", "createForStatus"}
        BY DEF UpdateStatus, CreateForStatus
    <2>2. Kind(f) \in StatusKind /\ ppStatus[s] \notin Pending /\ DocOK(s)
        BY <2>1, Relies DEF KindsAt, Early
    <2>3. UNCHANGED <<owner, applied, deferred, scheduled, isPro, ppStatus, sent, slips>>
        BY DEF UpdateStatus, CreateForStatus, WriteStatus, subVars, userVars, ppVars
    <2> QED
        BY <2>1, <2>2, <2>3 DEF StatusKind, Resumes, HasClaim, Ends, Closes
<1>1. ASSUME WriteStatus(f), AfterUpdateStatus(f), inbox' = inbox PROVE AccessInv'
    <2>1. /\ status' = [status EXCEPT ![s] = NewStatus(Kind(f))]
          /\ plan' = [plan EXCEPT ![s] = IF task[f].plan # NoPlan THEN task[f].plan ELSE @]
        BY <1>1 DEF WriteStatus
    <2>2. \/ pc'[f] = "claim" /\ task' = task /\ Kind(f) = "ACTIVATED"
          \/ pc'[f] = "grabDowngrade" /\ task' = task /\ Kind(f) = "SALE_COMPLETED"
          \/ pc'[f] = "expireFlag" /\ task' = task /\ Kind(f) = "EXPIRED"
          \/ pc'[f] = "idle" /\ Kind(f) = "RENEWED"
        BY <1>0, <1>1 DEF AfterUpdateStatus, StatusKind, Goto, Return, TypeInv, FlowsOK
    <2>3. /\ status'[s] = NewStatus(Kind(f)) /\ NewStatus(Kind(f)) \in {"ACTIVE", "EXPIRED"}
          /\ Kind(f) = "ACTIVATED" => status'[s] = "ACTIVE"
        BY <2>1 DEF NewStatus, TypeInv, DocsOK
    <2>4. StepOK(f)' \/ pc'[f] = "idle"
        BY <2>2, <2>3 DEF StepOK, OwnerSteps, Creating, The
    <2>5. Proceeds(f)
        BY <1>0, <2>2, <2>4 DEF Proceeds, KindsAt, Early, Changed, ChangeKind, Kind
    <2>6. plan'[s] = plan[s] \/ plan'[s] \in Plan
        BY <2>1, Running DEF TypeInv, DocsOK
    <2>7. DocOK(s)' /\ \A t \in Sub \ {s} : Alike(t)
        BY <1>0, <2>1, <2>3, <2>6 DEF DocOK, Present, Absent, Alike, TypeInv, DocsOK
    <2>8. PaidStep(f, s)
        BY <1>0, <2>2 DEF PaidStep, Starting, Kind
    <2>9. EndedStep(f, s)
        BY <1>0, <2>2, <2>3 DEF EndedStep, Spared, Stops
    <2> QED
        BY <1>0, <1>1, <2>5, <2>7, <2>8, <2>9, AccessStepKeeps DEF AccessStep
<1>2. ASSUME UNCHANGED subVars,
             \/ pc'[f] = "idle" /\ GiveBack(f)
             \/ pc'[f] = "createForStatus" /\ task' = task /\ inbox' = inbox
      PROVE  AccessInv'
    <2>1. DocOK(s)' /\ UNCHANGED <<status, scheduled>> /\ \A t \in Sub \ {s} : Alike(t)
        BY <1>0, <1>2 DEF subVars, DocOK, Present, Alike
    <2>2. Proceeds(f)
        BY <1>0, <1>2 DEF Proceeds, KindsAt, Early, Changed, ChangeKind, StatusKind, Kind, StepOK,
           OwnerSteps, Creating
    <2>3. PaidStep(f, s)
        BY <1>0, <1>2 DEF PaidStep, Starting, Kind
    <2>4. EndedStep(f, s)
        BY <1>0, <1>2, <2>1 DEF EndedStep, Spared
    <2> QED
        BY <1>0, <1>2, <2>1, <2>2, <2>3, <2>4, AccessStepKeeps DEF AccessStep
<1>3. CASE UpdateStatus(f)
    <2>1. CASE Present(s)
        BY <1>1, <1>3, <2>1 DEF UpdateStatus
    <2>2. CASE ~Present(s)
        BY <1>2, <1>3, <2>2 DEF UpdateStatus, Goto, TypeInv, FlowsOK
    <2> QED
        BY <2>1, <2>2
<1>4. CASE CreateForStatus(f)
    <2>1. CASE Present(s)
        BY <1>2, <1>4, <2>1 DEF CreateForStatus, Return, TypeInv, FlowsOK
    <2>2. CASE ~Present(s)
        BY <1>1, <1>4, <2>2 DEF CreateForStatus
    <2> QED
        BY <2>1, <2>2
<1> QED
    BY <1>3, <1>4

\* The end of the access, now or when the period is over.
LEMMA CancelAccess ==
    ASSUME OneByOne, OneEach, TypeInv, TypeInv', AccessInv, NEW f \in Flow, NEW s \in Sub,
           pc[f] # "idle", s = The(f), ReadForCancel(f) \/ SetCancelled(f)
    PROVE  AccessInv'
<1>1. /\ pc[f] \in {"cancel", "setCancelled"} /\ Kind(f) \in {"CANCELLED", "cancel"}
      /\ ppStatus[s] = "CANCELLED" /\ DocOK(s) /\ EndedOK(s)
      /\ Kind(f) = "cancel" => Switch(s)
      /\ UNCHANGED <<owner, plan, applied, scheduled, isPro, ppStatus, sent, inbox>>
    <2>1. pc[f] \in {"cancel", "setCancelled"}
        BY DEF ReadForCancel, SetCancelled
    <2>2. Kind(f) \in {"CANCELLED", "cancel"} /\ TaskOK(f) /\ DocOK(s) /\ EndedOK(s)
        BY <2>1, Relies DEF KindsAt
    <2>3. Kind(f) = "CANCELLED" => ppStatus[s] = "CANCELLED"
        BY <2>2 DEF TaskOK, EventKind, EventOK, Kind, The
    <2>4. Kind(f) = "cancel" => ppStatus[s] = "CANCELLED" /\ Switch(s)
        BY <2>1, <2>2 DEF TaskOK, Changed, ChangeKind
    <2> QED
        BY <2>1, <2>2, <2>3, <2>4 DEF ReadForCancel, SetCancelled, subVars, userVars, ppVars
<1>2. ~Pays(s) /\ ~Stops(f) /\ PaidStep(f, s)
    BY <1>1 DEF Pays, Stops, PaidStep
<1>3. CASE ReadForCancel(f)
    <2>1. /\ pc[f] = "cancel" /\ EndIs(s) /\ UNCHANGED <<status, deferred>>
          /\ slips[s] \subseteq slips'[s]
        BY <1>1, <1>3 DEF ReadForCancel, EndIs, subVars, TypeInv, CountsOK
    <2>2. \/ pc'[f] = "idle" /\ (Present(s) => status[s] = "CANCELLED")
          \/ pc'[f] = "setCancelled" /\ task' = task /\ doc'[f] = Doc(s)
        BY <1>3 DEF ReadForCancel, GotoWith, Return, TypeInv, FlowsOK
    <2>3. Proceeds(f)
        BY <1>1, <2>2 DEF Proceeds, KindsAt, Early, Changed, ChangeKind, Kind, StepOK, OwnerSteps,
           Creating, Doc, The
    <2>4. DocOK(s)' /\ \A t \in Sub \ {s} : Alike(t)
        BY <1>1, <2>1 DEF DocOK, Present, Alike, EndIs, TypeInv, CountsOK
    <2>5. EndedStep(f, s)
        <3> SUFFICES ASSUME owner[s] \in Registered, isPro[owner[s]]
                     PROVE  Spared(s)' \/ ((pc'[f] # "idle" /\ Ends(f)') \/ Kind(f) = "cancel")
            BY <1>1, <1>2, <2>1 DEF EndedStep, Spared, Closes, Ends
        <3>1. CASE pc'[f] = "idle"
            <4>1. status[s] = "CANCELLED" /\ ~\E g \in Flow : Closes(g)
                BY <2>1, <2>2, <3>1, Relies DEF Closes, OneByOne
            <4>2. Spared(s)
                BY <1>1, <4>1 DEF EndedOK
            <4> QED
                BY <2>1, <4>2 DEF Spared
        <3>2. CASE pc'[f] # "idle"
            BY <1>1, <2>2, <3>2 DEF Ends, Kind
        <3> QED
            BY <3>1, <3>2
    <2> QED
        BY <1>1, <1>2, <2>1, <2>3, <2>4, <2>5, AccessStepKeeps DEF AccessStep
<1>4. CASE SetCancelled(f)
    <2>1. /\ pc[f] = "setCancelled" /\ UNCHANGED slips /\ doc[f].owner = owner[s]
          /\ status' = [status EXCEPT ![s] = "CANCELLED"]
          /\ deferred' = [deferred EXCEPT ![s] = ~PeriodEnded(f)]
        BY <1>4, Relies DEF SetCancelled, StepOK
    <2>2. \/ pc'[f] = "expireFlag" /\ task' = task
          \/ pc'[f] = "idle" /\ (owner[s] = NoUser \/ deferred'[s])
        <3>1. \/ doc[f].owner # NoUser /\ PeriodEnded(f) /\ GotoWith(f, "expireFlag", None)
              \/ ~(doc[f].owner # NoUser /\ PeriodEnded(f)) /\ Return(f)
            BY <1>4 DEF SetCancelled
        <3>2. CASE PeriodEnded(f)
            BY <2>1, <3>1, <3>2 DEF GotoWith, Return, TypeInv, FlowsOK
        <3>3. CASE ~PeriodEnded(f)
            <4>1. deferred'[s]
                BY <2>1, <3>3 DEF TypeInv, DocsOK
            <4> QED
                BY <3>1, <3>3, <4>1 DEF Return, TypeInv, FlowsOK
        <3> QED
            BY <3>2, <3>3
    <2>3. Proceeds(f)
        BY <1>1, <2>2 DEF Proceeds, KindsAt, Early, Changed, ChangeKind, Kind, StepOK, OwnerSteps,
           Creating
    <2>4. DocOK(s)' /\ \A t \in Sub \ {s} : Alike(t)
        BY <1>1, <2>1 DEF DocOK, Present, Absent, Pending, Alike, TypeInv, DocsOK
    <2>5. EndedStep(f, s)
        <3> SUFFICES ASSUME owner[s] \in Registered PROVE EndedStep(f, s)
            BY DEF EndedStep
        <3>1. CASE pc'[f] = "expireFlag"
            <4>1. Closes(f)' /\ (Ends(f)' \/ Switch(s)) /\ (Ends(f) => Ends(f)')
                BY <1>1, <2>1, <2>2, <3>1 DEF Closes, Ends, Kind
            <4> QED
                BY <1>1, <1>2, <3>1, <4>1 DEF EndedStep
        <3>2. CASE deferred'[s]
            BY <1>1, <1>2, <3>2 DEF EndedStep, Spared
        <3> QED
            BY <2>2, <3>1, <3>2, Relies
    <2> QED
        BY <1>1, <1>2, <2>1, <2>3, <2>4, <2>5, AccessStepKeeps DEF AccessStep
<1> QED
    BY <1>3, <1>4

LEMMA ExpireAccess ==
    ASSUME OneByOne, OneEach, TypeInv, TypeInv', AccessInv, NEW f \in Flow, NEW s \in Sub,
           pc[f] # "idle", s = The(f), ExpireFlag(f) \/ ExpireLoad(f) \/ ExpireSave(f)
    PROVE  AccessInv'
<1>1. /\ pc[f] \in {"expireFlag", "expireLoad", "expireSave"}
      /\ Kind(f) \in {"CANCELLED", "cancel", "EXPIRED"}
      /\ ppStatus[s] \in {"CANCELLED", "EXPIRED"} /\ DocOK(s)
      /\ Kind(f) \in {"CANCELLED", "cancel"} <=> ppStatus[s] = "CANCELLED"
      /\ Kind(f) = "cancel" => Switch(s)
      /\ UNCHANGED <<status, owner, plan, applied, scheduled, ppStatus, sent, inbox>>
    <2>1. pc[f] \in {"expireFlag", "expireLoad", "expireSave"}
        BY DEF ExpireFlag, ExpireLoad, ExpireSave
    <2>2. Kind(f) \in {"CANCELLED", "cancel", "EXPIRED"} /\ TaskOK(f) /\ DocOK(s)
        BY <2>1, Relies DEF KindsAt
    <2>3. Kind(f) \in {"CANCELLED", "EXPIRED"} => ppStatus[s] = Kind(f)
        BY <2>2 DEF TaskOK, EventKind, EventOK, Kind, The
    <2>4. Kind(f) = "cancel" => ppStatus[s] = "CANCELLED" /\ Switch(s)
        BY <2>1, <2>2 DEF TaskOK, Changed, ChangeKind
    <2> QED
        BY <2>1, <2>2, <2>3, <2>4
           DEF ExpireFlag, ExpireLoad, ExpireSave, subVars, userVars, ppVars
<1>2. ~Pays(s) /\ PaidStep(f, s)
    BY <1>1 DEF Pays, PaidStep
<1>3. ASSUME pc'[f] \in {"expireLoad", "expireSave"}, task' = task, slips[s] \subseteq slips'[s],
             deferred'[s] = deferred[s] \/ ~deferred'[s], isPro' = isPro
      PROVE  EndedStep(f, s)
    <2>1. Kind(f) \in {"CANCELLED", "cancel"} => Closes(f)' /\ (Ends(f)' \/ Switch(s))
        BY <1>1, <1>3 DEF Closes, Ends, Kind
    <2>2. (Ends(f) => Ends(f)') /\ (Closes(f) => Closes(f)')
        BY <1>1, <1>3 DEF Closes, Ends, Kind
    <2>3. status'[s] = status[s]
        BY <1>1
    <2> QED
        BY <1>1, <1>3, <2>1, <2>2, <2>3 DEF EndedStep
<1>4. CASE ExpireFlag(f)
    <2>1. /\ pc[f] = "expireFlag" /\ isPro' = isPro
          /\ deferred' = [deferred EXCEPT ![s] = FALSE]
          /\ EndIs(s) \/ UNCHANGED slips
        BY <1>4 DEF ExpireFlag, userVars
    <2>2. slips[s] \subseteq slips'[s] /\ \A t \in Sub \ {s} : slips'[t] = slips[t]
        BY <2>1 DEF EndIs, TypeInv, CountsOK
    <2>3. \/ pc'[f] = "expireLoad" /\ task' = task /\ doc'[f] = Doc(s) /\ owner[s] # NoUser
          \/ pc'[f] = "idle" /\ owner[s] = NoUser
        BY <1>4 DEF ExpireFlag, GotoWith, Return, TypeInv, FlowsOK
    <2>4. Proceeds(f)
        BY <1>1, <2>3 DEF Proceeds, KindsAt, Early, Changed, ChangeKind, Kind, StepOK, OwnerSteps,
           Creating, Doc, The
    <2>5. DocOK(s)' /\ \A t \in Sub \ {s} : Alike(t)
        BY <1>1, <2>1, <2>2 DEF DocOK, Present, Alike, TypeInv, DocsOK
    <2>6. EndedStep(f, s)
        <3>1. CASE owner[s] \notin Registered
            BY <3>1 DEF EndedStep
        <3>2. CASE owner[s] \in Registered
            <4>1. pc'[f] = "expireLoad" /\ task' = task /\ ~deferred'[s]
                BY <2>1, <2>3, <3>2, Relies DEF TypeInv, DocsOK
            <4> QED
                BY <1>3, <2>1, <2>2, <4>1
        <3> QED
            BY <3>1, <3>2
    <2> QED
        BY <1>1, <1>2, <2>1, <2>2, <2>4, <2>5, <2>6, AccessStepKeeps DEF AccessStep
<1>5. CASE ExpireLoad(f)
    <2>1. /\ pc[f] = "expireLoad" /\ UNCHANGED <<isPro, deferred, slips>>
          /\ doc[f].owner = owner[s] /\ owner[s] # NoUser
        BY <1>5, Relies DEF ExpireLoad, userVars, subVars, StepOK, OwnerSteps
    <2>2. \/ /\ pc'[f] = "expireSave" /\ task' = task /\ doc'[f] = doc[f]
             /\ pro'[f] = isPro[owner[s]]
          \/ pc'[f] = "idle" /\ owner[s] \notin Registered
        BY <1>5, <2>1 DEF ExpireLoad, Return, TypeInv, FlowsOK
    <2>3. Proceeds(f)
        BY <1>1, <2>1, <2>2 DEF Proceeds, KindsAt, Early, Changed, ChangeKind, Kind, StepOK,
           OwnerSteps, Creating, The
    <2>4. DocOK(s)' /\ \A t \in Sub \ {s} : Alike(t)
        BY <1>1, <2>1 DEF DocOK, Present, Alike
    <2>5. EndedStep(f, s)
        BY <1>3, <2>1, <2>2 DEF EndedStep
    <2> QED
        BY <1>1, <1>2, <2>1, <2>3, <2>4, <2>5, AccessStepKeeps DEF AccessStep
<1>6. CASE ExpireSave(f)
    <2>1. /\ pc[f] = "expireSave" /\ pc'[f] = "idle" /\ UNCHANGED <<deferred, slips>>
          /\ doc[f].owner = owner[s] /\ owner[s] # NoUser /\ pro[f] = isPro[owner[s]]
          /\ isPro' = [isPro EXCEPT ![owner[s]] = IF pro[f] THEN FALSE ELSE @]
        BY <1>6, Relies DEF ExpireSave, subVars, StepOK, OwnerSteps, Return, TypeInv, FlowsOK
    <2>2. ~isPro'[owner[s]] /\ \A u \in User : isPro'[u] # isPro[u] => u = owner[s]
        BY <2>1 DEF TypeInv, UsersOK, DocsOK
    <2>3. DocOK(s)' /\ \A t \in Sub \ {s} : Alike(t)
        BY <1>1, <2>1 DEF DocOK, Present, Alike
    <2>4. EndedStep(f, s)
        BY <2>2 DEF EndedStep
    <2> QED
        BY <1>1, <1>2, <2>1, <2>2, <2>3, <2>4, AccessStepKeeps DEF AccessStep, Proceeds
<1> QED
    BY <1>4, <1>5, <1>6

\* A subscription that is paused, and one that is resumed.
LEMMA SuspendAccess ==
    ASSUME OneByOne, OneEach, TypeInv, TypeInv', AccessInv, NEW f \in Flow, NEW s \in Sub,
           pc[f] # "idle", s = The(f), Suspend(f) \/ DropPro(f)
    PROVE  AccessInv'
<1>1. /\ pc[f] \in {"suspend", "dropPro"} /\ Kind(f) \in {"SUSPENDED", "renewOff", "cronDeferred"}
      /\ pc[f] = "suspend" => Kind(f) # "cronDeferred"
      /\ ~Pays(s) \/ Switch(s)
      /\ ppStatus[s] \notin Pending /\ DocOK(s)
      /\ Kind(f) = "renewOff" => Switch(s)
      /\ UNCHANGED <<owner, plan, applied, deferred, scheduled, slips, ppStatus, sent, inbox>>
    <2>1. pc[f] \in {"suspend", "dropPro"}
        BY DEF Suspend, DropPro
    <2>2. /\ Kind(f) \in {"SUSPENDED", "renewOff", "cronDeferred"} /\ TaskOK(f) /\ DocOK(s)
          /\ pc[f] = "suspend" => Kind(f) # "cronDeferred"
          /\ ppStatus[s] \notin Pending
        BY <2>1, Relies DEF KindsAt, Early
    <2>3. Kind(f) = "SUSPENDED" => Switch(s) \/ ~Pays(s)
        BY Relies DEF EventKind, Leaves, Pays
    <2>4. Kind(f) = "renewOff" => Switch(s)
        BY <2>1, <2>2 DEF TaskOK, Changed, ChangeKind
    <2>5. Kind(f) = "cronDeferred" => ~Pays(s)
        BY <2>2 DEF TaskOK, Pays
    <2> QED
        BY <2>1, <2>2, <2>3, <2>4, <2>5 DEF Suspend, DropPro, subVars, userVars, ppVars
<1>2. PaidStep(f, s)
    BY <1>1 DEF PaidStep, Given, GivenNow, Resumes, Starting
<1>3. CASE Suspend(f)
    <2>1. /\ pc[f] = "suspend" /\ UNCHANGED isPro
          /\ Present(s) => status' = [status EXCEPT ![s] = "SUSPENDED"]
          /\ ~Present(s) => status' = status
        BY <1>3 DEF Suspend, userVars
    <2>2. \/ pc'[f] = "dropPro" /\ task' = task /\ doc'[f] = Doc(s) /\ owner[s] # NoUser
          \/ pc'[f] = "idle" /\ (~Present(s) \/ owner[s] = NoUser)
        BY <1>3 DEF Suspend, GotoWith, Return, TypeInv, FlowsOK
    <2>3. Proceeds(f)
        BY <1>1, <2>1, <2>2 DEF Proceeds, KindsAt, Early, Changed, ChangeKind, Kind, StepOK,
           OwnerSteps, Creating, Doc, The
    <2>4. DocOK(s)' /\ \A t \in Sub \ {s} : Alike(t)
        BY <1>1, <2>1 DEF DocOK, Present, Absent, Pending, Alike, TypeInv, DocsOK
    <2>5. status'[s] = "CANCELLED" => status[s] = "CANCELLED"
        BY <2>1 DEF TypeInv, DocsOK
    <2>6. EndedStep(f, s)
        <3>1. owner[s] \in Registered => pc'[f] # "idle"
            BY <2>2, Relies
        <3> QED
            BY <1>1, <2>1, <2>5, <3>1 DEF EndedStep, Spared, Stops, Ends, Closes
    <2> QED
        BY <1>1, <1>2, <2>1, <2>3, <2>4, <2>6, AccessStepKeeps DEF AccessStep
<1>4. CASE DropPro(f)
    <2>1. /\ pc[f] = "dropPro" /\ pc'[f] = "idle" /\ UNCHANGED status
          /\ doc[f].owner = owner[s] /\ owner[s] # NoUser
          /\ isPro' = [isPro EXCEPT ![owner[s]] = FALSE]
        BY <1>4, Relies DEF DropPro, subVars, StepOK, OwnerSteps, Return, TypeInv, FlowsOK
    <2>2. ~isPro'[owner[s]] /\ \A u \in User : isPro'[u] # isPro[u] => u = owner[s]
        BY <2>1 DEF TypeInv, UsersOK, DocsOK
    <2>3. DocOK(s)' /\ \A t \in Sub \ {s} : Alike(t)
        BY <1>1, <2>1 DEF DocOK, Present, Alike
    <2>4. EndedStep(f, s)
        BY <2>2 DEF EndedStep
    <2> QED
        BY <1>1, <1>2, <2>1, <2>2, <2>3, <2>4, AccessStepKeeps DEF AccessStep, Proceeds
<1> QED
    BY <1>3, <1>4

LEMMA ResumeAccess ==
    ASSUME OneByOne, OneEach, TypeInv, TypeInv', AccessInv, NEW f \in Flow, NEW s \in Sub,
           pc[f] # "idle", s = The(f), AskPayPalToResume(f) \/ Resume(f) \/ RaisePro(f)
    PROVE  AccessInv'
<1>1. /\ pc[f] \in {"askToResume", "resume", "raisePro"}
      /\ Kind(f) \in {"RE_ACTIVATED", "resume", "renewOn"}
      /\ ppStatus[s] \notin Pending /\ DocOK(s)
      /\ ppStatus[s] = "ACTIVE" \/ Switch(s)
      /\ UNCHANGED <<owner, plan, applied, deferred, scheduled, slips, ppStatus, sent, inbox>>
    <2>1. pc[f] \in {"askToResume", "resume", "raisePro"}
        BY DEF AskPayPalToResume, Resume, RaisePro
    <2>2. /\ Kind(f) \in {"RE_ACTIVATED", "resume", "renewOn"} /\ TaskOK(f) /\ DocOK(s)
          /\ ppStatus[s] \notin Pending
        BY <2>1, Relies DEF KindsAt, Early
    <2>3. Kind(f) = "RE_ACTIVATED" => ppStatus[s] = "ACTIVE" \/ Switch(s)
        BY Relies DEF EventKind, Leaves
    <2>4. Kind(f) # "RE_ACTIVATED" => Switch(s)
        BY <2>1, <2>2 DEF TaskOK, Changed, ChangeKind
    <2> QED
        BY <2>1, <2>2, <2>3, <2>4
           DEF AskPayPalToResume, Resume, RaisePro, subVars, userVars, ppVars
<1>2. ~Starting(f) /\ ~HasClaim(f) /\ ~Stops(f) /\ ~Ends(f) /\ ~Closes(f)
    BY <1>1 DEF Starting, HasClaim, Stops, Ends, Closes
<1>3. CASE AskPayPalToResume(f)
    <2>1. /\ pc[f] = "askToResume" /\ UNCHANGED <<status, isPro>>
          /\ \/ pc'[f] = "resume" /\ task' = task
             \/ pc'[f] = "idle" /\ ppStatus[s] # "ACTIVE"
        BY <1>3 DEF AskPayPalToResume, Goto, Return, subVars, userVars, TypeInv, FlowsOK
    <2>2. Proceeds(f)
        BY <1>1, <2>1 DEF Proceeds, KindsAt, Early, Changed, ChangeKind, Kind, StepOK, OwnerSteps,
           Creating
    <2>3. DocOK(s)' /\ \A t \in Sub \ {s} : Alike(t)
        BY <1>1, <2>1 DEF DocOK, Present, Alike
    <2>4. PaidStep(f, s)
        BY <1>1, <1>2, <2>1 DEF PaidStep, Pays
    <2>5. EndedStep(f, s)
        BY <1>1, <1>2, <2>1 DEF EndedStep, Spared
    <2> QED
        BY <1>1, <2>1, <2>2, <2>3, <2>4, <2>5, AccessStepKeeps DEF AccessStep
<1>4. CASE Resume(f)
    <2>1. /\ pc[f] = "resume" /\ UNCHANGED isPro
          /\ Present(s) => status' = [status EXCEPT ![s] = "ACTIVE"]
          /\ ~Present(s) => status' = status
        BY <1>4 DEF Resume, userVars
    <2>2. \/ pc'[f] = "raisePro" /\ task' = task /\ doc'[f] = Doc(s) /\ owner[s] # NoUser
             /\ Present(s)
          \/ pc'[f] = "idle" /\ (~Present(s) \/ owner[s] = NoUser)
        BY <1>4 DEF Resume, GotoWith, Return, TypeInv, FlowsOK
    <2>3. Proceeds(f)
        <3>1. pc'[f] = "raisePro" => StepOK(f)'
            <4>1. pc'[f] = "raisePro" => status'[s] = "ACTIVE" /\ doc'[f].owner = owner[s]
                BY <2>1, <2>2 DEF Doc, TypeInv, DocsOK
            <4> QED
                BY <1>1, <2>2, <4>1 DEF StepOK, OwnerSteps, Creating, The
        <3> QED
            BY <1>1, <2>1, <2>2, <3>1 DEF Proceeds, KindsAt, Early, Changed, ChangeKind, Kind
    <2>4. DocOK(s)' /\ \A t \in Sub \ {s} : Alike(t)
        BY <1>1, <2>1 DEF DocOK, Present, Absent, Pending, Alike, TypeInv, DocsOK
    <2>5. status'[s] = "CANCELLED" => status[s] = "CANCELLED"
        BY <2>1 DEF TypeInv, DocsOK
    <2>6. PaidStep(f, s)
        BY <1>1, <1>2, <2>1, <2>2, Relies DEF PaidStep
    <2>7. EndedStep(f, s)
        BY <1>1, <1>2, <2>1, <2>5 DEF EndedStep, Spared
    <2> QED
        BY <1>1, <2>1, <2>3, <2>4, <2>6, <2>7, AccessStepKeeps DEF AccessStep
<1>5. CASE RaisePro(f)
    <2>1. /\ pc[f] = "raisePro" /\ pc'[f] = "idle" /\ UNCHANGED status
          /\ doc[f].owner = owner[s] /\ owner[s] # NoUser /\ status[s] = "ACTIVE"
          /\ isPro' = [isPro EXCEPT ![owner[s]] = IF owner[s] \in Registered THEN TRUE ELSE @]
        BY <1>5, Relies DEF RaisePro, subVars, StepOK, OwnerSteps, Return, TypeInv, FlowsOK
    <2>2. /\ owner[s] \in Registered => isPro'[owner[s]]
          /\ \A u \in User : isPro'[u] # isPro[u] => u = owner[s]
        BY <2>1 DEF TypeInv, UsersOK, DocsOK
    <2>3. DocOK(s)' /\ \A t \in Sub \ {s} : Alike(t)
        BY <1>1, <2>1 DEF DocOK, Present, Alike
    <2>4. PaidStep(f, s)
        BY <1>1, <1>2, <2>2 DEF PaidStep, Pays, GivenNow
    <2>5. EndedStep(f, s)
        BY <1>1, <1>2, <2>1 DEF EndedStep, Spared
    <2> QED
        BY <1>1, <2>1, <2>2, <2>3, <2>4, <2>5, AccessStepKeeps DEF AccessStep, Proceeds
<1> QED
    BY <1>3, <1>4, <1>5

\* A change of plan hands out a claim, or waits on a schedule.
LEMMA UpdatedAccess ==
    ASSUME OneByOne, OneEach, TypeInv, TypeInv', AccessInv, NEW f \in Flow, NEW s \in Sub,
           pc[f] # "idle", s = The(f),
           ReadUpdated(f) \/ Upgrade(f) \/ ClearScheduled(f) \/ ScheduleDowngrade(f)
    PROVE  AccessInv'
<1>1. /\ pc[f] \in {"readUpdated", "upgrade", "clearSuperseded", "clearReverted", "schedule"}
      /\ Kind(f) = "UPDATED" /\ TaskOK(f) /\ StepOK(f) /\ DocOK(s) /\ task[f].plan \in Plan
      /\ ppStatus[s] \notin Pending
      /\ UNCHANGED <<status, owner, deferred, isPro, ppStatus, sent, inbox, slips>>
    <2>1. pc[f] \in {"readUpdated", "upgrade", "clearSuperseded", "clearReverted", "schedule"}
        BY DEF ReadUpdated, Upgrade, ClearScheduled, ScheduleDowngrade
    <2>2. Kind(f) = "UPDATED" /\ TaskOK(f) /\ StepOK(f) /\ DocOK(s) /\ ppStatus[s] \notin Pending
        BY <2>1, Relies DEF KindsAt, Early
    <2>3. task[f].plan \in Plan
        BY <2>2 DEF TaskOK, EventKind, EventOK, Kind
    <2> QED
        BY <2>1, <2>2, <2>3 DEF ReadUpdated, Upgrade, ClearScheduled, ScheduleDowngrade, subVars,
           userVars, ppVars
<1>2. Harmless(f)
    BY <1>1 DEF Harmless, Starting, HasClaim, Closes
<1>3. ASSUME NEW step \in {"upgrade", "schedule", "clearReverted", "clearSuperseded", "syncBilling",
                           "claim"},
             step = "schedule" => Present(s), pc'[f] = step, task' = task
      PROVE  Proceeds(f)
    BY <1>1, <1>3 DEF Proceeds, KindsAt, Early, Changed, ChangeKind, Kind, StepOK, OwnerSteps,
       Creating, Present, The
<1>4. CASE ReadUpdated(f)
    <2>1. /\ UNCHANGED <<plan, applied, scheduled>>
          /\ \/ pc'[f] = "idle"
             \/ /\ pc'[f] \in {"upgrade", "schedule", "clearReverted", "syncBilling"}
                /\ task' = task /\ (pc'[f] = "schedule" => Present(s))
        BY <1>4 DEF ReadUpdated, GotoWith, Return, subVars, TypeInv, FlowsOK
    <2>2. Proceeds(f)
        BY <1>3, <2>1 DEF Proceeds
    <2>3. DocOK(s)' /\ \A t \in Sub \ {s} : Alike(t)
        BY <1>1, <2>1 DEF DocOK, Present, Alike
    <2> QED
        BY <1>1, <1>2, <2>1, <2>2, <2>3, HarmlessKeeps
<1>5. CASE Upgrade(f)
    <2>1. /\ plan' = [plan EXCEPT ![s] = task[f].plan] /\ applied' = [applied EXCEPT ![s] = FALSE]
          /\ UNCHANGED scheduled
          /\ pc'[f] \in {"clearSuperseded", "claim", "syncBilling"} /\ task' = task
        BY <1>5 DEF Upgrade, WritePlan, Goto, GotoWith, AfterUpgrade, TypeInv, FlowsOK
    <2>2. Proceeds(f)
        BY <1>3, <2>1
    <2>3. DocOK(s)' /\ ~applied'[s] /\ \A t \in Sub \ {s} : Alike(t)
        BY <1>1, <2>1 DEF DocOK, Present, Alike, TypeInv, DocsOK
    <2> QED
        BY <1>1, <1>2, <2>1, <2>2, <2>3, HarmlessKeeps
<1>6. CASE ClearScheduled(f)
    <2>1. /\ scheduled' = [scheduled EXCEPT ![s] = NoPlan] /\ UNCHANGED <<plan, applied>>
          /\ pc'[f] \in {"claim", "syncBilling"} /\ task' = task
        BY <1>6 DEF ClearScheduled, GotoWith, AfterUpgrade, TypeInv, FlowsOK
    <2>2. Proceeds(f)
        BY <1>3, <2>1
    <2>3. DocOK(s)' /\ scheduled'[s] = NoPlan /\ \A t \in Sub \ {s} : Alike(t)
        BY <1>1, <2>1 DEF DocOK, Present, Alike, TypeInv, DocsOK
    <2> QED
        BY <1>1, <1>2, <2>1, <2>2, <2>3, HarmlessKeeps
<1>7. CASE ScheduleDowngrade(f)
    <2>1. /\ scheduled' = [scheduled EXCEPT ![s] = task[f].plan] /\ UNCHANGED <<plan, applied>>
          /\ pc'[f] = "syncBilling" /\ task' = task /\ Present(s)
        BY <1>1, <1>7 DEF ScheduleDowngrade, GotoWith, StepOK, TypeInv, FlowsOK
    <2>2. Proceeds(f)
        BY <1>3, <2>1
    <2>3. DocOK(s)' /\ \A t \in Sub \ {s} : Alike(t)
        BY <1>1, <2>1 DEF DocOK, Present, Alike, TypeInv, DocsOK
    <2>4. PaidStep(f, s)
        BY <1>1, <1>2, <2>1 DEF PaidStep, TaskOK, Harmless, Resumes
    <2>5. EndedStep(f, s)
        BY <1>1, <1>2, <2>1 DEF EndedStep, Spared, Harmless, Stops, Ends
    <2> QED
        BY <1>1, <2>1, <2>2, <2>3, <2>4, <2>5, AccessStepKeeps DEF AccessStep
<1> QED
    BY <1>4, <1>5, <1>6, <1>7

\* The crons end what was deferred, and change the plan that was scheduled.
LEMMA DeferredAccess ==
    ASSUME OneByOne, OneEach, TypeInv, TypeInv', AccessInv, NEW f \in Flow, NEW s \in Sub,
           pc[f] # "idle", s = The(f), TakeDeferred(f)
    PROVE  AccessInv'
<1>1. /\ pc[f] = "takeDeferred" /\ Kind(f) = "cronDeferred" /\ ppStatus[s] = "CANCELLED"
      /\ DocOK(s) /\ doc[f].owner = owner[s]
      /\ deferred' = [deferred EXCEPT ![s] = FALSE]
      /\ UNCHANGED <<status, owner, plan, applied, scheduled, isPro, ppStatus, sent, inbox, slips>>
    BY Relies DEF TakeDeferred, KindsAt, TaskOK, StepOK, userVars, ppVars
<1>2. \/ pc'[f] = "dropPro" /\ task' = task /\ doc' = doc /\ owner[s] # NoUser
      \/ pc'[f] = "idle" /\ (~deferred[s] \/ owner[s] = NoUser)
    BY <1>1 DEF TakeDeferred, Goto, Return, TypeInv, FlowsOK
<1>3. Proceeds(f)
    BY <1>1, <1>2 DEF Proceeds, KindsAt, Early, Changed, ChangeKind, Kind, StepOK, OwnerSteps,
       Creating, The
<1>4. DocOK(s)' /\ \A t \in Sub \ {s} : Alike(t)
    BY <1>1 DEF DocOK, Present, Alike, TypeInv, DocsOK
<1>5. PaidStep(f, s)
    BY <1>1 DEF PaidStep, Pays
<1>6. EndedStep(f, s)
    <2>1. CASE pc'[f] = "dropPro"
        <3>1. Closes(f)' /\ Ends(f)'
            BY <1>1, <1>2, <2>1 DEF Closes, Ends, Kind
        <3> QED
            BY <1>1, <2>1, <3>1 DEF EndedStep, Stops
    <2>2. CASE pc'[f] = "idle" /\ ~deferred[s]
        BY <1>1, <2>2 DEF EndedStep, Spared, Stops, Ends, Closes, TypeInv, DocsOK
    <2> QED
        BY <1>2, <2>1, <2>2, Relies DEF EndedStep
<1> QED
    BY <1>1, <1>3, <1>4, <1>5, <1>6, AccessStepKeeps DEF AccessStep

LEMMA DowngradeAccess ==
    ASSUME OneByOne, OneEach, TypeInv, TypeInv', AccessInv, NEW f \in Flow, NEW s \in Sub,
           pc[f] # "idle", s = The(f), TakeDowngrade(f) \/ CopyFeatures(f) \/ MarkApplied(f)
    PROVE  AccessInv'
<1>1. /\ pc[f] \in {"takeDowngrade", "copyFeatures", "markApplied"} /\ Kind(f) = "cronDowngrade"
      /\ TaskOK(f) /\ StepOK(f) /\ DocOK(s) /\ ppStatus[s] \notin Pending
      /\ UNCHANGED <<status, owner, deferred, isPro, ppStatus, sent, inbox, slips>>
    <2>1. pc[f] \in {"takeDowngrade", "copyFeatures", "markApplied"}
        BY DEF TakeDowngrade, CopyFeatures, MarkApplied
    <2>2. /\ Kind(f) = "cronDowngrade" /\ TaskOK(f) /\ StepOK(f) /\ DocOK(s)
          /\ ppStatus[s] \notin Pending
        BY <2>1, Relies DEF KindsAt, Early
    <2> QED
        BY <2>1, <2>2 DEF TakeDowngrade, CopyFeatures, MarkApplied, subVars, userVars, ppVars
<1>2. Harmless(f)
    BY <1>1 DEF Harmless, Starting, HasClaim, Closes
<1>3. CASE TakeDowngrade(f)
    <2>1. \/ /\ scheduled' = [scheduled EXCEPT ![s] = NoPlan] /\ doc[f].scheduled \in Plan
             /\ plan' = [plan EXCEPT ![s] = doc[f].scheduled]
             /\ applied' = [applied EXCEPT ![s] = FALSE]
          \/ UNCHANGED <<scheduled, plan, applied>>
        BY <1>1, <1>3 DEF TakeDowngrade, TypeInv, FlowsOK, ReadsOK
    <2>2. /\ pc[f] = "takeDowngrade"
          /\ \/ pc'[f] = "idle"
             \/ pc'[f] = "copyFeatures" /\ task' = task /\ doc' = doc /\ doc[f].owner # NoUser
        BY <1>3 DEF TakeDowngrade, Goto, Return, TypeInv, FlowsOK
    <2>3. Proceeds(f)
        BY <1>1, <2>2 DEF Proceeds, KindsAt, Early, Changed, ChangeKind, Kind, StepOK, OwnerSteps,
           Creating, The
    <2>4. DocOK(s)' /\ scheduled'[s] \in {scheduled[s], NoPlan} /\ (applied'[s] => applied[s])
        BY <1>1, <2>1 DEF DocOK, Present, TypeInv, DocsOK
    <2>5. \A t \in Sub \ {s} : Alike(t)
        BY <1>1, <2>1 DEF Alike, TypeInv, DocsOK
    <2> QED
        BY <1>1, <1>2, <2>3, <2>4, <2>5, HarmlessKeeps
<1>4. CASE CopyFeatures(f)
    <2>1. /\ pc[f] = "copyFeatures" /\ pc'[f] = "markApplied" /\ task' = task /\ owner[s] # NoUser
          /\ UNCHANGED <<scheduled, plan, applied>>
        BY <1>1, <1>4 DEF CopyFeatures, Goto, subVars, StepOK, OwnerSteps, TypeInv, FlowsOK
    <2>2. Proceeds(f)
        BY <1>1, <2>1 DEF Proceeds, KindsAt, Early, Changed, ChangeKind, Kind, StepOK, OwnerSteps,
           Creating, The
    <2>3. DocOK(s)' /\ \A t \in Sub \ {s} : Alike(t)
        BY <1>1, <2>1 DEF DocOK, Present, Alike
    <2> QED
        BY <1>1, <1>2, <2>1, <2>2, <2>3, HarmlessKeeps
<1>5. CASE MarkApplied(f)
    <2>1. /\ pc[f] = "markApplied" /\ pc'[f] = "idle" /\ owner[s] # NoUser
          /\ UNCHANGED <<scheduled, plan>> /\ applied' = [applied EXCEPT ![s] = TRUE]
        BY <1>1, <1>5 DEF MarkApplied, Return, StepOK, TypeInv, FlowsOK
    <2>2. DocOK(s)' /\ \A t \in Sub \ {s} : Alike(t)
        BY <1>1, <2>1 DEF DocOK, Present, Alike, TypeInv, DocsOK
    <2>3. PaidStep(f, s)
        BY <1>1, <1>2, <2>1 DEF PaidStep, TaskOK, Harmless, Resumes
    <2>4. EndedStep(f, s)
        BY <1>1, <1>2 DEF EndedStep, Spared, Harmless, Stops, Ends
    <2> QED
        BY <1>1, <2>1, <2>2, <2>3, <2>4, AccessStepKeeps DEF AccessStep, Proceeds
<1> QED
    BY <1>3, <1>4, <1>5

\* A process dies, and what it leaves is known; or its job is handed out again.
LEMMA CrashAccess ==
    ASSUME OneByOne, OneEach, TypeInv, TypeInv', AccessInv, NEW f \in Flow, NEW s \in Sub,
           pc[f] # "idle", s = The(f), Crash(f)
    PROVE  AccessInv'
<1>1. /\ pc'[f] = "idle" /\ GiveBack(f) /\ task[f] # None
      /\ UNCHANGED <<status, owner, plan, applied, deferred, scheduled, isPro, ppStatus, sent>>
      /\ slips' = [slips EXCEPT ![s] = @
             \cup (IF Activating(f, s) THEN {"claimed"} ELSE {})
             \cup (IF Kind(f) = "attach" THEN {"unclaimed"} ELSE {})
             \cup (IF Ending(f) THEN {"ending"} ELSE {})
             \cup (IF pc[f] = "setPlan" /\ Kind(f) = "SALE_COMPLETED" THEN {"lost"} ELSE {})]
    BY DEF Crash, Return, subVars, userVars, ppVars, TypeInv, FlowsOK
<1>2. TaskOK(f) /\ DocOK(s)
    BY Relies
<1>3. /\ slips[s] \subseteq slips'[s] /\ \A t \in Sub \ {s} : slips'[t] = slips[t]
      /\ Activating(f, s) => "claimed" \in slips'[s]
      /\ Ending(f) => "ending" \in slips'[s]
    BY <1>1 DEF TypeInv, CountsOK
<1>4. HasClaim(f) => Activating(f, s)
    BY <1>1 DEF HasClaim, Activating
<1>5. Closes(f) => Ending(f)
    BY DEF Closes, Ending
<1>6. Ends(f) => Ending(f) \/ Switch(s)'
    <2>1. CASE Kind(f) = "CANCELLED"
        <3>1. task[f].id > 0
            BY <1>2, <2>1 DEF TaskOK, EventKind, EventOK
        <3> QED
            BY <1>1, <2>1, <3>1 DEF GiveBack, Switch, Switching, Kind, The
    <2>2. CASE Kind(f) # "CANCELLED"
        BY <2>2 DEF Ends, Ending
    <2> QED
        BY <2>1, <2>2
<1>7. DocOK(s)' /\ \A t \in Sub \ {s} : Alike(t)
    BY <1>1, <1>2, <1>3 DEF DocOK, Present, Alike
<1>8. PaidStep(f, s)
    BY <1>1, <1>3, <1>4 DEF PaidStep, GivenNow
<1>9. EndedStep(f, s)
    BY <1>1, <1>3, <1>5, <1>6 DEF EndedStep, Spared
<1> QED
    BY <1>1, <1>3, <1>7, <1>8, <1>9, AccessStepKeeps DEF AccessStep, Proceeds

LEMMA StallAccess ==
    ASSUME OneByOne, OneEach, TypeInv, TypeInv', AccessInv, NEW f \in Flow, NEW s \in Sub,
           pc[f] # "idle", s = The(f), Stall(f)
    PROVE  AccessInv'
<1>1. /\ UNCHANGED <<pc, task, doc, pro, status, owner, plan, applied, deferred, scheduled, isPro,
                     ppStatus, sent, slips>>
      /\ GiveBack(f) /\ Kind(f) \in EventKind
    BY DEF Stall, subVars, userVars, ppVars, flowVars, TypeInv, FlowsOK, ReadsOK, Kind
<1>2. Kind(f) \in KindsAt(pc[f]) /\ StepOK(f) /\ DocOK(s)
    BY Relies
<1>3. pc[f] # "register"
    BY <1>1, <1>2 DEF KindsAt, EventKind
<1>4. StepOK(f)'
    BY <1>1, <1>2, <1>3 DEF StepOK, Kind, The, Present
<1>5. Proceeds(f)
    BY <1>1, <1>2, <1>4 DEF Proceeds, Changed, Kind
<1>6. DocOK(s)' /\ \A t \in Sub \ {s} : Alike(t)
    BY <1>1, <1>2 DEF DocOK, Present, Alike
<1>7. PaidStep(f, s)
    BY <1>1 DEF PaidStep, HasClaim
<1>8. EndedStep(f, s)
    BY <1>1 DEF EndedStep, Spared, Ends, Closes, Kind
<1> QED
    BY <1>1, <1>5, <1>6, <1>7, <1>8, AccessStepKeeps DEF AccessStep

\* The steps of a request that leave PayPal alone.
LEMMA RequestStepAccess ==
    ASSUME OneByOne, OneEach, OneEach', TypeInv, TypeInv', AccessInv, NEW f \in Flow,
           RequestStep(f)
    PROVE  AccessInv'
<1>1. CASE CreateAtPayPal(f) \/ ChangeAtPayPal(f) \/ RevertAtPayPal(f)
    BY <1>1, CreateAccess, ChangeAccess, RevertAccess
<1>2. CASE Register(f) /\ ~Present(The(f))
    BY <1>2, RegisterAccess
<1>3. CASE Unlock(f)
    BY <1>3, SameAccess DEF Unlock, vars
<1>4. CASE \/ CreateLock(f) \/ ChangeLock(f) \/ ChangeRefused(f) \/ ReadDowngrade(f)
           \/ RevertLater(f) \/ Unschedule(f) \/ (Register(f) /\ Present(The(f)))
    <2>1. /\ pc[f] \in {"createLock", "changeLock", "changeAtPayPal", "readDowngrade",
                        "revertAtPayPal", "unschedule", "register"}
          /\ pc[f] # "idle"
        BY <1>4 DEF CreateLock, ChangeLock, ChangeRefused, ReadDowngrade, RevertLater, Unschedule,
           Register
    <2> PICK s \in Sub : s = The(f)
        BY <2>1, Running DEF TypeInv
    <2>2. /\ Kind(f) \in ChangeKind \cup {"create", "cancelDowngrade"}
          /\ TaskOK(f) /\ StepOK(f) /\ DocOK(s) /\ Kind(f) \in KindsAt(pc[f])
        BY <2>1, Relies DEF KindsAt
    <2>3. /\ UNCHANGED <<status, owner, plan, applied, deferred, isPro, ppStatus, sent, inbox,
                         slips>>
          /\ scheduled' = scheduled \/ scheduled' = [scheduled EXCEPT ![s] = NoPlan]
        BY <1>4 DEF CreateLock, ChangeLock, TakeLock, ChangeRefused, ReadDowngrade, RevertLater,
           Unschedule, Register, kept, subVars, userVars, ppVars
    <2>4. Harmless(f)
        BY <2>1, <2>2 DEF Harmless, Starting, HasClaim, Closes, ChangeKind
    <2>5. DocOK(s)' /\ scheduled'[s] \in {scheduled[s], NoPlan} /\ \A t \in Sub \ {s} : Alike(t)
        BY <2>2, <2>3 DEF DocOK, Present, Alike, TypeInv, DocsOK
    <2>6. Proceeds(f)
        <3>1. CASE CreateLock(f)
            <4>1. /\ pc[f] = "createLock"
                  /\ pc'[f] = "idle" \/ (pc'[f] = "createAtPayPal" /\ task' = task)
                BY <3>1 DEF CreateLock, TakeLock, Goto, Return, TypeInv, FlowsOK
            <4> QED
                BY <2>2, <2>3, <4>1 DEF Proceeds, KindsAt, Early, Changed, ChangeKind, Kind, StepOK,
                   OwnerSteps, Creating, The
        <3>2. CASE ChangeLock(f)
            <4>1. /\ pc[f] = "changeLock"
                  /\ \/ pc'[f] = "idle"
                     \/ /\ task' = task
                        /\ pc'[f] = IF Kind(f) = "cancelDowngrade" THEN "readDowngrade"
                                                                   ELSE "changeAtPayPal"
                BY <3>2 DEF ChangeLock, TakeLock, Goto, Return, TypeInv, FlowsOK
            <4>2. Kind(f) \in ChangeKind \cup {"cancelDowngrade"}
                BY <2>2, <4>1 DEF KindsAt
            <4> QED
                BY <4>1, <4>2 DEF Proceeds, KindsAt, Early, Changed, ChangeKind, Kind, StepOK,
                   OwnerSteps, Creating
        <3>3. CASE ReadDowngrade(f)
            <4>1. /\ pc[f] = "readDowngrade" /\ Kind(f) = "cancelDowngrade"
                  /\ \/ pc'[f] = "idle"
                     \/ /\ pc'[f] = "revertAtPayPal" /\ task' = task /\ doc'[f] = Doc(s)
                BY <2>2, <3>3 DEF ReadDowngrade, GotoWith, Return, KindsAt, TypeInv, FlowsOK
            <4>2. plan[s] \in Plan
                BY <2>2, <4>1 DEF TaskOK, DocOK
            <4> QED
                BY <4>1, <4>2 DEF Proceeds, KindsAt, Early, Changed, ChangeKind, Kind, StepOK,
                   OwnerSteps, Creating, Doc
        <3>4. CASE ChangeRefused(f) \/ RevertLater(f) \/ Unschedule(f) \/ Register(f)
            <4>1. pc'[f] = "idle"
                BY <3>4 DEF ChangeRefused, RevertLater, Unschedule, Register, Return, TypeInv,
                   FlowsOK
            <4> QED
                BY <4>1 DEF Proceeds
        <3> QED
            BY <1>4, <3>1, <3>2, <3>3, <3>4
    <2> QED
        BY <2>1, <2>3, <2>4, <2>5, <2>6, HarmlessKeeps
<1> QED
    BY <1>1, <1>2, <1>3, <1>4 DEF RequestStep

LEMMA RequestNextAccess ==
    ASSUME OneByOne, TypeInv, AccessInv, NEW f \in Flow, RequestNext(f)
    PROVE  AccessInv'
<1>1. ASSUME NEW s \in Sub, NEW u \in User, NEW p \in Plan, RequestCreate(f, s, u, p)
      PROVE  AccessInv'
    <2> DEFINE r == [kind |-> "create", sub |-> s, plan |-> p, until |-> NoDate, user |-> u,
                     id |-> 0]
    <2>1. /\ pc[f] = "idle" /\ ppStatus[s] = Absent /\ r.sub = s /\ r.kind = "create"
          /\ r.plan \in Plan /\ r.user \in User
          /\ pc' = [pc EXCEPT ![f] = "createLock"] /\ task' = [task EXCEPT ![f] = r]
          /\ doc' = [doc EXCEPT ![f] = None]
          /\ UNCHANGED <<subVars, userVars, ppVars, inbox, slips>>
        BY <1>1 DEF RequestCreate, BeginRequest, kept
    <2> HIDE DEF r
    <2> QED
        BY <2>1, PassKeeps
<1>2. ASSUME NEW s \in Sub, NEW u \in User,
             NEW kind \in {"cancel", "resume", "renewOn", "renewOff", "cancelDowngrade"},
             RequestChange(f, kind, s, u)
      PROVE  AccessInv'
    <2> DEFINE r == [kind |-> kind, sub |-> s, plan |-> NoPlan, until |-> NoDate, user |-> u,
                     id |-> 0]
    <2>1. /\ pc[f] = "idle" /\ owner[s] # NoUser /\ r.sub = s
          /\ r.kind \in ChangeKind \cup {"cancelDowngrade"}
          /\ pc' = [pc EXCEPT ![f] = "changeLock"] /\ task' = [task EXCEPT ![f] = r]
          /\ doc' = [doc EXCEPT ![f] = Doc(s)]
          /\ UNCHANGED <<subVars, userVars, ppVars, inbox, slips>>
        BY <1>2, NoneAssumption DEF RequestChange, Admits, BeginRequest, kept, ChangeKind
    <2> HIDE DEF r
    <2> QED
        BY <2>1, PassKeeps
<1> QED
    BY <1>1, <1>2 DEF RequestNext

\* Flows in the background: handlers, crons, faults.
LEMMA PassAccess ==
    ASSUME Sequential, TypeInv, AccessInv, NEW f \in Flow, NEW s \in Sub,
           \/ FindDeferred(f, s) \/ FindDowngrade(f, s) \/ FindToVerify(f, s) \/ FindOrphan(f, s)
    PROVE  AccessInv'
<1>1. \E kind : kind \in Kinds /\ ~(kind \in {"cronVerify", "cronOrphan"}) /\
          \/ /\ kind = "cronDeferred" /\ status[s] = "CANCELLED"
             /\ BeginPass(f, kind, s, "takeDeferred", Doc(s))
          \/ /\ kind = "cronDowngrade" /\ scheduled[s] # NoPlan
             /\ BeginPass(f, kind, s, "takeDowngrade", Doc(s))
    BY DEF Sequential, FindDeferred, FindDowngrade, FindToVerify, FindOrphan, BeginPass
<1>2. PICK kind, step :
          /\ BeginPass(f, kind, s, step, Doc(s))
          /\ \/ kind = "cronDeferred" /\ step = "takeDeferred" /\ status[s] = "CANCELLED"
             \/ kind = "cronDowngrade" /\ step = "takeDowngrade" /\ scheduled[s] # NoPlan
    BY <1>1
<1> DEFINE r == [kind |-> kind, sub |-> s, plan |-> NoPlan, until |-> NoDate, user |-> NoUser,
                 id |-> 0]
<1>3. /\ pc[f] = "idle" /\ r.sub = s /\ r.kind = kind
      /\ pc' = [pc EXCEPT ![f] = step] /\ task' = [task EXCEPT ![f] = r]
      /\ doc' = [doc EXCEPT ![f] = Doc(s)]
      /\ UNCHANGED <<subVars, userVars, ppVars, inbox, slips>>
    BY <1>2 DEF BeginPass
<1> HIDE DEF r
<1> QED
    BY <1>2, <1>3, PassKeeps DEF Sequential

LEMMA FlowAccess ==
    ASSUME Sequential, OneEach, TypeInv, TypeInv', StatusInv, AccessInv, NEW f \in Flow, FlowNext(f)
    PROVE  AccessInv'
<1>0. OneByOne
    BY DEF Sequential
<1>1. CASE pc[f] = "idle"
    <2>1. ASSUME ServiceNext(f) PROVE FALSE
        BY <1>1, <2>1 DEF ServiceNext, UpdateFromWebhook, UpdateStatus, CreateForStatus,
           ClaimActivation, LoadUser, SaveUser, Rollback, ActivationError, RollbackThrow,
           SyncBillingData, GrabDowngrade, SetGrabbedPlan, ReadForCancel, SetCancelled, ExpireFlag,
           ExpireLoad, ExpireSave, Suspend, DropPro, AskPayPalToResume, Resume, RaisePro, Attach,
           AttachRead, AttachAskPayPal, AttachUpsert
    <2>2. CASE DispatchNext(f)
        BY <1>0, <1>1, <2>2, DispatchKeeps DEF DispatchNext, ReadUpdated, Upgrade, ClearScheduled,
           ScheduleDowngrade
    <2>3. CASE ReconciliationNext(f)
        BY <1>1, <2>3, PassAccess DEF ReconciliationNext, TakeDeferred, TakeDowngrade, CopyFeatures,
           MarkApplied, VerifyWithPayPal, CorrectStatus, Heal
    <2>4. ~\E s \in Sub, u \in User : RequestAttach(f, s, u)
        BY DEF RequestAttach, Sequential
    <2>5. ~Crash(f) /\ ~Stall(f)
        BY <1>1 DEF Crash, Stall
    <2> QED
        BY <2>1, <2>2, <2>3, <2>4, <2>5 DEF FlowNext
<1>2. CASE pc[f] # "idle"
    <2> PICK s \in Sub : s = The(f)
        BY <1>2, Running DEF TypeInv
    <2>0. Kind(f) \in KindsAt(pc[f])
        BY <1>0, <1>2, Relies
    <2>1. CASE ServiceNext(f)
        <3>1. ~(Attach(f) \/ AttachRead(f) \/ AttachAskPayPal(f) \/ AttachUpsert(f))
            BY <2>0 DEF Attach, AttachRead, AttachAskPayPal, AttachUpsert, KindsAt
        <3> QED
            BY <1>0, <1>2, <2>1, <3>1, ActivationAccess, WriteAccess, CancelAccess, ExpireAccess,
               SuspendAccess, ResumeAccess DEF ServiceNext
    <2>2. CASE DispatchNext(f)
        BY <1>0, <1>2, <2>2, UpdatedAccess DEF DispatchNext, Dispatch
    <2>3. CASE ReconciliationNext(f)
        <3>1. ~(VerifyWithPayPal(f) \/ CorrectStatus(f) \/ Heal(f))
            BY <2>0 DEF VerifyWithPayPal, CorrectStatus, Heal, KindsAt
        <3> QED
            BY <1>0, <1>2, <2>3, <3>1, DeferredAccess, DowngradeAccess DEF ReconciliationNext,
               FindDeferred, FindDowngrade, FindToVerify, FindOrphan, BeginPass
    <2>4. CASE Crash(f) \/ Stall(f)
        BY <1>0, <1>2, <2>4, CrashAccess, StallAccess
    <2> QED
        BY <1>2, <2>1, <2>2, <2>3, <2>4 DEF FlowNext, RequestAttach
<1> QED
    BY <1>1, <1>2

LEMMA NextAccess ==
    ASSUME Sequential, OneEach, OneEach', TypeInv, TypeInv', StatusInv, AccessInv,
           [CheckoutNext]_checkoutVars
    PROVE  AccessInv'
<1>0. OneByOne
    BY DEF Sequential
<1>1. ASSUME NEW r \in Resource, ExpireLock(r) PROVE AccessInv'
    BY <1>1, SameAccess DEF ExpireLock
<1>2. CASE Tick \/ UNCHANGED checkoutVars
    BY <1>2, SameAccess DEF Tick, checkoutVars, vars
<1> QED
    BY <1>0, <1>1, <1>2, RequestNextAccess, RequestStepAccess, PayPalAccess, FlowAccess
       DEF CheckoutNext

\* The inductive invariant of the access: whoever pays has it or it is on its way
\* - an event in the queue, the flow at work, a claim a crash left - and whoever
\* does not is without it, or what takes it is on its way.
THEOREM AccessInvariant ==
    Sequential => (CheckoutSpec /\ []OneEach => [](TypeInv /\ AccessInv))
<1> SUFFICES ASSUME Sequential PROVE CheckoutSpec /\ []OneEach => [](TypeInv /\ AccessInv)
    OBVIOUS
<1>1. CheckoutInit => AccessInv
    BY NoneAssumption, RegisteredAssumption
       DEF CheckoutInit, Init, AccessInv, FlowOK, SubOK, DocOK, PaidOK, EndedOK, Pays, Present,
           Pending, Absent
<1>2. /\ TypeInv /\ TypeInv' /\ OneEach /\ OneEach' /\ StatusInv /\ AccessInv
      /\ [CheckoutNext]_checkoutVars
      => AccessInv'
    BY NextAccess
<1>3. CheckoutSpec => [](TypeInv /\ StatusInv)
    BY StatusInvariant DEF Sequential
<1> QED
    BY <1>1, <1>2, <1>3, PTL DEF CheckoutSpec

\* Once everything is handled, the access of a registered owner is what PayPal's
\* status stands for.
THEOREM AccessIsPayPals ==
    Sequential => (CheckoutSpec /\ []OneEach => []AccessAgrees)
<1>1. ASSUME TypeInv, AccessInv PROVE AccessAgrees
    <2> SUFFICES ASSUME NEW s \in Sub, Present(s), inbox = {}, \A f \in Flow : task[f] = None,
                        owner[s] \in Registered
                 PROVE  /\ ppStatus[s] = "ACTIVE" /\ applied[s]
                              => isPro[owner[s]] \/ "claimed" \in slips[s]
                        /\ ppStatus[s] = "EXPIRED" => ~isPro[owner[s]]
                        /\ ppStatus[s] = "SUSPENDED" => ~isPro[owner[s]] \/ "paused" \in slips[s]
                        /\ ppStatus[s] = "CANCELLED" /\ isPro[owner[s]]
                              => deferred[s] \/ "ending" \in slips[s]
        BY DEF AccessAgrees
    <2>1. ~Switch(s) /\ \A f \in Flow : pc[f] = "idle"
        BY <1>1 DEF Switch, TypeInv, FlowsOK
    <2>2. PaidOK(s) /\ EndedOK(s)
        BY <1>1 DEF AccessInv, SubOK
    <2> QED
        BY <2>1, <2>2 DEF PaidOK, EndedOK, Pays, Given, Spared, On, HasClaim
<1> QED
    BY <1>1, AccessInvariant, PTL

=============================================================================
