-------------------------- MODULE SubscriptionState --------------------------
(***************************************************************************)
(* The state the subscription code works on: the Subscription documents    *)
(* (collection payments), the User documents (collection mbot), PayPal's   *)
(* own view of each subscription, the webhook events it has sent, and the  *)
(* flows of control of the two processes.                                  *)
(*                                                                         *)
(* A field of a document is a function from its key.  A flow is an async   *)
(* function between two awaits: pc says which database or PayPal call it   *)
(* makes next, doc and pro are what it read and still relies on.           *)
(* Every step is one such call; MongoDB makes one call on one document     *)
(* atomic and nothing more.                                                *)
(*                                                                         *)
(* Dates are ticks of a clock: next_billing_date is compared with now and  *)
(* nothing else.  A plan is its plan_id; Rank is its place in TIERS.       *)
(***************************************************************************)
EXTENDS Naturals

CONSTANTS
    Sub, User, Flow,
    Plan,           \* plan ids with a document in the Plan collection
    Rank,           \* plan id -> rank of its name in TIERS
    Registered,     \* users with a document in mbot
    NoUser, NoPlan, NoDate,
    None,           \* no task, no document read, no pro_features
    InOrder,        \* whether events are handed out in the order they were sent
    Kinds,          \* bound: the PayPal events and tasks of a run
    MaxTime,        \* bound: ticks of the clock
    MaxEvents,      \* bound: events PayPal sends
    MaxTasks,       \* bound: API requests
    MaxFaults       \* bound: crashes, thrown errors, redeliveries

ASSUME RankAssumption == Rank \in [Plan -> Nat]
ASSUME NoneAssumption == NoUser \notin User /\ NoPlan \notin Plan
ASSUME RegisteredAssumption == Registered \subseteq User
ASSUME InOrderAssumption == InOrder \in BOOLEAN
ASSUME DateAssumption == MaxTime \in Nat /\ NoDate \notin Nat
ASSUME CountAssumption == MaxEvents \in Nat /\ MaxTasks \in Nat /\ MaxFaults \in Nat

Status == {"APPROVAL_PENDING", "ACTIVE", "SUSPENDED", "CANCELLED", "EXPIRED"}
Absent == "absent"
Date   == 0..MaxTime

EventKind == {"CREATED", "ACTIVATED", "UPDATED", "CANCELLED", "SUSPENDED",
              "RE_ACTIVATED", "EXPIRED", "SALE_COMPLETED", "RENEWED", "SALE_REFUNDED"}
TaskKind  == {"attach", "create", "cancel", "resume", "renewOn", "renewOff", "cancelDowngrade",
              "cronDeferred", "cronDowngrade", "cronVerify", "cronOrphan"}

\* What a flow works on: an event of the queue (id > 0) or a task.
Task == [kind : EventKind \cup TaskKind, sub : Sub, plan : Plan \cup {NoPlan},
         until : Date \cup {NoDate}, user : User \cup {NoUser}, id : 0..MaxEvents]

ASSUME NoTaskAssumption == None \notin Task

DocShape == [status : Status \cup {Absent}, owner : User \cup {NoUser},
             plan : Plan \cup {NoPlan}, scheduled : Plan \cup {NoPlan},
             nbd : Date \cup {NoDate}]

\* pro_features: the plan whose features were copied, and the subscription
\* named in its `subscription` field.
Features == [sub : Sub, plan : Plan]

ASSUME NoFeaturesAssumption == None \notin Features

VARIABLES
    \* Subscription documents
    status, owner, plan, applied, deferred, scheduled, nbd,
    \* User documents
    isPro, features,
    \* PayPal
    ppStatus, ppPlan, ppUntil, ppCustom, sent, inbox,
    \* flows
    pc, task, doc, pro, tasks,
    now, faults,
    \* history
    slips,          \* what went wrong with the subscription, see Slip
    past            \* what PayPal has reported of the subscription

subVars  == <<status, owner, plan, applied, deferred, scheduled, nbd>>
userVars == <<isPro, features>>
ppVars   == <<ppStatus, ppPlan, ppUntil, ppCustom, sent, past>>
flowVars == <<pc, task, doc, pro>>
vars == <<subVars, userVars, ppVars, inbox, flowVars, tasks, now, faults, slips>>

\* What findOne(...).lean() returns.
Doc(s) == [status |-> status[s], owner |-> owner[s], plan |-> plan[s],
           scheduled |-> scheduled[s], nbd |-> nbd[s]]

\* What PayPalService.getSubscription returns of it.
PayPalDoc(s) == [status |-> ppStatus[s], owner |-> NoUser, plan |-> ppPlan[s],
                 scheduled |-> NoPlan, nbd |-> NoDate]

Present(s) == status[s] # Absent

\* TIERS[plan.name] ?? 0
RankOf(p) == IF p \in Plan THEN Rank[p] ELSE 0

Over(d) == d # NoDate /\ d <= now

\* Flow f goes on with `step`, keeping what it has read ...
Goto(f, step) == pc' = [pc EXCEPT ![f] = step] /\ UNCHANGED <<task, doc, pro>>

\* ... or with a document just read ...
GotoWith(f, step, d) ==
    /\ pc' = [pc EXCEPT ![f] = step]
    /\ doc' = [doc EXCEPT ![f] = d]
    /\ UNCHANGED <<task, pro>>

\* ... or ends.
Return(f) ==
    /\ pc' = [pc EXCEPT ![f] = "idle"]
    /\ task' = [task EXCEPT ![f] = None]
    /\ doc' = [doc EXCEPT ![f] = None]
    /\ pro' = [pro EXCEPT ![f] = FALSE]

\* Mutant: a failed handler counts as done.
GiveBackNever(f) == UNCHANGED inbox

\* A flow that throws, or whose process dies, leaves its webhook job to be
\* run again; an API request or a cron pass is simply gone.
GiveBack(f) == inbox' = IF task[f].id > 0 THEN inbox \cup {task[f]} ELSE inbox

Fault == faults < MaxFaults /\ faults' = faults + 1

\* "claimed": an activation died after its claim.
\* "unclaimed": the process of an attach request died, and nobody retries it.
\* "takenOver": a second user was attached in place of the first.
\* "ending": a flow died between CANCELLED and the end of the access.
\* "overtaken": its end was handled before the features were granted.
\* "corrected": the verification cron stored the end before its event did.
\* "lost": a payment took a plan off the schedule and died before storing it.
\* "paused": its owner switched auto-renew off.
Slip == {"claimed", "unclaimed", "takenOver", "ending", "overtaken", "corrected", "lost", "paused"}

Init ==
    /\ status = [s \in Sub |-> Absent]
    /\ owner = [s \in Sub |-> NoUser]
    /\ plan = [s \in Sub |-> NoPlan]
    /\ applied = [s \in Sub |-> FALSE]
    /\ deferred = [s \in Sub |-> FALSE]
    /\ scheduled = [s \in Sub |-> NoPlan]
    /\ nbd = [s \in Sub |-> NoDate]
    /\ isPro = [u \in User |-> FALSE]
    /\ features = [u \in User |-> None]
    /\ ppStatus = [s \in Sub |-> Absent]
    /\ ppPlan = [s \in Sub |-> NoPlan]
    /\ ppUntil = [s \in Sub |-> NoDate]
    /\ ppCustom = [s \in Sub |-> NoUser]
    /\ sent = 0
    /\ past = [s \in Sub |-> {}]
    /\ inbox = {}
    /\ pc = [f \in Flow |-> "idle"]
    /\ task = [f \in Flow |-> None]
    /\ doc = [f \in Flow |-> None]
    /\ pro = [f \in Flow |-> FALSE]
    /\ tasks = 0
    /\ now = 0
    /\ faults = 0
    /\ slips = [s \in Sub |-> {}]
=============================================================================
