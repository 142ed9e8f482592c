---------------------------- MODULE EventDelivery ----------------------------
(***************************************************************************)
(* What the webhook path promises of an event, without queue, idempotency  *)
(* layers, slots or attempts: once taken on it is never lost, it counts as *)
(* processed for good and only after its handlers ran to the end, and its  *)
(* handlers begin a second time only after trouble.  WebhookPipeline       *)
(* implements it (Delivery, there).                                        *)
(***************************************************************************)
CONSTANT Event

VARIABLES
    fate,       \* event -> what became of it
    runs,       \* event -> times its handlers began
    finished,   \* event -> its handlers ran to the end
    troubled    \* event -> an attempt of it failed, died or was overtaken

deliveryVars == <<fate, runs, finished, troubled>>

Fate == {"sent", "turnedAway", "kept", "givenUp", "processed"}
Runs == {"none", "once", "again"}

DeliveryTypeOK ==
    /\ fate \in [Event -> Fate]
    /\ runs \in [Event -> Runs]
    /\ finished \in [Event -> BOOLEAN]
    /\ troubled \in [Event -> BOOLEAN]

DeliveryInit ==
    /\ fate = [e \in Event |-> "sent"]
    /\ runs = [e \in Event |-> "none"]
    /\ finished = [e \in Event |-> FALSE]
    /\ troubled = [e \in Event |-> FALSE]

TurnAway(e) ==
    /\ fate[e] = "sent"
    /\ fate' = [fate EXCEPT ![e] = "turnedAway"]
    /\ UNCHANGED <<runs, finished, troubled>>

\* A rejected event may still come again.
TakeOn(e) ==
    /\ fate[e] \in {"sent", "turnedAway"}
    /\ fate' = [fate EXCEPT ![e] = "kept"]
    /\ UNCHANGED <<runs, finished, troubled>>

\* Handlers begin: once for an event that is kept, and again after trouble,
\* even for an event that meanwhile was processed or given up.
BeginRun(e) ==
    /\ \/ fate[e] = "kept" /\ runs[e] = "none"
       \/ fate[e] \in {"kept", "givenUp", "processed"} /\ troubled[e]
    /\ runs' = [runs EXCEPT ![e] = IF @ = "none" THEN "once" ELSE "again"]
    /\ UNCHANGED <<fate, finished, troubled>>

FinishRun(e) ==
    /\ runs[e] # "none"
    /\ finished' = [finished EXCEPT ![e] = TRUE]
    /\ UNCHANGED <<fate, runs, troubled>>

\* An event that was given up may still be processed by the attempt that was
\* taken for dead.
Process(e) ==
    /\ fate[e] \in {"kept", "givenUp"}
    /\ finished[e]
    /\ fate' = [fate EXCEPT ![e] = "processed"]
    /\ UNCHANGED <<runs, finished, troubled>>

\* Trouble may be the end of an event that was not processed yet, and of
\* nothing else.
Trouble(e) ==
    /\ fate[e] \in {"kept", "givenUp", "processed"}
    /\ troubled' = [troubled EXCEPT ![e] = TRUE]
    /\ \/ UNCHANGED fate
       \/ fate[e] = "kept" /\ fate' = [fate EXCEPT ![e] = "givenUp"]
    /\ UNCHANGED <<runs, finished>>

DeliveryNext ==
    \E e \in Event :
        \/ TurnAway(e) \/ TakeOn(e)
        \/ BeginRun(e) \/ FinishRun(e) \/ Process(e) \/ Trouble(e)

DeliverySpec == DeliveryInit /\ [][DeliveryNext]_deliveryVars
=============================================================================
