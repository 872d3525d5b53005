-------------------------- MODULE DeliveryContract --------------------------
(***************************************************************************)
(* What a delivery lane promises for a batch it was handed: at least once, *)
(* or a dead letter, or an abandonment it admits.  The lane owns the batch *)
(* until every event of it is settled; the collector may hand the batch    *)
(* over again.  Two lanes implement this contract: the Celery one          *)
(* (Dispatch), which abandons a message in two documented cases, and the   *)
(* Kafka one (KafkaPlane), which never does; pipeline._enqueue_routed      *)
(* chooses between them by EVENT_DATAPLANE.                                *)
(***************************************************************************)
CONSTANT Events   \* of the batch

VARIABLES
    owned,      \* the lane still answers for the batch
    settled,    \* events with a final outcome: accepted, dead-lettered or logged
    abandoned   \* a message for the batch was let go with events unsettled

vars == <<owned, settled, abandoned>>

Init == owned = TRUE /\ settled = {} /\ abandoned = FALSE

\* Outcomes are final; the lane lets go only of a batch that has them all, or of one
\* it admits to abandon.
Work ==
    /\ owned
    /\ settled' \in SUBSET Events
    /\ settled \subseteq settled'
    /\ owned' \in BOOLEAN /\ abandoned' \in BOOLEAN
    /\ abandoned => abandoned'
    /\ owned' \/ settled' = Events \/ abandoned'

\* The collector, whose cycle failed, hands the batch over again.
HandOverAgain ==
    /\ ~owned
    /\ owned' = TRUE
    /\ UNCHANGED <<settled, abandoned>>

Next == Work \/ HandOverAgain

\* A step that settles something.
Progress == Work /\ settled' # settled

Safety == Init /\ [][Next]_vars
Spec   == Safety /\ WF_vars(Progress)

=============================================================================
