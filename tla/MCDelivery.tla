----------------------------- MODULE MCDelivery -----------------------------
(* The outbox, the deletion manifests and the offline queues on small        *)
(* instances.  They share no state: a behaviour is one of one of them,       *)
(* chosen in the initial state.                                              *)
EXTENDS Outbox, DeletionManifests, OfflineReplay

VARIABLE focus

vars == <<focus, outboxVars, deletionVars, offlineVars>>

Init ==
    /\ focus \in {"outbox", "deletion", "offline"}
    /\ OutboxInit /\ DeletionInit /\ OfflineInit

InOutbox   == focus = "outbox" /\ UNCHANGED <<focus, deletionVars, offlineVars>>
InDeletion == focus = "deletion" /\ UNCHANGED <<focus, outboxVars, offlineVars>>
InOffline  == focus = "offline" /\ UNCHANGED <<focus, outboxVars, deletionVars>>

Next ==
    \/ InOutbox /\ OutboxNext
    \/ InDeletion /\ DeletionNext
    \/ InOffline /\ OfflineNext

TypeOK == OutboxTypeOK /\ DeletionTypeOK /\ OfflineTypeOK

\* The poll loops of the workers and the replay engines of the tabs come back for ever,
\* and what they have begun goes on unless the worker dies or the tab is closed; the
\* clock moves; an open tab connects.
Fairness ==
    /\ WF_vars(InOutbox /\ \E e \in Events : EventDue(e))
    /\ WF_vars(InOutbox /\ \E e \in Events : EventLeaseExpires(e))
    /\ WF_vars(InOutbox /\ \E w \in Consumers, e \in Events : ClaimEvent(w, e))
    /\ WF_vars(InOutbox /\ \E d \in deliveries : Deliver(d) \/ Settle(d))
    /\ \A t \in Targets :
           /\ WF_vars(InDeletion /\ TargetDue(t))
           /\ WF_vars(InDeletion /\ TargetLeaseExpires(t))
           /\ WF_vars(InDeletion /\ \E w \in Erasers : ClaimTarget(w, t))
           /\ WF_vars(InDeletion /\ \E r \in runs : r.target = t /\ Advance(r))
    /\ \A o \in Ops :
           /\ WF_vars(InOffline /\ RetryComesDue(o))
           /\ WF_vars(InOffline /\ ClaimLapses(o))
    /\ \A t \in Tabs :
           /\ WF_vars(InOffline /\ Ready(t))
           /\ WF_vars(InOffline /\ Engine(t))

Spec == Init /\ [][Next]_vars /\ Fairness

=============================================================================
