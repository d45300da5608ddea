------------------------ MODULE AtLeastOnceDelivery ------------------------
(***************************************************************************)
(* What the outbox promises of an event: whoever is due it has been        *)
(* reached, perhaps more than once, before it counts as delivered; an      *)
(* event that cannot be delivered is given up, and neither end is taken    *)
(* back.  A recipient may stop being due (its subscription was revoked,    *)
(* what the event is about is gone, the account of the mailbox was erased),*)
(* and may be reached although it is not due, even after the event has come*)
(* to its end.                                                             *)
(***************************************************************************)
CONSTANTS Events, Recipients

VARIABLES outcome, due, reached

Init ==
    /\ outcome = [e \in Events |-> "none"]
    /\ due     = [e \in Events |-> {}]
    /\ reached = [e \in Events |-> {}]

Post(e) ==
    /\ outcome[e] = "none"
    /\ outcome' = [outcome EXCEPT ![e] = "waiting"]
    /\ \E recipients \in SUBSET Recipients : due' = [due EXCEPT ![e] = recipients]
    /\ UNCHANGED reached

Reach(e, r) ==
    /\ outcome[e] # "none"
    /\ reached' = [reached EXCEPT ![e] = @ \cup {r}]
    /\ UNCHANGED <<outcome, due>>

Excuse ==
    /\ \A e \in Events : due'[e] \subseteq due[e]
    /\ DOMAIN due' = Events
    /\ UNCHANGED <<outcome, reached>>

Deliver(e) ==
    /\ outcome[e] = "waiting" /\ due[e] \subseteq reached[e]
    /\ outcome' = [outcome EXCEPT ![e] = "delivered"]
    /\ UNCHANGED <<due, reached>>

Abandon(e) ==
    /\ outcome[e] = "waiting"
    /\ outcome' = [outcome EXCEPT ![e] = "abandoned"]
    /\ UNCHANGED <<due, reached>>

Next ==
    \/ \E e \in Events : Post(e) \/ Deliver(e) \/ Abandon(e)
    \/ \E e \in Events, r \in Recipients : Reach(e, r)
    \/ Excuse

Spec == Init /\ [][Next]_<<outcome, due, reached>>

=============================================================================
