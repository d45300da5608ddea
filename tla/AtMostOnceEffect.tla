-------------------------- MODULE AtMostOnceEffect --------------------------
(***************************************************************************)
(* What the durable queue promises of a scheduled action: its effect is    *)
(* applied at most once, and an action that was discarded (stale,          *)
(* cancelled, failed or found to have nothing to do) is never applied.     *)
(***************************************************************************)
CONSTANT Actions

VARIABLE outcome

Init == outcome = [i \in Actions |-> "none"]

Schedule(i) == outcome[i] = "none"    /\ outcome' = [outcome EXCEPT ![i] = "waiting"]
Apply(i)    == outcome[i] = "waiting" /\ outcome' = [outcome EXCEPT ![i] = "applied"]
Discard(i)  == outcome[i] = "waiting" /\ outcome' = [outcome EXCEPT ![i] = "discarded"]

Next == \E i \in Actions : Schedule(i) \/ Apply(i) \/ Discard(i)

Spec == Init /\ [][Next]_outcome

=============================================================================
