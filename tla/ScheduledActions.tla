-------------------------- MODULE ScheduledActions --------------------------
(***************************************************************************)
(* The durable queue of scheduled actions and the worker's scheduled       *)
(* consumer: claims under a lease and a fencing token (claim_version), the *)
(* execution transaction, retries, attempts, crashes.                      *)
(*                                                                         *)
(* Time is abstracted to what the statements compare it with: whether      *)
(* available_at has come (ready) and whether lease_expires_at has passed   *)
(* (expired).  A batch of claims is a sequence of single claims; actions   *)
(* share nothing but the workers.  A claim is what the worker process      *)
(* holds in memory, its phases the awaits of executeClaim at which other   *)
(* transactions run.                                                       *)
(***************************************************************************)
EXTENDS Naturals

CONSTANTS
    Actions,         \* ids of scheduled actions
    Workers,         \* worker identities
    NoWorker,        \* claimed_by is null
    MaxAttempts,     \* max_attempts, 12 unless the caller says otherwise
    MaxGeneration    \* bound: generations of an aggregate

ASSUME WorkersAssumption == NoWorker \notin Workers
ASSUME LimitsAssumption == MaxAttempts \in Nat \ {0} /\ MaxGeneration \in Nat

VARIABLES
    action,       \* scheduled_actions rows
    generation,   \* generation of the aggregate an action is about
    claims,       \* claims in the memory of the workers
    effects       \* how often the effect of an action was committed

vars == <<action, generation, claims, effects>>

Final  == {"completed", "failed", "stale", "cancelled"}
Status == {"absent", "pending", "processing"} \cup Final

\* expected = 0 is a null expected_generation.
ActionRow == [status : Status, ready : BOOLEAN, expired : BOOLEAN, by : Workers \cup {NoWorker},
              version : Nat, attempts : 0 .. MaxAttempts, expected : Nat]
Phase     == {"claimed", "locked", "guarded", "failing", "retrying"}
Claim     == [worker : Workers, action : Actions, version : Nat, phase : Phase]

TypeOK ==
    /\ action \in [Actions -> ActionRow]
    /\ generation \in [Actions -> Nat]
    /\ claims \subseteq Claim
    /\ effects \in [Actions -> Nat]

Init ==
    /\ action = [i \in Actions |-> [status |-> "absent", ready |-> FALSE, expired |-> FALSE,
                                    by |-> NoWorker, version |-> 0, attempts |-> 0, expected |-> 0]]
    /\ generation = [i \in Actions |-> 1]
    /\ claims = {}
    /\ effects = [i \in Actions |-> 0]

-----------------------------------------------------------------------------
(* The API and the clock.                                                   *)

Schedule(i) ==
    /\ action[i].status = "absent"
    /\ \E expected \in {0, generation[i]} :
           action' = [action EXCEPT ![i].status = "pending", ![i].expected = expected]
    /\ UNCHANGED <<generation, claims, effects>>

\* A handler moves the aggregate on and cancels the actions that are pending; one
\* that a worker has claimed is not.
Supersede(i) ==
    /\ generation[i] < MaxGeneration
    /\ generation' = [generation EXCEPT ![i] = @ + 1]
    /\ action' = IF action[i].status = "pending"
                 THEN [action EXCEPT ![i].status = "cancelled"]
                 ELSE action
    /\ UNCHANGED <<claims, effects>>

\* available_at comes, or a recovery brings it forward.
Due(i) ==
    /\ action[i].status = "pending" /\ ~ action[i].ready
    /\ action' = [action EXCEPT ![i].ready = TRUE]
    /\ UNCHANGED <<generation, claims, effects>>

ExpireLease(i) ==
    /\ action[i].status = "processing" /\ ~ action[i].expired
    /\ action' = [action EXCEPT ![i].expired = TRUE]
    /\ UNCHANGED <<generation, claims, effects>>

-----------------------------------------------------------------------------
(* Claiming.                                                                *)

\* Mutation: the claim does not skip locked rows.
Unlocked_Always(i) == TRUE

\* The row lock that lockScheduledActionClaim took is held to the end of the
\* execution transaction.
Unlocked(i) == ~ \E c \in claims : c.action = i /\ c.phase \in {"locked", "guarded"}

\* Mutation: attempts are not limited.
Claimable_Unlimited(i) ==
    \/ action[i].status = "pending" /\ action[i].ready
    \/ action[i].status = "processing" /\ action[i].expired

\* Mutation: a claim whose lease expired is not taken over.
Claimable_PendingOnly(i) ==
    action[i].attempts < MaxAttempts /\ action[i].status = "pending" /\ action[i].ready

Claimable(i) ==
    /\ action[i].attempts < MaxAttempts
    /\ \/ action[i].status = "pending" /\ action[i].ready
       \/ action[i].status = "processing" /\ action[i].expired

ClaimAction(w, i) ==
    /\ Claimable(i) /\ Unlocked(i)
    /\ action' = [action EXCEPT ![i] =
            [status |-> "processing", ready |-> FALSE, expired |-> FALSE, by |-> w,
             version |-> @.version + 1, attempts |-> @.attempts + 1, expected |-> @.expected]]
    /\ claims' = claims \cup
            {[worker |-> w, action |-> i, version |-> action[i].version + 1, phase |-> "claimed"]}
    /\ UNCHANGED <<generation, effects>>

-----------------------------------------------------------------------------
(* executeClaim.                                                            *)

\* The fence of every acknowledgement.
Owns(c) ==
    /\ action[c.action].status = "processing"
    /\ action[c.action].by = c.worker
    /\ action[c.action].version = c.version

Enter(c, phase) == claims' = (claims \ {c}) \cup {[c EXCEPT !.phase = phase]}

\* lockScheduledActionClaim; without the row the transaction does nothing.
Lock(c) ==
    /\ c.phase = "claimed"
    /\ IF Owns(c) /\ ~ action[c.action].expired
       THEN Enter(c, "locked")
       ELSE claims' = claims \ {c}
    /\ UNCHANGED <<action, generation, effects>>

Released(row, status) ==
    [row EXCEPT !.status = status, !.by = NoWorker, !.expired = FALSE]

\* Mutation: the acknowledgement is not part of the handler's transaction.
Finish_Outside(c, status) == action' = action

Finish(c, status) == action' = [action EXCEPT ![c.action] = Released(@, status)]

\* The transaction committed.  The worker may see an error all the same and go
\* on to the retry statement.
Committed(c) == claims' = claims \ {c} \/ Enter(c, "retrying")

\* No handler for the type and payload version.
Unsupported(c) ==
    /\ c.phase = "locked"
    /\ Finish(c, "failed") /\ Committed(c)
    /\ UNCHANGED <<generation, effects>>

Expected(i) == action[i].expected = 0 \/ action[i].expected = generation[i]

GenerationGuard(c) ==
    /\ c.phase = "locked"
    /\ IF Expected(c.action)
       THEN Enter(c, "guarded") /\ action' = action
       ELSE Finish(c, "stale") /\ Committed(c)
    /\ UNCHANGED <<generation, effects>>

\* Mutation: the handler trusts the consumer's guard.
StillExpected_Trusted(i) == TRUE

\* The guard read the generation before the handler locked the aggregate; under
\* that lock the handler compares it again.
StillExpected(i) == Expected(i)

\* The handler's mutation and the acknowledgement commit together.
Complete(c) ==
    /\ c.phase = "guarded"
    /\ StillExpected(c.action)
    /\ effects' = [effects EXCEPT ![c.action] = @ + 1]
    /\ Finish(c, "completed") /\ Committed(c)
    /\ UNCHANGED generation

\* The handler found nothing to do.
CompleteIdle(c) ==
    /\ c.phase = "guarded"
    /\ \E status \in {"completed", "stale"} : Finish(c, status)
    /\ Committed(c)
    /\ UNCHANGED <<generation, effects>>

\* The handler asked to come back later: no attempt is given back.
Reschedule(c) ==
    /\ c.phase = "guarded"
    /\ Finish(c, "pending") /\ Committed(c)
    /\ UNCHANGED <<generation, effects>>

\* withTransaction starts the whole transaction again after a deadlock.
Restart(c) ==
    /\ c.phase \in {"locked", "guarded"}
    /\ Enter(c, "claimed")
    /\ UNCHANGED <<action, generation, effects>>

\* The transaction rolled back, on a permanent error or any other.
RollBack(c) ==
    /\ c.phase \in {"claimed", "locked", "guarded"}
    /\ Enter(c, "failing") \/ Enter(c, "retrying")
    /\ UNCHANGED <<action, generation, effects>>

\* failScheduledAction on the pool.
Fail(c) ==
    /\ c.phase = "failing"
    /\ IF Owns(c) THEN Finish(c, "failed") ELSE action' = action
    /\ claims' = claims \ {c}
    /\ UNCHANGED <<generation, effects>>

\* retryScheduledAction on the pool.
Retry(c) ==
    /\ c.phase = "retrying"
    /\ IF Owns(c)
       THEN Finish(c, IF action[c.action].attempts >= MaxAttempts THEN "failed" ELSE "pending")
       ELSE action' = action
    /\ claims' = claims \ {c}
    /\ UNCHANGED <<generation, effects>>

\* The worker's process ends, or its retry statement fails too.
Lose(c) ==
    /\ claims' = claims \ {c}
    /\ UNCHANGED <<action, generation, effects>>

-----------------------------------------------------------------------------
ExecuteStep(c) ==
    \/ Lock(c) \/ Unsupported(c) \/ GenerationGuard(c)
    \/ Complete(c) \/ CompleteIdle(c) \/ Reschedule(c)
    \/ Restart(c) \/ RollBack(c) \/ Fail(c) \/ Retry(c)

Next ==
    \/ \E i \in Actions : Schedule(i) \/ Supersede(i) \/ Due(i) \/ ExpireLease(i)
    \/ \E w \in Workers, i \in Actions : ClaimAction(w, i)
    \/ \E c \in claims : ExecuteStep(c) \/ Lose(c)

Spec == Init /\ [][Next]_vars

\* Time passes; some worker polls; a worker that lives carries on with its claim.
Fairness ==
    \A i \in Actions :
        /\ WF_vars(Due(i)) /\ WF_vars(ExpireLease(i))
        /\ WF_vars(\E w \in Workers : ClaimAction(w, i))
        /\ WF_vars(\E c \in claims : c.action = i /\ ExecuteStep(c))

FairSpec == Spec /\ Fairness

-----------------------------------------------------------------------------
(* Properties.                                                              *)

\* While an execution transaction holds the row, its claim stays the current
\* one, even past the end of its lease: no other worker takes the action over.
ExecutionOwnsRow ==
    \A c \in claims : c.phase \in {"locked", "guarded"} => Owns(c)

\* The effect is applied only for the generation the action was scheduled for,
\* although the guard reads it before the aggregate is locked.
EffectFenced ==
    [][\A i \in Actions : effects'[i] # effects[i] => Expected(i)]_vars

\* The abstract outcome of an action.
Outcome == [i \in Actions |->
    IF effects[i] > 1 THEN "applied twice"
    ELSE IF effects[i] = 1 THEN "applied"
    ELSE IF action[i].status = "absent" THEN "none"
    ELSE IF action[i].status \in Final THEN "discarded"
    ELSE "waiting"]

AtMostOnce == INSTANCE AtMostOnceEffect WITH outcome <- Outcome

\* Leases, takeovers, retries and lost acknowledgements never apply an effect
\* twice, nor the effect of an action already discarded.
ImplementsAtMostOnce == AtMostOnce!Spec

\* A scheduled action comes to an end, or uses up its attempts, however often
\* workers stop between a claim and its acknowledgement.
ActionSettles ==
    \A i \in Actions :
        action[i].status = "pending"
            ~> (action[i].status \in Final \/ action[i].attempts = MaxAttempts)

\* As documented: if a worker dies while a row is processing, an expired lease
\* makes that work reclaimable.
ExpiredLeaseReclaimable ==
    \A i \in Actions :
        /\ action[i].status = "processing" /\ action[i].expired
        /\ ~ \E c \in claims : c.action = i
        => Claimable(i)

=============================================================================
