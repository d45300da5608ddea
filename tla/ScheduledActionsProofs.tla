----------------------- MODULE ScheduledActionsProofs -----------------------
(***************************************************************************)
(* Theorems of ScheduledActions, for any number of workers, actions and    *)
(* attempts.                                                               *)
(***************************************************************************)
EXTENDS ScheduledActions, TLAPS

LEMMA EnterType ==
    ASSUME TypeOK, NEW c \in claims, NEW phase \in Phase, Enter(c, phase)
    PROVE  claims' \subseteq Claim
BY DEF TypeOK, Enter, Claim

LEMMA FinishType ==
    ASSUME TypeOK, NEW c \in claims, NEW status \in Status, Finish(c, status)
    PROVE  action' \in [Actions -> ActionRow]
<1>1. c.action \in Actions
  BY DEF TypeOK, Claim
<1>2. ASSUME NEW row \in ActionRow PROVE Released(row, status) \in ActionRow
  <2>1. [row EXCEPT !.status = status] \in ActionRow
    BY DEF ActionRow
  <2>2. ASSUME NEW r1 \in ActionRow PROVE [r1 EXCEPT !.by = NoWorker] \in ActionRow
    BY DEF ActionRow
  <2>3. ASSUME NEW r1 \in ActionRow PROVE [r1 EXCEPT !.expired = FALSE] \in ActionRow
    BY DEF ActionRow
  <2>4. Released(row, status)
            = [[[row EXCEPT !.status = status] EXCEPT !.by = NoWorker] EXCEPT !.expired = FALSE]
    BY DEF Released, ActionRow
  <2> QED
    BY <2>1, <2>2, <2>3, <2>4
<1>3. action' = [action EXCEPT ![c.action] = Released(action[c.action], status)]
  BY DEF Finish
<1> QED
  BY <1>1, <1>2, <1>3 DEF TypeOK

LEMMA CommittedType ==
    ASSUME TypeOK, NEW c \in claims, Committed(c)
    PROVE  claims' \subseteq Claim
BY EnterType DEF Committed, TypeOK, Phase

\* What the rows of the queue look like after a step of the API or of the clock.
LEMMA ApiType ==
    ASSUME TypeOK, NEW i \in Actions, Schedule(i) \/ Supersede(i) \/ Due(i) \/ ExpireLease(i)
    PROVE  TypeOK'
<1>1. CASE Schedule(i)
  <2>1. PICK expected \in {0, generation[i]} :
            action' = [action EXCEPT ![i].status = "pending", ![i].expected = expected]
    BY <1>1 DEF Schedule
  <2>2. expected \in Nat
    BY DEF TypeOK
  <2> DEFINE once == [action EXCEPT ![i].status = "pending"]
  <2>3. once \in [Actions -> ActionRow]
    BY DEF TypeOK, ActionRow, Status, Final
  <2>4. action' = [once EXCEPT ![i].expected = expected]
    BY <2>1 DEF TypeOK, ActionRow
  <2> HIDE DEF once
  <2>5. action' \in [Actions -> ActionRow]
    BY <2>2, <2>3, <2>4 DEF ActionRow
  <2> QED
    BY <1>1, <2>5 DEF Schedule, TypeOK
<1>2. CASE Supersede(i)
  BY <1>2 DEF Supersede, TypeOK, ActionRow, Status, Final
<1>3. CASE Due(i)
  BY <1>3 DEF Due, TypeOK, ActionRow
<1>4. CASE ExpireLease(i)
  BY <1>4 DEF ExpireLease, TypeOK, ActionRow
<1> QED
  BY <1>1, <1>2, <1>3, <1>4

\* They leave the claims, the fencing tokens and the claimed rows alone.
LEMMA ApiKeepsClaims ==
    ASSUME TypeOK, NEW i \in Actions, Schedule(i) \/ Supersede(i) \/ Due(i) \/ ExpireLease(i)
    PROVE  /\ claims' = claims
           /\ \A j \in Actions :
                  /\ action'[j].version = action[j].version
                  /\ action'[j].by = action[j].by
                  /\ action[j].status = "processing" => action'[j].status = "processing"
<1>1. CASE Schedule(i)
  <2>1. PICK expected \in {0, generation[i]} :
            action' = [action EXCEPT ![i].status = "pending", ![i].expected = expected]
    BY <1>1 DEF Schedule
  <2> DEFINE once == [action EXCEPT ![i].status = "pending"]
  <2>2. /\ once \in [Actions -> ActionRow]
        /\ once[i].version = action[i].version /\ once[i].by = action[i].by
        /\ \A j \in Actions \ {i} : once[j] = action[j]
    BY DEF TypeOK, ActionRow, Status, Final
  <2>3. action' = [once EXCEPT ![i].expected = expected]
    BY <2>1 DEF TypeOK, ActionRow
  <2> HIDE DEF once
  <2>4. action'[i].version = action[i].version /\ action'[i].by = action[i].by
    BY <2>2, <2>3 DEF ActionRow
  <2>5. \A j \in Actions \ {i} : action'[j] = action[j]
    BY <2>2, <2>3
  <2> QED
    BY <1>1, <2>4, <2>5 DEF Schedule
<1>2. CASE Supersede(i)
  BY <1>2 DEF Supersede, TypeOK, ActionRow
<1>3. CASE Due(i)
  BY <1>3 DEF Due, TypeOK, ActionRow
<1>4. CASE ExpireLease(i)
  BY <1>4 DEF ExpireLease, TypeOK, ActionRow
<1> QED
  BY <1>1, <1>2, <1>3, <1>4

LEMMA ClaimType ==
    ASSUME TypeOK, NEW w \in Workers, NEW i \in Actions, ClaimAction(w, i)
    PROVE  TypeOK'
<1> DEFINE row == [status |-> "processing", ready |-> FALSE, expired |-> FALSE, by |-> w,
                   version |-> action[i].version + 1, attempts |-> action[i].attempts + 1,
                   expected |-> action[i].expected]
<1>1. action[i].version + 1 \in Nat /\ action[i].attempts + 1 \in 0 .. MaxAttempts
  BY LimitsAssumption DEF TypeOK, ClaimAction, Claimable, ActionRow
<1>2. row \in ActionRow
  BY <1>1 DEF TypeOK, ActionRow, Status
<1>3. action' \in [Actions -> ActionRow]
  BY <1>2 DEF ClaimAction, TypeOK
<1>4. claims' \subseteq Claim
  BY <1>1 DEF ClaimAction, TypeOK, Claim, Phase
<1> QED
  BY <1>3, <1>4 DEF ClaimAction, TypeOK

LEMMA ExecuteType ==
    ASSUME TypeOK, NEW c \in claims, ExecuteStep(c) \/ Lose(c)
    PROVE  TypeOK'
<1>1. claims' \subseteq Claim
  BY EnterType, CommittedType DEF ExecuteStep, Lock, Unsupported, GenerationGuard, Complete,
     CompleteIdle, Reschedule, Restart, RollBack, Fail, Retry, Lose, TypeOK, Phase
<1>2. action' \in [Actions -> ActionRow]
  BY FinishType DEF ExecuteStep, Lock, Unsupported, GenerationGuard, Complete,
     CompleteIdle, Reschedule, Restart, RollBack, Fail, Retry, Lose, TypeOK, Status, Final
<1>3. effects' \in [Actions -> Nat] /\ generation' = generation
  BY DEF ExecuteStep, Lock, Unsupported, GenerationGuard, Complete,
     CompleteIdle, Reschedule, Restart, RollBack, Fail, Retry, Lose, TypeOK
<1> QED
  BY <1>1, <1>2, <1>3 DEF TypeOK

LEMMA StepType == TypeOK /\ [Next]_vars => TypeOK'
<1> SUFFICES ASSUME TypeOK, [Next]_vars PROVE TypeOK'
  OBVIOUS
<1>1. CASE UNCHANGED vars
  BY <1>1 DEF vars, TypeOK
<1> QED
  BY <1>1, ApiType, ClaimType, ExecuteType DEF Next

LEMMA InitType == Init => TypeOK
BY LimitsAssumption DEF Init, TypeOK, ActionRow, Status

\* The rows and the claims keep their types; no action is claimed more often
\* than max_attempts.
THEOREM TypeCorrect == Spec => []TypeOK
BY InitType, StepType, PTL DEF Spec

-----------------------------------------------------------------------------
(* One claim per version: the fencing token names it.                       *)

Fenced ==
    /\ \A c \in claims : c.version <= action[c.action].version
    /\ \A c, d \in claims : c.action = d.action /\ c.version = d.version => c = d

IInv == TypeOK /\ Fenced /\ ExecutionOwnsRow

\* A step of a claim changes nothing but its own phase, and its action's row
\* only when it owns it.
ActsOnOwn(c) ==
    /\ \/ claims' = claims \ {c}
       \/ \E phase \in Phase : Enter(c, phase)
    /\ \/ action' = action
       \/ Owns(c) /\ \E status \in Status : Finish(c, status)

LEMMA ExecuteActsOnOwn ==
    ASSUME TypeOK, ExecutionOwnsRow, NEW c \in claims, ExecuteStep(c) \/ Lose(c)
    PROVE  ActsOnOwn(c)
<1>1. \/ claims' = claims \ {c}
      \/ \E phase \in Phase : Enter(c, phase)
  BY DEF ExecuteStep, Lock, Unsupported, GenerationGuard, Complete, Committed,
     CompleteIdle, Reschedule, Restart, RollBack, Fail, Retry, Lose, Phase
<1>2. \/ action' = action
      \/ Owns(c) /\ \E status \in Status : Finish(c, status)
  BY DEF ExecutionOwnsRow, ExecuteStep, Lock, Unsupported, GenerationGuard, Complete,
     CompleteIdle, Reschedule, Restart, RollBack, Fail, Retry, Lose, Status, Final
<1> QED
  BY <1>1, <1>2 DEF ActsOnOwn

LEMMA FinishKeepsVersions ==
    ASSUME TypeOK, NEW c \in claims, NEW status \in Status, Finish(c, status)
    PROVE  \A i \in Actions : action'[i].version = action[i].version
BY DEF Finish, Released, TypeOK, ActionRow, Claim

LEMMA FencedStep ==
    ASSUME TypeOK, Fenced, ExecutionOwnsRow, [Next]_vars
    PROVE  Fenced'
<1>1. CASE \/ UNCHANGED vars
           \/ \E i \in Actions : Schedule(i) \/ Supersede(i) \/ Due(i) \/ ExpireLease(i)
  <2>1. claims' = claims /\ \A i \in Actions : action'[i].version = action[i].version
    BY <1>1, ApiKeepsClaims DEF vars
  <2> QED
    BY <2>1 DEF Fenced, TypeOK, Claim
<1>2. ASSUME NEW w \in Workers, NEW i \in Actions, ClaimAction(w, i) PROVE Fenced'
  <2> DEFINE n == [worker |-> w, action |-> i, version |-> action[i].version + 1,
                   phase |-> "claimed"]
  <2>1. claims' = claims \cup {n}
    BY <1>2 DEF ClaimAction
  <2>2. /\ action'[i].version = action[i].version + 1
        /\ action[i].version \in Nat
        /\ \A j \in Actions \ {i} : action'[j] = action[j]
    BY <1>2 DEF ClaimAction, TypeOK, ActionRow
  <2>3. \A c \in claims : c.action \in Actions /\ c.version \in Nat
    BY DEF TypeOK, Claim
  <2>4. \A c \in claims : c.action = i => c.version < action[i].version + 1
    BY <2>2, <2>3 DEF Fenced
  <2>5. \A c \in claims' : c.version <= action'[c.action].version
    BY <2>1, <2>2, <2>3, <2>4 DEF Fenced
  <2>6. \A c, d \in claims' : c.action = d.action /\ c.version = d.version => c = d
    BY <2>1, <2>2, <2>3, <2>4 DEF Fenced
  <2> QED
    BY <2>5, <2>6 DEF Fenced
<1>3. ASSUME NEW c \in claims, ExecuteStep(c) \/ Lose(c) PROVE Fenced'
  <2>1. ActsOnOwn(c)
    BY <1>3, ExecuteActsOnOwn
  <2>2. \A i \in Actions : action'[i].version = action[i].version
    BY <2>1, FinishKeepsVersions DEF ActsOnOwn
  <2>3. CASE claims' = claims \ {c}
    BY <2>2, <2>3 DEF Fenced, TypeOK, Claim
  <2>4. ASSUME NEW phase \in Phase, Enter(c, phase) PROVE Fenced'
    <3> DEFINE e == [c EXCEPT !.phase = phase]
    <3>1. claims' = (claims \ {c}) \cup {e}
      BY <2>4 DEF Enter
    <3>2. e.action = c.action /\ e.version = c.version /\ c.action \in Actions
      BY DEF TypeOK, Claim
    <3> HIDE DEF e
    <3> QED
      BY <2>2, <3>1, <3>2 DEF Fenced, TypeOK, Claim
  <2> QED
    BY <2>1, <2>3, <2>4 DEF ActsOnOwn
<1> QED
  BY <1>1, <1>2, <1>3 DEF Next

Executing(c) == c.phase \in {"locked", "guarded"}

LEMMA OwnsStep ==
    ASSUME TypeOK, Fenced, ExecutionOwnsRow, [Next]_vars
    PROVE  ExecutionOwnsRow'
<1>1. CASE \/ UNCHANGED vars
           \/ \E i \in Actions : Schedule(i) \/ Supersede(i) \/ Due(i) \/ ExpireLease(i)
  <2>1. /\ claims' = claims
        /\ \A i \in Actions : action[i].status = "processing" =>
               /\ action'[i].status = "processing"
               /\ action'[i].by = action[i].by
               /\ action'[i].version = action[i].version
    BY <1>1, ApiKeepsClaims DEF vars
  <2> QED
    BY <2>1 DEF ExecutionOwnsRow, Owns, TypeOK, Claim
<1>2. ASSUME NEW w \in Workers, NEW i \in Actions, ClaimAction(w, i) PROVE ExecutionOwnsRow'
  <2>1. \A j \in Actions \ {i} : action'[j] = action[j]
    BY <1>2 DEF ClaimAction, TypeOK
  <2>2. \A c \in claims' : Executing(c) => c \in claims /\ c.action \in Actions \ {i}
    BY <1>2 DEF ClaimAction, Unlocked, Executing, TypeOK, Claim
  <2> QED
    BY <2>1, <2>2 DEF ExecutionOwnsRow, Owns, Executing
<1>3. ASSUME NEW c \in claims, ExecuteStep(c) \/ Lose(c) PROVE ExecutionOwnsRow'
  <2>1. ActsOnOwn(c)
    BY <1>3, ExecuteActsOnOwn
  <2>2. ASSUME NEW d \in claims \ {c}, Executing(d) PROVE Owns(d)'
    <3>1. Owns(d) /\ d.action \in Actions
      BY <2>2 DEF ExecutionOwnsRow, Executing, TypeOK, Claim
    <3>2. Owns(c) => c.action # d.action
      BY <2>2, <3>1 DEF Owns, Fenced
    <3>3. action'[d.action] = action[d.action]
      BY <2>1, <3>1, <3>2 DEF ActsOnOwn, Finish, TypeOK, Claim
    <3> QED
      BY <3>1, <3>3 DEF Owns
  <2>3. \A d \in claims' : d \in claims \ {c} \/ d \notin claims \ {c}
    OBVIOUS
  <2>4. ASSUME NEW d \in claims', d \notin claims \ {c}, Executing(d) PROVE Owns(d)'
    <3>1. PICK phase \in Phase : d = [c EXCEPT !.phase = phase]
      BY <2>1, <2>4 DEF ActsOnOwn, Enter
    <3>2. d.action = c.action /\ d.version = c.version /\ d.worker = c.worker /\ d.phase = phase
      BY <3>1 DEF TypeOK, Claim
    <3>3. action' = action /\ Owns(c)
      BY <1>3, <2>4, <3>1, <3>2 DEF ExecuteStep, Lock, Unsupported, GenerationGuard, Complete,
         Committed, CompleteIdle, Reschedule, Restart, RollBack, Fail, Retry, Lose, Executing, Enter,
         ExecutionOwnsRow, TypeOK, Claim
    <3> QED
      BY <3>2, <3>3 DEF Owns
  <2> QED
    BY <2>2, <2>4 DEF ExecutionOwnsRow, Executing
<1> QED
  BY <1>1, <1>2, <1>3 DEF Next

LEMMA InductiveInvariant == Spec => []IInv
<1>1. Init => IInv
  BY InitType DEF Init, IInv, Fenced, ExecutionOwnsRow
<1>2. IInv /\ [Next]_vars => IInv'
  BY StepType, FencedStep, OwnsStep DEF IInv
<1> QED
  BY <1>1, <1>2, PTL DEF Spec

\* An execution transaction always runs on the current claim of its action.
THEOREM ExecutionOwns == Spec => []ExecutionOwnsRow
<1>1. IInv => ExecutionOwnsRow
  BY DEF IInv
<1> QED
  BY <1>1, InductiveInvariant, PTL

-----------------------------------------------------------------------------
(* The effect.                                                              *)

LEMMA EffectStep ==
    ASSUME TypeOK, [Next]_vars
    PROVE  \A i \in Actions : effects'[i] # effects[i] => Expected(i)
<1>1. CASE \E c \in claims : Complete(c)
  BY <1>1 DEF Complete, StillExpected, TypeOK, Claim
<1>2. CASE ~ \E c \in claims : Complete(c)
  BY <1>2 DEF Next, vars, Schedule, Supersede, Due, ExpireLease, ClaimAction, ExecuteStep, Lock,
     Unsupported, GenerationGuard, CompleteIdle, Reschedule, Restart, RollBack, Fail, Retry, Lose
<1> QED
  BY <1>1, <1>2

\* No effect is applied for a generation the action was not scheduled for.
THEOREM EffectsFenced == Spec => EffectFenced
<1>1. TypeOK /\ [Next]_vars => [\A i \in Actions : effects'[i] # effects[i] => Expected(i)]_vars
  BY EffectStep
<1> QED
  BY <1>1, TypeCorrect, PTL DEF Spec, EffectFenced

\* An effect is counted once, together with the end of its action.
EffectsOnce ==
    \A i \in Actions : effects[i] = 0 \/ (effects[i] = 1 /\ action[i].status \in Final)

\* How the outcome of action i may change.
Moves(i) ==
    /\ \A j \in Actions \ {i} : Outcome'[j] = Outcome[j]
    /\ \/ Outcome'[i] = Outcome[i]
       \/ Outcome[i] = "none" /\ Outcome'[i] = "waiting"
       \/ Outcome[i] = "waiting" /\ Outcome'[i] \in {"applied", "discarded"}

LEMMA OutcomeKept ==
    ASSUME NEW j \in Actions, effects'[j] = effects[j], action'[j] = action[j]
    PROVE  Outcome'[j] = Outcome[j]
BY DEF Outcome

LEMMA OutcomeWaiting ==
    ASSUME NEW i \in Actions, effects[i] = 0, action[i].status = "processing"
    PROVE  Outcome[i] = "waiting"
BY DEF Outcome, Final

LEMMA OutcomeApplied ==
    ASSUME NEW i \in Actions, effects'[i] = 1
    PROVE  Outcome'[i] = "applied"
BY DEF Outcome

LEMMA ApiMoves ==
    ASSUME TypeOK, EffectsOnce, NEW i \in Actions,
           \/ Schedule(i) \/ Supersede(i) \/ Due(i) \/ ExpireLease(i)
           \/ \E w \in Workers : ClaimAction(w, i)
    PROVE  Moves(i) /\ EffectsOnce'
<1>1. effects' = effects
  BY DEF Schedule, Supersede, Due, ExpireLease, ClaimAction
<1>2. \A j \in Actions \ {i} : action'[j] = action[j]
  BY DEF Schedule, Supersede, Due, ExpireLease, ClaimAction, TypeOK
<1>3. \/ action[i].status = "absent" /\ action'[i].status = "pending"
      \/ action[i].status = "pending" /\ action'[i].status \in {"pending", "cancelled", "processing"}
      \/ action[i].status = "processing" /\ action'[i].status = "processing"
      \/ action'[i].status = action[i].status
  <2>1. CASE Schedule(i)
    <3>1. PICK expected \in {0, generation[i]} :
              action' = [action EXCEPT ![i].status = "pending", ![i].expected = expected]
      BY <2>1 DEF Schedule
    <3> DEFINE once == [action EXCEPT ![i].status = "pending"]
    <3>2. once \in [Actions -> ActionRow] /\ once[i].status = "pending"
      BY DEF TypeOK, ActionRow, Status, Final
    <3>3. action' = [once EXCEPT ![i].expected = expected]
      BY <3>1 DEF TypeOK, ActionRow
    <3> HIDE DEF once
    <3> QED
      BY <2>1, <3>2, <3>3 DEF Schedule, ActionRow
  <2>2. CASE Supersede(i)
    BY <2>2 DEF Supersede, TypeOK, ActionRow
  <2>3. CASE Due(i)
    BY <2>3 DEF Due, TypeOK, ActionRow
  <2>4. CASE ExpireLease(i)
    BY <2>4 DEF ExpireLease, TypeOK, ActionRow
  <2>5. CASE \E w \in Workers : ClaimAction(w, i)
    BY <2>5 DEF ClaimAction, Claimable, TypeOK, ActionRow
  <2> QED
    BY <2>1, <2>2, <2>3, <2>4, <2>5
<1>4. effects[i] = 0 \/ action'[i].status = action[i].status
  BY <1>3 DEF EffectsOnce, Final
<1> QED
  BY <1>1, <1>2, <1>3, <1>4, OutcomeKept DEF Moves, Outcome, EffectsOnce, Final

LEMMA ExecuteMoves ==
    ASSUME TypeOK, ExecutionOwnsRow, EffectsOnce, NEW c \in claims, ExecuteStep(c) \/ Lose(c)
    PROVE  Moves(c.action) /\ EffectsOnce'
<1> DEFINE i == c.action
<1>1. i \in Actions
  BY DEF TypeOK, Claim
<1>2. ActsOnOwn(c)
  BY ExecuteActsOnOwn
<1>3. \A j \in Actions \ {i} : action'[j] = action[j]
  BY <1>2 DEF ActsOnOwn, Finish, TypeOK
<1>4. \A status \in Status : Finish(c, status) => action'[i].status = status
  BY <1>1 DEF Finish, Released, TypeOK, ActionRow
<1>5. CASE Complete(c)
  <2>1. action[i].status = "processing" /\ effects[i] = 0
    BY <1>1, <1>5 DEF Complete, ExecutionOwnsRow, Owns, EffectsOnce, Final
  <2>2. /\ effects'[i] = 1 /\ action'[i].status = "completed"
        /\ \A j \in Actions \ {i} : effects'[j] = effects[j]
    BY <1>1, <1>4, <1>5, <2>1 DEF Complete, TypeOK, Status, Final
  <2>3. Outcome[i] = "waiting" /\ Outcome'[i] = "applied"
    BY <1>1, <2>1, <2>2, OutcomeWaiting, OutcomeApplied
  <2>4. \A j \in Actions \ {i} : Outcome'[j] = Outcome[j]
    BY <1>3, <2>2, OutcomeKept
  <2>5. EffectsOnce'
    BY <1>1, <1>3, <2>2 DEF EffectsOnce, Final
  <2> QED
    BY <2>3, <2>4, <2>5 DEF Moves
<1>6. CASE ~ Complete(c)
  <2>1. effects' = effects
    BY <1>6 DEF ExecuteStep, Lock, Unsupported, GenerationGuard, CompleteIdle, Reschedule, Restart,
       RollBack, Fail, Retry, Lose
  <2>2. CASE action' = action
    BY <1>1, <2>1, <2>2 DEF Moves, Outcome, EffectsOnce
  <2>3. ASSUME Owns(c), NEW status \in Status, Finish(c, status), status # "absent"
        PROVE  Moves(i) /\ EffectsOnce'
    <3>1. action[i].status = "processing" /\ effects[i] = 0 /\ action'[i].status = status
      BY <1>1, <1>4, <2>3 DEF Owns, EffectsOnce, Final
    <3> QED
      BY <1>1, <1>3, <2>1, <2>3, <3>1, OutcomeKept DEF Moves, Outcome, EffectsOnce, Status, Final
  <2>4. \/ action' = action
        \/ Owns(c) /\ \E status \in Status \ {"absent"} : Finish(c, status)
    BY <1>6 DEF ExecutionOwnsRow, ExecuteStep, Lock, Unsupported, GenerationGuard,
       CompleteIdle, Reschedule, Restart, RollBack, Fail, Retry, Lose, Status, Final
  <2> QED
    BY <2>2, <2>3, <2>4
<1> QED
  BY <1>5, <1>6

LEMMA MovesRefine == ASSUME NEW i \in Actions, Moves(i) PROVE [AtMostOnce!Next]_Outcome
<1>1. \A value : (Outcome'[i] = value /\ \A j \in Actions \ {i} : Outcome'[j] = Outcome[j])
                     => Outcome' = [Outcome EXCEPT ![i] = value]
  BY DEF Outcome
<1>2. CASE Outcome'[i] = Outcome[i]
  <2>1. Outcome' = Outcome
    BY <1>2 DEF Moves, Outcome
  <2> QED
    BY <2>1
<1>3. CASE Outcome[i] = "none" /\ Outcome'[i] = "waiting"
  BY <1>1, <1>3 DEF Moves, AtMostOnce!Next, AtMostOnce!Schedule
<1>4. CASE Outcome[i] = "waiting" /\ Outcome'[i] = "applied"
  BY <1>1, <1>4 DEF Moves, AtMostOnce!Next, AtMostOnce!Apply
<1>5. CASE Outcome[i] = "waiting" /\ Outcome'[i] = "discarded"
  BY <1>1, <1>5 DEF Moves, AtMostOnce!Next, AtMostOnce!Discard
<1> QED
  BY <1>2, <1>3, <1>4, <1>5 DEF Moves

\* The queue implements the abstract queue: an effect at most once, and none
\* after the action was discarded.
THEOREM ImplementsAtMostOnceEffect == Spec => ImplementsAtMostOnce
<1>1. Init => AtMostOnce!Init /\ EffectsOnce
  BY DEF Init, AtMostOnce!Init, EffectsOnce, Outcome
<1>2. TypeOK /\ ExecutionOwnsRow /\ EffectsOnce /\ [Next]_vars
          => EffectsOnce' /\ [AtMostOnce!Next]_Outcome
  <2> SUFFICES ASSUME TypeOK, ExecutionOwnsRow, EffectsOnce, [Next]_vars
               PROVE  EffectsOnce' /\ [AtMostOnce!Next]_Outcome
    OBVIOUS
  <2>1. CASE UNCHANGED vars
    BY <2>1 DEF vars, EffectsOnce, Outcome
  <2>2. ASSUME NEW c \in claims, ExecuteStep(c) \/ Lose(c)
        PROVE  EffectsOnce' /\ [AtMostOnce!Next]_Outcome
    <3>1. c.action \in Actions
      BY DEF TypeOK, Claim
    <3> QED
      BY <2>2, <3>1, ExecuteMoves, MovesRefine
  <2>3. ASSUME NEW i \in Actions,
               \/ Schedule(i) \/ Supersede(i) \/ Due(i) \/ ExpireLease(i)
               \/ \E w \in Workers : ClaimAction(w, i)
        PROVE  EffectsOnce' /\ [AtMostOnce!Next]_Outcome
    BY <2>3, ApiMoves, MovesRefine
  <2> QED
    BY <2>1, <2>2, <2>3 DEF Next
<1>3. IInv => TypeOK /\ ExecutionOwnsRow
  BY DEF IInv
<1> QED
  BY <1>1, <1>2, <1>3, InductiveInvariant, PTL DEF Spec, ImplementsAtMostOnce, AtMostOnce!Spec

=============================================================================
