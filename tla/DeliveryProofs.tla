---------------------------- MODULE DeliveryProofs ----------------------------
(* Theorems about what is delivered later, each module for any of its         *)
(* constants: the outbox of the server, its deletion manifests and the        *)
(* offline queue of the web application; and about MCDelivery, which composes *)
(* them.                                                                      *)
EXTENDS MCDelivery, FiniteSets, FiniteSetTheorems, TLAPS

-----------------------------------------------------------------------------
(* Outbox, for any events, workers, devices and attempts.                     *)

Reached(e) == {r \in Recipients : sends[e][r] > 0}

\* Whom a delivery may still send to.
MaySendAt(step, todo, r) ==
    \/ step = "started"
    \/ step = "listing" /\ r \in Devices
    \/ step = "pushing" /\ r \in todo
    \/ step = "mailing" /\ r = "mailbox"

MaySend(d, r) == MaySendAt(d.step, d.todo, r)

Ahead(e, r) == {d \in deliveries : d.event = e /\ MaySend(d, r)}

\* Every claim counts an attempt, and sends to a recipient at most once.
SendsWithinAttempts ==
    /\ IsFiniteSet(deliveries)
    /\ \A e \in Events, r \in Recipients :
           sends[e][r] + Cardinality(Ahead(e, r)) <= event[e].attempts

AbsentUntouched ==
    \A e \in Events : event[e].status = "absent" =>
        /\ event[e].kind = "hint" /\ owed[e] = {} /\ subject[e] = "live"
        /\ \A d \in deliveries : d.event # e

OwedByKind ==
    \A e \in Events :
        /\ event[e].status # "absent" => owed[e] \subseteq Addressees(event[e].kind)
        /\ event[e].kind = "message" /\ subject[e] = "dead" => owed[e] \cap Devices = {}
        /\ subject[e] = "marked" => event[e].kind = "security" /\ "mailbox" \in Reached(e)
        /\ subject[e] = "erased" => event[e].kind = "security" /\ "mailbox" \notin owed[e]

\* How far a delivery has come, and whom it has reached on the way.
OnTrackAt(e, step, todo) ==
    /\ step = "listing" => event[e].kind = "message" /\ "topic" \in Reached(e)
    /\ step = "pushing" => event[e].kind \in {"message", "push"} /\ owed[e] \subseteq Reached(e) \cup todo
    /\ step = "mailing" => event[e].kind \in {"challenge", "security"}
    /\ step = "marking" => event[e].kind = "security" /\ "mailbox" \in Reached(e)
    /\ step = "done"    => owed[e] \subseteq Reached(e)

DeliveriesOnTrack == \A d \in deliveries : OnTrackAt(d.event, d.step, d.todo)

OutboxInv ==
    OutboxTypeOK /\ SendsWithinAttempts /\ AbsentUntouched /\ OwedByKind /\ DeliveriesOnTrack

-----------------------------------------------------------------------------
(* What a step does to a delivery and to the sends.                          *)

LEMMA RowTypes ==
    ASSUME OutboxTypeOK
    PROVE  /\ event \in [Events -> EventRow]
           /\ \A e \in Events : /\ event[e] \in EventRow
                                /\ event[e].kind \in Kinds /\ event[e].attempts \in Nat
                                /\ event[e].attempts <= MaxDeliveries
                                /\ event[e].version \in Nat
BY DeliveriesAssumption DEF OutboxTypeOK, EventRow

LEMMA DeliveryTypes ==
    ASSUME OutboxTypeOK, NEW d \in deliveries
    PROVE  d \in Delivery /\ d.event \in Events /\ d.step \in Step /\ d.todo \subseteq Devices
BY DEF OutboxTypeOK, Delivery

LEMMA SendTypes ==
    ASSUME OutboxTypeOK, NEW e \in Events, NEW r \in Recipients
    PROVE  sends[e][r] \in Nat /\ sends[e][r] <= MaxDeliveries
BY DeliveriesAssumption DEF OutboxTypeOK

LEMMA AheadFinite ==
    ASSUME SendsWithinAttempts, NEW e, NEW r
    PROVE  IsFiniteSet(Ahead(e, r)) /\ Cardinality(Ahead(e, r)) \in Nat
<1>1. Ahead(e, r) \subseteq deliveries
    BY DEF Ahead
<1>2. QED
    BY <1>1, FS_Subset, FS_CardinalityType DEF SendsWithinAttempts

\* The recipients of an event are reached for good.
ReachedGrow == \A e \in Events : Reached(e) \subseteq Reached(e)'

DeliveryMoved(d, step, todo) ==
    /\ deliveries' \subseteq Delivery /\ IsFiniteSet(deliveries')
    /\ \A q \in deliveries' :
           q \in deliveries \/ (q.event = d.event /\ q.step = step /\ q.todo = todo)
    /\ \A e \in Events, r \in Recipients :
           /\ Cardinality(Ahead(e, r)') \in Nat
           /\ Cardinality(Ahead(e, r)') <= Cardinality(Ahead(e, r))
    /\ \A r \in Recipients :
           MaySend(d, r) /\ ~ MaySendAt(step, todo, r)
               => Cardinality(Ahead(d.event, r)') < Cardinality(Ahead(d.event, r))

\* A delivery that goes on may send to no one whom it might not have sent to before.
LEMMA MovedDelivery ==
    ASSUME OutboxTypeOK, SendsWithinAttempts, NEW d \in deliveries,
           NEW step \in Step, NEW todo \in SUBSET Devices,
           GoTo(d, step, todo),
           \A r \in Recipients : MaySendAt(step, todo, r) => MaySend(d, r)
    PROVE  DeliveryMoved(d, step, todo)
<1> DEFINE q == [d EXCEPT !.step = step, !.todo = todo]
<1>1. d \in Delivery /\ deliveries \subseteq Delivery
    BY DEF OutboxTypeOK
<1>2. q \in Delivery /\ q.event = d.event /\ q.step = step /\ q.todo = todo
    BY <1>1 DEF Delivery
<1>3. deliveries' = (deliveries \ {d}) \cup {q}
    BY DEF GoTo
<1> HIDE DEF q
<1>4. IsFiniteSet(deliveries \ {d}) /\ IsFiniteSet(deliveries')
    BY <1>3, FS_RemoveElement, FS_AddElement DEF SendsWithinAttempts
<1>5. ASSUME NEW e \in Events, NEW r \in Recipients
      PROVE  /\ Cardinality(Ahead(e, r)') \in Nat
             /\ Cardinality(Ahead(e, r)') <= Cardinality(Ahead(e, r))
             /\ e = d.event /\ MaySend(d, r) /\ ~ MaySendAt(step, todo, r)
                    => Cardinality(Ahead(e, r)') < Cardinality(Ahead(e, r))
    <2> DEFINE A == Ahead(e, r)
               B == {x \in deliveries' : x.event = e /\ MaySend(x, r)}
    <2>1. Ahead(e, r)' = B
        BY DEF Ahead, MaySend, MaySendAt
    <2>2. /\ IsFiniteSet(A) /\ Cardinality(A) \in Nat
          /\ IsFiniteSet(A \ {d}) /\ Cardinality(A \ {d}) \in Nat
          /\ Cardinality(A \ {d}) = IF d \in A THEN Cardinality(A) - 1 ELSE Cardinality(A)
        BY AheadFinite, FS_RemoveElement, FS_CardinalityType
    <2>3. CASE q \notin B
        <3>1. B \subseteq A \ {d}
            <4>1. ASSUME NEW x \in B PROVE x \in A \ {d}
                <5>1. x # q /\ x \in deliveries \ {d}
                    BY <1>3, <2>3
                <5>2. QED
                    BY <5>1 DEF Ahead
            <4>2. QED
                BY <4>1
        <3>2. IsFiniteSet(B) /\ Cardinality(B) \in Nat /\ Cardinality(B) <= Cardinality(A \ {d})
            BY <2>2, <3>1, FS_Subset, FS_CardinalityType
        <3>3. e = d.event /\ MaySend(d, r) => d \in A
            BY DEF Ahead
        <3>4. QED
            BY <2>1, <2>2, <3>2, <3>3
    <2>4. CASE q \in B
        <3>1. e = d.event /\ MaySendAt(step, todo, r)
            BY <1>2, <2>4 DEF MaySend
        <3>2. d \in A
            BY <3>1 DEF Ahead
        <3>3. B \subseteq (A \ {d}) \cup {q}
            <4>1. ASSUME NEW x \in B, x # q PROVE x \in A \ {d}
                BY <1>3, <4>1 DEF Ahead
            <4>2. QED
                BY <4>1
        <3>4. /\ IsFiniteSet((A \ {d}) \cup {q}) /\ Cardinality((A \ {d}) \cup {q}) \in Nat
              /\ Cardinality((A \ {d}) \cup {q}) <= Cardinality(A \ {d}) + 1
            <4> DEFINE R == A \ {d}
            <4>1. IsFiniteSet(R) /\ Cardinality(R) \in Nat
                BY <2>2
            <4> HIDE DEF R
            <4>2. /\ IsFiniteSet(R \cup {q})
                  /\ Cardinality(R \cup {q}) = IF q \in R THEN Cardinality(R) ELSE Cardinality(R) + 1
                BY <4>1, FS_AddElement
            <4>3. IsFiniteSet(R \cup {q}) /\ Cardinality(R \cup {q}) \in Nat
                      /\ Cardinality(R \cup {q}) <= Cardinality(R) + 1
                BY <4>1, <4>2
            <4>4. QED
                BY <4>3 DEF R
        <3>5. IsFiniteSet(B) /\ Cardinality(B) \in Nat /\ Cardinality(B) <= Cardinality((A \ {d}) \cup {q})
            BY <3>3, <3>4, FS_Subset, FS_CardinalityType
        <3>6. QED
            BY <2>1, <2>2, <3>1, <3>2, <3>4, <3>5
    <2>5. QED
        BY <2>3, <2>4
<1>6. \A x \in deliveries' : x \in deliveries \/ x = q
    BY <1>3
<1>7. deliveries' \subseteq Delivery
    BY <1>1, <1>2, <1>6
<1>8. d.event \in Events
    BY <1>1 DEF Delivery
<1>9. QED
    BY <1>2, <1>4, <1>5, <1>6, <1>7, <1>8 DEF DeliveryMoved

LEMMA LeftDelivery ==
    ASSUME OutboxTypeOK, SendsWithinAttempts, NEW d \in deliveries, Leave(d)
    PROVE  DeliveryMoved(d, "retrying", {})
<1>1. d \in Delivery /\ deliveries \subseteq Delivery /\ d.event \in Events
    BY DEF OutboxTypeOK, Delivery
<1>2. deliveries' = deliveries \ {d}
    BY DEF Leave
<1>3. IsFiniteSet(deliveries')
    BY <1>2, FS_RemoveElement DEF SendsWithinAttempts
<1>4. ASSUME NEW e \in Events, NEW r \in Recipients
      PROVE  /\ Cardinality(Ahead(e, r)') \in Nat
             /\ Cardinality(Ahead(e, r)') <= Cardinality(Ahead(e, r))
             /\ e = d.event /\ MaySend(d, r)
                    => Cardinality(Ahead(e, r)') < Cardinality(Ahead(e, r))
    <2> DEFINE A == Ahead(e, r)
    <2>1. Ahead(e, r)' = A \ {d}
        BY <1>2 DEF Ahead, MaySend, MaySendAt
    <2>2. /\ IsFiniteSet(A) /\ Cardinality(A) \in Nat
          /\ IsFiniteSet(A \ {d}) /\ Cardinality(A \ {d}) \in Nat
          /\ Cardinality(A \ {d}) = IF d \in A THEN Cardinality(A) - 1 ELSE Cardinality(A)
        BY AheadFinite, FS_RemoveElement, FS_CardinalityType
    <2>3. e = d.event /\ MaySend(d, r) => d \in A
        BY DEF Ahead
    <2>4. QED
        BY <2>1, <2>2, <2>3
<1>5. QED
    BY <1>1, <1>2, <1>3, <1>4 DEF DeliveryMoved

LEMMA SentOnce ==
    ASSUME OutboxTypeOK, NEW d \in deliveries, NEW r \in Recipients, SendTo(d, r)
    PROVE  /\ \A e \in Events, s \in Recipients :
                  sends'[e][s] = IF e = d.event /\ s = r THEN sends[e][s] + 1 ELSE sends[e][s]
           /\ sends' = [e \in Events |-> [s \in Recipients |-> sends'[e][s]]]
<1>1. d.event \in Events
    BY DeliveryTypes
<1>2. QED
    BY <1>1 DEF OutboxTypeOK, SendTo

\* Nothing is sent, or one message to a recipient that this delivery had still ahead.
Sent(d, step, todo) ==
    \/ sends' = sends
    \/ \E r \in Recipients : SendTo(d, r) /\ MaySend(d, r) /\ ~ MaySendAt(step, todo, r)

LEMMA BudgetKept ==
    ASSUME OutboxTypeOK, SendsWithinAttempts, NEW d \in deliveries, NEW step, NEW todo,
           DeliveryMoved(d, step, todo), Sent(d, step, todo),
           \A e \in Events : event'[e].attempts = event[e].attempts
    PROVE  /\ SendsWithinAttempts' /\ ReachedGrow
           /\ sends' \in [Events -> [Recipients -> 0 .. MaxDeliveries]]
           /\ \A r \in Recipients : SendTo(d, r) => r \in Reached(d.event)'
<1>1. d.event \in Events
    BY DeliveryTypes
<1>2. \A e \in Events, r \in Recipients :
         /\ sends[e][r] \in Nat
         /\ Cardinality(Ahead(e, r)) \in Nat /\ Cardinality(Ahead(e, r)') \in Nat
         /\ event[e].attempts \in Nat /\ event[e].attempts <= MaxDeliveries
    BY SendTypes, AheadFinite, RowTypes DEF DeliveryMoved
<1>3. CASE sends' = sends
    <2>1. SendsWithinAttempts'
        BY <1>2, <1>3 DEF SendsWithinAttempts, DeliveryMoved
    <2>2. \A r \in Recipients : ~ SendTo(d, r)
        BY <1>1, <1>2, <1>3, SentOnce
    <2>3. QED
        BY <1>3, <2>1, <2>2 DEF OutboxTypeOK, ReachedGrow, Reached
<1>4. ASSUME NEW r \in Recipients, SendTo(d, r), MaySend(d, r), ~ MaySendAt(step, todo, r)
      PROVE  /\ SendsWithinAttempts' /\ ReachedGrow
             /\ sends' \in [Events -> [Recipients -> 0 .. MaxDeliveries]]
             /\ \A s \in Recipients : SendTo(d, s) => s \in Reached(d.event)'
    <2>1. /\ \A e \in Events, s \in Recipients :
                 sends'[e][s] = IF e = d.event /\ s = r THEN sends[e][s] + 1 ELSE sends[e][s]
          /\ sends' = [e \in Events |-> [s \in Recipients |-> sends'[e][s]]]
        BY <1>4, SentOnce
    <2>2. Cardinality(Ahead(d.event, r)') < Cardinality(Ahead(d.event, r))
        BY <1>4 DEF DeliveryMoved
    <2>3. ASSUME NEW e \in Events, NEW s \in Recipients
          PROVE  /\ sends'[e][s] \in Nat
                 /\ sends'[e][s] + Cardinality(Ahead(e, s)') <= event[e].attempts
                 /\ sends'[e][s] <= MaxDeliveries
        <3>1. /\ sends[e][s] + Cardinality(Ahead(e, s)) <= event[e].attempts
              /\ Cardinality(Ahead(e, s)') <= Cardinality(Ahead(e, s))
            BY DEF SendsWithinAttempts, DeliveryMoved
        <3>0. /\ sends[e][s] \in Nat /\ MaxDeliveries \in Nat
              /\ Cardinality(Ahead(e, s)) \in Nat /\ Cardinality(Ahead(e, s)') \in Nat
              /\ event[e].attempts \in Nat /\ event[e].attempts <= MaxDeliveries
            BY <1>2, DeliveriesAssumption
        <3>2. CASE e = d.event /\ s = r
            <4>1. Cardinality(Ahead(e, s)') < Cardinality(Ahead(e, s)) /\ sends'[e][s] = sends[e][s] + 1
                BY <2>1, <2>2, <3>2
            <4>2. QED
                BY <3>0, <3>1, <4>1
        <3>3. CASE ~ (e = d.event /\ s = r)
            <4>1. sends'[e][s] = sends[e][s]
                BY <2>1, <3>3
            <4>2. QED
                BY <3>0, <3>1, <4>1
        <3>4. QED
            BY <3>2, <3>3
    <2>4. SendsWithinAttempts'
        BY <2>3 DEF SendsWithinAttempts, DeliveryMoved
    <2>5. sends' \in [Events -> [Recipients -> 0 .. MaxDeliveries]]
        <3>1. \A e \in Events, s \in Recipients : sends'[e][s] \in 0 .. MaxDeliveries
            BY <2>3, DeliveriesAssumption
        <3>2. \A e \in Events : [s \in Recipients |-> sends'[e][s]] \in [Recipients -> 0 .. MaxDeliveries]
            BY <3>1
        <3>3. QED
            BY <2>1, <3>2
    <2>6. ReachedGrow
        BY <1>2, <2>1 DEF ReachedGrow, Reached
    <2>7. \A s \in Recipients : SendTo(d, s) => s \in Reached(d.event)'
        BY <1>1, <1>2, SentOnce DEF Reached
    <2>8. QED
        BY <2>4, <2>5, <2>6, <2>7
<1>5. QED
    BY <1>3, <1>4 DEF Sent

-----------------------------------------------------------------------------
(* A step of a delivery.                                                     *)

\* The rows keep what a delivery relies on, and no one is owed more.
WorldMoved ==
    /\ event' \in [Events -> EventRow]
    /\ subscribed' \subseteq Devices
    /\ subject' \in [Events -> {"live", "dead", "marked", "erased"}]
    /\ owed' \in [Events -> SUBSET Recipients]
    /\ \A e \in Events :
           /\ event'[e].kind = event[e].kind /\ event'[e].attempts = event[e].attempts
           /\ event'[e].status = "absent" <=> event[e].status = "absent"
           /\ owed'[e] \subseteq owed[e]
           /\ event[e].status = "absent" => subject'[e] = subject[e]

\* Whoever was reached stays so, and whoever was sent to now is.
Progress(d) == ReachedGrow /\ \A r \in Recipients : SendTo(d, r) => r \in Reached(d.event)'

WorldKept == UNCHANGED <<event, subscribed, subject, owed>>

LEMMA DeliveryStep ==
    ASSUME OutboxInv, NEW d \in deliveries, NEW step, NEW todo,
           DeliveryMoved(d, step, todo), Sent(d, step, todo), WorldMoved,
           Progress(d) => OwedByKind' /\ OnTrackAt(d.event, step, todo)'
    PROVE  OutboxInv'
<1> USE DEF OutboxInv
<1>1. /\ SendsWithinAttempts' /\ Progress(d)
      /\ sends' \in [Events -> [Recipients -> 0 .. MaxDeliveries]]
    BY BudgetKept DEF WorldMoved, Progress
<1>2. OutboxTypeOK'
    BY <1>1 DEF OutboxTypeOK, WorldMoved, DeliveryMoved
<1>3. d.event \in Events /\ \A q \in deliveries : q.event \in Events
    BY DeliveryTypes
<1>4. AbsentUntouched'
    BY DEF AbsentUntouched, WorldMoved, DeliveryMoved
<1>5. \A q \in deliveries : OnTrackAt(q.event, q.step, q.todo)'
    BY <1>1, <1>3 DEF DeliveriesOnTrack, OnTrackAt, WorldMoved, Progress, ReachedGrow
<1>6. DeliveriesOnTrack'
    BY <1>1, <1>5 DEF DeliveriesOnTrack, OnTrackAt, DeliveryMoved
<1>7. QED
    BY <1>1, <1>2, <1>4, <1>6

LEMMA KeptWorld ==
    ASSUME OutboxInv, WorldKept
    PROVE  WorldMoved /\ (ReachedGrow => OwedByKind')
<1>1. WorldMoved
    BY DEF OutboxInv, OutboxTypeOK, WorldKept, WorldMoved
<1>2. ASSUME ReachedGrow PROVE OwedByKind'
    BY <1>2 DEF OutboxInv, OwedByKind, WorldKept, ReachedGrow, Addressees
<1>3. QED
    BY <1>1, <1>2

\* A delivery that goes on while nothing else changes.
LEMMA GoingOn ==
    ASSUME OutboxInv, NEW d \in deliveries, NEW step \in Step, NEW todo \in SUBSET Devices,
           GoTo(d, step, todo),
           \A r \in Recipients : MaySendAt(step, todo, r) => MaySend(d, r),
           Sent(d, step, todo), WorldKept,
           Progress(d) => OnTrackAt(d.event, step, todo)'
    PROVE  OutboxInv'
<1>1. DeliveryMoved(d, step, todo)
    BY MovedDelivery DEF OutboxInv
<1>2. QED
    BY <1>1, DeliveryStep, KeptWorld DEF Progress

LEMMA MaySendAtMost ==
    \A step, todo, r :
        /\ step \in {"done", "failing", "retrying", "marking"} => ~ MaySendAt(step, todo, r)
        /\ MaySendAt("started", todo, r)
        /\ MaySendAt("mailing", todo, r) <=> r = "mailbox"
        /\ MaySendAt("listing", todo, r) <=> r \in Devices
        /\ MaySendAt("pushing", todo, r) <=> r \in todo
BY DEF MaySendAt

\* A delivery that has nothing more to send.
LEMMA EndingStep ==
    ASSUME OutboxInv, NEW d \in deliveries, NEW step \in {"done", "failing", "retrying", "marking"},
           GoTo(d, step, {}), Sent(d, step, {}), WorldKept,
           Progress(d) => OnTrackAt(d.event, step, {})'
    PROVE  OutboxInv'
BY GoingOn, MaySendAtMost DEF Step

LEMMA LeavingStep ==
    ASSUME OutboxInv, NEW d \in deliveries, Leave(d), WorldKept, sends' = sends
    PROVE  OutboxInv'
BY LeftDelivery, DeliveryStep, KeptWorld DEF OutboxInv, Sent, OnTrackAt, Progress

LEMMA RetryingStep ==
    ASSUME OutboxInv, NEW d \in deliveries, GoTo(d, "retrying", {}), WorldKept,
           sends' = sends \/ \E r \in Recipients : SendTo(d, r) /\ MaySend(d, r)
    PROVE  OutboxInv'
BY EndingStep, MaySendAtMost DEF Sent, OnTrackAt

\* The event of a delivery was posted.
LEMMA Posted ==
    ASSUME OutboxInv, NEW d \in deliveries
    PROVE  /\ d.event \in Events /\ event[d.event].status # "absent"
           /\ owed[d.event] \subseteq Addressees(event[d.event].kind)
           /\ event[d.event].kind \in Kinds
           /\ d.todo \subseteq Devices
           /\ OnTrackAt(d.event, d.step, d.todo)
BY DeliveryTypes, RowTypes DEF OutboxInv, AbsentUntouched, OwedByKind, DeliveriesOnTrack

LEMMA RecipientSet == "topic" \in Recipients /\ "mailbox" \in Recipients /\ Devices \subseteq Recipients
                      /\ "topic" \notin Devices /\ "mailbox" \notin Devices
BY DevicesAssumption DEF Recipients

-----------------------------------------------------------------------------
(* Every step of a delivery keeps the invariant.                             *)

LEMMA PublishHintKeeps ==
    ASSUME OutboxInv, NEW d \in deliveries, PublishHint(d)
    PROVE  OutboxInv'
<1>1. /\ d.step = "started" /\ SendTo(d, "topic") /\ WorldKept /\ \A r : MaySend(d, r)
      /\ Kind(d) \in {"hint", "message"}
    BY DEF PublishHint, WorldKept, MaySend, MaySendAt
<1>2. CASE GoTo(d, "retrying", {})
    BY <1>1, <1>2, RetryingStep, RecipientSet
<1>3. CASE GoTo(d, "done", {}) /\ Kind(d) = "hint"
    <2>1. Sent(d, "done", {})
        BY <1>1, MaySendAtMost, RecipientSet DEF Sent
    <2>2. Progress(d) => OnTrackAt(d.event, "done", {})'
        BY <1>1, <1>3, Posted, RecipientSet DEF OnTrackAt, Progress, WorldKept, Addressees, Kind
    <2>3. QED
        BY <1>1, <1>3, <2>1, <2>2, EndingStep
<1>4. CASE GoTo(d, "listing", {}) /\ Kind(d) = "message"
    <2>1. Sent(d, "listing", {})
        BY <1>1, MaySendAtMost, RecipientSet DEF Sent
    <2>2. Progress(d) => OnTrackAt(d.event, "listing", {})'
        BY <1>1, <1>4, RecipientSet DEF OnTrackAt, Progress, WorldKept, Kind
    <2>3. QED
        BY <1>1, <1>4, <2>1, <2>2, GoingOn DEF Step
<1>5. QED
    BY <1>1, <1>2, <1>3, <1>4 DEF PublishHint

LEMMA ListSubscriptionsKeeps ==
    ASSUME OutboxInv, NEW d \in deliveries, ListSubscriptions(d)
    PROVE  OutboxInv'
<1>1. /\ WorldKept /\ sends' = sends /\ subscribed \in SUBSET Devices
      /\ (d.step = "started" /\ Kind(d) = "push") \/ d.step = "listing"
    BY DEF ListSubscriptions, WorldKept, OutboxInv, OutboxTypeOK
<1>2. CASE Kind(d) = "message" /\ subject[d.event] = "dead"
    <2>1. d.step = "listing" /\ "topic" \in Reached(d.event)
        BY <1>1, <1>2, Posted DEF OnTrackAt
    <2>2. owed[d.event] \subseteq {"topic"}
        <3>1. owed[d.event] \cap Devices = {}
            BY <1>2, Posted DEF OutboxInv, OwedByKind, Kind
        <3>2. QED
            BY <1>1, <1>2, <3>1, Posted DEF Addressees, Kind
    <2>3. Progress(d) => OnTrackAt(d.event, "done", {})'
        BY <1>1, <2>1, <2>2, Posted DEF OnTrackAt, Progress, ReachedGrow, WorldKept
    <2>4. QED
        BY <1>1, <1>2, <2>3, EndingStep DEF ListSubscriptions, Sent
<1>3. CASE ~ (Kind(d) = "message" /\ subject[d.event] = "dead")
    <2> PICK todo \in SUBSET Devices : todo = subscribed
        BY <1>1
    <2>1. GoTo(d, "pushing", todo)
        BY <1>3 DEF ListSubscriptions
    <2>2. \A r \in Recipients : MaySendAt("pushing", todo, r) => MaySend(d, r)
        BY <1>1 DEF MaySend, MaySendAt
    <2>3. Kind(d) \in {"message", "push"} /\ owed[d.event] \subseteq Reached(d.event) \cup subscribed
        <3>1. owed[d.event] \subseteq Addressees(Kind(d))
            BY Posted DEF Kind
        <3>2. CASE Kind(d) = "push"
            BY <3>1, <3>2 DEF Addressees
        <3>3. CASE d.step = "listing"
            <4>1. Kind(d) = "message" /\ "topic" \in Reached(d.event)
                BY <3>3, Posted DEF OnTrackAt, Kind
            <4>2. QED
                BY <3>1, <4>1 DEF Addressees
        <3>4. QED
            BY <1>1, <3>2, <3>3
    <2>4. Progress(d) => OnTrackAt(d.event, "pushing", todo)'
        BY <1>1, <2>3, Posted DEF OnTrackAt, Progress, ReachedGrow, WorldKept, Kind
    <2>5. Sent(d, "pushing", todo) /\ "pushing" \in Step
        BY <1>1 DEF Sent, Step
    <2>6. QED
        BY <1>1, <2>1, <2>2, <2>4, <2>5, GoingOn
<1>4. QED
    BY <1>2, <1>3

LEMMA AllPushedKeeps ==
    ASSUME OutboxInv, NEW d \in deliveries, AllPushed(d)
    PROVE  OutboxInv'
<1>1. /\ WorldKept /\ sends' = sends /\ GoTo(d, "done", {}) /\ owed[d.event] \subseteq Reached(d.event)
    BY Posted DEF AllPushed, WorldKept, OnTrackAt
<1>2. Progress(d) => OnTrackAt(d.event, "done", {})'
    BY <1>1, Posted DEF OnTrackAt, Progress, ReachedGrow, WorldKept
<1>3. QED
    BY <1>1, <1>2, EndingStep DEF Sent

LEMMA PushOneKeeps ==
    ASSUME OutboxInv, NEW d \in deliveries, NEW device \in Devices, PushOne(d, device)
    PROVE  OutboxInv'
<1>1. /\ d.step = "pushing" /\ device \in d.todo /\ device \in Recipients
      /\ d.todo \ {device} \in SUBSET Devices
      /\ \A r : MaySend(d, r) <=> r \in d.todo
      /\ event[d.event].kind \in {"message", "push"}
      /\ owed[d.event] \subseteq Reached(d.event) \cup d.todo
    BY Posted, RecipientSet DEF PushOne, OnTrackAt, MaySend, MaySendAt
<1>2. \A r \in Recipients : MaySendAt("pushing", d.todo \ {device}, r) => MaySend(d, r)
    BY <1>1, MaySendAtMost
<1>3. CASE SendTo(d, device) /\ GoTo(d, "pushing", d.todo \ {device}) /\ UNCHANGED <<subscribed, owed>>
    <2>1. WorldKept
        BY <1>3 DEF PushOne, WorldKept
    <2>2. Sent(d, "pushing", d.todo \ {device})
        BY <1>1, <1>3, MaySendAtMost DEF Sent
    <2>3. Progress(d) => OnTrackAt(d.event, "pushing", d.todo \ {device})'
        BY <1>1, <1>3, <2>1, Posted DEF OnTrackAt, Progress, ReachedGrow, WorldKept
    <2>4. QED
        BY <1>1, <1>2, <1>3, <2>1, <2>2, <2>3, GoingOn DEF Step
<1>4. CASE /\ subscribed' = subscribed \ {device}
           /\ owed' = [e \in Events |-> owed[e] \ {device}]
           /\ GoTo(d, "pushing", d.todo \ {device})
           /\ UNCHANGED sends
    <2>1. WorldMoved
        BY <1>4 DEF PushOne, WorldMoved, OutboxInv, OutboxTypeOK
    <2>2. OwedByKind'
        BY <1>4, RecipientSet DEF PushOne, OutboxInv, OwedByKind, Addressees, Reached
    <2>3. OnTrackAt(d.event, "pushing", d.todo \ {device})'
        BY <1>1, <1>4, Posted DEF PushOne, OnTrackAt, Reached
    <2>4. DeliveryMoved(d, "pushing", d.todo \ {device})
        BY <1>1, <1>2, <1>4, MovedDelivery DEF OutboxInv, Step
    <2>5. QED
        BY <1>4, <2>1, <2>2, <2>3, <2>4, DeliveryStep DEF Sent
<1>5. CASE PushFailed(d, device) /\ UNCHANGED <<subscribed, sends, owed>>
    BY <1>5, RetryingStep DEF PushOne, PushFailed, WorldKept
<1>6. QED
    BY <1>3, <1>4, <1>5 DEF PushOne

LEMMA MailingStep ==
    ASSUME OutboxInv, NEW d \in deliveries, d.step = "started", Kind(d) \in {"challenge", "security"},
           GoTo(d, "mailing", {}), WorldKept, sends' = sends
    PROVE  OutboxInv'
<1>1. \A r : MaySend(d, r)
    BY MaySendAtMost DEF MaySend
<1>2. OnTrackAt(d.event, "mailing", {})'
    BY DEF OnTrackAt, WorldKept, Kind
<1>3. QED
    BY <1>1, <1>2, GoingOn DEF Step, Sent

LEMMA FailingStep ==
    ASSUME OutboxInv, NEW d \in deliveries, GoTo(d, "failing", {}), WorldKept, sends' = sends
    PROVE  OutboxInv'
BY EndingStep DEF Sent, OnTrackAt

LEMMA CheckChallengeKeeps ==
    ASSUME OutboxInv, NEW d \in deliveries, CheckChallenge(d)
    PROVE  OutboxInv'
BY MailingStep, FailingStep DEF CheckChallenge, WorldKept

LEMMA CheckSecurityEmailKeeps ==
    ASSUME OutboxInv, NEW d \in deliveries, CheckSecurityEmail(d)
    PROVE  OutboxInv'
<1>1. d.step = "started" /\ Kind(d) = "security" /\ WorldKept /\ sends' = sends
    BY DEF CheckSecurityEmail, WorldKept
<1>2. CASE subject[d.event] \in {"marked", "erased"}
    <2>1. GoTo(d, "done", {})
        BY <1>2 DEF CheckSecurityEmail
    <2>2. owed[d.event] \subseteq Reached(d.event)
        BY <1>1, <1>2, Posted DEF OutboxInv, OwedByKind, Addressees, Kind
    <2>3. Progress(d) => OnTrackAt(d.event, "done", {})'
        BY <1>1, <2>2, Posted DEF OnTrackAt, Progress, ReachedGrow, WorldKept
    <2>4. QED
        BY <1>1, <2>1, <2>3, EndingStep DEF Sent
<1>3. CASE subject[d.event] = "dead"
    BY <1>1, <1>3, FailingStep DEF CheckSecurityEmail
<1>4. CASE subject[d.event] \notin {"marked", "erased", "dead"}
    BY <1>1, <1>4, MailingStep DEF CheckSecurityEmail
<1>5. QED
    BY <1>2, <1>3, <1>4

LEMMA SendEmailKeeps ==
    ASSUME OutboxInv, NEW d \in deliveries, SendEmail(d)
    PROVE  OutboxInv'
<1>1. /\ d.step = "mailing" /\ SendTo(d, "mailbox") /\ MaySend(d, "mailbox") /\ WorldKept
      /\ Kind(d) \in {"challenge", "security"}
    BY Posted DEF SendEmail, WorldKept, MaySend, MaySendAt, OnTrackAt, Kind
<1>2. CASE GoTo(d, "retrying", {})
    BY <1>1, <1>2, RetryingStep, RecipientSet
<1>3. CASE GoTo(d, "done", {}) /\ Kind(d) = "challenge"
    <2>1. Progress(d) => OnTrackAt(d.event, "done", {})'
        BY <1>1, <1>3, Posted, RecipientSet DEF OnTrackAt, Progress, WorldKept, Addressees, Kind
    <2>2. Sent(d, "done", {})
        BY <1>1, MaySendAtMost, RecipientSet DEF Sent
    <2>3. QED
        BY <1>1, <1>3, <2>1, <2>2, EndingStep
<1>4. CASE GoTo(d, "marking", {}) /\ Kind(d) = "security"
    <2>1. Progress(d) => OnTrackAt(d.event, "marking", {})'
        BY <1>1, <1>4, RecipientSet DEF OnTrackAt, Progress, WorldKept, Kind
    <2>2. Sent(d, "marking", {})
        BY <1>1, MaySendAtMost, RecipientSet DEF Sent
    <2>3. QED
        BY <1>1, <1>4, <2>1, <2>2, EndingStep
<1>5. QED
    BY <1>1, <1>2, <1>3, <1>4 DEF SendEmail

LEMMA MarkDeliveredKeeps ==
    ASSUME OutboxInv, NEW d \in deliveries, MarkDelivered(d)
    PROVE  OutboxInv'
<1>1. /\ event[d.event].kind = "security" /\ "mailbox" \in Reached(d.event)
      /\ owed[d.event] \subseteq {"mailbox"} /\ d.event \in Events
    BY Posted DEF MarkDelivered, OnTrackAt, Addressees
<1>2. WorldMoved
    BY <1>1, Posted DEF MarkDelivered, WorldMoved, OutboxInv, OutboxTypeOK
<1>3. OwedByKind'
    BY <1>1 DEF MarkDelivered, OutboxInv, OutboxTypeOK, OwedByKind, Addressees, Reached
<1>4. OnTrackAt(d.event, "done", {})'
    BY <1>1 DEF MarkDelivered, OnTrackAt, Reached
<1>5. DeliveryMoved(d, "done", {})
    BY MovedDelivery, MaySendAtMost DEF MarkDelivered, OutboxInv, Step
<1>6. QED
    BY <1>2, <1>3, <1>4, <1>5, DeliveryStep DEF MarkDelivered, Sent


-----------------------------------------------------------------------------
(* Claims, acknowledgements and the other steps keep it too.                 *)

LEMMA UnclaimedRow ==
    ASSUME OutboxInv, NEW d \in deliveries, HoldsEvent(d),
           NEW status \in {"pending", "delivered", "failed"},
           event' = [event EXCEPT ![d.event] = Unclaimed(@, status)],
           UNCHANGED <<subscribed, subject, owed>>
    PROVE  WorldMoved /\ (ReachedGrow => OwedByKind')
<1> DEFINE row == Unclaimed(event[d.event], status)
<1>1. /\ d.event \in Events /\ event[d.event] \in EventRow /\ event \in [Events -> EventRow]
      /\ event[d.event].status = "processing"
    BY Posted, RowTypes DEF OutboxInv, HoldsEvent
<1>2. /\ row \in EventRow /\ row.status = status /\ row.kind = event[d.event].kind
      /\ row.attempts = event[d.event].attempts
    BY <1>1 DEF Unclaimed, EventRow
<1>3. event' = [event EXCEPT ![d.event] = row]
    OBVIOUS
<1> HIDE DEF row
<1>4. /\ event' \in [Events -> EventRow]
      /\ \A e \in Events : /\ event'[e].kind = event[e].kind /\ event'[e].attempts = event[e].attempts
                           /\ event'[e].status = "absent" <=> event[e].status = "absent"
    BY <1>1, <1>2, <1>3
<1>5. WorldMoved
    BY <1>4 DEF OutboxInv, OutboxTypeOK, WorldMoved
<1>6. ASSUME ReachedGrow PROVE OwedByKind'
    BY <1>4, <1>6 DEF OutboxInv, OwedByKind, ReachedGrow, Addressees
<1>7. QED
    BY <1>5, <1>6

\* An acknowledgement, after which the delivery is forgotten or goes on to a retry.
LEMMA SettlingStep ==
    ASSUME OutboxInv, NEW d \in deliveries, Leave(d) \/ GoTo(d, "retrying", {}),
           WorldMoved, ReachedGrow => OwedByKind', sends' = sends
    PROVE  OutboxInv'
<1>1. DeliveryMoved(d, "retrying", {})
    BY LeftDelivery, MovedDelivery, MaySendAtMost DEF OutboxInv, Step
<1>2. OnTrackAt(d.event, "retrying", {})'
    BY DEF OnTrackAt
<1>3. QED
    BY <1>1, <1>2, DeliveryStep DEF Sent, Progress

LEMMA RetriedStatus ==
    ASSUME NEW row
    PROVE  \E status \in {"pending", "failed"} : Retried(row) = Unclaimed(row, status)
BY DEF Retried

LEMMA SettleKeeps ==
    ASSUME OutboxInv, NEW d \in deliveries, Settle(d)
    PROVE  OutboxInv'
<1>1. \/ event' = event
      \/ /\ HoldsEvent(d)
         /\ \E status \in {"pending", "delivered", "failed"} :
                event' = [event EXCEPT ![d.event] = Unclaimed(@, status)]
    BY RetriedStatus DEF Settle, AcknowledgeEvent, FailEvent, RetryEvent
<1>2. UNCHANGED <<subscribed, subject, sends, owed>> /\ (Leave(d) \/ GoTo(d, "retrying", {}))
    BY DEF Settle, AcknowledgeEvent, FailEvent, RetryEvent
<1>3. CASE event' = event
    <2>1. WorldKept
        BY <1>2, <1>3 DEF WorldKept
    <2>2. QED
        BY <1>2, <2>1, KeptWorld, SettlingStep
<1>4. CASE /\ HoldsEvent(d)
           /\ \E status \in {"pending", "delivered", "failed"} :
                  event' = [event EXCEPT ![d.event] = Unclaimed(@, status)]
    BY <1>2, <1>4, UnclaimedRow, SettlingStep
<1>5. QED
    BY <1>1, <1>3, <1>4

LEMMA DeliverKeeps ==
    ASSUME OutboxInv, NEW d \in deliveries,
           Deliver(d) \/ Settle(d) \/ NoHandler(d) \/ HandlerFails(d) \/ LoseDelivery(d)
    PROVE  OutboxInv'
<1>1. CASE Deliver(d)
    BY <1>1, PublishHintKeeps, ListSubscriptionsKeeps, AllPushedKeeps, PushOneKeeps,
       CheckChallengeKeeps,
       CheckSecurityEmailKeeps, SendEmailKeeps, MarkDeliveredKeeps DEF Deliver
<1>2. CASE Settle(d)
    BY <1>2, SettleKeeps
<1>3. CASE NoHandler(d) \/ HandlerFails(d) \/ LoseDelivery(d)
    BY <1>3, FailingStep, RetryingStep, LeavingStep DEF NoHandler, HandlerFails, LoseDelivery,
       WorldKept
<1>4. QED
    BY <1>1, <1>2, <1>3

\* A step outside the deliveries, after which whoever is owed an event may still be reached.
LEMMA OtherStep ==
    ASSUME OutboxInv, deliveries' = deliveries, sends' = sends,
           event' \in [Events -> EventRow], subscribed' \subseteq Devices,
           subject' \in [Events -> {"live", "dead", "marked", "erased"}],
           owed' \in [Events -> SUBSET Recipients],
           \A e \in Events :
               /\ event'[e].attempts = event[e].attempts
               /\ event[e].status # "absent" =>
                      /\ event'[e].status # "absent" /\ event'[e].kind = event[e].kind
                      /\ owed'[e] \subseteq owed[e]
               /\ event'[e].status = "absent" =>
                      event'[e].kind = event[e].kind /\ owed'[e] = owed[e] /\ subject'[e] = subject[e],
           OwedByKind'
    PROVE  OutboxInv'
<1> USE DEF OutboxInv
<1>1. OutboxTypeOK'
    BY DEF OutboxTypeOK
<1>2. \A e, r : Ahead(e, r)' = Ahead(e, r)
    BY DEF Ahead, MaySend, MaySendAt
<1>3. SendsWithinAttempts'
    BY <1>2 DEF SendsWithinAttempts
<1>4. AbsentUntouched'
    BY DEF AbsentUntouched
<1>5. DeliveriesOnTrack'
    <2>1. ASSUME NEW d \in deliveries PROVE OnTrackAt(d.event, d.step, d.todo)'
        <3>1. d.event \in Events /\ event[d.event].status # "absent" /\ OnTrackAt(d.event, d.step, d.todo)
            BY Posted
        <3>2. Reached(d.event)' = Reached(d.event)
            BY DEF Reached
        <3>3. QED
            BY <3>1, <3>2 DEF OnTrackAt
    <2>2. QED
        BY <2>1 DEF DeliveriesOnTrack
<1>6. QED
    BY <1>1, <1>3, <1>4, <1>5

LEMMA InsertEventKeeps ==
    ASSUME OutboxInv, NEW e \in Events, InsertEvent(e)
    PROVE  OutboxInv'
<1>1. PICK kind \in Kinds :
         /\ event' = [event EXCEPT ![e] = [@ EXCEPT !.status = "pending", !.kind = kind]]
         /\ owed' = [owed EXCEPT ![e] = Addressees(kind)]
    BY DEF InsertEvent
<1>2. /\ event' \in [Events -> EventRow]
      /\ event'[e].status = "pending" /\ event'[e].kind = kind
      /\ event'[e].attempts = event[e].attempts
      /\ \A f \in Events : f # e => event'[f] = event[f]
    BY <1>1, RowTypes DEF OutboxInv, EventRow
<1>3. subscribed \subseteq Devices /\ owed \in [Events -> SUBSET Recipients]
    BY DEF OutboxInv, OutboxTypeOK
<1>4. Addressees(kind) \subseteq Recipients
    BY <1>3, RecipientSet DEF Addressees
<1>5. /\ owed' \in [Events -> SUBSET Recipients]
      /\ owed'[e] = Addressees(kind) /\ \A f \in Events : f # e => owed'[f] = owed[f]
    BY <1>1, <1>3, <1>4
<1>6. subject[e] = "live" /\ event[e].status = "absent"
    BY DEF InsertEvent, OutboxInv, AbsentUntouched
<1>7. OwedByKind'
    BY <1>2, <1>5, <1>6 DEF InsertEvent, OutboxInv, OwedByKind, Addressees, Reached
<1>8. QED
    BY <1>2, <1>5, <1>6, <1>7, OtherStep DEF InsertEvent, OutboxInv, OutboxTypeOK

LEMMA SubjectEndsKeeps ==
    ASSUME OutboxInv, NEW e \in Events, SubjectEnds(e)
    PROVE  OutboxInv'
<1>1. /\ subject' \in [Events -> {"live", "dead", "marked", "erased"}] /\ owed' \in [Events -> SUBSET Recipients]
      /\ subject'[e] = "dead" /\ owed'[e] = IF event[e].kind = "message" THEN owed[e] \ Devices ELSE owed[e]
      /\ \A f \in Events : f # e => subject'[f] = subject[f] /\ owed'[f] = owed[f]
    BY DEF SubjectEnds, OutboxInv, OutboxTypeOK
<1>2. event[e].status # "absent"
    BY DEF SubjectEnds, OutboxInv, AbsentUntouched
<1>3. OwedByKind'
    BY <1>1 DEF SubjectEnds, OutboxInv, OwedByKind, Addressees, Reached
<1>4. QED
    BY <1>1, <1>2, <1>3, OtherStep, RowTypes DEF SubjectEnds, OutboxInv, OutboxTypeOK

LEMMA ScrubAccountKeeps ==
    ASSUME OutboxInv, NEW e \in Events, ScrubAccount(e)
    PROVE  OutboxInv'
<1>1. /\ subject' \in [Events -> {"live", "dead", "marked", "erased"}]
      /\ owed' \in [Events -> SUBSET Recipients]
      /\ subject'[e] = "erased" /\ owed'[e] = owed[e] \ {"mailbox"}
      /\ \A f \in Events : f # e => subject'[f] = subject[f] /\ owed'[f] = owed[f]
    BY DEF ScrubAccount, OutboxInv, OutboxTypeOK
<1>2. event[e].status # "absent" /\ event[e].kind = "security"
    BY DEF ScrubAccount, OutboxInv, AbsentUntouched
<1>3. OwedByKind'
    BY <1>1, <1>2 DEF ScrubAccount, OutboxInv, OwedByKind, Addressees, Reached
<1>4. QED
    BY <1>1, <1>2, <1>3, OtherStep, RowTypes DEF ScrubAccount, OutboxInv, OutboxTypeOK

LEMMA SubscriptionKeeps ==
    ASSUME OutboxInv, NEW device \in Devices, Subscribe(device) \/ Unsubscribe(device)
    PROVE  OutboxInv'
<1>1. /\ subscribed' \subseteq Devices /\ owed' \in [Events -> SUBSET Recipients]
      /\ \A e \in Events : owed'[e] \subseteq owed[e] /\ (owed[e] = {} => owed'[e] = {})
      /\ UNCHANGED <<event, deliveries, subject, sends>>
    BY DEF Subscribe, Unsubscribe, OutboxInv, OutboxTypeOK
<1>2. OwedByKind'
    <2>1. CASE Subscribe(device)
        BY <2>1 DEF Subscribe, OutboxInv, OwedByKind, Addressees, Reached
    <2>2. CASE Unsubscribe(device)
        BY <2>2, RecipientSet DEF Unsubscribe, OutboxInv, OwedByKind, Addressees, Reached
    <2>3. QED
        BY <2>1, <2>2
<1>3. \A e \in Events : event[e].status = "absent" => owed'[e] = owed[e]
    BY <1>1 DEF OutboxInv, AbsentUntouched
<1>4. QED
    BY <1>1, <1>2, <1>3, OtherStep, RowTypes DEF OutboxInv, OutboxTypeOK

LEMMA ClockKeeps ==
    ASSUME OutboxInv, NEW e \in Events, EventDue(e) \/ EventLeaseExpires(e)
    PROVE  OutboxInv'
<1>1. /\ event' \in [Events -> EventRow] /\ UNCHANGED <<deliveries, subscribed, subject, sends, owed>>
      /\ \A f \in Events : /\ event'[f].status = event[f].status /\ event'[f].kind = event[f].kind
                           /\ event'[f].attempts = event[f].attempts
    <2>1. CASE EventDue(e)
        BY <2>1, RowTypes DEF EventDue, OutboxInv, EventRow
    <2>2. CASE EventLeaseExpires(e)
        BY <2>2, RowTypes DEF EventLeaseExpires, OutboxInv, EventRow
    <2>3. QED
        BY <2>1, <2>2
<1>2. OwedByKind'
    BY <1>1 DEF OutboxInv, OwedByKind, Addressees, Reached
<1>3. QED
    BY <1>1, <1>2, OtherStep DEF OutboxInv, OutboxTypeOK

\* A claim has every send ahead of it, and one more attempt to account for them.
LEMMA ClaimEventKeeps ==
    ASSUME OutboxInv, NEW w \in Consumers, NEW e \in Events, ClaimEvent(w, e)
    PROVE  OutboxInv'
<1> USE DEF OutboxInv
<1> DEFINE row == [status |-> "processing", kind |-> event[e].kind, ready |-> FALSE, expired |-> FALSE,
                   by |-> w, version |-> event[e].version + 1, attempts |-> event[e].attempts + 1]
           q   == [event |-> e, worker |-> w, version |-> event[e].version + 1, step |-> "started", todo |-> {}]
<1>1. /\ event[e].attempts < MaxDeliveries /\ event[e].attempts + 1 \in 0 .. MaxDeliveries
      /\ event[e].version + 1 \in Nat /\ event[e].kind \in Kinds /\ event[e].status # "absent"
      /\ event \in [Events -> EventRow]
    BY RowTypes, DeliveriesAssumption DEF ClaimEvent, EventClaimable
<1>2. /\ row \in EventRow /\ row.status = "processing" /\ row.kind = event[e].kind
      /\ row.attempts = event[e].attempts + 1
      /\ q \in Delivery /\ q.event = e /\ q.step = "started" /\ q.todo = {}
    BY <1>1 DEF EventRow, Delivery, Step
<1>3. event' = [event EXCEPT ![e] = row] /\ deliveries' = deliveries \cup {q}
    BY DEF ClaimEvent
<1> HIDE DEF row, q
<1>4. UNCHANGED <<subscribed, subject, sends, owed>>
    BY DEF ClaimEvent
<1>5. OutboxTypeOK'
    BY <1>1, <1>2, <1>3, <1>4 DEF OutboxTypeOK
<1>6. SendsWithinAttempts'
    <2>1. IsFiniteSet(deliveries')
        BY <1>3, FS_AddElement DEF SendsWithinAttempts
    <2>2. ASSUME NEW f \in Events, NEW r \in Recipients
          PROVE  sends'[f][r] + Cardinality(Ahead(f, r)') <= event'[f].attempts
        <3> DEFINE A == Ahead(f, r)
                   B == {x \in deliveries' : x.event = f /\ MaySend(x, r)}
        <3>1. Ahead(f, r)' = B
            BY DEF Ahead, MaySend, MaySendAt
        <3>2. IsFiniteSet(A) /\ Cardinality(A) \in Nat
            BY AheadFinite
        <3>3. sends[f][r] + Cardinality(A) <= event[f].attempts /\ sends[f][r] \in Nat
            BY SendTypes DEF SendsWithinAttempts
        <3>4. CASE f = e
            <4>1. B = A \cup {q}
                BY <1>2, <1>3, <3>4, MaySendAtMost DEF Ahead, MaySend
            <4>2. Cardinality(A \cup {q}) = (IF q \in A THEN Cardinality(A) ELSE Cardinality(A) + 1)
                BY <3>2, FS_AddElement
            <4>3. event'[f].attempts = event[f].attempts + 1 /\ event[f].attempts \in Nat
                BY <1>1, <1>2, <1>3, <3>4, RowTypes
            <4> HIDE DEF A, B
            <4>4. Cardinality(B) <= Cardinality(A) + 1 /\ Cardinality(B) \in Nat
                BY <3>2, <4>1, <4>2
            <4>5. sends'[f][r] = sends[f][r]
                BY <1>4
            <4>6. QED
                BY <3>1, <3>2, <3>3, <4>3, <4>4, <4>5
        <3>5. CASE f # e
            <4>1. B = A
                BY <1>2, <1>3, <3>5 DEF Ahead
            <4>2. event'[f] = event[f]
                BY <1>1, <1>3, <3>5
            <4>3. QED
                BY <1>4, <3>1, <3>3, <4>1, <4>2
        <3>6. QED
            BY <3>4, <3>5
    <2>3. QED
        BY <2>1, <2>2 DEF SendsWithinAttempts
<1>7. AbsentUntouched'
    BY <1>1, <1>2, <1>3, <1>4 DEF AbsentUntouched
<1>8. OwedByKind'
    BY <1>1, <1>2, <1>3, <1>4 DEF OwedByKind, Addressees, Reached
<1>9. DeliveriesOnTrack'
    <2>1. \A f \in Events : event'[f].kind = event[f].kind
        BY <1>1, <1>2, <1>3
    <2>2. ASSUME NEW d \in deliveries PROVE OnTrackAt(d.event, d.step, d.todo)'
        <3>1. d.event \in Events /\ OnTrackAt(d.event, d.step, d.todo)
            BY Posted
        <3>2. Reached(d.event)' = Reached(d.event)
            BY <1>4 DEF Reached
        <3>3. QED
            BY <1>4, <2>1, <3>1, <3>2 DEF OnTrackAt
    <2>3. OnTrackAt(e, "started", {})'
        BY DEF OnTrackAt
    <2>4. QED
        BY <1>2, <1>3, <2>2, <2>3 DEF DeliveriesOnTrack
<1>10. QED
    BY <1>5, <1>6, <1>7, <1>8, <1>9

-----------------------------------------------------------------------------

LEMMA OutboxInitHolds == OutboxInit => OutboxInv
<1> SUFFICES ASSUME OutboxInit PROVE OutboxInv
    OBVIOUS
<1>1. event \in [Events -> EventRow]
          /\ \A e \in Events : event[e].status = "absent" /\ event[e].kind = "hint" /\ event[e].attempts = 0
    <2>1. [status |-> "absent", kind |-> "hint", ready |-> FALSE, expired |-> FALSE, by |-> NoConsumer,
           version |-> 0, attempts |-> 0] \in EventRow
        BY DeliveriesAssumption DEF EventRow, Kinds
    <2>2. QED
        BY <2>1 DEF OutboxInit
<1>2. sends \in [Events -> [Recipients -> 0 .. MaxDeliveries]]
          /\ \A e \in Events, r \in Recipients : sends[e][r] = 0
    BY DeliveriesAssumption DEF OutboxInit
<1>3. /\ deliveries = {} /\ subscribed = Devices
      /\ subject \in [Events -> {"live", "dead", "marked", "erased"}] /\ owed \in [Events -> SUBSET Recipients]
      /\ \A e \in Events : subject[e] = "live" /\ owed[e] = {}
    BY DEF OutboxInit
<1>4. OutboxTypeOK
    BY <1>1, <1>2, <1>3 DEF OutboxTypeOK
<1>5. SendsWithinAttempts
    <2>1. \A e, r : Ahead(e, r) = {}
        BY <1>3 DEF Ahead
    <2>2. IsFiniteSet(deliveries) /\ \A e, r : Cardinality(Ahead(e, r)) = 0
        BY <1>3, <2>1, FS_EmptySet
    <2>3. QED
        BY <1>1, <1>2, <2>2 DEF SendsWithinAttempts
<1>6. AbsentUntouched /\ OwedByKind /\ DeliveriesOnTrack
    BY <1>1, <1>3 DEF AbsentUntouched, OwedByKind, DeliveriesOnTrack
<1>7. QED
    BY <1>4, <1>5, <1>6 DEF OutboxInv

LEMMA OutboxNextHolds == OutboxInv /\ [OutboxNext]_outboxVars => OutboxInv'
<1> SUFFICES ASSUME OutboxInv, [OutboxNext]_outboxVars PROVE OutboxInv'
    OBVIOUS
<1>1. CASE OutboxNext
    BY <1>1, InsertEventKeeps, SubjectEndsKeeps, ScrubAccountKeeps, ClockKeeps, SubscriptionKeeps,
       ClaimEventKeeps, DeliverKeeps DEF OutboxNext
<1>2. CASE UNCHANGED outboxVars
    BY <1>2, OtherStep, RowTypes DEF outboxVars, OutboxInv, OutboxTypeOK, OwedByKind, Addressees,
       Reached
<1>3. QED
    BY <1>1, <1>2

LEMMA OutboxInvHolds == OutboxSpec => []OutboxInv
BY OutboxInitHolds, OutboxNextHolds, PTL DEF OutboxSpec

-----------------------------------------------------------------------------
(* Every step is one of the abstract specification, or none.                 *)

Outcomes == [e \in Events |-> Outcome(event[e].status)]
Reaches  == [e \in Events |-> Reached(e)]
AbstractVars == <<Outcomes, owed, Reaches>>
AbstractNext == [Promise!Next]_AbstractVars

LEMMA OutcomeOf ==
    /\ Outcome("absent") = "none"
    /\ Outcome("pending") = "waiting" /\ Outcome("processing") = "waiting"
    /\ Outcome("delivered") = "delivered" /\ Outcome("failed") = "abandoned"
BY DEF Outcome

LEMMA Stutters ==
    ASSUME \A e \in Events : Outcome(event'[e].status) = Outcome(event[e].status),
           UNCHANGED <<owed, sends>>
    PROVE  AbstractNext
<1>1. Outcomes' = Outcomes
    BY DEF Outcomes
<1>2. Reaches' = Reaches
    BY DEF Reaches, Reached
<1>3. QED
    BY <1>1, <1>2 DEF AbstractNext, AbstractVars

\* A send reaches a recipient of an event that was posted.
LEMMA SendReaches ==
    ASSUME OutboxInv, NEW d \in deliveries, NEW r \in Recipients, SendTo(d, r),
           UNCHANGED <<event, owed>>
    PROVE  AbstractNext
<1>1. d.event \in Events /\ event[d.event].status # "absent" /\ event[d.event] \in EventRow
    BY Posted, RowTypes DEF OutboxInv
<1>2. \A e \in Events, s \in Recipients :
          sends'[e][s] = IF e = d.event /\ s = r THEN sends[e][s] + 1 ELSE sends[e][s]
    BY SentOnce DEF OutboxInv
<1>3. sends[d.event][r] \in Nat
    BY <1>1, SendTypes DEF OutboxInv
<1>4. Outcomes[d.event] # "none"
    BY <1>1 DEF Outcomes, Outcome, EventRow
<1>5. Reaches' = [Reaches EXCEPT ![d.event] = @ \cup {r}]
    <2>1. \A e \in Events : Reached(e)' = IF e = d.event THEN Reached(e) \cup {r} ELSE Reached(e)
        BY <1>1, <1>2, <1>3 DEF Reached
    <2>2. QED
        BY <1>1, <2>1 DEF Reaches
<1>6. Outcomes' = Outcomes /\ owed' = owed
    BY DEF Outcomes
<1>7. Promise!Reach(d.event, r)
    BY <1>4, <1>5, <1>6 DEF Promise!Reach, Outcomes, Reaches, Reached
<1>8. QED
    BY <1>1, <1>7 DEF AbstractNext, Promise!Next

\* A recipient who is no longer owed an event is excused.
LEMMA Excuses ==
    ASSUME owed' = [e \in Events |-> owed'[e]], \A e \in Events : owed'[e] \subseteq owed[e],
           UNCHANGED <<event, sends>>
    PROVE  AbstractNext
<1>1. Outcomes' = Outcomes /\ Reaches' = Reaches
    BY DEF Outcomes, Reaches, Reached
<1>2. DOMAIN owed' = Events
    OBVIOUS
<1>3. Promise!Excuse
    BY <1>1, <1>2 DEF Promise!Excuse, Outcomes, Reaches, Reached
<1>4. QED
    BY <1>3 DEF AbstractNext, Promise!Next

LEMMA InsertPosts ==
    ASSUME OutboxInv, NEW e \in Events, InsertEvent(e)
    PROVE  AbstractNext
<1>1. PICK kind \in Kinds :
         /\ event' = [event EXCEPT ![e] = [@ EXCEPT !.status = "pending", !.kind = kind]]
         /\ owed' = [owed EXCEPT ![e] = Addressees(kind)]
    BY DEF InsertEvent
<1>2. /\ event'[e].status = "pending" /\ event[e].status = "absent"
      /\ \A f \in Events : f # e => event'[f] = event[f]
    BY <1>1, RowTypes DEF InsertEvent, OutboxInv, EventRow
<1>3. Outcomes' = [Outcomes EXCEPT ![e] = "waiting"] /\ Outcomes[e] = "none"
    BY <1>2, OutcomeOf DEF Outcomes
<1>4. Reaches' = Reaches
    BY DEF InsertEvent, Reaches, Reached
<1>5. Addressees(kind) \in SUBSET Recipients
    BY RecipientSet DEF Addressees, OutboxInv, OutboxTypeOK
<1>6. Promise!Post(e)
    BY <1>1, <1>3, <1>4, <1>5 DEF Promise!Post, Outcomes, Reaches, Reached
<1>7. QED
    BY <1>6 DEF AbstractNext, Promise!Next

\* Only a delivery that is done acknowledges, and it has reached whoever is still owed.
LEMMA SettleEnds ==
    ASSUME OutboxInv, NEW d \in deliveries, Settle(d)
    PROVE  AbstractNext
<1> DEFINE e == d.event
<1>1. e \in Events /\ event \in [Events -> EventRow] /\ event[e] \in EventRow
    BY Posted, RowTypes DEF OutboxInv
<1>2. UNCHANGED <<sends, owed>> /\ Reaches' = Reaches
    BY DEF Settle, AcknowledgeEvent, FailEvent, RetryEvent, Reaches, Reached
<1>3. \A status : Unclaimed(event[e], status).status = status
    BY <1>1 DEF Unclaimed, EventRow
<1>4. ASSUME HoldsEvent(d), NEW status \in {"pending", "delivered", "failed"},
             event' = [event EXCEPT ![e] = Unclaimed(@, status)],
             status = "delivered" => owed[e] \subseteq Reached(e)
      PROVE  AbstractNext
    <2>1. /\ event'[e].status = status /\ event[e].status = "processing"
          /\ \A f \in Events : f # e => event'[f] = event[f]
        BY <1>1, <1>3, <1>4 DEF HoldsEvent
    <2>2. CASE status = "pending"
        BY <1>2, <2>1, <2>2, Stutters, OutcomeOf
    <2>3. CASE status = "delivered"
        <3>1. Outcomes' = [Outcomes EXCEPT ![e] = "delivered"] /\ Outcomes[e] = "waiting"
            BY <1>1, <2>1, <2>3, OutcomeOf DEF Outcomes
        <3>2. owed[e] \subseteq Reaches[e]
            BY <1>1, <1>4, <2>3 DEF Reaches
        <3>3. Promise!Deliver(e)
            BY <1>2, <3>1, <3>2 DEF Promise!Deliver, Outcomes, Reaches, Reached
        <3>4. QED
            BY <1>1, <3>3 DEF AbstractNext, Promise!Next
    <2>4. CASE status = "failed"
        <3>1. Outcomes' = [Outcomes EXCEPT ![e] = "abandoned"] /\ Outcomes[e] = "waiting"
            BY <1>1, <2>1, <2>4, OutcomeOf DEF Outcomes
        <3>2. Promise!Abandon(e)
            BY <1>2, <3>1 DEF Promise!Abandon, Outcomes, Reaches, Reached
        <3>3. QED
            BY <1>1, <3>2 DEF AbstractNext, Promise!Next
    <2>5. QED
        BY <2>2, <2>3, <2>4
<1>5. CASE event' = event
    BY <1>2, <1>5, Stutters
<1>6. CASE event' # event
    <2>1. CASE AcknowledgeEvent(d)
        <3>1. owed[e] \subseteq Reached(e)
            BY <2>1, Posted DEF AcknowledgeEvent, OnTrackAt
        <3>2. QED
            BY <1>4, <1>6, <2>1, <3>1 DEF AcknowledgeEvent
    <2>2. CASE FailEvent(d)
        BY <1>4, <1>6, <2>2 DEF FailEvent
    <2>3. CASE RetryEvent(d)
        <3>1. HoldsEvent(d) /\ event' = [event EXCEPT ![e] = Retried(@)]
            BY <1>6, <2>3 DEF RetryEvent
        <3>2. PICK status \in {"pending", "failed"} : Retried(event[e]) = Unclaimed(event[e], status)
            BY RetriedStatus
        <3>3. QED
            BY <1>4, <3>1, <3>2
    <2>4. QED
        BY <2>1, <2>2, <2>3 DEF Settle
<1>7. QED
    BY <1>5, <1>6

LEMMA DeliverReaches ==
    ASSUME OutboxInv, NEW d \in deliveries, Deliver(d)
    PROVE  AbstractNext
<1>1. \/ UNCHANGED <<event, owed, sends>>
      \/ \E r \in Recipients : SendTo(d, r) /\ UNCHANGED <<event, owed>>
      \/ \E device \in Devices :
             owed' = [e \in Events |-> owed[e] \ {device}] /\ UNCHANGED <<event, sends>>
    <2>1. CASE PublishHint(d) \/ SendEmail(d)
        BY <2>1, RecipientSet DEF PublishHint, SendEmail
    <2>2. ASSUME NEW device \in Devices, PushOne(d, device)
          PROVE  \/ UNCHANGED <<event, owed, sends>>
                 \/ \E r \in Recipients : SendTo(d, r) /\ UNCHANGED <<event, owed>>
                 \/ owed' = [e \in Events |-> owed[e] \ {device}] /\ UNCHANGED <<event, sends>>
        BY <2>2, RecipientSet DEF PushOne
    <2>3. CASE \/ ListSubscriptions(d) \/ AllPushed(d) \/ CheckChallenge(d) \/ CheckSecurityEmail(d)
               \/ MarkDelivered(d)
        BY <2>3 DEF ListSubscriptions, AllPushed, CheckChallenge, CheckSecurityEmail,
           MarkDelivered
    <2>4. QED
        BY <2>1, <2>2, <2>3 DEF Deliver
<1>2. CASE UNCHANGED <<event, owed, sends>>
    BY <1>2, Stutters
<1>3. CASE \E r \in Recipients : SendTo(d, r) /\ UNCHANGED <<event, owed>>
    BY <1>3, SendReaches
<1>4. ASSUME NEW device \in Devices, owed' = [e \in Events |-> owed[e] \ {device}], UNCHANGED <<event, sends>>
      PROVE  AbstractNext
    <2>1. owed' = [e \in Events |-> owed'[e]] /\ \A e \in Events : owed'[e] \subseteq owed[e]
        BY <1>4
    <2>2. QED
        BY <1>4, <2>1, Excuses
<1>5. QED
    BY <1>1, <1>2, <1>3, <1>4

LEMMA NextRefines == OutboxInv /\ [OutboxNext]_outboxVars => AbstractNext
<1> SUFFICES ASSUME OutboxInv, [OutboxNext]_outboxVars PROVE AbstractNext
    OBVIOUS
<1>1. event \in [Events -> EventRow] /\ owed \in [Events -> SUBSET Recipients]
    BY DEF OutboxInv, OutboxTypeOK
<1>2. ASSUME NEW e \in Events, InsertEvent(e) PROVE AbstractNext
    BY <1>2, InsertPosts
<1>3. ASSUME NEW e \in Events, SubjectEnds(e) \/ ScrubAccount(e) PROVE AbstractNext
    <2>1. owed' = [f \in Events |-> owed'[f]] /\ \A f \in Events : owed'[f] \subseteq owed[f]
        BY <1>1, <1>3 DEF SubjectEnds, ScrubAccount
    <2>2. QED
        BY <1>3, <2>1, Excuses DEF SubjectEnds, ScrubAccount
<1>4. ASSUME NEW e \in Events, EventDue(e) \/ EventLeaseExpires(e) PROVE AbstractNext
    <2>1. \A f \in Events : event'[f].status = event[f].status
        BY <1>1, <1>4 DEF EventDue, EventLeaseExpires, EventRow
    <2>2. QED
        BY <1>4, <2>1, Stutters DEF EventDue, EventLeaseExpires
<1>5. ASSUME NEW device \in Devices, Subscribe(device) \/ Unsubscribe(device) PROVE AbstractNext
    <2>1. CASE Subscribe(device)
        BY <2>1, Stutters DEF Subscribe
    <2>2. CASE Unsubscribe(device)
        <3>1. owed' = [f \in Events |-> owed'[f]] /\ \A f \in Events : owed'[f] \subseteq owed[f]
            BY <1>1, <2>2 DEF Unsubscribe
        <3>2. QED
            BY <2>2, <3>1, Excuses DEF Unsubscribe
    <2>3. QED
        BY <1>5, <2>1, <2>2
<1>6. ASSUME NEW w \in Consumers, NEW e \in Events, ClaimEvent(w, e) PROVE AbstractNext
    <2>1. /\ event'[e].status = "processing" /\ event[e].status \in {"pending", "processing"}
          /\ \A f \in Events : f # e => event'[f] = event[f]
        BY <1>1, <1>6 DEF ClaimEvent, EventClaimable
    <2>2. QED
        BY <1>6, <2>1, Stutters, OutcomeOf DEF ClaimEvent
<1>7. ASSUME NEW d \in deliveries, Deliver(d) \/ Settle(d) PROVE AbstractNext
    BY <1>7, DeliverReaches, SettleEnds
<1>8. ASSUME NEW d \in deliveries, NoHandler(d) \/ HandlerFails(d) \/ LoseDelivery(d) PROVE AbstractNext
    BY <1>8, Stutters DEF NoHandler, HandlerFails, LoseDelivery
<1>9. CASE UNCHANGED outboxVars
    BY <1>9, Stutters DEF outboxVars
<1>10. QED
    BY <1>2, <1>3, <1>4, <1>5, <1>6, <1>7, <1>8, <1>9 DEF OutboxNext

\* The outbox implements the abstract specification: an event counts as delivered only
\* when everyone who was owed it has been reached, by whichever of the overlapping
\* deliveries, and a settled event stays settled, for any number of workers, devices and
\* attempts (deliver, outboxConsumer).
THEOREM DeliversAtLeastOnce == OutboxSpec => ImplementsAtLeastOnce
<1>1. OutboxInit => Promise!Init
    BY DEF OutboxInit, Promise!Init, Outcome
<1>2. OutboxInv /\ [OutboxNext]_outboxVars
          => [Promise!Next]_<<[e \in Events |-> Outcome(event[e].status)], owed,
                              [e \in Events |-> {r \in Recipients : sends[e][r] > 0}]>>
    BY NextRefines DEF AbstractNext, AbstractVars, Outcomes, Reaches, Reached
<1>3. QED
    BY <1>1, <1>2, OutboxInvHolds, PTL DEF OutboxSpec, ImplementsAtLeastOnce, Promise!Spec

\* Rows, deliveries and counters keep their types; in particular no recipient is sent an
\* event more often than it may be attempted (claimOutboxEvents, retryOutboxEvent).
THEOREM OutboxTypeCorrect == OutboxSpec => []OutboxTypeOK
<1>1. OutboxInv => OutboxTypeOK
    BY DEF OutboxInv
<1>2. QED
    BY <1>1, OutboxInvHolds, PTL

-----------------------------------------------------------------------------
(* DeletionManifests, for any workers, tables and objects.                    *)

\* What a target stands for is gone from the database.
Erased(t) == IF t = ContentTarget THEN content = {} ELSE mediaRows = {}

\* A run that is done has erased its target, and a row is only forgotten once its
\* object was deleted from the store.
RunsErase ==
    \A r \in runs :
        /\ r.step = "done" => Erased(r.target)
        /\ r.step = "forgetting" => r.hand \subseteq erased

CompletedErased == \A t \in Targets : target[t].status = "completed" => Erased(t)

\* An object is deleted before its row, and is back in the store only by an upload.
ObjectGoesFirst == Objects \ mediaRows \subseteq erased /\ stored \cap erased \subseteq late

DeletionInv ==
    /\ DeletionTypeOK
    /\ RunsErase /\ CompletedErased /\ ObjectGoesFirst
    /\ ManifestMatchesTargets

-----------------------------------------------------------------------------
(* What a step does to the runs and to the targets.                          *)

Steps == {"started", "erasing", "forgetting", "done", "closing", "failing", "failed", "retrying"}

\* The run goes on with another step, and with the objects in hand; no other is changed.
RunMoved(r, step, hand) ==
    /\ runs' \subseteq Run
    /\ \A q \in runs : q # r => q \in runs'
    /\ \A q \in runs' : q \in runs \/ (q.step = step /\ q.target = r.target /\ q.hand = hand)
    /\ \E q \in runs' : q.step = step

Gone(r) ==
    /\ runs' \subseteq Run /\ runs' \subseteq runs
    /\ \A q \in runs : q # r => q \in runs'

LEMMA MovedRun ==
    ASSUME DeletionTypeOK, NEW r \in runs, NEW step \in Steps,
           NEW todo \in SUBSET Objects, NEW hand \in SUBSET Objects,
           runs' = (runs \ {r}) \cup {[r EXCEPT !.step = step, !.todo = todo, !.hand = hand]}
    PROVE  RunMoved(r, step, hand)
<1> DEFINE q == [r EXCEPT !.step = step, !.todo = todo, !.hand = hand]
<1>1. r \in Run /\ runs \subseteq Run
    BY DEF DeletionTypeOK
<1>2. q \in Run /\ q.step = step /\ q.target = r.target /\ q.hand = hand
    BY <1>1 DEF Run, Steps
<1>3. runs' = (runs \ {r}) \cup {q}
    OBVIOUS
<1> HIDE DEF q
<1>4. QED
    BY <1>1, <1>2, <1>3 DEF RunMoved

LEMMA ContinuedRun ==
    ASSUME DeletionTypeOK, NEW r \in runs, NEW step \in Steps, Continue(r, step)
    PROVE  RunMoved(r, step, {})
BY MovedRun, Zenon DEF Continue

LEMMA DroppedRun ==
    ASSUME DeletionTypeOK, NEW r \in runs, Drop(r)
    PROVE  Gone(r)
BY DEF DeletionTypeOK, Drop, Gone

\* Only a target under the claim of the run is written.
Written(r, status) ==
    /\ target' \in [Targets -> TargetRow]
    /\ \A t \in Targets :
           \/ target'[t] = target[t]
           \/ HoldsTarget(r) /\ target[t].status = "processing" /\ t = r.target /\ target'[t].status = status

LEMMA WrittenTarget ==
    ASSUME DeletionTypeOK, NEW r \in runs, NEW status \in Unfinished \cup {"completed"}, SetTarget(r, status)
    PROVE  Written(r, status)
<1>1. /\ r.target \in Targets /\ target \in [Targets -> TargetRow]
      /\ target[r.target] \in TargetRow
    BY DEF DeletionTypeOK, Run
<1>2. CASE ~ HoldsTarget(r)
    BY <1>1, <1>2 DEF SetTarget, Written
<1>3. CASE HoldsTarget(r)
    <2> DEFINE row == [target[r.target] EXCEPT !.status = status, !.by = NoEraser, !.expired = FALSE]
    <2>1. row \in TargetRow /\ row.status = status
        BY <1>1 DEF TargetRow
    <2>2. target' = [target EXCEPT ![r.target] = row]
        BY <1>3 DEF SetTarget
    <2>3. target[r.target].status = "processing"
        BY <1>3 DEF HoldsTarget
    <2> HIDE DEF row
    <2>4. QED
        BY <1>1, <1>3, <2>1, <2>2, <2>3 DEF Written
<1>4. QED
    BY <1>2, <1>3

-----------------------------------------------------------------------------
(* Every step keeps the invariant.                                           *)

LEMMA CreateManifestKeeps ==
    ASSUME DeletionInv, CreateManifest
    PROVE  DeletionInv'
<1>1. DeletionTypeOK'
    BY DEF CreateManifest, DeletionInv, DeletionTypeOK, contentVars, Unfinished
<1>2. (RunsErase /\ CompletedErased /\ ObjectGoesFirst)'
    BY DEF CreateManifest, DeletionInv, RunsErase, CompletedErased, ObjectGoesFirst, Erased,
       contentVars
<1>3. ManifestMatchesTargets'
    BY DEF CreateManifest, DeletionInv, ManifestMatchesTargets, ObjectGoesFirst, contentVars
<1>4. QED
    BY <1>1, <1>2, <1>3 DEF DeletionInv

LEMMA UploadKeeps ==
    ASSUME DeletionInv, NEW o \in Objects, Upload(o)
    PROVE  DeletionInv'
<1>1. DeletionTypeOK'
    BY DEF Upload, DeletionInv, DeletionTypeOK, contentVars, Unfinished
<1>2. (RunsErase /\ CompletedErased /\ ObjectGoesFirst)'
    BY DEF Upload, DeletionInv, RunsErase, CompletedErased, ObjectGoesFirst, Erased, contentVars
<1>3. ManifestMatchesTargets'
    BY DEF Upload, DeletionInv, ManifestMatchesTargets, ObjectGoesFirst, contentVars
<1>4. QED
    BY <1>1, <1>2, <1>3 DEF DeletionInv

LEMMA UploadGrantExpiresKeeps ==
    ASSUME DeletionInv, NEW o \in Objects, UploadGrantExpires(o)
    PROVE  DeletionInv'
<1>1. DeletionTypeOK'
    BY DEF UploadGrantExpires, DeletionInv, DeletionTypeOK, contentVars, Unfinished
<1>2. (RunsErase /\ CompletedErased /\ ObjectGoesFirst)'
    BY DEF UploadGrantExpires, DeletionInv, RunsErase, CompletedErased, ObjectGoesFirst, Erased,
       contentVars
<1>3. ManifestMatchesTargets'
    BY DEF UploadGrantExpires, DeletionInv, ManifestMatchesTargets, ObjectGoesFirst, contentVars
<1>4. QED
    BY <1>1, <1>2, <1>3 DEF DeletionInv

LEMMA TargetDueKeeps ==
    ASSUME DeletionInv, NEW t \in Targets, TargetDue(t)
    PROVE  DeletionInv'
<1>1. target[t] \in TargetRow /\ target[t].status # "completed" /\ target \in [Targets -> TargetRow]
    BY DEF DeletionInv, DeletionTypeOK, TargetDue, TargetRow
<1>2. target' \in [Targets -> TargetRow]
    BY <1>1 DEF TargetDue, TargetRow, Unfinished
<1>3. target'[t].status # "completed" /\ \A u \in Targets : u # t => target'[u] = target[u]
    BY <1>1 DEF TargetDue, TargetRow
<1>4. DeletionTypeOK'
    BY <1>2, FaultsAssumption DEF DeletionInv, DeletionTypeOK, TargetDue, contentVars, Fault,
       Unfinished
<1>5. (RunsErase /\ CompletedErased /\ ObjectGoesFirst)'
    BY <1>3 DEF DeletionInv, TargetDue, RunsErase, CompletedErased, ObjectGoesFirst, Erased,
       contentVars
<1>6. ManifestMatchesTargets'
    BY <1>1, <1>3 DEF DeletionInv, TargetDue, ManifestMatchesTargets, contentVars
<1>7. QED
    BY <1>4, <1>5, <1>6 DEF DeletionInv

LEMMA TargetLeaseExpiresKeeps ==
    ASSUME DeletionInv, NEW t \in Targets, TargetLeaseExpires(t)
    PROVE  DeletionInv'
<1>1. target[t] \in TargetRow /\ target[t].status # "completed" /\ target \in [Targets -> TargetRow]
    BY DEF DeletionInv, DeletionTypeOK, TargetLeaseExpires, TargetRow
<1>2. target' \in [Targets -> TargetRow]
    BY <1>1 DEF TargetLeaseExpires, TargetRow, Unfinished
<1>3. target'[t].status # "completed" /\ \A u \in Targets : u # t => target'[u] = target[u]
    BY <1>1 DEF TargetLeaseExpires, TargetRow
<1>4. DeletionTypeOK'
    BY <1>2, FaultsAssumption DEF DeletionInv, DeletionTypeOK, TargetLeaseExpires, contentVars,
       Fault, Unfinished
<1>5. (RunsErase /\ CompletedErased /\ ObjectGoesFirst)'
    BY <1>3 DEF DeletionInv, TargetLeaseExpires, RunsErase, CompletedErased, ObjectGoesFirst,
       Erased, contentVars
<1>6. ManifestMatchesTargets'
    BY <1>1, <1>3 DEF DeletionInv, TargetLeaseExpires, ManifestMatchesTargets, contentVars
<1>7. QED
    BY <1>4, <1>5, <1>6 DEF DeletionInv

LEMMA ResumeTargetKeeps ==
    ASSUME DeletionInv, NEW t \in Targets, ResumeTarget(t)
    PROVE  DeletionInv'
<1>1. target[t] \in TargetRow /\ target[t].status # "completed" /\ target \in [Targets -> TargetRow]
    BY DEF DeletionInv, DeletionTypeOK, ResumeTarget, TargetRow
<1>2. target' \in [Targets -> TargetRow]
    BY <1>1 DEF ResumeTarget, TargetRow, Unfinished
<1>3. target'[t].status # "completed" /\ \A u \in Targets : u # t => target'[u] = target[u]
    BY <1>1 DEF ResumeTarget, TargetRow
<1>4. DeletionTypeOK'
    BY <1>2, FaultsAssumption DEF DeletionInv, DeletionTypeOK, ResumeTarget, contentVars, Fault,
       Unfinished
<1>5. (RunsErase /\ CompletedErased /\ ObjectGoesFirst)'
    BY <1>3 DEF DeletionInv, ResumeTarget, RunsErase, CompletedErased, ObjectGoesFirst, Erased,
       contentVars
<1>6. ManifestMatchesTargets'
    BY <1>1, <1>3 DEF DeletionInv, ResumeTarget, ManifestMatchesTargets, contentVars
<1>7. QED
    BY <1>4, <1>5, <1>6 DEF DeletionInv

LEMMA ClaimTargetKeeps ==
    ASSUME DeletionInv, NEW w \in Erasers, NEW t \in Targets, ClaimTarget(w, t)
    PROVE  DeletionInv'
<1> DEFINE row == [status |-> "processing", ready |-> FALSE, expired |-> FALSE,
                   by |-> w, version |-> target[t].version + 1]
           run == [worker |-> w, target |-> t, version |-> target[t].version + 1,
                   step |-> "started", todo |-> {}, hand |-> {}]
<1>1. target[t] \in TargetRow /\ target[t].status # "completed" /\ target \in [Targets -> TargetRow]
    BY DEF DeletionInv, DeletionTypeOK, ClaimTarget, TargetClaimable, TargetRow
<1>2. row \in TargetRow /\ row.status = "processing" /\ run \in Run /\ run.step = "started"
    BY <1>1 DEF TargetRow, Run, Unfinished
<1>3. target' = [target EXCEPT ![t] = row] /\ runs' = runs \cup {run}
    BY DEF ClaimTarget
<1> HIDE DEF row, run
<1>4. DeletionTypeOK'
    BY <1>1, <1>2, <1>3 DEF DeletionInv, DeletionTypeOK, ClaimTarget, contentVars, Unfinished
<1>5. (RunsErase /\ CompletedErased /\ ObjectGoesFirst)'
    BY <1>1, <1>2, <1>3 DEF DeletionInv, ClaimTarget, RunsErase, CompletedErased,
       ObjectGoesFirst, Erased, contentVars
<1>6. ManifestMatchesTargets'
    BY <1>1, <1>2, <1>3 DEF DeletionInv, ClaimTarget, ManifestMatchesTargets, contentVars
<1>7. QED
    BY <1>4, <1>5, <1>6 DEF DeletionInv

LEMMA NoTargetHandlerKeeps ==
    ASSUME DeletionInv, NEW r \in runs, NoTargetHandler(r)
    PROVE  DeletionInv'
<1>1. RunMoved(r, "failing", {})
    BY ContinuedRun DEF DeletionInv, NoTargetHandler, Steps
<1>2. DeletionTypeOK'
    BY <1>1, FaultsAssumption DEF DeletionInv, DeletionTypeOK, NoTargetHandler, RunMoved,
       contentVars, Fault
<1>3. (RunsErase /\ CompletedErased /\ ObjectGoesFirst)'
    BY <1>1 DEF DeletionInv, NoTargetHandler, RunMoved, RunsErase, CompletedErased, ObjectGoesFirst,
       Erased, contentVars
<1>4. ManifestMatchesTargets'
    BY <1>1 DEF DeletionInv, NoTargetHandler, RunMoved, ManifestMatchesTargets, contentVars
<1>5. QED
    BY <1>2, <1>3, <1>4 DEF DeletionInv

LEMMA EraserFailsKeeps ==
    ASSUME DeletionInv, NEW r \in runs, EraserFails(r)
    PROVE  DeletionInv'
<1>1. RunMoved(r, "retrying", {})
    BY ContinuedRun DEF DeletionInv, EraserFails, Steps
<1>2. DeletionTypeOK'
    BY <1>1, FaultsAssumption DEF DeletionInv, DeletionTypeOK, EraserFails, RunMoved, contentVars,
       Fault
<1>3. (RunsErase /\ CompletedErased /\ ObjectGoesFirst)'
    BY <1>1 DEF DeletionInv, EraserFails, RunMoved, RunsErase, CompletedErased, ObjectGoesFirst,
       Erased, contentVars
<1>4. ManifestMatchesTargets'
    BY <1>1 DEF DeletionInv, EraserFails, RunMoved, ManifestMatchesTargets, contentVars
<1>5. QED
    BY <1>2, <1>3, <1>4 DEF DeletionInv

LEMMA LoseClosingKeeps ==
    ASSUME DeletionInv, NEW r \in runs, LoseClosing(r)
    PROVE  DeletionInv'
<1>1. RunMoved(r, "retrying", {})
    BY ContinuedRun DEF DeletionInv, LoseClosing, Steps
<1>2. DeletionTypeOK'
    BY <1>1, FaultsAssumption DEF DeletionInv, DeletionTypeOK, LoseClosing, RunMoved, contentVars,
       Fault
<1>3. (RunsErase /\ CompletedErased /\ ObjectGoesFirst)'
    BY <1>1 DEF DeletionInv, LoseClosing, RunMoved, RunsErase, CompletedErased, ObjectGoesFirst,
       Erased, contentVars
<1>4. ManifestMatchesTargets'
    BY <1>1 DEF DeletionInv, LoseClosing, RunMoved, ManifestMatchesTargets, contentVars
<1>5. QED
    BY <1>2, <1>3, <1>4 DEF DeletionInv

LEMMA ContentErasedKeeps ==
    ASSUME DeletionInv, NEW r \in runs, ContentErased(r)
    PROVE  DeletionInv'
<1>1. RunMoved(r, "done", {})
    BY ContinuedRun DEF DeletionInv, ContentErased, Steps
<1>2. DeletionTypeOK'
    BY <1>1, FaultsAssumption DEF DeletionInv, DeletionTypeOK, ContentErased, RunMoved, contentVars,
       Fault
<1>3. (RunsErase /\ CompletedErased /\ ObjectGoesFirst)'
    BY <1>1 DEF DeletionInv, ContentErased, RunMoved, RunsErase, CompletedErased, ObjectGoesFirst,
       Erased, contentVars
<1>4. ManifestMatchesTargets'
    BY <1>1 DEF DeletionInv, ContentErased, RunMoved, ManifestMatchesTargets, contentVars
<1>5. QED
    BY <1>2, <1>3, <1>4 DEF DeletionInv

LEMMA EraserDiesKeeps ==
    ASSUME DeletionInv, NEW r \in runs, EraserDies(r)
    PROVE  DeletionInv'
<1>1. Gone(r)
    BY DroppedRun DEF DeletionInv, EraserDies
<1>2. DeletionTypeOK'
    BY <1>1, FaultsAssumption DEF DeletionInv, DeletionTypeOK, EraserDies, Gone, contentVars,
       Fault
<1>3. (RunsErase /\ CompletedErased /\ ObjectGoesFirst)'
    BY <1>1 DEF DeletionInv, EraserDies, Gone, RunsErase, CompletedErased, ObjectGoesFirst,
       Erased, contentVars
<1>4. ManifestMatchesTargets'
    BY <1>1 DEF DeletionInv, EraserDies, Gone, ManifestMatchesTargets, contentVars
<1>5. QED
    BY <1>2, <1>3, <1>4 DEF DeletionInv

LEMMA CloseManifestKeeps ==
    ASSUME DeletionInv, NEW r \in runs, CloseManifest(r)
    PROVE  DeletionInv'
<1>1. Gone(r)
    BY DroppedRun DEF DeletionInv, CloseManifest
<1>2. DeletionTypeOK'
    BY <1>1, FaultsAssumption DEF DeletionInv, DeletionTypeOK, CloseManifest, Gone, contentVars,
       Fault, AllCompleted, Unfinished
<1>3. (RunsErase /\ CompletedErased /\ ObjectGoesFirst)'
    BY <1>1 DEF DeletionInv, CloseManifest, Gone, RunsErase, CompletedErased, ObjectGoesFirst,
       Erased, contentVars, AllCompleted, Unfinished
<1>4. ManifestMatchesTargets'
    BY <1>1, TargetsAssumption DEF DeletionInv, CloseManifest, Gone, ManifestMatchesTargets,
       CompletedErased,
        Erased, Targets, AllCompleted, contentVars
<1>5. QED
    BY <1>2, <1>3, <1>4 DEF DeletionInv

LEMMA FailManifestKeeps ==
    ASSUME DeletionInv, NEW r \in runs, FailManifest(r)
    PROVE  DeletionInv'
<1>1. Gone(r)
    BY DroppedRun DEF DeletionInv, FailManifest
<1>2. DeletionTypeOK'
    BY <1>1, FaultsAssumption DEF DeletionInv, DeletionTypeOK, FailManifest, Gone, contentVars,
       Fault, Unfinished
<1>3. (RunsErase /\ CompletedErased /\ ObjectGoesFirst)'
    BY <1>1 DEF DeletionInv, FailManifest, Gone, RunsErase, CompletedErased, ObjectGoesFirst,
       Erased, contentVars, Unfinished
<1>4. ManifestMatchesTargets'
    BY <1>1 DEF DeletionInv, FailManifest, Gone, ManifestMatchesTargets, contentVars, Unfinished
<1>5. QED
    BY <1>2, <1>3, <1>4 DEF DeletionInv

LEMMA EraseTableKeeps ==
    ASSUME DeletionInv, NEW r \in runs, NEW table \in Tables, EraseTable(r, table)
    PROVE  DeletionInv'
<1>1. DeletionTypeOK'
    BY DEF EraseTable, DeletionInv, DeletionTypeOK
<1>2. (RunsErase /\ CompletedErased /\ ObjectGoesFirst)'
    BY DEF EraseTable, DeletionInv, RunsErase, CompletedErased, ObjectGoesFirst, Erased
<1>3. ManifestMatchesTargets'
    BY DEF EraseTable, DeletionInv, ManifestMatchesTargets
<1>4. QED
    BY <1>1, <1>2, <1>3 DEF DeletionInv

LEMMA ListMediaKeeps ==
    ASSUME DeletionInv, NEW r \in runs, ListMedia(r)
    PROVE  DeletionInv'
<1>1. CASE mediaRows = {}
    <2>1. RunMoved(r, "done", {})
        BY <1>1, ContinuedRun DEF DeletionInv, ListMedia, Steps
    <2>2. DeletionTypeOK'
        BY <2>1 DEF DeletionInv, DeletionTypeOK, ListMedia, RunMoved, contentVars
    <2>3. (RunsErase /\ CompletedErased /\ ObjectGoesFirst)'
        BY <1>1, <2>1, TargetsAssumption DEF DeletionInv, ListMedia, RunMoved, RunsErase,
           CompletedErased, ObjectGoesFirst, Erased, contentVars
    <2>4. ManifestMatchesTargets'
        BY <2>1 DEF DeletionInv, ListMedia, RunMoved, ManifestMatchesTargets, contentVars
    <2>5. QED
        BY <2>2, <2>3, <2>4 DEF DeletionInv
<1>2. CASE mediaRows # {}
    <2>1. r.hand \in SUBSET Objects /\ mediaRows \in SUBSET Objects
        BY DEF DeletionInv, DeletionTypeOK, Run
    <2>2. runs' = (runs \ {r}) \cup {[r EXCEPT !.step = "erasing", !.todo = mediaRows, !.hand = r.hand]}
        BY <1>2 DEF ListMedia, DeletionInv, DeletionTypeOK, Run
    <2>3. RunMoved(r, "erasing", r.hand)
        BY <2>1, <2>2, MovedRun DEF DeletionInv, Steps
    <2>4. DeletionTypeOK'
        BY <2>3 DEF DeletionInv, DeletionTypeOK, ListMedia, RunMoved, contentVars
    <2>5. (RunsErase /\ CompletedErased /\ ObjectGoesFirst)'
        BY <2>3 DEF DeletionInv, ListMedia, RunMoved, RunsErase, CompletedErased, ObjectGoesFirst,
           Erased, contentVars
    <2>6. ManifestMatchesTargets'
        BY <2>3 DEF DeletionInv, ListMedia, RunMoved, ManifestMatchesTargets, contentVars
    <2>7. QED
        BY <2>4, <2>5, <2>6 DEF DeletionInv
<1>3. QED
    BY <1>1, <1>2

LEMMA EraseObjectKeeps ==
    ASSUME DeletionInv, NEW r \in runs, NEW o \in Objects, EraseObject(r, o)
    PROVE  DeletionInv'
<1>1. r \in Run
    BY DEF DeletionInv, DeletionTypeOK
<1>2. runs' = (runs \ {r}) \cup {[r EXCEPT !.step = "forgetting", !.todo = r.todo, !.hand = {o}]}
    BY <1>1 DEF EraseObject, Run
<1>3. RunMoved(r, "forgetting", {o})
    BY <1>1, <1>2, MovedRun DEF DeletionInv, Steps, Run
<1>4. DeletionTypeOK'
    BY <1>3 DEF DeletionInv, DeletionTypeOK, EraseObject, RunMoved, contentVars
<1>5. (RunsErase /\ CompletedErased /\ ObjectGoesFirst)'
    BY <1>3 DEF DeletionInv, EraseObject, RunMoved, RunsErase, CompletedErased, ObjectGoesFirst,
       Erased
<1>6. ManifestMatchesTargets'
    BY <1>3 DEF DeletionInv, EraseObject, RunMoved, ManifestMatchesTargets
<1>7. QED
    BY <1>4, <1>5, <1>6 DEF DeletionInv

LEMMA ForgetObjectKeeps ==
    ASSUME DeletionInv, NEW r \in runs, NEW o \in Objects, ForgetObject(r, o)
    PROVE  DeletionInv'
<1>1. r \in Run
    BY DEF DeletionInv, DeletionTypeOK
<1>2. runs' = (runs \ {r}) \cup {[r EXCEPT !.step = "erasing", !.todo = r.todo \ {o}, !.hand = {}]}
    BY <1>1 DEF ForgetObject, Run
<1>3. RunMoved(r, "erasing", {})
    BY <1>1, <1>2, MovedRun DEF DeletionInv, Steps, Run
<1>4. DeletionTypeOK'
    BY <1>3 DEF DeletionInv, DeletionTypeOK, ForgetObject, RunMoved
<1>5. (RunsErase /\ CompletedErased /\ ObjectGoesFirst)'
    BY <1>3 DEF DeletionInv, ForgetObject, RunMoved, RunsErase, CompletedErased, ObjectGoesFirst,
       Erased
<1>6. ManifestMatchesTargets'
    BY <1>3 DEF DeletionInv, ForgetObject, RunMoved, ManifestMatchesTargets, RunsErase,
       ObjectGoesFirst
<1>7. QED
    BY <1>4, <1>5, <1>6 DEF DeletionInv

LEMMA RenewTargetLeaseKeeps ==
    ASSUME DeletionInv, NEW r \in runs, RenewTargetLease(r)
    PROVE  DeletionInv'
<1> DEFINE step == IF HoldsTarget(r) /\ ~ target[r.target].expired THEN "started" ELSE "retrying"
<1>1. step \in {"started", "retrying"} /\ Continue(r, step)
    BY DEF RenewTargetLease
<1> HIDE DEF step
<1>2. RunMoved(r, step, {})
    BY <1>1, ContinuedRun DEF DeletionInv, Steps
<1>3. DeletionTypeOK'
    BY <1>2 DEF DeletionInv, DeletionTypeOK, RenewTargetLease, RunMoved, contentVars
<1>4. (RunsErase /\ CompletedErased /\ ObjectGoesFirst)'
    BY <1>1, <1>2 DEF DeletionInv, RenewTargetLease, RunMoved, RunsErase, CompletedErased,
       ObjectGoesFirst, Erased, contentVars
<1>5. ManifestMatchesTargets'
    BY <1>2 DEF DeletionInv, RenewTargetLease, RunMoved, ManifestMatchesTargets, contentVars
<1>6. QED
    BY <1>3, <1>4, <1>5 DEF DeletionInv

LEMMA RetryTargetKeeps ==
    ASSUME DeletionInv, NEW r \in runs, RetryTarget(r)
    PROVE  DeletionInv'
<1>1. Gone(r) /\ Written(r, "pending")
    BY DroppedRun, WrittenTarget DEF DeletionInv, RetryTarget, Unfinished
<1>2. DeletionTypeOK'
    BY <1>1 DEF DeletionInv, DeletionTypeOK, RetryTarget, Gone, Written, contentVars
<1>3. (RunsErase /\ CompletedErased /\ ObjectGoesFirst)'
    BY <1>1 DEF DeletionInv, RetryTarget, Gone, Written, RunsErase, CompletedErased,
       ObjectGoesFirst, Erased, contentVars
<1>4. ManifestMatchesTargets'
    BY <1>1 DEF DeletionInv, RetryTarget, Gone, Written, ManifestMatchesTargets, contentVars
<1>5. QED
    BY <1>2, <1>3, <1>4 DEF DeletionInv

LEMMA FailTargetKeeps ==
    ASSUME DeletionInv, NEW r \in runs, FailTarget(r)
    PROVE  DeletionInv'
<1>1. Written(r, "failed") /\ r.target \in Targets
    BY WrittenTarget DEF DeletionInv, DeletionTypeOK, Run, FailTarget, Unfinished
<1>2. CASE HoldsTarget(r)
    <2>1. RunMoved(r, "failed", {})
        BY <1>2, ContinuedRun DEF DeletionInv, FailTarget, Steps
    <2>2. DeletionTypeOK'
        BY <1>1, <2>1 DEF DeletionInv, DeletionTypeOK, FailTarget, RunMoved, Written, contentVars
    <2>3. (RunsErase /\ CompletedErased /\ ObjectGoesFirst)'
        BY <1>1, <2>1 DEF DeletionInv, FailTarget, RunMoved, Written, RunsErase, CompletedErased,
           ObjectGoesFirst, Erased, contentVars
    <2>4. ManifestMatchesTargets'
        BY <1>1, <2>1 DEF DeletionInv, FailTarget, RunMoved, Written, ManifestMatchesTargets,
           contentVars
    <2>5. QED
        BY <2>2, <2>3, <2>4 DEF DeletionInv
<1>3. CASE ~ HoldsTarget(r)
    <2>1. Gone(r) /\ target' = target
        BY <1>3, DroppedRun DEF DeletionInv, FailTarget, SetTarget
    <2>2. DeletionTypeOK'
        BY <2>1 DEF DeletionInv, DeletionTypeOK, FailTarget, Gone, contentVars
    <2>3. (RunsErase /\ CompletedErased /\ ObjectGoesFirst)'
        BY <2>1 DEF DeletionInv, FailTarget, Gone, RunsErase, CompletedErased, ObjectGoesFirst,
           Erased, contentVars
    <2>4. ManifestMatchesTargets'
        BY <2>1 DEF DeletionInv, FailTarget, Gone, ManifestMatchesTargets, contentVars
    <2>5. QED
        BY <2>2, <2>3, <2>4 DEF DeletionInv
<1>4. QED
    BY <1>2, <1>3

LEMMA CompleteTargetKeeps ==
    ASSUME DeletionInv, NEW r \in runs, CompleteTarget(r)
    PROVE  DeletionInv'
<1>1. Written(r, "completed") /\ r.target \in Targets
    BY WrittenTarget DEF DeletionInv, DeletionTypeOK, Run, CompleteTarget, Unfinished
<1>2. CASE HoldsTarget(r)
    <2>1. RunMoved(r, "closing", {})
        BY <1>2, ContinuedRun DEF DeletionInv, CompleteTarget, Steps
    <2>2. DeletionTypeOK'
        BY <1>1, <2>1 DEF DeletionInv, DeletionTypeOK, CompleteTarget, RunMoved, Written, contentVars
    <2>3. (RunsErase /\ CompletedErased /\ ObjectGoesFirst)'
        BY <1>1, <2>1 DEF DeletionInv, CompleteTarget, RunMoved, Written, RunsErase,
           CompletedErased, ObjectGoesFirst, Erased, contentVars
    <2>4. ManifestMatchesTargets'
        BY <1>1, <2>1 DEF DeletionInv, CompleteTarget, RunMoved, Written, ManifestMatchesTargets,
           contentVars
    <2>5. QED
        BY <2>2, <2>3, <2>4 DEF DeletionInv
<1>3. CASE ~ HoldsTarget(r)
    <2>1. Gone(r) /\ target' = target
        BY <1>3, DroppedRun DEF DeletionInv, CompleteTarget, SetTarget
    <2>2. DeletionTypeOK'
        BY <2>1 DEF DeletionInv, DeletionTypeOK, CompleteTarget, Gone, contentVars
    <2>3. (RunsErase /\ CompletedErased /\ ObjectGoesFirst)'
        BY <2>1 DEF DeletionInv, CompleteTarget, Gone, RunsErase, CompletedErased,
           ObjectGoesFirst, Erased, contentVars
    <2>4. ManifestMatchesTargets'
        BY <2>1 DEF DeletionInv, CompleteTarget, Gone, ManifestMatchesTargets, contentVars
    <2>5. QED
        BY <2>2, <2>3, <2>4 DEF DeletionInv
<1>4. QED
    BY <1>2, <1>3

-----------------------------------------------------------------------------

LEMMA DeletionInitHolds == DeletionInit => DeletionInv
<1> SUFFICES ASSUME DeletionInit PROVE DeletionInv
    OBVIOUS
<1>1. DeletionTypeOK
    <2>1. [status |-> "pending", ready |-> FALSE, expired |-> FALSE, by |-> NoEraser, version |-> 0]
              \in TargetRow
        BY DEF TargetRow, Unfinished
    <2>2. target \in [Targets -> TargetRow]
        BY <2>1, Zenon DEF DeletionInit
    <2>3. /\ manifest = "absent" /\ runs = {} /\ content = Tables /\ mediaRows = Objects
          /\ stored = {} /\ grants = Objects /\ erased = {} /\ late = {}
          /\ lostClosings \in BOOLEAN /\ faults = 0
        BY Zenon DEF DeletionInit
    <2>4. QED
        BY <2>2, <2>3, FaultsAssumption DEF DeletionTypeOK
<1>2. RunsErase /\ CompletedErased /\ ObjectGoesFirst /\ ManifestMatchesTargets
    BY DEF DeletionInit, RunsErase, CompletedErased, ObjectGoesFirst, ManifestMatchesTargets,
       Targets
<1>3. QED
    BY <1>1, <1>2 DEF DeletionInv

LEMMA AdvanceKeeps ==
    ASSUME DeletionInv, NEW r \in runs, Advance(r)
    PROVE  DeletionInv'
BY EraseTableKeeps, ContentErasedKeeps, ListMediaKeeps, EraseObjectKeeps, ForgetObjectKeeps,
   RenewTargetLeaseKeeps, CompleteTargetKeeps, CloseManifestKeeps, RetryTargetKeeps,
   FailTargetKeeps, FailManifestKeeps DEF Advance

LEMMA DeletionNextHolds == DeletionInv /\ [DeletionNext]_deletionVars => DeletionInv'
<1> SUFFICES ASSUME DeletionInv, [DeletionNext]_deletionVars PROVE DeletionInv'
    OBVIOUS
<1>1. CASE DeletionNext
    BY <1>1, CreateManifestKeeps, UploadKeeps, UploadGrantExpiresKeeps, TargetDueKeeps,
       TargetLeaseExpiresKeeps, ResumeTargetKeeps, ClaimTargetKeeps, AdvanceKeeps,
       NoTargetHandlerKeeps, EraserFailsKeeps, EraserDiesKeeps, LoseClosingKeeps DEF DeletionNext
<1>2. CASE UNCHANGED deletionVars
    BY <1>2 DEF deletionVars, contentVars, DeletionInv, DeletionTypeOK, RunsErase,
       CompletedErased,
       ObjectGoesFirst, ManifestMatchesTargets, Erased
<1>3. QED
    BY <1>1, <1>2

LEMMA DeletionInvHolds == DeletionSpec => []DeletionInv
BY DeletionInitHolds, DeletionNextHolds, PTL DEF DeletionSpec

\* The manifest and its targets tell the truth: a manifest is completed only when every
\* target is and nothing of the partnership is left in the database, no object is left in
\* the store without its row except by a late upload, and a manifest of completed targets
\* is closed unless a worker was lost before it could (processTarget,
\* createPartnershipMediaDeletionHandler, completeDeletionManifestIfReady).
THEOREM ManifestCorrect == DeletionSpec => []ManifestMatchesTargets
<1>1. DeletionInv => ManifestMatchesTargets
    BY DEF DeletionInv
<1>2. QED
    BY <1>1, DeletionInvHolds, PTL

\* Every row and every run keeps its type (claimDeletionTargets, processTarget).
THEOREM DeletionTypeCorrect == DeletionSpec => []DeletionTypeOK
<1>1. DeletionInv => DeletionTypeOK
    BY DEF DeletionInv
<1>2. QED
    BY <1>1, DeletionInvHolds, PTL

\* Nothing takes a completion back: neither a retry after the closing statement failed,
\* nor a worker whose claim was taken over, nor an operator (retryDeletionTarget,
\* failDeletionTarget, resumeFailedDeletionTarget).
CompletedForGood ==
    /\ manifest = "completed" => manifest' = "completed"
    /\ \A t \in Targets : target[t].status = "completed" => target'[t].status = "completed"

LEMMA AdvanceCompletes ==
    ASSUME DeletionInv, NEW r \in runs, Advance(r)
    PROVE  CompletedForGood
<1>1. DeletionTypeOK
    BY DEF DeletionInv
<1>2. CASE CompleteTarget(r)
    BY <1>1, <1>2, WrittenTarget DEF CompleteTarget, Written, CompletedForGood
<1>3. CASE RetryTarget(r)
    BY <1>1, <1>3, WrittenTarget DEF RetryTarget, Written, Unfinished, CompletedForGood
<1>4. CASE FailTarget(r)
    BY <1>1, <1>4, WrittenTarget DEF FailTarget, Written, Unfinished, CompletedForGood
<1>5. CASE CloseManifest(r) \/ FailManifest(r)
    BY <1>5 DEF CloseManifest, FailManifest, CompletedForGood
<1>6. CASE ContentErased(r) \/ ListMedia(r) \/ RenewTargetLease(r)
    BY <1>6 DEF ContentErased, ListMedia, RenewTargetLease, CompletedForGood
<1>7. CASE (\E table \in Tables : EraseTable(r, table)) \/ \E o \in Objects : EraseObject(r, o) \/ ForgetObject(r, o)
    BY <1>7 DEF EraseTable, EraseObject, ForgetObject, CompletedForGood
<1>8. QED
    BY <1>2, <1>3, <1>4, <1>5, <1>6, <1>7 DEF Advance

LEMMA NextCompletes == DeletionInv /\ [DeletionNext]_deletionVars => CompletedForGood
<1> SUFFICES ASSUME DeletionInv, [DeletionNext]_deletionVars PROVE CompletedForGood
    OBVIOUS
<1>1. target \in [Targets -> TargetRow]
    BY DEF DeletionInv, DeletionTypeOK
<1>2. CASE CreateManifest \/ \E o \in Objects : Upload(o) \/ UploadGrantExpires(o)
    BY <1>2 DEF CreateManifest, Upload, UploadGrantExpires, CompletedForGood
<1>3. CASE \E t \in Targets : TargetDue(t) \/ TargetLeaseExpires(t) \/ ResumeTarget(t)
    BY <1>1, <1>3 DEF TargetDue, TargetLeaseExpires, ResumeTarget, TargetRow, CompletedForGood
<1>4. CASE \E w \in Erasers, t \in Targets : ClaimTarget(w, t)
    BY <1>1, <1>4 DEF ClaimTarget, TargetClaimable, CompletedForGood
<1>5. ASSUME NEW r \in runs, NoTargetHandler(r) \/ EraserFails(r) \/ EraserDies(r) \/ LoseClosing(r)
      PROVE  CompletedForGood
    BY <1>5 DEF NoTargetHandler, EraserFails, EraserDies, LoseClosing, CompletedForGood
<1>6. CASE UNCHANGED deletionVars
    BY <1>6 DEF deletionVars, CompletedForGood
<1>7. QED
    BY <1>2, <1>3, <1>4, <1>5, <1>6, AdvanceCompletes DEF DeletionNext

THEOREM CompletionFinal == DeletionSpec => [][CompletedForGood]_deletionVars
BY DeletionInvHolds, NextCompletes, PTL DEF DeletionSpec

-----------------------------------------------------------------------------
(* OfflineReplay, for any operations and tabs.                                *)

\* A tab works on one operation at a time, and on none that was never queued.
OneInHand ==
    \A t \in Tabs :
        /\ \A o, p \in replay[t].hand : o = p
        /\ \A o \in replay[t].todo \cup replay[t].hand : queued[o].status # "absent"

AnswersApplied ==
    \A t \in Tabs : replay[t].step = "answered" => replay[t].hand \subseteq server.applied

\* What was queued after the dissolution was never answered.
StraysUnanswered ==
    \A o \in strays :
        /\ ~ server.live /\ queued[o].status # "absent"
        /\ \A t \in Tabs : o \in replay[t].hand => replay[t].step # "answered"

SomeTabLeft == \E t \in Tabs : scope[t] \in {"left", "gone"}
LeftWhenDissolved == SomeTabLeft => ~ server.live

OfflineInv ==
    /\ OfflineTypeOK
    /\ OneInHand /\ AnswersApplied /\ StraysUnanswered /\ LeftWhenDissolved
    /\ QueueReflectsServer

-----------------------------------------------------------------------------
(* What most steps do.                                                       *)

\* No row appears, comes back or is done.
RowsKept ==
    /\ queued' \in [Ops -> QueueRow]
    /\ \A o \in Ops :
           /\ queued[o].status # "absent" => queued'[o].status # "absent"
           /\ Present(o)' => Present(o)
           /\ queued'[o].status = "done" => queued[o].status = "done"

\* No tab gets an answer or takes up an operation that was never queued.
HandsKept ==
    /\ replay' \in [Tabs -> Replay]
    /\ \A t \in Tabs :
           /\ \A o, p \in replay'[t].hand : o = p
           /\ \A o \in replay'[t].todo \cup replay'[t].hand : queued[o].status # "absent"
           /\ replay'[t].step = "answered" => replay[t].step = "answered" /\ replay'[t].hand = replay[t].hand

ServerKept ==
    /\ server' \in [live : BOOLEAN, writable : BOOLEAN, applied : SUBSET Ops]
    /\ server'.applied = server.applied
    /\ server'.live => server.live

ScopesKept == scope' \in [Tabs -> Scopes] /\ (SomeTabLeft' => SomeTabLeft)

LapsesKept == lapses' \in 0 .. MaxLapses

LEMMA KeptHands ==
    ASSUME OfflineInv, replay' = replay
    PROVE  HandsKept
BY DEF OfflineInv, OfflineTypeOK, OneInHand, HandsKept

LEMMA KeptRows ==
    ASSUME OfflineInv, queued' = queued
    PROVE  RowsKept
BY DEF OfflineInv, OfflineTypeOK, RowsKept, Present

LEMMA KeptServer ==
    ASSUME OfflineInv, server' = server
    PROVE  ServerKept
BY DEF OfflineInv, OfflineTypeOK, ServerKept

LEMMA KeptScopes ==
    ASSUME OfflineInv, scope' = scope
    PROVE  ScopesKept
BY DEF OfflineInv, OfflineTypeOK, ScopesKept, SomeTabLeft

LEMMA KeptLapses ==
    ASSUME OfflineInv, lapses' = lapses \/ Lapse
    PROVE  LapsesKept
BY LapsesAssumption DEF OfflineInv, OfflineTypeOK, LapsesKept, Lapse

LEMMA QuietStep ==
    ASSUME OfflineInv, RowsKept, HandsKept, ServerKept, ScopesKept, LapsesKept,
           cached' = cached, strays' = strays
    PROVE  OfflineInv'
<1>1. OfflineTypeOK'
    BY DEF OfflineInv, OfflineTypeOK, RowsKept, HandsKept, ServerKept, ScopesKept, LapsesKept
<1> USE DEF OfflineTypeOK, Replay
<1>2. OneInHand'
    BY DEF OfflineInv, OneInHand, RowsKept, HandsKept
<1>3. AnswersApplied'
    BY DEF OfflineInv, AnswersApplied, HandsKept, ServerKept
<1>4. StraysUnanswered'
    BY DEF OfflineInv, StraysUnanswered, RowsKept, HandsKept, ServerKept
<1>5. LeftWhenDissolved'
    BY DEF OfflineInv, LeftWhenDissolved, ServerKept, ScopesKept
<1>6. QueueReflectsServer'
    BY DEF OfflineInv, QueueReflectsServer, RowsKept, ServerKept, ScopesKept, SomeTabLeft
<1>7. QED
    BY <1>1, <1>2, <1>3, <1>4, <1>5, <1>6 DEF OfflineInv

\* A purge leaves nothing in the namespace.
LEMMA PurgeStep ==
    ASSUME OfflineInv, PurgePartnership, ~ server.live,
           replay' = replay, server' = server, scope' \in [Tabs -> Scopes], LapsesKept
    PROVE  OfflineInv'
<1>1. Deleted("withdrawn") \in QueueRow /\ Deleted("withdrawn").status = "withdrawn"
    BY DEF Deleted, QueueRow, Waiting, Removed
<1>2. /\ queued' \in [Ops -> QueueRow]
      /\ \A o \in Ops : queued'[o] = IF Present(o) THEN Deleted("withdrawn") ELSE queued[o]
    BY <1>1 DEF PurgePartnership, OfflineInv, OfflineTypeOK
<1>3. OfflineTypeOK' /\ cached' = {} /\ strays' = {}
    BY <1>2 DEF OfflineInv, OfflineTypeOK, PurgePartnership, LapsesKept
<1>4. \A o \in Ops :
         /\ ~ Present(o)'
         /\ queued[o].status # "absent" => queued'[o].status # "absent"
         /\ queued'[o].status = "done" => queued[o].status = "done"
    BY <1>1, <1>2 DEF Present, Waiting
<1>5. OneInHand'
    BY <1>4 DEF OfflineInv, OfflineTypeOK, OneInHand, Replay
<1>6. (AnswersApplied /\ StraysUnanswered /\ LeftWhenDissolved)'
    BY <1>3 DEF OfflineInv, AnswersApplied, StraysUnanswered, LeftWhenDissolved
<1>7. QueueReflectsServer'
    BY <1>3, <1>4 DEF OfflineInv, QueueReflectsServer
<1>8. QED
    BY <1>3, <1>5, <1>6, <1>7 DEF OfflineInv

LEMMA RowWritten ==
    ASSUME OfflineInv, NEW o \in Ops, NEW row \in QueueRow, queued[o].status # "absent",
           row.status \notin {"absent", "done"},
           row.status \in {"blocked"} \cup Waiting => Present(o),
           queued' = [queued EXCEPT ![o] = row]
    PROVE  RowsKept
BY DEF OfflineInv, OfflineTypeOK, RowsKept, Present

LEMMA QueuedRowTypes ==
    ASSUME OfflineInv, NEW o \in Ops
    PROVE  queued[o] \in QueueRow /\ queued \in [Ops -> QueueRow]
BY DEF OfflineInv, OfflineTypeOK

LEMMA TabTypes ==
    ASSUME OfflineInv, NEW t \in Tabs
    PROVE  replay[t] \in Replay /\ replay \in [Tabs -> Replay]
BY DEF OfflineInv, OfflineTypeOK

LEMMA IdleType == Idle \in Replay /\ Idle.step = "idle" /\ Idle.todo = {} /\ Idle.hand = {}
BY DEF Idle, Replay

LEMMA HandsWritten ==
    ASSUME OfflineInv, NEW t \in Tabs, NEW r \in Replay, Replays(t, r),
           \A o, p \in r.hand : o = p,
           \A o \in r.todo \cup r.hand : queued[o].status # "absent",
           r.step = "answered" => replay[t].step = "answered" /\ r.hand = replay[t].hand
    PROVE  HandsKept
BY TabTypes DEF OfflineInv, OneInHand, Replays, HandsKept

-----------------------------------------------------------------------------
(* Every step keeps the invariant.                                           *)

LEMMA ChangeCapabilitiesKeeps ==
    ASSUME OfflineInv, ChangeCapabilities
    PROVE  OfflineInv'
<1>1. ServerKept
    BY DEF OfflineInv, OfflineTypeOK, ChangeCapabilities, ServerKept
<1>2. QED
    BY <1>1, QuietStep, KeptRows, KeptHands, KeptScopes, KeptLapses DEF ChangeCapabilities

LEMMA DissolvePartnershipKeeps ==
    ASSUME OfflineInv, DissolvePartnership
    PROVE  OfflineInv'
<1>1. ServerKept
    BY DEF OfflineInv, OfflineTypeOK, DissolvePartnership, ServerKept
<1>2. QED
    BY <1>1, QuietStep, KeptRows, KeptHands, KeptScopes, KeptLapses DEF DissolvePartnership

LEMMA RetryComesDueKeeps ==
    ASSUME OfflineInv, NEW o \in Ops, RetryComesDue(o)
    PROVE  OfflineInv'
<1> DEFINE row == [queued[o] EXCEPT !.due = TRUE]
<1>1. row \in QueueRow /\ row.status = "retrying" /\ queued' = [queued EXCEPT ![o] = row]
    BY QueuedRowTypes DEF RetryComesDue, QueueRow
<1> HIDE DEF row
<1>2. RowsKept
    BY <1>1, RowWritten DEF RetryComesDue, Present, Waiting
<1>3. QED
    BY <1>2, QuietStep, KeptServer, KeptHands, KeptScopes, KeptLapses DEF RetryComesDue

LEMMA ClaimLapsesKeeps ==
    ASSUME OfflineInv, NEW o \in Ops, ClaimLapses(o)
    PROVE  OfflineInv'
<1>1. RowsKept
    BY QueuedRowTypes DEF ClaimLapses, QueueRow, RowsKept, Present
<1>2. LapsesKept
    BY KeptLapses DEF ClaimLapses
<1>3. QED
    BY <1>1, <1>2, QuietStep, KeptServer, KeptHands, KeptScopes DEF ClaimLapses

LEMMA ReadyKeeps ==
    ASSUME OfflineInv, NEW t \in Tabs, Ready(t)
    PROVE  OfflineInv'
<1>1. scope \in [Tabs -> Scopes] /\ LapsesKept
    BY KeptLapses DEF Ready, OfflineInv, OfflineTypeOK
<1>2. CASE scope[t] = "none"
    <2>1. /\ scope' = [scope EXCEPT ![t] = "here"] \/ scope' = [scope EXCEPT ![t] = "elsewhere"]
          /\ queued' = queued /\ cached' = cached /\ strays' = strays
        BY <1>2 DEF Ready
    <2>2. ScopesKept
        BY <1>1, <2>1 DEF ScopesKept, SomeTabLeft, Scopes
    <2>3. QED
        BY <1>1, <2>1, <2>2, QuietStep, KeptRows, KeptServer, KeptHands DEF Ready
<1>3. CASE scope[t] # "none"
    <2>1. ~ server.live /\ PurgePartnership /\ scope' = [scope EXCEPT ![t] = "left"]
        BY <1>3 DEF Ready
    <2>2. scope' \in [Tabs -> Scopes]
        BY <1>1, <2>1 DEF Scopes
    <2>3. QED
        BY <1>1, <2>1, <2>2, PurgeStep DEF Ready
<1>4. QED
    BY <1>2, <1>3

LEMMA ChangeScopeKeeps ==
    ASSUME OfflineInv, NEW t \in Tabs, ChangeScope(t)
    PROVE  OfflineInv'
<1>1. ScopesKept
    BY DEF ChangeScope, OfflineInv, OfflineTypeOK, ScopesKept, SomeTabLeft, Scopes
<1>2. QED
    BY <1>1, QuietStep, KeptRows, KeptServer, KeptHands, KeptLapses DEF ChangeScope

LEMMA NamespaceRevokedKeeps ==
    ASSUME OfflineInv, NEW t \in Tabs, NamespaceRevoked(t)
    PROVE  OfflineInv'
<1>1. scope' \in [Tabs -> Scopes]
    BY DEF NamespaceRevoked, OfflineInv, OfflineTypeOK
<1>2. QED
    BY <1>1, PurgeStep, KeptLapses DEF NamespaceRevoked

LEMMA CloseTabKeeps ==
    ASSUME OfflineInv, NEW t \in Tabs, CloseTab(t)
    PROVE  OfflineInv'
<1>1. ScopesKept /\ LapsesKept
    BY KeptLapses DEF CloseTab, OfflineInv, OfflineTypeOK, ScopesKept, SomeTabLeft, Scopes
<1>2. \A o \in Ops : /\ [queued[o] EXCEPT !.owner = NoTab] \in QueueRow
                     /\ [queued[o] EXCEPT !.owner = NoTab].status = queued[o].status
    BY QueuedRowTypes DEF QueueRow
<1>3. RowsKept
    BY <1>2, QueuedRowTypes DEF CloseTab, RowsKept, Present
<1>4. HandsKept
    BY IdleType, HandsWritten DEF CloseTab, Replays
<1>5. QED
    BY <1>1, <1>3, <1>4, QuietStep, KeptServer DEF CloseTab

\* Only what is queued before the dissolution is not a stray.
LEMMA EnqueueKeeps ==
    ASSUME OfflineInv, NEW t \in Tabs, NEW o \in Ops, Enqueue(t, o)
    PROVE  OfflineInv'
<1>1. /\ queued' \in [Ops -> QueueRow]
      /\ queued'[o].status = "queued"
      /\ \A p \in Ops : p # o => queued'[p] = queued[p]
    BY QueuedRowTypes DEF Enqueue, QueueRow, Waiting
<1>2. OfflineTypeOK'
    BY <1>1 DEF OfflineInv, OfflineTypeOK, Enqueue
<1>3. \A u \in Tabs : o \notin replay[u].hand
    BY DEF OfflineInv, OneInHand, Enqueue
<1>4. (OneInHand /\ AnswersApplied)'
    BY <1>1 DEF OfflineInv, OfflineTypeOK, Replay, OneInHand, AnswersApplied, Enqueue
<1>5. StraysUnanswered'
    BY <1>1, <1>3 DEF OfflineInv, OfflineTypeOK, StraysUnanswered, Enqueue
<1>6. LeftWhenDissolved'
    BY DEF OfflineInv, LeftWhenDissolved, SomeTabLeft, Enqueue
<1>7. QueueReflectsServer'
    BY <1>1 DEF OfflineInv, OfflineTypeOK, QueueReflectsServer, LeftWhenDissolved, SomeTabLeft,
       Present, Enqueue
<1>8. QED
    BY <1>2, <1>4, <1>5, <1>6, <1>7 DEF OfflineInv

LEMMA RetryOperationKeeps ==
    ASSUME OfflineInv, NEW o \in Ops, RetryOperation(o)
    PROVE  OfflineInv'
<1> DEFINE row == [queued[o] EXCEPT !.status = "queued", !.due = TRUE, !.owner = NoTab, !.leased = FALSE]
<1>1. row \in QueueRow /\ row.status = "queued" /\ queued' = [queued EXCEPT ![o] = row]
    BY QueuedRowTypes DEF RetryOperation, QueueRow, Waiting
<1> HIDE DEF row
<1>2. RowsKept
    BY <1>1, RowWritten DEF RetryOperation, Present, Waiting
<1>3. QED
    BY <1>2, QuietStep, KeptServer, KeptHands, KeptScopes, KeptLapses DEF RetryOperation

LEMMA DeletedType ==
    ASSUME NEW why \in Removed
    PROVE  Deleted(why) \in QueueRow /\ Deleted(why).status = why
BY DEF Deleted, QueueRow, Removed

LEMMA DiscardOperationKeeps ==
    ASSUME OfflineInv, NEW o \in Ops, DiscardOperation(o)
    PROVE  OfflineInv'
<1>1. RowsKept
    BY DeletedType, RowWritten DEF DiscardOperation, Present, Waiting, Removed
<1>2. QED
    BY <1>1, QuietStep, KeptServer, KeptHands, KeptScopes, KeptLapses DEF DiscardOperation

LEMMA ReplaysKeeps ==
    ASSUME OfflineInv, HandsKept, UNCHANGED <<queued, scope, cached, server, strays, lapses>>
    PROVE  OfflineInv'
BY QuietStep, KeptRows, KeptServer, KeptScopes, KeptLapses

LEMMA ListedWaiting ==
    ASSUME OfflineInv, NEW ops \in SUBSET Ops
    PROVE  Listed(ops) \in SUBSET Ops /\ \A o \in Listed(ops) : queued[o].status # "absent"
BY DEF Listed, Waiting

LEMMA ReplayChatKeeps ==
    ASSUME OfflineInv, NEW t \in Tabs, ReplayChat(t)
    PROVE  OfflineInv'
<1> DEFINE r == [Idle EXCEPT !.step = "chat", !.permitted = server.writable, !.todo = Listed(ChatOps)]
<1>1. r \in Replay /\ r.step = "chat" /\ r.hand = {} /\ r.todo = Listed(ChatOps)
    BY ListedWaiting DEF OfflineInv, OfflineTypeOK, Idle, Replay, Ops
<1>2. Replays(t, r)
    BY DEF ReplayChat
<1> HIDE DEF r
<1>3. HandsKept
    BY <1>1, <1>2, HandsWritten, ListedWaiting DEF Ops
<1>4. QED
    BY <1>3, ReplaysKeeps DEF ReplayChat

LEMMA ReplayRelationshipKeeps ==
    ASSUME OfflineInv, NEW t \in Tabs, ReplayRelationship(t)
    PROVE  OfflineInv'
<1> DEFINE r == [Idle EXCEPT !.step = "space", !.permitted = server.writable, !.todo = Listed(SpaceOps)]
<1>1. r \in Replay /\ r.step = "space" /\ r.hand = {} /\ r.todo = Listed(SpaceOps)
    BY ListedWaiting DEF OfflineInv, OfflineTypeOK, Idle, Replay, Ops
<1>2. Replays(t, r) \/ Replays(t, Idle)
    BY DEF ReplayRelationship
<1> HIDE DEF r
<1>3. HandsKept
    BY <1>1, <1>2, IdleType, HandsWritten, ListedWaiting DEF Ops
<1>4. QED
    BY <1>3, ReplaysKeeps DEF ReplayRelationship

LEMMA EndReplayKeeps ==
    ASSUME OfflineInv, NEW t \in Tabs, EndReplay(t)
    PROVE  OfflineInv'
<1>1. HandsKept
    BY IdleType, HandsWritten DEF EndReplay
<1>2. QED
    BY <1>1, ReplaysKeeps DEF EndReplay

LEMMA ClaimKeeps ==
    ASSUME OfflineInv, NEW t \in Tabs, NEW o \in Ops, replay[t].step \in {"chat", "space"}, Claim(t, o)
    PROVE  OfflineInv'
<1>1. replay[t] \in Replay /\ queued[o].status # "absent"
    BY TabTypes DEF OfflineInv, OneInHand, Claim
<1>2. CASE ClaimRefused(t, o)
    <2> DEFINE r == [replay[t] EXCEPT !.todo = @ \ {o}]
    <2>1. /\ r \in Replay /\ r.step = replay[t].step /\ r.hand = replay[t].hand
          /\ r.todo \subseteq replay[t].todo
        BY <1>1 DEF Replay
    <2>2. Replays(t, r) /\ queued' = queued
        BY <1>2 DEF Claim
    <2> HIDE DEF r
    <2>3. HandsKept
        BY <2>1, <2>2, HandsWritten DEF OfflineInv, OneInHand
    <2>4. QED
        BY <2>2, <2>3, ReplaysKeeps DEF Claim
<1>3. CASE ~ ClaimRefused(t, o)
    <2> DEFINE step == IF replay[t].permitted THEN "claimed" ELSE "refused"
               r    == [replay[t] EXCEPT !.step = step, !.hand = {o}, !.generation = queued[o].generation + 1]
    <2>1. queued[o].generation + 1 \in Nat /\ step \in {"claimed", "refused"}
        BY QueuedRowTypes DEF QueueRow
    <2>2. /\ queued' = [queued EXCEPT ![o] = [@ EXCEPT !.owner = t, !.generation = queued[o].generation + 1,
                                                       !.leased = TRUE]]
          /\ Replays(t, r)
        BY <1>3, Zenon DEF Claim
    <2> HIDE DEF step
    <2>3. /\ r \in Replay /\ r.step \in {"claimed", "refused"} /\ r.hand = {o}
          /\ r.todo = replay[t].todo
        BY <1>1, <2>1 DEF Replay
    <2> HIDE DEF r
    <2>4. HandsKept
        BY <1>1, <2>2, <2>3, HandsWritten DEF OfflineInv, OneInHand
    <2>5. \A p \in Ops : p # o => queued'[p] = queued[p]
        BY <2>2, QueuedRowTypes
    <2>6. queued' \in [Ops -> QueueRow] /\ queued'[o].status = queued[o].status
        <3> DEFINE row == [queued[o] EXCEPT !.owner = t, !.generation = queued[o].generation + 1, !.leased = TRUE]
        <3>1. row \in QueueRow /\ row.status = queued[o].status
            BY <2>1, QueuedRowTypes DEF QueueRow
        <3>2. queued' = [queued EXCEPT ![o] = row]
            BY <2>2, Zenon
        <3> HIDE DEF row
        <3>3. QED
            BY <3>1, <3>2, QueuedRowTypes
    <2>7. RowsKept
        BY <2>5, <2>6 DEF RowsKept, Present
    <2>8. QED
        BY <2>4, <2>7, QuietStep, KeptServer, KeptScopes, KeptLapses DEF Claim
<1>4. QED
    BY <1>2, <1>3

\* The mutation is applied before it is answered, and answered only in a live partnership.
LEMMA ExecuteKeeps ==
    ASSUME OfflineInv, NEW t \in Tabs, NEW o \in Ops, Execute(t, o)
    PROVE  OfflineInv'
<1>1. replay[t] \in Replay /\ \A p \in replay[t].hand : p = o
    BY TabTypes DEF OfflineInv, OneInHand, Execute
<1>2. LapsesKept
    BY KeptLapses DEF Execute
<1>3. ASSUME server' = server \/ (server' = [server EXCEPT !.applied = @ \cup {o}]),
             NEW r \in Replay, Replays(t, r), r.hand \subseteq replay[t].hand, r.todo \subseteq replay[t].todo,
             r.step = "answered" => server.live /\ o \in server'.applied
      PROVE  OfflineInv'
    <2>1. /\ server' \in [live : BOOLEAN, writable : BOOLEAN, applied : SUBSET Ops]
          /\ server.applied \subseteq server'.applied /\ server'.live = server.live
        BY <1>3 DEF OfflineInv, OfflineTypeOK
    <2>2. /\ replay' \in [Tabs -> Replay] /\ replay'[t] = r
          /\ \A u \in Tabs : u # t => replay'[u] = replay[u]
        BY <1>3, TabTypes DEF Replays
    <2>3. OfflineTypeOK'
        BY <1>2, <2>1, <2>2 DEF OfflineInv, OfflineTypeOK, LapsesKept, Execute
    <2>4. OneInHand'
        BY <1>3, <2>2 DEF OfflineInv, OneInHand, Execute
    <2>5. AnswersApplied'
        BY <1>1, <1>3, <2>1, <2>2 DEF OfflineInv, AnswersApplied
    <2>6. StraysUnanswered'
        BY <1>3, <2>1, <2>2 DEF OfflineInv, StraysUnanswered, Execute
    <2>7. (LeftWhenDissolved /\ QueueReflectsServer)'
        BY <2>1 DEF OfflineInv, LeftWhenDissolved, SomeTabLeft, QueueReflectsServer, Present,
           Execute
    <2>8. QED
        BY <2>3, <2>4, <2>5, <2>6, <2>7 DEF OfflineInv
<1>4. \A step \in {"answered", "failed", "refused"} :
         LET r == [replay[t] EXCEPT !.step = step]
         IN r \in Replay /\ r.step = step /\ r.hand = replay[t].hand /\ r.todo = replay[t].todo
    BY <1>1 DEF Replay
<1>5. CASE server' = [server EXCEPT !.applied = @ \cup {o}]
           /\ \/ server.live /\ Replays(t, [replay[t] EXCEPT !.step = "answered"])
              \/ Replays(t, [replay[t] EXCEPT !.step = "failed"])
    <2>1. o \in server'.applied
        BY <1>5 DEF OfflineInv, OfflineTypeOK
    <2>2. QED
        BY <1>3, <1>4, <1>5, <2>1
<1>6. CASE server' = server /\ \/ Replays(t, [replay[t] EXCEPT !.step = "failed"])
                               \/ Replays(t, [replay[t] EXCEPT !.step = "refused"])
                               \/ Replays(t, Idle)
    BY <1>3, <1>4, <1>6, IdleType
<1>7. QED
    BY <1>5, <1>6 DEF Execute

LEMMA NextOpKeeps ==
    ASSUME OfflineInv, NEW t \in Tabs, NEW o \in Ops, NextOp(t, o)
    PROVE  HandsKept
<1> DEFINE r == [replay[t] EXCEPT !.step = IF o \in ChatOps THEN "chat" ELSE "space",
                                  !.todo = @ \ {o}, !.hand = {}, !.generation = 0]
<1>1. r \in Replay /\ r.step \in {"chat", "space"} /\ r.hand = {} /\ r.todo \subseteq replay[t].todo
    BY TabTypes DEF Replay
<1>2. Replays(t, r)
    BY DEF NextOp
<1> HIDE DEF r
<1>3. QED
    BY <1>1, <1>2, HandsWritten DEF OfflineInv, OneInHand

\* A late answer finds its row purged, or a stray that it cannot be about.
LEMMA CompleteKeeps ==
    ASSUME OfflineInv, NEW t \in Tabs, NEW o \in Ops, Complete(t, o)
    PROVE  OfflineInv'
<1>1. HandsKept
    BY NextOpKeeps DEF Complete
<1>2. CASE ~ Holds(t, o)
    BY <1>1, <1>2, ReplaysKeeps DEF Complete
<1>3. CASE Holds(t, o)
    <2>1. Present(o) /\ o \in server.applied /\ o \notin strays
        BY <1>3 DEF Holds, Complete, OfflineInv, AnswersApplied, StraysUnanswered
    <2>2. ~ SomeTabLeft
        BY <2>1 DEF OfflineInv, QueueReflectsServer, SomeTabLeft
    <2>3. /\ queued' \in [Ops -> QueueRow] /\ queued'[o].status = "done"
          /\ \A p \in Ops : p # o => queued'[p] = queued[p]
        BY <1>3, QueuedRowTypes, DeletedType DEF Complete, Removed
    <2>4. cached' = cached \cup {o} /\ UNCHANGED <<scope, server, strays, lapses>>
        BY <1>3 DEF Complete
    <2>5. OfflineTypeOK'
        BY <1>1, <2>3, <2>4 DEF OfflineInv, OfflineTypeOK, HandsKept
    <2>6. (OneInHand /\ AnswersApplied)'
        BY <1>1, <2>3, <2>4 DEF OfflineInv, OfflineTypeOK, Replay, OneInHand, AnswersApplied,
           HandsKept
    <2>7. StraysUnanswered'
        BY <1>1, <2>3, <2>4 DEF OfflineInv, OfflineTypeOK, StraysUnanswered, HandsKept
    <2>8. (LeftWhenDissolved /\ QueueReflectsServer)'
        BY <2>1, <2>2, <2>3, <2>4 DEF OfflineInv, LeftWhenDissolved, SomeTabLeft,
           QueueReflectsServer
    <2>9. QED
        BY <2>5, <2>6, <2>7, <2>8 DEF OfflineInv
<1>4. QED
    BY <1>2, <1>3

LEMMA UpdateKeeps ==
    ASSUME OfflineInv, NEW t \in Tabs, NEW o \in Ops, NEW status \in {"retrying", "blocked"},
           Update(t, o, status)
    PROVE  OfflineInv'
<1>1. HandsKept
    BY NextOpKeeps DEF Update
<1>2. CASE ~ Holds(t, o)
    BY <1>1, <1>2, ReplaysKeeps DEF Update
<1>3. CASE Holds(t, o)
    <2> DEFINE row == [queued[o] EXCEPT !.status = status, !.due = FALSE, !.owner = NoTab, !.leased = FALSE]
    <2>1. row \in QueueRow /\ row.status = status
        BY QueuedRowTypes DEF QueueRow, Waiting
    <2>2. queued' = [queued EXCEPT ![o] = row] /\ Present(o)
        BY <1>3 DEF Update, Holds
    <2> HIDE DEF row
    <2>3. RowsKept
        BY <2>1, <2>2, RowWritten DEF Present, Waiting
    <2>4. QED
        BY <1>1, <2>3, QuietStep, KeptServer, KeptScopes, KeptLapses DEF Update
<1>4. QED
    BY <1>2, <1>3

-----------------------------------------------------------------------------

LEMMA OfflineInitHolds == OfflineInit => OfflineInv
<1> SUFFICES ASSUME OfflineInit PROVE OfflineInv
    OBVIOUS
<1>1. queued \in [Ops -> QueueRow] /\ \A o \in Ops : queued[o].status = "absent"
    <2>1. [status |-> "absent", due |-> FALSE, owner |-> NoTab, generation |-> 0, leased |-> FALSE]
              \in QueueRow
        BY DEF QueueRow
    <2>2. QED
        BY <2>1 DEF OfflineInit
<1>2. replay \in [Tabs -> Replay] /\ \A t \in Tabs : replay[t] = Idle
    BY IdleType DEF OfflineInit
<1>3. scope \in [Tabs -> Scopes] /\ \A t \in Tabs : scope[t] = "here"
    BY DEF OfflineInit, Scopes
<1>4. server \in [live : BOOLEAN, writable : BOOLEAN, applied : SUBSET Ops]
    BY DEF OfflineInit
<1>5. cached = {} /\ strays = {} /\ lapses \in 0 .. MaxLapses
    BY LapsesAssumption DEF OfflineInit
<1>6. OfflineTypeOK
    BY <1>1, <1>2, <1>3, <1>4, <1>5 DEF OfflineTypeOK
<1>7. OneInHand /\ AnswersApplied /\ StraysUnanswered
    BY <1>2, <1>5, IdleType DEF OneInHand, AnswersApplied, StraysUnanswered
<1>8. LeftWhenDissolved /\ QueueReflectsServer
    BY <1>1, <1>3, <1>5 DEF LeftWhenDissolved, SomeTabLeft, QueueReflectsServer
<1>9. QED
    BY <1>6, <1>7, <1>8 DEF OfflineInv

LEMMA EngineKeeps ==
    ASSUME OfflineInv, NEW t \in Tabs, Engine(t)
    PROVE  OfflineInv'
<1>1. CASE ReplayChat(t) \/ ReplayRelationship(t) \/ EndReplay(t)
    BY <1>1, ReplayChatKeeps, ReplayRelationshipKeeps, EndReplayKeeps
<1>2. ASSUME NEW o \in Ops,
             \/ ClaimChat(t, o) \/ ExecuteChat(t, o) \/ CompleteChatWithMessage(t, o) \/ RetryChat(t, o)
             \/ BlockChat(t, o) \/ ClaimRelationship(t, o) \/ ExecuteRelationship(t, o)
             \/ CompleteRelationship(t, o) \/ RetryRelationship(t, o) \/ BlockRelationship(t, o)
      PROVE  OfflineInv'
    BY <1>2, ClaimKeeps, ExecuteKeeps, CompleteKeeps, UpdateKeeps
       DEF ClaimChat, ExecuteChat, CompleteChatWithMessage, RetryChat, BlockChat, ClaimRelationship,
           ExecuteRelationship, CompleteRelationship, RetryRelationship, BlockRelationship, RetryLater, Block
<1>3. QED
    BY <1>1, <1>2 DEF Engine, Ops

LEMMA OfflineNextHolds == OfflineInv /\ [OfflineNext]_offlineVars => OfflineInv'
<1> SUFFICES ASSUME OfflineInv, [OfflineNext]_offlineVars PROVE OfflineInv'
    OBVIOUS
<1>1. CASE ChangeCapabilities \/ DissolvePartnership
    BY <1>1, ChangeCapabilitiesKeeps, DissolvePartnershipKeeps
<1>2. ASSUME NEW o \in Ops, RetryComesDue(o) \/ ClaimLapses(o) PROVE OfflineInv'
    BY <1>2, RetryComesDueKeeps, ClaimLapsesKeeps
<1>3. ASSUME NEW o \in Ops,
             \/ RetryChatOperation(o) \/ DiscardChatOperation(o)
             \/ RetryRelationshipOperation(o) \/ DiscardRelationshipOperation(o)
      PROVE  OfflineInv'
    BY <1>3, RetryOperationKeeps, DiscardOperationKeeps
       DEF RetryChatOperation, DiscardChatOperation, RetryRelationshipOperation, DiscardRelationshipOperation
<1>4. ASSUME NEW o \in Ops, NEW t \in Tabs, EnqueueChat(t, o) \/ EnqueueRelationship(t, o)
      PROVE  OfflineInv'
    BY <1>4, EnqueueKeeps DEF EnqueueChat, EnqueueRelationship
<1>5. ASSUME NEW t \in Tabs, Ready(t) \/ ChangeScope(t) \/ NamespaceRevoked(t) \/ CloseTab(t) \/ Engine(t)
      PROVE  OfflineInv'
    BY <1>5, ReadyKeeps, ChangeScopeKeeps, NamespaceRevokedKeeps, CloseTabKeeps, EngineKeeps
<1>6. CASE UNCHANGED offlineVars
    BY <1>6, ReplaysKeeps, KeptHands DEF offlineVars
<1>7. QED
    BY <1>1, <1>2, <1>3, <1>4, <1>5, <1>6 DEF OfflineNext, Ops

LEMMA OfflineInvHolds == OfflineSpec => []OfflineInv
BY OfflineInitHolds, OfflineNextHolds, PTL DEF OfflineSpec

\* What the queue and the cache say of an operation is what became of it, and once a tab
\* has left a dissolved partnership no late answer and no claim that is taken over brings
\* its content back, for any number of tabs and operations (purgePartnership,
\* completeChatWithMessage, completeRelationship).
THEOREM QueueCorrect == OfflineSpec => []QueueReflectsServer
<1>1. OfflineInv => QueueReflectsServer
    BY DEF OfflineInv
<1>2. QED
    BY <1>1, OfflineInvHolds, PTL

\* Every row and every replay engine keeps its type (indexed-db.ts, replay-engine.ts).
THEOREM OfflineTypeCorrect == OfflineSpec => []OfflineTypeOK
<1>1. OfflineInv => OfflineTypeOK
    BY DEF OfflineInv
<1>2. QED
    BY <1>1, OfflineInvHolds, PTL

-----------------------------------------------------------------------------
(* MCDelivery: whichever part is in focus, each of them behaves as it does    *)
(* alone.                                                                     *)

LEMMA StepsOfParts ==
    [Next]_vars => [OutboxNext]_outboxVars /\ [DeletionNext]_deletionVars /\ [OfflineNext]_offlineVars
<1> SUFFICES ASSUME [Next]_vars
             PROVE  [OutboxNext]_outboxVars /\ [DeletionNext]_deletionVars /\ [OfflineNext]_offlineVars
    OBVIOUS
<1>1. CASE InOutbox /\ OutboxNext
    BY <1>1, Zenon DEF InOutbox
<1>2. CASE InDeletion /\ DeletionNext
    BY <1>2, Zenon DEF InDeletion
<1>3. CASE InOffline /\ OfflineNext
    BY <1>3, Zenon DEF InOffline
<1>4. CASE UNCHANGED vars
    BY <1>4, Zenon DEF vars
<1>5. QED
    BY <1>1, <1>2, <1>3, <1>4, Zenon DEF Next

LEMMA BehavesAsParts == Spec => OutboxSpec /\ DeletionSpec /\ OfflineSpec
<1>1. Init => OutboxInit /\ DeletionInit /\ OfflineInit
    BY DEF Init
<1>2. QED
    BY <1>1, StepsOfParts, PTL DEF Spec, OutboxSpec, DeletionSpec, OfflineSpec

\* Rows, deliveries, erasures and replays keep their types and limits in the composition that
\* is checked, whichever of the three it is about.
THEOREM DeliveryTypesHold == Spec => []TypeOK
<1>1. OutboxTypeOK /\ DeletionTypeOK /\ OfflineTypeOK => TypeOK
    BY DEF TypeOK
<1>2. QED
    BY <1>1, BehavesAsParts, OutboxTypeCorrect, DeletionTypeCorrect, OfflineTypeCorrect, PTL

\* What the outbox, the manifests and the offline queue promise holds of the composition: every
\* event reaches whom it is owed to, a manifest and its targets tell the truth and stay
\* completed, and the queue says what became of each operation.
THEOREM DeliveryHolds ==
    Spec => /\ ImplementsAtLeastOnce /\ []ManifestMatchesTargets
            /\ [][CompletedForGood]_deletionVars /\ []QueueReflectsServer
BY BehavesAsParts, DeliversAtLeastOnce, ManifestCorrect, CompletionFinal, QueueCorrect, PTL

=============================================================================
