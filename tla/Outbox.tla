------------------------------- MODULE Outbox -------------------------------
(***************************************************************************)
(* The outbox, the worker's outbox consumer and the handlers behind it:    *)
(* realtime hints, message events (a hint and then pushes), generic and    *)
(* call pushes, challenge mails and security mails.                        *)
(*                                                                         *)
(* Every statement is its own transaction, so nothing is locked while a    *)
(* handler runs: leases expire under it, a second worker delivers the same *)
(* event, a crash loses what it had done.  Time is abstracted to whether   *)
(* available_at has come (ready) and lease_expires_at has passed           *)
(* (expired); a payload is always one the API wrote.                       *)
(***************************************************************************)
EXTENDS Naturals

CONSTANTS
    Events,          \* ids of outbox events
    Consumers,       \* worker identities
    NoConsumer,      \* claimed_by is null
    Devices,         \* devices with a push subscription of the recipients
    MaxDeliveries    \* max_attempts, 12 unless the caller says otherwise

ASSUME ConsumersAssumption == NoConsumer \notin Consumers
ASSUME DeliveriesAssumption == MaxDeliveries \in Nat \ {0}
ASSUME DevicesAssumption == {"topic", "mailbox"} \cap Devices = {}

VARIABLES
    event,        \* outbox_events rows
    deliveries,   \* claimed events in the memory of the workers
    subscribed,   \* devices whose push subscription is not revoked
    subject,      \* what a mail or message event is about
    sends,        \* how often an event went out to a recipient, at most once a claim
    owed          \* the recipients of an event that have been waiting since it was posted

outboxVars == <<event, deliveries, subscribed, subject, sends, owed>>

Kinds      == {"hint", "message", "push", "challenge", "security"}
Recipients == Devices \cup {"topic", "mailbox"}
EventRow   == [status : {"absent", "pending", "processing", "delivered", "failed"}, kind : Kinds,
               ready : BOOLEAN, expired : BOOLEAN, by : Consumers \cup {NoConsumer},
               version : Nat, attempts : 0 .. MaxDeliveries]
Step       == {"started", "listing", "pushing", "mailing", "marking", "done", "failing", "retrying"}
Delivery   == [event : Events, worker : Consumers, version : Nat, step : Step, todo : SUBSET Devices]

OutboxTypeOK ==
    /\ event \in [Events -> EventRow]
    /\ deliveries \subseteq Delivery
    /\ subscribed \subseteq Devices
    /\ subject \in [Events -> {"live", "dead", "marked", "erased"}]
    /\ sends \in [Events -> [Recipients -> 0 .. MaxDeliveries]]
    /\ owed \in [Events -> SUBSET Recipients]

OutboxInit ==
    /\ event = [e \in Events |-> [status |-> "absent", kind |-> "hint", ready |-> FALSE,
                                  expired |-> FALSE, by |-> NoConsumer, version |-> 0, attempts |-> 0]]
    /\ deliveries = {}
    /\ subscribed = Devices
    /\ subject = [e \in Events |-> "live"]
    /\ sends = [e \in Events |-> [r \in Recipients |-> 0]]
    /\ owed = [e \in Events |-> {}]

-----------------------------------------------------------------------------
(* The API, the devices and the clock.                                      *)

Addressees(kind) ==
    (IF kind \in {"hint", "message"} THEN {"topic"} ELSE {})
        \cup (IF kind \in {"message", "push"} THEN subscribed ELSE {})
        \cup (IF kind \in {"challenge", "security"} THEN {"mailbox"} ELSE {})

InsertEvent(e) ==
    /\ event[e].status = "absent"
    /\ \E kind \in Kinds :
           /\ event' = [event EXCEPT ![e] = [@ EXCEPT !.status = "pending", !.kind = kind]]
           /\ owed' = [owed EXCEPT ![e] = Addressees(kind)]
    /\ UNCHANGED <<deliveries, subscribed, subject, sends>>

\* A subscription is revoked: by the device, by its account, or because another
\* device registered the same endpoint.
Unsubscribe(d) ==
    /\ d \in subscribed
    /\ subscribed' = subscribed \ {d}
    /\ owed' = [e \in Events |-> owed[e] \ {d}]
    /\ UNCHANGED <<event, deliveries, subject, sends>>

Subscribe(d) ==
    /\ d \notin subscribed
    /\ subscribed' = subscribed \cup {d}
    /\ UNCHANGED <<event, deliveries, subject, sends, owed>>

\* The challenge is consumed, superseded or expired; the security mail expires; the
\* dissolution of the partnership erases the message.
SubjectEnds(e) ==
    /\ event[e].kind \in {"message", "challenge", "security"} /\ subject[e] = "live"
    /\ subject' = [subject EXCEPT ![e] = "dead"]
    /\ owed' = [owed EXCEPT ![e] = IF event[e].kind = "message" THEN @ \ Devices ELSE @]
    /\ UNCHANGED <<event, deliveries, subscribed, sends>>

\* The deletion of the account erases the row of a security mail, sent or not, and
\* with it the address: no one is left to be reached.  The mail of a registration has
\* no account and is never erased.
ScrubAccount(e) ==
    /\ event[e].kind = "security" /\ subject[e] # "erased"
    /\ subject' = [subject EXCEPT ![e] = "erased"]
    /\ owed' = [owed EXCEPT ![e] = @ \ {"mailbox"}]
    /\ UNCHANGED <<event, deliveries, subscribed, sends>>

EventDue(e) ==
    /\ event[e].status = "pending" /\ ~ event[e].ready
    /\ event' = [event EXCEPT ![e].ready = TRUE]
    /\ UNCHANGED <<deliveries, subscribed, subject, sends, owed>>

EventLeaseExpires(e) ==
    /\ event[e].status = "processing" /\ ~ event[e].expired
    /\ event' = [event EXCEPT ![e].expired = TRUE]
    /\ UNCHANGED <<deliveries, subscribed, subject, sends, owed>>

-----------------------------------------------------------------------------
(* Claims and acknowledgements.                                             *)

\* Mutation: an event whose lease expired is not taken over.
EventClaimable_PendingOnly(e) ==
    event[e].attempts < MaxDeliveries /\ event[e].status = "pending" /\ event[e].ready

EventClaimable(e) ==
    /\ event[e].attempts < MaxDeliveries
    /\ \/ event[e].status = "pending" /\ event[e].ready
       \/ event[e].status = "processing" /\ event[e].expired

ClaimEvent(w, e) ==
    /\ EventClaimable(e)
    /\ event' = [event EXCEPT ![e] = [status |-> "processing", kind |-> @.kind, ready |-> FALSE,
                                      expired |-> FALSE, by |-> w, version |-> @.version + 1,
                                      attempts |-> @.attempts + 1]]
    /\ deliveries' = deliveries \cup
            {[event |-> e, worker |-> w, version |-> event[e].version + 1, step |-> "started", todo |-> {}]}
    /\ UNCHANGED <<subscribed, subject, sends, owed>>

\* The fence of every acknowledgement; the lease itself is not asked for.
HoldsEvent(d) ==
    /\ event[d.event].status = "processing"
    /\ event[d.event].by = d.worker
    /\ event[d.event].version = d.version

Unclaimed(row, status) == [row EXCEPT !.status = status, !.by = NoConsumer, !.expired = FALSE]

Leave(d) == deliveries' = deliveries \ {d}
GoTo(d, step, todo) ==
    deliveries' = (deliveries \ {d}) \cup {[d EXCEPT !.step = step, !.todo = todo]}

\* deliverOutboxEvent.  An error after the commit sends the worker on to the retry
\* statement; an error before it does so with the row as it was.
AcknowledgeEvent(d) ==
    /\ d.step = "done"
    /\ \/ /\ event' = IF HoldsEvent(d)
                      THEN [event EXCEPT ![d.event] = Unclaimed(@, "delivered")]
                      ELSE event
          /\ Leave(d) \/ GoTo(d, "retrying", {})
       \/ event' = event /\ GoTo(d, "retrying", {})
    /\ UNCHANGED <<subscribed, subject, sends, owed>>

\* failOutboxEvent, after a permanent error or without a handler for the event.
FailEvent(d) ==
    /\ d.step = "failing"
    /\ event' = IF HoldsEvent(d) THEN [event EXCEPT ![d.event] = Unclaimed(@, "failed")] ELSE event
    /\ Leave(d)
    /\ UNCHANGED <<subscribed, subject, sends, owed>>

NoHandler(d) ==
    /\ d.step = "started"
    /\ GoTo(d, "failing", {})
    /\ UNCHANGED <<event, subscribed, subject, sends, owed>>

\* Mutation: a retry gives the attempt back.
Retried_Refunded(row) == [Unclaimed(row, "pending") EXCEPT !.attempts = @ - 1]

Retried(row) == Unclaimed(row, IF row.attempts = MaxDeliveries THEN "failed" ELSE "pending")

RetryEvent(d) ==
    /\ d.step = "retrying"
    /\ event' = IF HoldsEvent(d) THEN [event EXCEPT ![d.event] = Retried(@)] ELSE event
    /\ Leave(d)
    /\ UNCHANGED <<subscribed, subject, sends, owed>>

\* The handler threw: an error of the database, of the broker or of a provider.
HandlerFails(d) ==
    /\ d.step \in {"started", "listing", "pushing", "mailing", "marking"}
    /\ GoTo(d, "retrying", {})
    /\ UNCHANGED <<event, subscribed, subject, sends, owed>>

\* The worker dies, or an acknowledgement itself throws.
LoseDelivery(d) == Leave(d) /\ UNCHANGED <<event, subscribed, subject, sends, owed>>

-----------------------------------------------------------------------------
(* The handlers.                                                            *)

Kind(d) == event[d.event].kind
SendTo(d, r) == sends' = [sends EXCEPT ![d.event][r] = @ + 1]

\* The hint of a message event is followed by its pushes.
PublishHint(d) ==
    /\ d.step = "started" /\ Kind(d) \in {"hint", "message"}
    /\ SendTo(d, "topic")
    /\ GoTo(d, IF Kind(d) = "hint" THEN "done" ELSE "listing", {}) \/ GoTo(d, "retrying", {})
    /\ UNCHANGED <<event, subscribed, subject, owed>>

\* The conversation and the message are read again for a message event.
ListSubscriptions(d) ==
    /\ \/ d.step = "started" /\ Kind(d) = "push"
       \/ d.step = "listing"
    /\ IF Kind(d) = "message" /\ subject[d.event] = "dead"
       THEN GoTo(d, "done", {})
       ELSE GoTo(d, "pushing", subscribed)
    /\ UNCHANGED <<event, subscribed, subject, sends, owed>>

\* Mutation: a failed push does not stop the others, nor the acknowledgement.
PushFailed_Swallowed(d, device) == GoTo(d, "pushing", d.todo \ {device})

PushFailed(d, device) == GoTo(d, "retrying", {})

\* One subscription after another: it is reached, it is gone, or the provider failed
\* and those still to come wait for the next attempt.
PushOne(d, device) ==
    /\ d.step = "pushing" /\ device \in d.todo
    /\ \/ SendTo(d, device) /\ GoTo(d, "pushing", d.todo \ {device}) /\ UNCHANGED <<subscribed, owed>>
       \/ /\ subscribed' = subscribed \ {device}
          /\ owed' = [e \in Events |-> owed[e] \ {device}]
          /\ GoTo(d, "pushing", d.todo \ {device})
          /\ UNCHANGED sends
       \/ PushFailed(d, device) /\ UNCHANGED <<subscribed, sends, owed>>
    /\ UNCHANGED <<event, subject>>

AllPushed(d) ==
    /\ d.step = "pushing" /\ d.todo = {}
    /\ GoTo(d, "done", {})
    /\ UNCHANGED <<event, subscribed, subject, sends, owed>>

CheckChallenge(d) ==
    /\ d.step = "started" /\ Kind(d) = "challenge"
    /\ GoTo(d, IF subject[d.event] = "live" THEN "mailing" ELSE "failing", {})
    /\ UNCHANGED <<event, subscribed, subject, sends, owed>>

\* A mail that was marked is not sent again, even when it has expired since, and one
\* whose row is gone counts as delivered without being sent.
CheckSecurityEmail(d) ==
    /\ d.step = "started" /\ Kind(d) = "security"
    /\ GoTo(d, CASE subject[d.event] \in {"marked", "erased"} -> "done"
                 [] subject[d.event] = "dead"                 -> "failing"
                 [] OTHER                                     -> "mailing", {})
    /\ UNCHANGED <<event, subscribed, subject, sends, owed>>

\* What was checked may have ended since.
SendEmail(d) ==
    /\ d.step = "mailing"
    /\ SendTo(d, "mailbox")
    /\ GoTo(d, IF Kind(d) = "challenge" THEN "done" ELSE "marking", {}) \/ GoTo(d, "retrying", {})
    /\ UNCHANGED <<event, subscribed, subject, owed>>

\* The update finds no row when the account was erased since the mail was checked.
MarkDelivered(d) ==
    /\ d.step = "marking"
    /\ subject' = [subject EXCEPT ![d.event] = IF @ = "erased" THEN @ ELSE "marked"]
    /\ GoTo(d, "done", {})
    /\ UNCHANGED <<event, subscribed, sends, owed>>

-----------------------------------------------------------------------------

Deliver(d) ==
    \/ PublishHint(d) \/ ListSubscriptions(d) \/ AllPushed(d) \/ (\E device \in Devices : PushOne(d, device))
    \/ CheckChallenge(d) \/ CheckSecurityEmail(d) \/ SendEmail(d) \/ MarkDelivered(d)

Settle(d) == AcknowledgeEvent(d) \/ FailEvent(d) \/ RetryEvent(d)

OutboxNext ==
    \/ \E e \in Events :
           InsertEvent(e) \/ SubjectEnds(e) \/ ScrubAccount(e) \/ EventDue(e) \/ EventLeaseExpires(e)
    \/ \E d \in Devices : Subscribe(d) \/ Unsubscribe(d)
    \/ \E w \in Consumers, e \in Events : ClaimEvent(w, e)
    \/ \E d \in deliveries : Deliver(d) \/ Settle(d) \/ NoHandler(d) \/ HandlerFails(d) \/ LoseDelivery(d)

OutboxSpec == OutboxInit /\ [][OutboxNext]_outboxVars

-----------------------------------------------------------------------------
(* Properties.                                                              *)

Outcome(status) ==
    CASE status = "absent"                     -> "none"
      [] status \in {"pending", "processing"}  -> "waiting"
      [] status = "delivered"                  -> "delivered"
      [] status = "failed"                     -> "abandoned"

Promise == INSTANCE AtLeastOnceDelivery WITH
    outcome <- [e \in Events |-> Outcome(event[e].status)],
    due     <- owed,
    reached <- [e \in Events |-> {r \in Recipients : sends[e][r] > 0}]

\* An event is recorded as delivered only after every recipient that has been waiting
\* for it was reached, whichever of the overlapping deliveries reached it, and a
\* settled event stays settled (deliver, outboxConsumer).  Excused are devices that
\* unsubscribed, pushes for a message that is gone and the mailbox of an erased account:
\* its security mail counts as delivered without having been sent.
ImplementsAtLeastOnce == Promise!Spec

\* An event that was inserted is settled, unless its attempts run out first: a worker
\* that dies in the last one leaves the row processing (claimOutboxEvents).
EventSettles ==
    \A e \in Events :
        (event[e].status = "pending")
            ~> (event[e].status \in {"delivered", "failed"} \/ event[e].attempts = MaxDeliveries)

=============================================================================
