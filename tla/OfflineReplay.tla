---------------------------- MODULE OfflineReplay ----------------------------
(***************************************************************************)
(* The queues of mutations a browser keeps in IndexedDB for one            *)
(* partnership, chat operations and relationship items, and the replay     *)
(* engines of the tabs that share the database.                            *)
(*                                                                         *)
(* An IndexedDB transaction is one step; between two of them, and while a  *)
(* request is under way, anything happens in the other tabs and on the     *)
(* server.  Time is abstracted to whether nextAttemptAt has come (due) and *)
(* a claim's 60 seconds have not passed (leased).  A row that was deleted  *)
(* keeps the reason in its status.  The server takes an idempotency key    *)
(* once, so what it has applied is a set.                                  *)
(***************************************************************************)
EXTENDS Naturals, FiniteSets

CONSTANTS
    ChatOps,     \* ids of queued chat operations
    SpaceOps,    \* ids of queued relationship operations
    Tabs,        \* replay engines, one in a tab
    NoTab,       \* claimOwner is null
    MaxQueued,   \* bound: operations that are ever queued
    MaxClaims,   \* bound: claims of an operation after which the user retries it no more
    MaxLapses    \* bound: failed requests, slow or closed tabs

ASSUME TabsAssumption == NoTab \notin Tabs
ASSUME OpsAssumption == ChatOps \cap SpaceOps = {}
ASSUME LapsesAssumption == {MaxQueued, MaxClaims, MaxLapses} \subseteq Nat

VARIABLES
    queued,    \* rows of chatOutbox and relationshipOutbox
    replay,    \* what a tab's replay engine is doing
    scope,     \* the realtime scope of a tab
    cached,    \* operations whose projection is in the local cache
    server,    \* whether the partnership lives and lets its members write; the keys taken
    strays,    \* rows added to the namespace by a tab that had purged it
    lapses

offlineVars == <<queued, replay, scope, cached, server, strays, lapses>>

Ops     == ChatOps \cup SpaceOps
Removed == {"done", "withdrawn"}
Waiting == {"queued", "retrying"}
QueueRow == [status : {"absent", "blocked"} \cup Waiting \cup Removed, due : BOOLEAN,
             owner : Tabs \cup {NoTab}, generation : Nat, leased : BOOLEAN]
Replay   == [step : {"idle", "chat", "space", "claimed", "answered", "failed", "refused"},
             permitted : BOOLEAN, todo : SUBSET Ops, hand : SUBSET Ops, generation : Nat]
\* A tab has "left" when it has purged the namespace and not yet changed its scope, and is
\* "elsewhere" when it was opened after the dissolution.
Scopes   == {"none", "here", "left", "gone", "elsewhere"}

OfflineTypeOK ==
    /\ queued \in [Ops -> QueueRow]
    /\ replay \in [Tabs -> Replay]
    /\ scope \in [Tabs -> Scopes]
    /\ cached \subseteq Ops /\ strays \subseteq Ops
    /\ server \in [live : BOOLEAN, writable : BOOLEAN, applied : SUBSET Ops]
    /\ lapses \in 0 .. MaxLapses

Idle == [step |-> "idle", permitted |-> FALSE, todo |-> {}, hand |-> {}, generation |-> 0]

OfflineInit ==
    /\ queued = [o \in Ops |-> [status |-> "absent", due |-> FALSE, owner |-> NoTab,
                                generation |-> 0, leased |-> FALSE]]
    /\ replay = [t \in Tabs |-> Idle]
    /\ scope = [t \in Tabs |-> "here"]
    /\ cached = {} /\ strays = {}
    /\ server = [live |-> TRUE, writable |-> TRUE, applied |-> {}]
    /\ lapses = 0

Lapse == lapses < MaxLapses /\ lapses' = lapses + 1

-----------------------------------------------------------------------------
(* The server, the clock and the realtime scope.                            *)

\* A breakup, a restoration or a pending deletion changes the capabilities.
ChangeCapabilities ==
    /\ server.live
    /\ server' = [server EXCEPT !.writable = ~ @]
    /\ UNCHANGED <<queued, replay, scope, cached, strays, lapses>>

DissolvePartnership ==
    /\ server.live
    /\ server' = [server EXCEPT !.live = FALSE, !.writable = FALSE]
    /\ UNCHANGED <<queued, replay, scope, cached, strays, lapses>>

RetryComesDue(o) ==
    /\ queued[o].status = "retrying" /\ ~ queued[o].due
    /\ queued' = [queued EXCEPT ![o].due = TRUE]
    /\ UNCHANGED <<replay, scope, cached, server, strays, lapses>>

\* The claim of a tab that was closed or threw runs out, or that of a slow one.
ClaimLapses(o) ==
    /\ queued[o].leased
    /\ IF \E t \in Tabs : queued[o].owner = t /\ o \in replay[t].hand THEN Lapse ELSE UNCHANGED lapses
    /\ queued' = [queued EXCEPT ![o].leased = FALSE]
    /\ UNCHANGED <<replay, scope, cached, server, strays>>

Deleted(why) == [status |-> why, due |-> FALSE, owner |-> NoTab, generation |-> 0, leased |-> FALSE]
Present(o) == queued[o].status \in {"blocked"} \cup Waiting

\* purgePartnership: one transaction over the caches and both queues.
PurgePartnership ==
    /\ queued' = [o \in Ops |-> IF Present(o) THEN Deleted("withdrawn") ELSE queued[o]]
    /\ cached' = {} /\ strays' = {}

\* control.ready names the scope of the connection.  The namespace is purged if the tab
\* knew it, and only when that is done does the tab change its scope.
Ready(t) ==
    /\ IF server.live
       THEN scope[t] = "none" /\ scope' = [scope EXCEPT ![t] = "here"] /\ UNCHANGED <<queued, cached, strays>>
       ELSE CASE scope[t] = "none" -> scope' = [scope EXCEPT ![t] = "elsewhere"] /\ UNCHANGED <<queued, cached, strays>>
              [] scope[t] = "here" -> scope' = [scope EXCEPT ![t] = "left"] /\ PurgePartnership
              [] OTHER             -> FALSE
    /\ UNCHANGED <<replay, server, lapses>>

ChangeScope(t) ==
    /\ scope[t] = "left"
    /\ scope' = [scope EXCEPT ![t] = "gone"]
    /\ UNCHANGED <<queued, replay, cached, server, strays, lapses>>

\* The namespace.revoked frame purges and leaves the scope alone.
NamespaceRevoked(t) ==
    /\ ~ server.live /\ scope[t] = "here"
    /\ PurgePartnership
    /\ UNCHANGED <<replay, scope, server, lapses>>

\* A tab is closed in whatever it was doing, and may be opened again.  Its engine has
\* another name then, so the claims it leaves are nobody's.
CloseTab(t) ==
    /\ scope[t] # "none" /\ Lapse
    /\ scope' = [scope EXCEPT ![t] = "none"]
    /\ replay' = [replay EXCEPT ![t] = Idle]
    /\ queued' = [o \in Ops |-> IF queued[o].owner = t THEN [queued[o] EXCEPT !.owner = NoTab] ELSE queued[o]]
    /\ UNCHANGED <<cached, server, strays>>

-----------------------------------------------------------------------------
(* The user.                                                                *)

Enqueue(t, o) ==
    /\ scope[t] \in {"here", "left"} /\ queued[o].status = "absent"
    /\ Cardinality({other \in Ops : queued[other].status # "absent"}) < MaxQueued
    /\ queued' = [queued EXCEPT ![o].status = "queued", ![o].due = TRUE]
    /\ strays' = IF server.live THEN strays ELSE strays \cup {o}
    /\ UNCHANGED <<replay, scope, cached, server, lapses>>

EnqueueChat(t, o)         == o \in ChatOps /\ Enqueue(t, o)
EnqueueRelationship(t, o) == o \in SpaceOps /\ Enqueue(t, o)

\* The user retries what failed, claimed or not; the key and the generation stay.
RetryOperation(o) ==
    /\ Present(o) /\ queued[o].generation < MaxClaims
    /\ queued' = [queued EXCEPT ![o] = [@ EXCEPT !.status = "queued", !.due = TRUE, !.owner = NoTab, !.leased = FALSE]]
    /\ UNCHANGED <<replay, scope, cached, server, strays, lapses>>

RetryChatOperation(o)         == o \in ChatOps /\ RetryOperation(o)
RetryRelationshipOperation(o) == o \in SpaceOps /\ RetryOperation(o)

DiscardOperation(o) ==
    /\ Present(o)
    /\ queued' = [queued EXCEPT ![o] = Deleted("withdrawn")]
    /\ UNCHANGED <<replay, scope, cached, server, strays, lapses>>

DiscardChatOperation(o)         == o \in ChatOps /\ DiscardOperation(o)
DiscardRelationshipOperation(o) == o \in SpaceOps /\ DiscardOperation(o)

-----------------------------------------------------------------------------
(* The replay engine.                                                       *)

Replays(t, r) == replay' = [replay EXCEPT ![t] = r]

\* Mutation: what has failed once is not listed again.
Listed_QueuedOnly(ops) == {o \in ops : queued[o].status = "queued" /\ queued[o].due}

Listed(ops) == {o \in ops : queued[o].status \in Waiting /\ queued[o].due}

\* The capabilities are read once, before the queue is.  An unconfirmed session or a
\* partnership that is gone ends the replay here.
ReplayChat(t) ==
    /\ replay[t].step = "idle" /\ scope[t] \in {"here", "left"} /\ server.live
    /\ \E o \in Ops : queued[o].status \in Waiting
    /\ Replays(t, [Idle EXCEPT !.step = "chat", !.permitted = server.writable, !.todo = Listed(ChatOps)])
    /\ UNCHANGED <<queued, scope, cached, server, strays, lapses>>

ReplayRelationship(t) ==
    /\ replay[t].step = "chat" /\ replay[t].todo = {}
    /\ Replays(t, IF server.live
                  THEN [Idle EXCEPT !.step = "space", !.permitted = server.writable, !.todo = Listed(SpaceOps)]
                  ELSE Idle)
    /\ UNCHANGED <<queued, scope, cached, server, strays, lapses>>

EndReplay(t) ==
    /\ replay[t].step = "space" /\ replay[t].todo = {}
    /\ Replays(t, Idle)
    /\ UNCHANGED <<queued, scope, cached, server, strays, lapses>>

ClaimRefused(t, o) ==
    \/ ~ Present(o) \/ queued[o].status = "blocked"
    \/ queued[o].leased /\ queued[o].owner # t

\* An operation that is not permitted is claimed too, to be blocked.
Claim(t, o) ==
    /\ o \in replay[t].todo
    /\ IF ClaimRefused(t, o)
       THEN Replays(t, [replay[t] EXCEPT !.todo = @ \ {o}]) /\ UNCHANGED queued
       ELSE /\ queued' = [queued EXCEPT ![o] = [@ EXCEPT !.owner = t, !.generation = queued[o].generation + 1,
                                                              !.leased = TRUE]]
            /\ Replays(t, [replay[t] EXCEPT !.step = IF replay[t].permitted THEN "claimed" ELSE "refused",
                                            !.hand = {o}, !.generation = queued[o].generation + 1])
    /\ UNCHANGED <<scope, cached, server, strays, lapses>>

ClaimChat(t, o)         == replay[t].step = "chat" /\ Claim(t, o)
ClaimRelationship(t, o) == replay[t].step = "space" /\ Claim(t, o)

\* The mutation, then the projection it left: an answer, an error to retry (the mutation
\* may have been applied), a refusal, or an error of authentication, which ends the
\* replay with the claim in place.
Execute(t, o) ==
    /\ replay[t].step = "claimed" /\ o \in replay[t].hand
    /\ \/ /\ o \in server.applied \/ server.writable
          /\ server' = [server EXCEPT !.applied = @ \cup {o}]
          /\ \/ server.live /\ Replays(t, [replay[t] EXCEPT !.step = "answered"]) /\ UNCHANGED lapses
             \/ Replays(t, [replay[t] EXCEPT !.step = "failed"]) /\ Lapse
       \/ UNCHANGED server /\ Lapse /\ (Replays(t, [replay[t] EXCEPT !.step = "failed"]) \/ Replays(t, Idle))
       \/ /\ ~ server.writable
          /\ Replays(t, [replay[t] EXCEPT !.step = "refused"])
          /\ UNCHANGED <<server, lapses>>
    /\ UNCHANGED <<queued, scope, cached, strays>>

ExecuteChat(t, o)         == o \in ChatOps /\ Execute(t, o)
ExecuteRelationship(t, o) == o \in SpaceOps /\ Execute(t, o)

\* Mutation: the owner is compared and the generation is not, and a row that is gone counts as held.
Holds_Unfenced(t, o) == queued[o].owner \in {t, NoTab}

\* A row that was purged, retried by the user or claimed again is not this claim's any more.
Holds(t, o) == Present(o) /\ queued[o].owner = t /\ queued[o].generation = replay[t].generation

NextOp(t, o) ==
    Replays(t, [replay[t] EXCEPT !.step = IF o \in ChatOps THEN "chat" ELSE "space",
                                 !.todo = @ \ {o}, !.hand = {}, !.generation = 0])

Complete(t, o) ==
    /\ replay[t].step = "answered" /\ o \in replay[t].hand
    /\ IF Holds(t, o)
       THEN queued' = [queued EXCEPT ![o] = Deleted("done")] /\ cached' = cached \cup {o}
       ELSE UNCHANGED <<queued, cached>>
    /\ NextOp(t, o)
    /\ UNCHANGED <<scope, server, strays, lapses>>

CompleteChatWithMessage(t, o) == o \in ChatOps /\ Complete(t, o)
CompleteRelationship(t, o)    == o \in SpaceOps /\ Complete(t, o)

Update(t, o, status) ==
    /\ queued' = IF Holds(t, o)
                 THEN [queued EXCEPT ![o] = [@ EXCEPT !.status = status, !.due = FALSE, !.owner = NoTab, !.leased = FALSE]]
                 ELSE queued
    /\ NextOp(t, o)
    /\ UNCHANGED <<scope, cached, server, strays, lapses>>

\* The rest of the queue goes on while an operation waits for its next attempt.
RetryLater(t, o) == replay[t].step = "failed" /\ o \in replay[t].hand /\ Update(t, o, "retrying")
RetryChat(t, o)         == o \in ChatOps /\ RetryLater(t, o)
RetryRelationship(t, o) == o \in SpaceOps /\ RetryLater(t, o)

Block(t, o) == replay[t].step = "refused" /\ o \in replay[t].hand /\ Update(t, o, "blocked")
BlockChat(t, o)         == o \in ChatOps /\ Block(t, o)
BlockRelationship(t, o) == o \in SpaceOps /\ Block(t, o)

-----------------------------------------------------------------------------

Engine(t) ==
    \/ ReplayChat(t) \/ ReplayRelationship(t) \/ EndReplay(t)
    \/ \E o \in ChatOps : ClaimChat(t, o) \/ ExecuteChat(t, o) \/ CompleteChatWithMessage(t, o)
                          \/ RetryChat(t, o) \/ BlockChat(t, o)
    \/ \E o \in SpaceOps : ClaimRelationship(t, o) \/ ExecuteRelationship(t, o) \/ CompleteRelationship(t, o)
                           \/ RetryRelationship(t, o) \/ BlockRelationship(t, o)

OfflineNext ==
    \/ ChangeCapabilities \/ DissolvePartnership
    \/ \E o \in Ops : RetryComesDue(o) \/ ClaimLapses(o)
    \/ \E o \in ChatOps : RetryChatOperation(o) \/ DiscardChatOperation(o) \/ \E t \in Tabs : EnqueueChat(t, o)
    \/ \E o \in SpaceOps : RetryRelationshipOperation(o) \/ DiscardRelationshipOperation(o)
                           \/ \E t \in Tabs : EnqueueRelationship(t, o)
    \/ \E t \in Tabs : Ready(t) \/ ChangeScope(t) \/ NamespaceRevoked(t) \/ CloseTab(t) \/ Engine(t)

OfflineSpec == OfflineInit /\ [][OfflineNext]_offlineVars

-----------------------------------------------------------------------------
(* Properties.                                                              *)

\* What the queue and the cache say of an operation is what became of it: it is done,
\* or its projection cached, only if the server has applied it; and once a tab has left
\* a dissolved partnership neither a late answer in another tab nor a claim taken over
\* brings its content back: what is there was queued after the dissolution
\* (purgePartnership, completeChatWithMessage, completeRelationship).
QueueReflectsServer ==
    /\ \A o \in Ops : queued[o].status = "done" \/ o \in cached => o \in server.applied
    /\ (\E t \in Tabs : scope[t] \in {"left", "gone"}) => cached = {} /\ \A o \in Ops : Present(o) => o \in strays

\* A queued operation is applied, refused or withdrawn, whatever tabs are closed and
\* requests lost, unless its partnership ends.
QueueSettles ==
    \A o \in Ops : (queued[o].status \in Waiting)
                       ~> (queued[o].status \notin Waiting \/ ~ server.live)

=============================================================================
