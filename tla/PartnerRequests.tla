--------------------------- MODULE PartnerRequests ---------------------------
(***************************************************************************)
(* Partner requests: create, accept, decline, cancel, expire, and what     *)
(* formation, account deletion and blocks do to the requests that are      *)
(* pending.                                                                *)
(*                                                                         *)
(* A handler locks both accounts of the pair before it reads them or the   *)
(* requests, so it is one action; its timestamp is that of BEGIN, up to    *)
(* MaxLag older than the clock.  Of the lifecycle of a partnership only    *)
(* what requests depend on is kept: who is whose partner, since when an    *)
(* account may pair again, who may block whom (module PartnershipLifecycle *)
(* has the rest).  The service runs in `paired' mode: crossing requests    *)
(* form a partnership.                                                     *)
(***************************************************************************)
EXTENDS Integers, FiniteSets

CONSTANTS
    Accounts,
    NoAccount,
    RequestLifetime,     \* seven days
    DeclineCooldown,     \* one hour
    RollingMonth,        \* one calendar month
    MonthlyLimit,        \* three
    PartnerCooldown,     \* three months or one
    MaxLag,              \* bound: how old a transaction timestamp may be
    MaxRequests,         \* bound: requests in all
    Horizon              \* bound: last instant of the clock

ASSUME PairAssumption == NoAccount \notin Accounts
ASSUME PeriodsAssumption ==
    /\ RequestLifetime \in Nat \ {0} /\ DeclineCooldown \in Nat \ {0}
    /\ RollingMonth \in Nat \ {0} /\ MonthlyLimit \in Nat \ {0} /\ PartnerCooldown \in Nat
ASSUME RequestBoundsAssumption == MaxLag \in Nat /\ MaxRequests \in Nat /\ Horizon \in Nat

VARIABLES
    clock,        \* clock_timestamp() of the database
    request,      \* partner_requests rows in the order of their insertion
    status,       \* accounts.status
    partner,      \* the other member of an account's current partnership
    eligibleAt,   \* account_partner_eligibility.eligible_at, 0 without a row
    blocks,       \* active blocks, <<blocker, blocked>>
    former        \* pairs whose partnership was terminated

neighbours == <<status, partner, eligibleAt, blocks, former>>
vars       == <<clock, request, neighbours>>

Ids           == 1 .. MaxRequests
RequestStatus == {"absent", "pending", "accepted", "declined", "cancelled", "expired", "invalidated"}
AccountStatus == {"active", "deletion_pending", "deleted"}
Maybe         == Accounts \cup {NoAccount}
RequestRow    == [status : RequestStatus, from : Maybe, to : Maybe,
                  createdAt : Nat, visible : Nat, declinedAt : Nat]
NoRequest     == [status |-> "absent", from |-> NoAccount, to |-> NoAccount,
                  createdAt |-> 0, visible |-> 0, declinedAt |-> 0]

\* partner_requests_not_self and partner_requests_terminal_shape.
RowShape(r) ==
    IF r.status = "absent" THEN r = NoRequest
    ELSE /\ r.from \in Accounts /\ r.to \in Accounts /\ r.from # r.to
         /\ r.declinedAt # 0 => r.status = "declined"

\* The tables keep their types, and a request the shape the schema asks for.
TypeOK ==
    /\ clock \in Nat
    /\ request \in [Ids -> RequestRow]
    /\ \A i \in Ids : RowShape(request[i])
    /\ status \in [Accounts -> AccountStatus]
    /\ partner \in [Accounts -> Maybe]
    /\ eligibleAt \in [Accounts -> Nat]
    /\ blocks \subseteq Accounts \X Accounts
    /\ former \subseteq SUBSET Accounts

Init ==
    /\ clock = 0
    /\ request = [i \in Ids |-> NoRequest]
    /\ status = [a \in Accounts |-> "active"]
    /\ partner = [a \in Accounts |-> NoAccount]
    /\ eligibleAt = [a \in Accounts |-> 0]
    /\ blocks = {}
    /\ former = {}

\* getTransactionTimestamp: the time of BEGIN, before the locks were waited for.
TxTimes == {t \in 0 .. clock : clock - t <= MaxLag}

Tick ==
    /\ clock < Horizon
    /\ clock' = clock + 1
    /\ UNCHANGED <<request, neighbours>>

-----------------------------------------------------------------------------
(* What the handlers read under the locks of the two accounts.              *)

Pending(i)   == request[i].status = "pending"
ExpiresAt(i) == request[i].createdAt + RequestLifetime

Between(i, a, b)  == {request[i].from, request[i].to} = {a, b}
Involves(i, a)    == a \in {request[i].from, request[i].to}
Directed(i, a, b) == request[i].from = a /\ request[i].to = b

\* Mutation: only requests in the same direction are looked for.
ActivePair_SameDirection(a, b, now) == {i \in Ids : Pending(i) /\ Directed(i, a, b) /\ now < ExpiresAt(i)}

\* The pending requests of the pair, after the expired ones were set aside.
ActivePair(a, b, now) == {i \in Ids : Pending(i) /\ Between(i, a, b) /\ now < ExpiresAt(i)}

\* accountAvailable, on what loadPartnerAccountEligibility reads.
Available(a, now) ==
    /\ status[a] = "active"
    /\ partner[a] = NoAccount
    /\ eligibleAt[a] <= now

BlockedEitherWay(a, b) == <<a, b>> \in blocks \/ <<b, a>> \in blocks

\* Mutation: the cooldown runs from the request, not from its decline.
DeclineCooldownActive_SinceRequest(a, b, now) ==
    \E i \in Ids :
        /\ Directed(i, a, b) /\ request[i].status = "declined"
        /\ now < request[i].createdAt + DeclineCooldown

\* latestDeclinedPartnerRequestAt and declineCooldownActive.
DeclineCooldownActive(a, b, now) ==
    \E i \in Ids :
        /\ Directed(i, a, b) /\ request[i].status = "declined"
        /\ now < request[i].declinedAt + DeclineCooldown

\* Mutation: a request that was cancelled does not count.
CreatedSince_Standing(a, b, cutoff, now) ==
    {i \in Ids : /\ Directed(i, a, b) /\ request[i].status # "cancelled"
                 /\ cutoff < request[i].createdAt /\ request[i].createdAt <= now}

\* Every insertion of a request records one `created' attempt, which stays.
CreatedSince(a, b, cutoff, now) ==
    {i \in Ids : /\ Directed(i, a, b)
                 /\ cutoff < request[i].createdAt /\ request[i].createdAt <= now}

\* evaluatePartnerRequestPair.
PairAllowed(a, b, now) ==
    /\ Available(a, now) /\ Available(b, now)
    /\ ~ BlockedEitherWay(a, b)
    /\ \A i \in ActivePair(a, b, now) : ~ Directed(i, a, b)
    /\ ~ DeclineCooldownActive(a, b, now)
    /\ Cardinality(CreatedSince(a, b, now - RollingMonth, now)) < MonthlyLimit

-----------------------------------------------------------------------------
(* What they write.                                                         *)

Closed(i, how) == [request[i] EXCEPT !.status = how]

\* expirePartnerRequestsById on the pending requests of a pair.
Expired(i, a, b, now) ==
    IF Pending(i) /\ Between(i, a, b) /\ ExpiresAt(i) <= now THEN Closed(i, "expired")
    ELSE request[i]

\* Mutation: only the requests an account sent are invalidated.
InvalidatedBy_Sent(i, a) == Pending(i) /\ request[i].from = a

\* invalidatePendingRequestsForAccount: sent or received.
InvalidatedBy(i, a) == Pending(i) /\ Involves(i, a)

\* formLockedPair on the requests, `accepted' being the ones consent came from.
\* A new request is accepted with the one it crosses.
Formed(accepted, a, b) ==
    [i \in Ids |->
        IF i \in accepted THEN Closed(i, "accepted")
        ELSE IF InvalidatedBy(i, a) \/ InvalidatedBy(i, b) THEN Closed(i, "invalidated")
        ELSE request[i]]

FormPartnership(a, b) ==
    /\ partner' = [partner EXCEPT ![a] = b, ![b] = a]
    /\ UNCHANGED <<clock, status, eligibleAt, blocks, former>>

NextId == Cardinality({i \in Ids : request[i].status # "absent"}) + 1

NewRequest(a, b, now) ==
    [status |-> "pending", from |-> a, to |-> b, createdAt |-> now, visible |-> clock,
     declinedAt |-> 0]

-----------------------------------------------------------------------------
(* The handlers.                                                            *)

\* A denial keeps the expirations it made on its way.
DenyRequest(a, b, now) ==
    /\ a # b /\ now \in TxTimes
    /\ ~ PairAllowed(a, b, now)
    /\ request' = [i \in Ids |-> Expired(i, a, b, now)]
    /\ UNCHANGED <<clock, neighbours>>

CreateRequest(a, b, now) ==
    /\ a # b /\ now \in TxTimes /\ NextId \in Ids
    /\ PairAllowed(a, b, now)
    /\ ActivePair(a, b, now) = {}
    /\ request' = [i \in Ids |-> IF i = NextId THEN NewRequest(a, b, now) ELSE Expired(i, a, b, now)]
    /\ UNCHANGED <<clock, neighbours>>

\* The request crosses a pending one: handleReciprocalCandidate accepts both.
CreateReciprocal(a, b, now) ==
    /\ a # b /\ now \in TxTimes /\ NextId \in Ids
    /\ PairAllowed(a, b, now)
    /\ \E crossed \in ActivePair(a, b, now) :
           request' = [Formed({crossed}, a, b) EXCEPT
                           ![NextId] = [NewRequest(a, b, now) EXCEPT !.status = "accepted"]]
    /\ FormPartnership(a, b)

\* Who answers a request has seen it.
Answerable(i, now) == now \in TxTimes /\ Pending(i) /\ request[i].visible <= now

AcceptRequest(i, now) ==
    LET a == request[i].from
        b == request[i].to
    IN  /\ Answerable(i, now) /\ now < ExpiresAt(i)
        /\ Available(a, now) /\ Available(b, now) /\ ~ BlockedEitherWay(a, b)
        /\ request' = Formed({i}, a, b)
        /\ FormPartnership(a, b)

CancelRequest(i, now) ==
    /\ Answerable(i, now) /\ now < ExpiresAt(i)
    /\ request' = [request EXCEPT ![i] = Closed(i, "cancelled")]
    /\ UNCHANGED <<clock, neighbours>>

\* Mutation: the decline is dated but the request stays pending.
Declined_StillPending(i, now) == [request[i] EXCEPT !.declinedAt = now]

Declined(i, now) == [request[i] EXCEPT !.status = "declined", !.declinedAt = now]

DeclineRequest(i, now) ==
    /\ Answerable(i, now) /\ now < ExpiresAt(i)
    /\ request' = [request EXCEPT ![i] = Declined(i, now)]
    /\ UNCHANGED <<clock, neighbours>>

\* An answer that comes too late, or the worker's expiry action.
ExpireRequest(i, now) ==
    /\ now \in TxTimes /\ Pending(i) /\ ExpiresAt(i) <= now
    /\ request' = [request EXCEPT ![i] = Closed(i, "expired")]
    /\ UNCHANGED <<clock, neighbours>>

-----------------------------------------------------------------------------
(* The neighbours.                                                          *)

RequestDeletion(a) ==
    /\ status[a] = "active"
    /\ status' = [status EXCEPT ![a] = "deletion_pending"]
    /\ request' = [i \in Ids |-> IF InvalidatedBy(i, a) THEN Closed(i, "invalidated") ELSE request[i]]
    /\ UNCHANGED <<clock, partner, eligibleAt, blocks, former>>

RecoverAccount(a) ==
    /\ status[a] = "deletion_pending"
    /\ status' = [status EXCEPT ![a] = "active"]
    /\ UNCHANGED <<clock, request, partner, eligibleAt, blocks, former>>

\* The partnership of a ends, effective at the deadline `at', which the finalizer
\* may be any time late for: by its breakup, with a cooldown for both, or by the
\* deletion of a, with one for the other (for both, if a breakup was due first).
EndPartnership(a, at, cooled) ==
    LET b == partner[a] IN
    /\ partner' = [partner EXCEPT ![a] = NoAccount, ![b] = NoAccount]
    /\ eligibleAt' = [c \in Accounts |-> IF c \in cooled THEN at + PartnerCooldown ELSE eligibleAt[c]]
    /\ former' = former \cup {{a, b}}

FinalizeBreakup(a, at) ==
    /\ at \in 0 .. clock /\ partner[a] # NoAccount
    /\ EndPartnership(a, at, {a, partner[a]})
    /\ UNCHANGED <<clock, request, status, blocks>>

FinalizeDeletion(a, at) ==
    /\ at \in 0 .. clock /\ status[a] = "deletion_pending"
    /\ status' = [status EXCEPT ![a] = "deleted"]
    /\ IF partner[a] = NoAccount
       THEN UNCHANGED <<partner, eligibleAt, former>>
       ELSE \E cooled \in {{partner[a]}, {a, partner[a]}} : EndPartnership(a, at, cooled)
    /\ UNCHANGED <<clock, request, blocks>>

\* invalidatePendingRequestsForPair: either direction.
InvalidatedByBlock(i, a, b) == Pending(i) /\ Between(i, a, b)

BlockFormerPartner(a, b) ==
    /\ {a, b} \in former /\ a # b
    /\ partner[a] # b
    /\ status[a] # "deleted"
    /\ blocks' = blocks \cup {<<a, b>>}
    /\ request' = [i \in Ids |->
            IF InvalidatedByBlock(i, a, b) THEN Closed(i, "invalidated") ELSE request[i]]
    /\ UNCHANGED <<clock, status, partner, eligibleAt, former>>

UnblockFormerPartner(a, b) ==
    /\ <<a, b>> \in blocks /\ status[a] # "deleted"
    /\ blocks' = blocks \ {<<a, b>>}
    /\ UNCHANGED <<clock, request, status, partner, eligibleAt, former>>

-----------------------------------------------------------------------------
RequestStep ==
    \/ \E a, b \in Accounts, now \in TxTimes :
           \/ DenyRequest(a, b, now) \/ CreateRequest(a, b, now) \/ CreateReciprocal(a, b, now)
    \/ \E i \in Ids, now \in TxTimes :
           \/ AcceptRequest(i, now) \/ CancelRequest(i, now)
           \/ DeclineRequest(i, now) \/ ExpireRequest(i, now)

NeighbourStep ==
    \/ \E a \in Accounts : RequestDeletion(a) \/ RecoverAccount(a)
    \/ \E a \in Accounts, at \in 0 .. clock : FinalizeBreakup(a, at) \/ FinalizeDeletion(a, at)
    \/ \E a, b \in Accounts : BlockFormerPartner(a, b) \/ UnblockFormerPartner(a, b)

Next == Tick \/ RequestStep \/ NeighbourStep

Spec == Init /\ [][Next]_vars

-----------------------------------------------------------------------------
(* Properties.                                                              *)

\* A pending request could be accepted: its two accounts are active, free, off
\* cooldown and not blocked, because formation, deletion and blocks invalidate
\* what they make impossible, in both directions and in every interleaving.
PendingAcceptable ==
    \A i \in Ids : Pending(i) =>
        /\ Available(request[i].from, clock) /\ Available(request[i].to, clock)
        /\ ~ BlockedEitherWay(request[i].from, request[i].to)

\* Two accounts never have two pending requests between them, in the same
\* direction (the unique index that would fail the insertion) or crossed: a
\* request that crosses another has formed a partnership, or the other is expired.
NoCrossedRequests ==
    \A i, k \in Ids :
        Pending(i) /\ Pending(k) /\ Between(k, request[i].from, request[i].to) => i = k

\* After a decline the sender's next request comes no earlier than the cooldown
\* later, whatever requests lie between the two and however old the timestamps
\* their handlers decide on.
DeclineCooldownEnforced ==
    \A i, k \in Ids :
        /\ i < k /\ request[i].status = "declined" /\ request[k].status # "absent"
        /\ Directed(k, request[i].from, request[i].to)
        => request[i].declinedAt + DeclineCooldown <= request[k].createdAt

SameSenderAndRecipient(sent) ==
    \A i, k \in sent : Directed(k, request[i].from, request[i].to)

\* More requests than a month allows, from one account to another.
ExcessOfRequests ==
    {sent \in SUBSET {i \in Ids : request[i].status # "absent"} :
        Cardinality(sent) > MonthlyLimit /\ SameSenderAndRecipient(sent)}

\* Of more requests in one direction than the limit, stamped in the order of
\* their insertion, the last is a month younger than the first, whatever became
\* of them.
MonthlyLimitEnforced ==
    \A sent \in ExcessOfRequests :
        (\A i, k \in sent : i < k => request[i].createdAt <= request[k].createdAt)
        => \E i, k \in sent : request[i].createdAt + RollingMonth <= request[k].createdAt

\* What docs/product/PRD.md:505 says: no more than the limit in any month.  A
\* request that waited for the locks does not count those stamped after its
\* BEGIN, so it may exceed the limit.
MonthlyLimitAlwaysEnforced ==
    \A sent \in ExcessOfRequests :
        \E i, k \in sent : request[i].createdAt + RollingMonth <= request[k].createdAt

=============================================================================
