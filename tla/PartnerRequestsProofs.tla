------------------------ MODULE PartnerRequestsProofs ------------------------
(* Theorems about PartnerRequests, for any accounts, periods and bounds.     *)
EXTENDS PartnerRequests, FiniteSetTheorems, WellFoundedInduction, TLAPS

\* Rows fill the identifiers from the first one on.
Contiguous ==
    \E n \in 0 .. MaxRequests : \A i \in Ids : request[i].status = "absent" <=> n < i

\* Who is in a partnership is in it with someone who is in it with him.
PartnersMutual ==
    \A a \in Accounts : partner[a] # NoAccount =>
        /\ partner[a] \in Accounts \ {a}
        /\ partner[partner[a]] = a

\* Of two requests in one direction the earlier is no longer pending.
EarlierClosed ==
    \A i, k \in Ids :
        i < k /\ request[k].status # "absent" /\ Directed(k, request[i].from, request[i].to)
        => ~ Pending(i)

-----------------------------------------------------------------------------
(* What a step does to the requests.                                         *)

\* A row is left alone, or was pending and is closed.
LeftOrClosed(r, s) ==
    \/ s = r
    \/ /\ r.status = "pending"
       /\ s \in RequestRow
       /\ s.status \notin {"absent", "pending"}
       /\ s.from = r.from /\ s.to = r.to /\ s.createdAt = r.createdAt
       /\ s.declinedAt # 0 => s.status = "declined"

Closes == \A i \in Ids : LeftOrClosed(request[i], request'[i])

\* A row is added, no other of the pair is left pending, and none is declined.
Adds(a, b, now) ==
    /\ a \in Accounts /\ b \in Accounts /\ a # b
    /\ now \in TxTimes /\ NextId \in Ids
    /\ PairAllowed(a, b, now)
    /\ request'[NextId] \in RequestRow
    /\ request'[NextId].status \in {"pending", "accepted"}
    /\ request'[NextId].from = a /\ request'[NextId].to = b
    /\ request'[NextId].createdAt = now /\ request'[NextId].declinedAt = 0
    /\ \A i \in Ids \ {NextId} :
           /\ LeftOrClosed(request[i], request'[i])
           /\ Between(i, a, b) => request'[i].status # "pending"
           /\ request'[i].status = "declined" => request'[i] = request[i]

LEMMA NextIdIsFree ==
    ASSUME Contiguous, MaxRequests \in Nat
    PROVE  \E n \in 0 .. MaxRequests :
               /\ NextId = n + 1
               /\ \A i \in Ids : request[i].status = "absent" <=> n < i
<1>1. PICK n \in 0 .. MaxRequests : \A i \in Ids : request[i].status = "absent" <=> n < i
    BY DEF Contiguous
<1>2. {i \in Ids : request[i].status # "absent"} = 1 .. n
    BY <1>1 DEF Ids
<1>3. Cardinality(1 .. n) = n
    BY FS_Interval
<1>4. NextId = n + 1
    BY <1>2, <1>3 DEF NextId
<1>5. QED
    BY <1>1, <1>4

LEMMA RowTypes ==
    ASSUME TypeOK
    PROVE  /\ request = [i \in Ids |-> request[i]]
           /\ \A i \in Ids :
                /\ request[i] \in RequestRow
                /\ request[i].status \in RequestStatus
                /\ request[i].from \in Maybe /\ request[i].to \in Maybe
                /\ request[i].createdAt \in Nat /\ request[i].visible \in Nat
                /\ request[i].declinedAt \in Nat
BY DEF TypeOK, RequestRow

\* A row whose status changes keeps the rest of it.
LEMMA ClosedRow ==
    ASSUME TypeOK, NEW i \in Ids, NEW how \in RequestStatus \ {"absent", "pending"}, Pending(i)
    PROVE  LeftOrClosed(request[i], Closed(i, how))
<1>1. /\ request[i] \in RequestRow /\ RowShape(request[i]) /\ request[i].status = "pending"
    BY DEF TypeOK, Pending
<1>2. request[i].declinedAt = 0
    BY <1>1 DEF RowShape, NoRequest
<1>3. QED
    BY <1>1, <1>2 DEF LeftOrClosed, Closed, RequestRow, RequestStatus

LEMMA LeftRow ==
    ASSUME NEW i \in Ids
    PROVE  LeftOrClosed(request[i], request[i])
BY DEF LeftOrClosed

LEMMA TxTimesType ==
    ASSUME TypeOK, MaxLag \in Nat, NEW now \in TxTimes
    PROVE  now \in Nat /\ now <= clock /\ clock \in Nat
BY DEF TypeOK, TxTimes

LEMMA ExpiredRow ==
    ASSUME TypeOK, NEW a, NEW b, NEW now, NEW i \in Ids
    PROVE  /\ LeftOrClosed(request[i], Expired(i, a, b, now))
           /\ Expired(i, a, b, now).status = "declined" => Expired(i, a, b, now) = request[i]
<1>1. CASE Pending(i) /\ Between(i, a, b) /\ ExpiresAt(i) <= now
    <2>1. Expired(i, a, b, now) = Closed(i, "expired")
        BY <1>1 DEF Expired
    <2>2. LeftOrClosed(request[i], Closed(i, "expired"))
        BY <1>1, ClosedRow DEF RequestStatus
    <2>3. Closed(i, "expired").status = "expired"
        BY RowTypes DEF Closed, RequestRow
    <2>4. QED
        BY <2>1, <2>2, <2>3
<1>2. CASE ~ (Pending(i) /\ Between(i, a, b) /\ ExpiresAt(i) <= now)
    BY <1>2, LeftRow DEF Expired
<1>3. QED
    BY <1>1, <1>2

\* Formation leaves no pending request of either of the two.
LEMMA FormedRows ==
    ASSUME TypeOK, NEW a, NEW b, NEW accepted \in SUBSET Ids,
           \A i \in accepted : Pending(i),
           NEW i \in Ids
    PROVE  /\ LeftOrClosed(request[i], Formed(accepted, a, b)[i])
           /\ Involves(i, a) \/ Involves(i, b) => Formed(accepted, a, b)[i].status # "pending"
           /\ Formed(accepted, a, b)[i].status = "declined" => Formed(accepted, a, b)[i] = request[i]
<1>1. CASE i \in accepted
    <2>1. Formed(accepted, a, b)[i] = Closed(i, "accepted")
        BY <1>1 DEF Formed
    <2>2. LeftOrClosed(request[i], Closed(i, "accepted"))
        BY <1>1, ClosedRow DEF RequestStatus
    <2>3. Closed(i, "accepted").status = "accepted"
        BY RowTypes DEF Closed, RequestRow
    <2>4. QED
        BY <2>1, <2>2, <2>3
<1>2. CASE i \notin accepted /\ (InvalidatedBy(i, a) \/ InvalidatedBy(i, b))
    <2>1. Formed(accepted, a, b)[i] = Closed(i, "invalidated")
        BY <1>2 DEF Formed
    <2>2. LeftOrClosed(request[i], Closed(i, "invalidated"))
        BY <1>2, ClosedRow DEF RequestStatus, InvalidatedBy
    <2>3. Closed(i, "invalidated").status = "invalidated"
        BY RowTypes DEF Closed, RequestRow
    <2>4. QED
        BY <2>1, <2>2, <2>3
<1>3. CASE i \notin accepted /\ ~ InvalidatedBy(i, a) /\ ~ InvalidatedBy(i, b)
    <2>1. Formed(accepted, a, b)[i] = request[i]
        BY <1>3 DEF Formed
    <2>2. QED
        BY <1>3, <2>1, LeftRow DEF InvalidatedBy, Pending
<1>4. QED
    BY <1>1, <1>2, <1>3

LEMMA NewRow ==
    ASSUME TypeOK, MaxLag \in Nat, NEW a \in Accounts, NEW b \in Accounts, NEW now \in TxTimes,
           NEW how \in {"pending", "accepted"}
    PROVE  [NewRequest(a, b, now) EXCEPT !.status = how] \in RequestRow
BY TxTimesType DEF NewRequest, RequestRow, RequestStatus, Maybe

-----------------------------------------------------------------------------
(* Every step leaves, closes or adds.                                        *)

LEMMA CreateAdds ==
    ASSUME TypeOK, MaxLag \in Nat, NEW a \in Accounts, NEW b \in Accounts, NEW now \in TxTimes,
           CreateRequest(a, b, now)
    PROVE  Adds(a, b, now)
<1>1. request'[NextId] = NewRequest(a, b, now)
    BY DEF CreateRequest
<1>2. /\ NewRequest(a, b, now) \in RequestRow
      /\ NewRequest(a, b, now).status = "pending"
      /\ NewRequest(a, b, now).from = a /\ NewRequest(a, b, now).to = b
      /\ NewRequest(a, b, now).createdAt = now /\ NewRequest(a, b, now).declinedAt = 0
    BY TxTimesType DEF NewRequest, RequestRow, RequestStatus, Maybe
<1>3. ASSUME NEW i \in Ids \ {NextId}
      PROVE  /\ LeftOrClosed(request[i], request'[i])
             /\ Between(i, a, b) => request'[i].status # "pending"
             /\ request'[i].status = "declined" => request'[i] = request[i]
    <2>1. request'[i] = Expired(i, a, b, now)
        BY <1>3 DEF CreateRequest
    <2>2. ASSUME Between(i, a, b), Pending(i) PROVE request'[i].status # "pending"
        <3>1. ~ (now < ExpiresAt(i))
            BY <1>3, <2>2 DEF CreateRequest, ActivePair
        <3>2. ExpiresAt(i) <= now
            BY <1>3, <3>1, RowTypes, TxTimesType, PeriodsAssumption DEF ExpiresAt
        <3>3. request'[i] = Closed(i, "expired")
            BY <2>1, <2>2, <3>2 DEF Expired
        <3>4. QED
            BY <1>3, <3>3, RowTypes DEF Closed, RequestRow
    <2>3. ASSUME ~ Pending(i) PROVE request'[i].status # "pending"
        BY <2>1, <2>3 DEF Expired, Pending
    <2>4. QED
        BY <1>3, <2>1, <2>2, <2>3, ExpiredRow
<1>4. QED
    BY <1>1, <1>2, <1>3 DEF Adds, CreateRequest

LEMMA CreateReciprocalAdds ==
    ASSUME TypeOK, MaxLag \in Nat, NEW a \in Accounts, NEW b \in Accounts, NEW now \in TxTimes,
           CreateReciprocal(a, b, now)
    PROVE  /\ Adds(a, b, now)
           /\ \A i \in Ids : request'[i].status = "pending" =>
                 i # NextId /\ ~ Involves(i, a) /\ ~ Involves(i, b)
<1>1. PICK crossed \in ActivePair(a, b, now) :
          request' = [Formed({crossed}, a, b) EXCEPT
                          ![NextId] = [NewRequest(a, b, now) EXCEPT !.status = "accepted"]]
    BY DEF CreateReciprocal
<1>2. crossed \in Ids /\ Pending(crossed) /\ NextId \in Ids
    BY <1>1 DEF ActivePair, CreateReciprocal
<1>3. Formed({crossed}, a, b) = [i \in Ids |-> Formed({crossed}, a, b)[i]]
    BY DEF Formed
<1>4. request'[NextId] = [NewRequest(a, b, now) EXCEPT !.status = "accepted"]
    BY <1>1, <1>2, <1>3
<1>5. /\ request'[NextId] \in RequestRow
      /\ request'[NextId].status = "accepted"
      /\ request'[NextId].from = a /\ request'[NextId].to = b
      /\ request'[NextId].createdAt = now /\ request'[NextId].declinedAt = 0
    BY <1>4, TxTimesType DEF NewRequest, RequestRow, RequestStatus, Maybe
<1>6. ASSUME NEW i \in Ids \ {NextId}
      PROVE  /\ LeftOrClosed(request[i], request'[i])
             /\ Involves(i, a) \/ Involves(i, b) => request'[i].status # "pending"
             /\ request'[i].status = "declined" => request'[i] = request[i]
    <2>1. request'[i] = Formed({crossed}, a, b)[i]
        BY <1>1, <1>3, <1>6
    <2>2. QED
        BY <1>2, <1>6, <2>1, FormedRows
<1>7. \A i \in Ids : Between(i, a, b) => Involves(i, a)
    BY DEF Between, Involves
<1>8. QED
    BY <1>5, <1>6, <1>7 DEF Adds, CreateReciprocal

LEMMA AnswerCloses ==
    ASSUME TypeOK, MaxLag \in Nat, NEW i \in Ids, NEW now \in TxTimes,
           \/ AcceptRequest(i, now) \/ CancelRequest(i, now)
           \/ DeclineRequest(i, now) \/ ExpireRequest(i, now)
    PROVE  Closes
<1>1. Pending(i) /\ request[i].status = "pending"
    BY DEF AcceptRequest, CancelRequest, DeclineRequest, ExpireRequest, Answerable, Pending
<1>2. CASE AcceptRequest(i, now)
    <2>1. request' = Formed({i}, request[i].from, request[i].to)
        BY <1>2 DEF AcceptRequest
    <2>2. QED
        BY <1>1, <2>1, FormedRows DEF Closes
<1>3. ASSUME NEW how \in {"cancelled", "expired"},
             request' = [request EXCEPT ![i] = Closed(i, how)]
      PROVE  Closes
    <2>1. LeftOrClosed(request[i], Closed(i, how))
        BY <1>1, ClosedRow DEF RequestStatus
    <2>2. QED
        BY <1>3, <2>1, LeftRow, RowTypes DEF Closes
<1>4. CASE DeclineRequest(i, now)
    <2>1. request' = [request EXCEPT ![i] = Declined(i, now)]
        BY <1>4 DEF DeclineRequest
    <2>2. LeftOrClosed(request[i], Declined(i, now))
        BY <1>1, RowTypes, TxTimesType DEF LeftOrClosed, Declined, RequestRow, RequestStatus
    <2>3. QED
        BY <2>1, <2>2, LeftRow, RowTypes DEF Closes
<1>5. QED
    BY <1>2, <1>3, <1>4 DEF CancelRequest, ExpireRequest

LEMMA InvalidationCloses ==
    ASSUME TypeOK, NEW a, NEW b, RequestDeletion(a) \/ BlockFormerPartner(a, b)
    PROVE  Closes
<1>1. ASSUME NEW i \in Ids
      PROVE  \/ request'[i] = request[i]
             \/ Pending(i) /\ request'[i] = Closed(i, "invalidated")
    BY DEF RequestDeletion, BlockFormerPartner, InvalidatedBy, InvalidatedByBlock
<1>2. QED
    BY <1>1, ClosedRow, LeftRow DEF Closes, RequestStatus

LEMMA UnchangedCloses ==
    ASSUME UNCHANGED request
    PROVE  Closes
BY DEF Closes, LeftOrClosed

LEMMA CreatingSteps ==
    ASSUME TypeOK, MaxLag \in Nat, [Next]_vars
    PROVE  \/ Closes
           \/ \E a, b \in Accounts, now \in TxTimes :
                  CreateRequest(a, b, now) \/ CreateReciprocal(a, b, now)
<1>1. CASE Tick
    BY <1>1, UnchangedCloses DEF Tick
<1>2. CASE RequestStep
    <2>1. ASSUME NEW a \in Accounts, NEW b \in Accounts, NEW now \in TxTimes, DenyRequest(a, b, now)
          PROVE  Closes
        BY <2>1, ExpiredRow DEF DenyRequest, Closes
    <2>2. QED
        BY <1>2, <2>1, AnswerCloses DEF RequestStep
<1>3. CASE NeighbourStep
    <2>1. ASSUME NEW a \in Accounts, RecoverAccount(a) PROVE Closes
        BY <2>1, UnchangedCloses DEF RecoverAccount
    <2>2. ASSUME NEW a \in Accounts, NEW at \in 0 .. clock, FinalizeBreakup(a, at) \/ FinalizeDeletion(a, at)
          PROVE  Closes
        BY <2>2, UnchangedCloses DEF FinalizeBreakup, FinalizeDeletion
    <2>3. ASSUME NEW a \in Accounts, NEW b \in Accounts, UnblockFormerPartner(a, b) PROVE Closes
        BY <2>3, UnchangedCloses DEF UnblockFormerPartner
    <2>4. QED
        BY <1>3, <2>1, <2>2, <2>3, InvalidationCloses DEF NeighbourStep
<1>4. CASE UNCHANGED vars
    BY <1>4, UnchangedCloses DEF vars
<1>5. QED
    BY <1>1, <1>2, <1>3, <1>4 DEF Next

\* A step of the system closes requests, or adds one.
LEMMA StepKinds ==
    ASSUME TypeOK, MaxLag \in Nat, [Next]_vars
    PROVE  \/ Closes
           \/ \E a, b \in Accounts, now \in TxTimes : Adds(a, b, now)
BY CreatingSteps, CreateAdds, CreateReciprocalAdds

-----------------------------------------------------------------------------
(* Type correctness.                                                         *)

LEMMA ClosedRowShape ==
    ASSUME NEW r \in RequestRow, NEW s, RowShape(r), LeftOrClosed(r, s)
    PROVE  s \in RequestRow /\ RowShape(s)
BY DEF LeftOrClosed, RowShape, RequestRow

\* request' is a function on Ids whatever the step.
LEMMA RequestFunction ==
    ASSUME TypeOK, [Next]_vars
    PROVE  request' = [i \in Ids |-> request'[i]]
<1>1. CASE RequestStep
    BY <1>1, RowTypes
       DEF RequestStep, DenyRequest, CreateRequest, CreateReciprocal, Formed, AcceptRequest,
           CancelRequest, DeclineRequest, ExpireRequest
<1>2. CASE NeighbourStep \/ Tick \/ UNCHANGED vars
    BY <1>2, RowTypes
       DEF NeighbourStep, RequestDeletion, RecoverAccount, FinalizeBreakup, FinalizeDeletion,
           BlockFormerPartner, UnblockFormerPartner, Tick, vars
<1>3. QED
    BY <1>1, <1>2 DEF Next

LEMMA RequestType ==
    ASSUME TypeOK, MaxLag \in Nat, [Next]_vars
    PROVE  /\ request' \in [Ids -> RequestRow]
           /\ \A i \in Ids : RowShape(request'[i])
<1>1. CASE Closes
    <2>1. \A i \in Ids : request'[i] \in RequestRow /\ RowShape(request'[i])
        BY <1>1, RowTypes, ClosedRowShape DEF Closes, TypeOK
    <2>2. QED
        BY <2>1, RequestFunction
<1>2. CASE \E a, b \in Accounts, now \in TxTimes : Adds(a, b, now)
    <2>1. PICK a \in Accounts, b \in Accounts, now \in TxTimes : Adds(a, b, now)
        BY <1>2
    <2>2. request'[NextId] \in RequestRow /\ RowShape(request'[NextId])
        BY <2>1 DEF Adds, RowShape
    <2>3. \A i \in Ids \ {NextId} : request'[i] \in RequestRow /\ RowShape(request'[i])
        BY <2>1, RowTypes, ClosedRowShape DEF Adds, TypeOK
    <2>4. QED
        BY <2>2, <2>3, RequestFunction
<1>3. QED
    BY <1>1, <1>2, StepKinds

LEMMA NeighbourTypes ==
    ASSUME TypeOK, MaxLag \in Nat, [Next]_vars
    PROVE  /\ clock' \in Nat
           /\ status' \in [Accounts -> AccountStatus]
           /\ partner' \in [Accounts -> Maybe]
           /\ eligibleAt' \in [Accounts -> Nat]
           /\ blocks' \subseteq Accounts \X Accounts
           /\ former' \subseteq SUBSET Accounts
<1>1. ASSUME NEW a \in Accounts, NEW b \in Accounts, FormPartnership(a, b)
      PROVE  /\ partner' \in [Accounts -> Maybe]
             /\ UNCHANGED <<clock, status, eligibleAt, blocks, former>>
    BY <1>1 DEF TypeOK, FormPartnership, Maybe
<1>2. ASSUME NEW a \in Accounts, NEW at \in 0 .. clock, NEW cooled, partner[a] # NoAccount,
             EndPartnership(a, at, cooled)
      PROVE  /\ partner' \in [Accounts -> Maybe]
             /\ eligibleAt' \in [Accounts -> Nat]
             /\ former' \subseteq SUBSET Accounts
    <2>1. partner[a] \in Accounts
        BY <1>2 DEF TypeOK, Maybe
    <2>2. \A c \in Accounts : at + PartnerCooldown \in Nat /\ eligibleAt[c] \in Nat
        BY <1>2, TxTimesType, PeriodsAssumption DEF TypeOK
    <2>3. QED
        BY <1>2, <2>1, <2>2 DEF TypeOK, EndPartnership, Maybe
<1>3. CASE Tick
    BY <1>3 DEF TypeOK, Tick, neighbours
<1>4. CASE RequestStep
    <2>1. ASSUME NEW a \in Accounts, NEW b \in Accounts, NEW now \in TxTimes,
                 CreateReciprocal(a, b, now)
          PROVE  FormPartnership(a, b)
        BY <2>1 DEF CreateReciprocal
    <2>2. ASSUME NEW i \in Ids, NEW now \in TxTimes, AcceptRequest(i, now)
          PROVE  \E a, b \in Accounts : FormPartnership(a, b)
        <3>1. request[i].from \in Accounts /\ request[i].to \in Accounts
            BY <2>2 DEF AcceptRequest, Answerable, Pending, TypeOK, RowShape
        <3>2. QED
            BY <2>2, <3>1 DEF AcceptRequest
    <2>3. \/ UNCHANGED <<clock, neighbours>>
          \/ \E a, b \in Accounts : FormPartnership(a, b)
        BY <1>4, <2>1, <2>2
           DEF RequestStep, DenyRequest, CreateRequest, CancelRequest, DeclineRequest, ExpireRequest
    <2>4. CASE UNCHANGED <<clock, neighbours>>
        BY <2>4 DEF TypeOK, neighbours
    <2>5. CASE \E a, b \in Accounts : FormPartnership(a, b)
        BY <1>1, <2>5 DEF TypeOK
    <2>6. QED
        BY <2>3, <2>4, <2>5
<1>5. ASSUME NEW a \in Accounts, RequestDeletion(a) \/ RecoverAccount(a)
      PROVE  /\ status' \in [Accounts -> AccountStatus]
             /\ UNCHANGED <<clock, partner, eligibleAt, blocks, former>>
    BY <1>5 DEF TypeOK, RequestDeletion, RecoverAccount, AccountStatus
<1>6. ASSUME NEW a \in Accounts, NEW at \in 0 .. clock, FinalizeBreakup(a, at)
      PROVE  /\ partner' \in [Accounts -> Maybe]
             /\ eligibleAt' \in [Accounts -> Nat]
             /\ former' \subseteq SUBSET Accounts
             /\ UNCHANGED <<clock, status, blocks>>
    BY <1>2, <1>6 DEF FinalizeBreakup
<1>7. ASSUME NEW a \in Accounts, NEW at \in 0 .. clock, FinalizeDeletion(a, at)
      PROVE  /\ partner' \in [Accounts -> Maybe]
             /\ eligibleAt' \in [Accounts -> Nat]
             /\ former' \subseteq SUBSET Accounts
             /\ status' \in [Accounts -> AccountStatus]
             /\ UNCHANGED <<clock, blocks>>
    <2>1. status' \in [Accounts -> AccountStatus] /\ UNCHANGED <<clock, blocks>>
        BY <1>7 DEF FinalizeDeletion, TypeOK, AccountStatus
    <2>2. CASE partner[a] = NoAccount
        BY <1>7, <2>1, <2>2 DEF FinalizeDeletion, TypeOK
    <2>3. CASE partner[a] # NoAccount
        BY <1>2, <1>7, <2>1, <2>3 DEF FinalizeDeletion
    <2>4. QED
        BY <2>2, <2>3
<1>8. ASSUME NEW a \in Accounts, NEW b \in Accounts,
             BlockFormerPartner(a, b) \/ UnblockFormerPartner(a, b)
      PROVE  /\ blocks' \subseteq Accounts \X Accounts
             /\ UNCHANGED <<clock, status, partner, eligibleAt, former>>
    BY <1>8 DEF TypeOK, BlockFormerPartner, UnblockFormerPartner
<1>9. CASE NeighbourStep
    BY <1>5, <1>6, <1>7, <1>8, <1>9 DEF NeighbourStep, TypeOK
<1>10. CASE UNCHANGED vars
    BY <1>10 DEF TypeOK, vars, neighbours
<1>11. QED
    BY <1>3, <1>4, <1>9, <1>10 DEF Next

\* The tables keep their types and requests their shape, in every step of every
\* handler and for any number of accounts and requests.
THEOREM TypeCorrect == Spec => []TypeOK
<1>1. Init => TypeOK
    BY DEF Init, TypeOK, RequestRow, RequestStatus, NoRequest, Maybe, AccountStatus, RowShape
<1>2. TypeOK /\ [Next]_vars => TypeOK'
    BY RequestType, NeighbourTypes, RequestBoundsAssumption DEF TypeOK
<1>3. QED
    BY <1>1, <1>2, PTL DEF Spec

-----------------------------------------------------------------------------
(* Requests of one pair.                                                     *)

LEMMA ClosedRowFacts ==
    ASSUME NEW r, NEW s, LeftOrClosed(r, s)
    PROVE  /\ s.from = r.from /\ s.to = r.to /\ s.createdAt = r.createdAt
           /\ s.status = "absent" <=> r.status = "absent"
           /\ s.status = "pending" => r.status = "pending"
           /\ s.status = "pending" => s = r
BY DEF LeftOrClosed

LEMMA NoCrossedStep ==
    ASSUME TypeOK, MaxLag \in Nat, [Next]_vars, NoCrossedRequests
    PROVE  NoCrossedRequests'
<1>1. SUFFICES ASSUME NEW i \in Ids, NEW k \in Ids, Pending(i)', Pending(k)',
                      Between(k, request[i].from, request[i].to)'
               PROVE  i = k
    BY DEF NoCrossedRequests
<1>2. CASE Closes
    <2>1. LeftOrClosed(request[i], request'[i]) /\ LeftOrClosed(request[k], request'[k])
        BY <1>2 DEF Closes
    <2>2. Pending(i) /\ Pending(k) /\ Between(k, request[i].from, request[i].to)
        BY <1>1, <2>1, ClosedRowFacts DEF Pending, Between
    <2>3. QED
        BY <2>2 DEF NoCrossedRequests
<1>3. CASE \E a, b \in Accounts, now \in TxTimes : Adds(a, b, now)
    <2>1. PICK a \in Accounts, b \in Accounts, now \in TxTimes : Adds(a, b, now)
        BY <1>3
    <2>2. CASE i # NextId /\ k # NextId
        <3>1. LeftOrClosed(request[i], request'[i]) /\ LeftOrClosed(request[k], request'[k])
            BY <2>1, <2>2 DEF Adds
        <3>2. Pending(i) /\ Pending(k) /\ Between(k, request[i].from, request[i].to)
            BY <1>1, <3>1, ClosedRowFacts DEF Pending, Between
        <3>3. QED
            BY <3>2 DEF NoCrossedRequests
    <2>3. ASSUME i = NextId, k # NextId PROVE FALSE
        <3>1. LeftOrClosed(request[k], request'[k])
            BY <2>1, <2>3 DEF Adds
        <3>2. Between(k, a, b)
            BY <1>1, <2>1, <2>3, <3>1, ClosedRowFacts DEF Adds, Between
        <3>3. QED
            BY <1>1, <2>1, <2>3, <3>2 DEF Adds, Pending
    <2>4. ASSUME k = NextId, i # NextId PROVE FALSE
        <3>1. LeftOrClosed(request[i], request'[i])
            BY <2>1, <2>4 DEF Adds
        <3>2. Between(i, a, b)
            BY <1>1, <2>1, <2>4, <3>1, ClosedRowFacts DEF Adds, Between
        <3>3. QED
            BY <1>1, <2>1, <2>4, <3>2 DEF Adds, Pending
    <2>5. QED
        BY <2>2, <2>3, <2>4
<1>4. QED
    BY <1>2, <1>3, StepKinds

\* Two accounts never have two requests pending between them: the row a handler
\* adds is the only one of its pair it leaves pending.
THEOREM RequestsUncrossed == Spec => []NoCrossedRequests
<1>1. Init => NoCrossedRequests
    BY DEF Init, NoCrossedRequests, Pending, NoRequest
<1>2. TypeOK /\ NoCrossedRequests /\ [Next]_vars => NoCrossedRequests'
    BY NoCrossedStep, RequestBoundsAssumption
<1>3. QED
    BY <1>1, <1>2, TypeCorrect, PTL DEF Spec

-----------------------------------------------------------------------------
(* The cooldown after a decline.                                             *)

\* The inductive invariant: rows are numbered in the order of their insertion,
\* so a request found closed when a later one was added stays as it is.
CooldownInv == Contiguous /\ EarlierClosed /\ DeclineCooldownEnforced

LEMMA ContiguousStep ==
    ASSUME TypeOK, MaxLag \in Nat, MaxRequests \in Nat, [Next]_vars, Contiguous
    PROVE  Contiguous'
<1>1. PICK n \in 0 .. MaxRequests :
          /\ NextId = n + 1
          /\ \A i \in Ids : request[i].status = "absent" <=> n < i
    BY NextIdIsFree
<1>2. CASE Closes
    <2>1. \A i \in Ids : request'[i].status = "absent" <=> n < i
        BY <1>1, <1>2, ClosedRowFacts DEF Closes
    <2>2. QED
        BY <2>1 DEF Contiguous, Ids
<1>3. CASE \E a, b \in Accounts, now \in TxTimes : Adds(a, b, now)
    <2>1. PICK a \in Accounts, b \in Accounts, now \in TxTimes : Adds(a, b, now)
        BY <1>3
    <2>2. n + 1 \in 0 .. MaxRequests
        BY <1>1, <2>1 DEF Adds, Ids
    <2>3. \A i \in Ids : request'[i].status = "absent" <=> n + 1 < i
        <3>1. TAKE i \in Ids
        <3>2. CASE i = NextId
            BY <1>1, <2>1, <3>2 DEF Adds
        <3>3. CASE i # NextId
            <4>1. request'[i].status = "absent" <=> request[i].status = "absent"
                BY <2>1, <3>3, ClosedRowFacts DEF Adds
            <4>2. QED
                BY <1>1, <3>3, <4>1 DEF Ids
        <3>4. QED
            BY <3>2, <3>3
    <2>4. QED
        BY <2>2, <2>3 DEF Contiguous, Ids
<1>4. QED
    BY <1>2, <1>3, StepKinds

LEMMA EarlierClosedStep ==
    ASSUME TypeOK, MaxLag \in Nat, MaxRequests \in Nat, [Next]_vars, Contiguous, EarlierClosed
    PROVE  EarlierClosed'
<1>1. SUFFICES ASSUME NEW i \in Ids, NEW k \in Ids, i < k, request'[k].status # "absent",
                      Directed(k, request[i].from, request[i].to)'
               PROVE  request'[i].status # "pending"
    BY DEF EarlierClosed, Pending
<1>2. CASE Closes
    <2>1. LeftOrClosed(request[i], request'[i]) /\ LeftOrClosed(request[k], request'[k])
        BY <1>2 DEF Closes
    <2>2. request[k].status # "absent" /\ Directed(k, request[i].from, request[i].to)
        BY <1>1, <2>1, ClosedRowFacts DEF Directed
    <2>3. QED
        BY <1>1, <2>1, <2>2, ClosedRowFacts DEF EarlierClosed, Pending
<1>3. CASE \E a, b \in Accounts, now \in TxTimes : Adds(a, b, now)
    <2>1. PICK a \in Accounts, b \in Accounts, now \in TxTimes : Adds(a, b, now)
        BY <1>3
    <2>2. PICK n \in 0 .. MaxRequests :
              /\ NextId = n + 1
              /\ \A j \in Ids : request[j].status = "absent" <=> n < j
        BY NextIdIsFree
    <2>3. i # NextId
        <3>1. SUFFICES ASSUME i = NextId PROVE FALSE
            OBVIOUS
        <3>2. k # NextId /\ n < k
            BY <1>1, <2>2, <3>1 DEF Ids
        <3>3. LeftOrClosed(request[k], request'[k]) /\ request[k].status = "absent"
            BY <2>1, <2>2, <3>2 DEF Adds
        <3>4. QED
            BY <1>1, <3>3, ClosedRowFacts
    <2>4. LeftOrClosed(request[i], request'[i])
        BY <2>1, <2>3 DEF Adds
    <2>5. CASE k = NextId
        <3>1. Between(i, a, b)
            BY <1>1, <2>1, <2>4, <2>5, ClosedRowFacts DEF Adds, Between, Directed
        <3>2. QED
            BY <2>1, <2>3, <3>1 DEF Adds
    <2>6. CASE k # NextId
        <3>1. LeftOrClosed(request[k], request'[k])
            BY <2>1, <2>6 DEF Adds
        <3>2. request[k].status # "absent" /\ Directed(k, request[i].from, request[i].to)
            BY <1>1, <2>4, <3>1, ClosedRowFacts DEF Directed
        <3>3. QED
            BY <1>1, <2>4, <3>2, ClosedRowFacts DEF EarlierClosed, Pending
    <2>7. QED
        BY <2>5, <2>6
<1>4. QED
    BY <1>2, <1>3, StepKinds

LEMMA CooldownStep ==
    ASSUME TypeOK, MaxLag \in Nat, MaxRequests \in Nat, [Next]_vars, CooldownInv
    PROVE  DeclineCooldownEnforced'
<1>1. SUFFICES ASSUME NEW i \in Ids, NEW k \in Ids, i < k,
                      request'[i].status = "declined", request'[k].status # "absent",
                      Directed(k, request[i].from, request[i].to)'
               PROVE  request'[i].declinedAt + DeclineCooldown <= request'[k].createdAt
    BY DEF DeclineCooldownEnforced
<1>2. ASSUME LeftOrClosed(request[i], request'[i]), LeftOrClosed(request[k], request'[k])
      PROVE  request'[i].declinedAt + DeclineCooldown <= request'[k].createdAt
    <2>1. request[k].status # "absent" /\ Directed(k, request[i].from, request[i].to)
        BY <1>1, <1>2, ClosedRowFacts DEF Directed
    <2>2. request[i].status # "pending"
        BY <1>1, <2>1 DEF CooldownInv, EarlierClosed, Pending
    <2>3. request'[i] = request[i] /\ request'[k].createdAt = request[k].createdAt
        BY <1>2, <2>2 DEF LeftOrClosed
    <2>4. QED
        BY <1>1, <2>1, <2>3 DEF CooldownInv, DeclineCooldownEnforced
<1>3. CASE Closes
    BY <1>2, <1>3 DEF Closes
<1>4. CASE \E a, b \in Accounts, now \in TxTimes : Adds(a, b, now)
    <2>1. PICK a \in Accounts, b \in Accounts, now \in TxTimes : Adds(a, b, now)
        BY <1>4
    <2>2. i # NextId
        BY <1>1, <2>1 DEF Adds
    <2>3. LeftOrClosed(request[i], request'[i])
        BY <2>1, <2>2 DEF Adds
    <2>4. CASE k = NextId
        <3>1. Directed(i, a, b) /\ Between(i, a, b)
            BY <1>1, <2>1, <2>3, <2>4, ClosedRowFacts DEF Adds, Between, Directed
        <3>2. request'[k].createdAt = now
            BY <2>1, <2>4 DEF Adds
        <3>3. request'[i] = request[i]
            BY <1>1, <2>1, <2>2 DEF Adds
        <3>4. ~ (now < request[i].declinedAt + DeclineCooldown)
            BY <1>1, <2>1, <3>1, <3>3 DEF Adds, PairAllowed, DeclineCooldownActive
        <3>5. QED
            BY <3>2, <3>3, <3>4, RowTypes, TxTimesType, PeriodsAssumption
    <2>5. CASE k # NextId
        BY <1>2, <2>1, <2>3, <2>5 DEF Adds
    <2>6. QED
        BY <2>4, <2>5
<1>5. QED
    BY <1>3, <1>4, StepKinds

\* After a decline the sender's next request to the same account comes no earlier
\* than the cooldown later: expiration frees the pair but declines nothing, and
\* only the latest request of a direction can still be declined.
THEOREM CooldownAfterDecline == Spec => []DeclineCooldownEnforced
<1>1. Init => CooldownInv
    <2>1. SUFFICES ASSUME Init PROVE CooldownInv
        OBVIOUS
    <2>2. \A i \in Ids : request[i].status = "absent"
        BY <2>1 DEF Init, NoRequest
    <2>3. Contiguous
        BY <2>2, RequestBoundsAssumption DEF Contiguous, Ids
    <2>4. EarlierClosed /\ DeclineCooldownEnforced
        BY <2>2 DEF EarlierClosed, DeclineCooldownEnforced
    <2>5. QED
        BY <2>3, <2>4 DEF CooldownInv
<1>2. TypeOK /\ CooldownInv /\ [Next]_vars => CooldownInv'
    BY ContiguousStep, EarlierClosedStep, CooldownStep, RequestBoundsAssumption DEF CooldownInv
<1>3. CooldownInv => DeclineCooldownEnforced
    BY DEF CooldownInv
<1>4. QED
    BY <1>1, <1>2, <1>3, TypeCorrect, PTL DEF Spec

-----------------------------------------------------------------------------
(* A pending request could be accepted.                                      *)

LEMMA AcceptMakesPair ==
    ASSUME TypeOK, NEW i \in Ids, NEW now \in TxTimes, AcceptRequest(i, now)
    PROVE  /\ request[i].from \in Accounts /\ request[i].to \in Accounts
           /\ request[i].from # request[i].to
           /\ partner[request[i].from] = NoAccount /\ partner[request[i].to] = NoAccount
           /\ FormPartnership(request[i].from, request[i].to)
           /\ \A k \in Ids : request'[k].status = "pending" =>
                 /\ LeftOrClosed(request[k], request'[k])
                 /\ ~ Involves(k, request[i].from) /\ ~ Involves(k, request[i].to)
<1>1. /\ request[i].from \in Accounts /\ request[i].to \in Accounts
      /\ request[i].from # request[i].to
      /\ Pending(i)
    BY DEF AcceptRequest, Answerable, Pending, TypeOK, RowShape
<1>2. /\ request' = Formed({i}, request[i].from, request[i].to)
      /\ partner[request[i].from] = NoAccount /\ partner[request[i].to] = NoAccount
      /\ FormPartnership(request[i].from, request[i].to)
    BY DEF AcceptRequest, Available
<1>3. QED
    BY <1>1, <1>2, FormedRows

\* What a step does to the partnerships.
Pairs(a, b) ==
    /\ a # b /\ partner[a] = NoAccount /\ partner[b] = NoAccount
    /\ partner' = [partner EXCEPT ![a] = b, ![b] = a]

Parts(a) ==
    /\ partner[a] # NoAccount
    /\ partner' = [partner EXCEPT ![a] = NoAccount, ![partner[a]] = NoAccount]

LEMMA PartnerKinds ==
    ASSUME TypeOK, [Next]_vars
    PROVE  \/ UNCHANGED partner
           \/ \E a, b \in Accounts : Pairs(a, b)
           \/ \E a \in Accounts : Parts(a)
<1>1. CASE RequestStep
    <2>1. ASSUME NEW a \in Accounts, NEW b \in Accounts, NEW now \in TxTimes,
                 CreateReciprocal(a, b, now)
          PROVE  Pairs(a, b)
        BY <2>1 DEF CreateReciprocal, PairAllowed, Available, FormPartnership, Pairs
    <2>2. ASSUME NEW i \in Ids, NEW now \in TxTimes, AcceptRequest(i, now)
          PROVE  \E a, b \in Accounts : Pairs(a, b)
        BY <2>2, AcceptMakesPair DEF FormPartnership, Pairs
    <2>3. QED
        BY <1>1, <2>1, <2>2
           DEF RequestStep, DenyRequest, CreateRequest, CancelRequest, DeclineRequest,
               ExpireRequest, neighbours
<1>2. CASE NeighbourStep
    <2>1. ASSUME NEW a \in Accounts, NEW at \in 0 .. clock, FinalizeBreakup(a, at) \/ FinalizeDeletion(a, at)
          PROVE  UNCHANGED partner \/ Parts(a)
        BY <2>1 DEF FinalizeBreakup, FinalizeDeletion, EndPartnership, Parts
    <2>2. QED
        BY <1>2, <2>1
           DEF NeighbourStep, RequestDeletion, RecoverAccount, BlockFormerPartner, UnblockFormerPartner
<1>3. CASE Tick \/ UNCHANGED vars
    BY <1>3 DEF Tick, vars, neighbours
<1>4. QED
    BY <1>1, <1>2, <1>3 DEF Next

LEMMA MutualStep ==
    ASSUME TypeOK, [Next]_vars, PartnersMutual
    PROVE  PartnersMutual'
<1>1. CASE UNCHANGED partner
    BY <1>1 DEF PartnersMutual
<1>2. CASE \E a, b \in Accounts : Pairs(a, b)
    <2>1. PICK a \in Accounts, b \in Accounts : Pairs(a, b)
        BY <1>2
    <2>2. \A c \in Accounts :
             partner'[c] = IF c = a THEN b ELSE IF c = b THEN a ELSE partner[c]
        BY <2>1 DEF Pairs, TypeOK
    <2>3. SUFFICES ASSUME NEW c \in Accounts, partner'[c] # NoAccount
                   PROVE  partner'[c] \in Accounts \ {c} /\ partner'[partner'[c]] = c
        BY DEF PartnersMutual
    <2>4. CASE c = a \/ c = b
        BY <2>1, <2>2, <2>4 DEF Pairs
    <2>5. CASE c # a /\ c # b
        <3>1. partner'[c] = partner[c]
            BY <2>2, <2>5
        <3>2. partner[c] \in Accounts \ {c} /\ partner[partner[c]] = c
            BY <2>3, <3>1 DEF PartnersMutual
        <3>3. partner[c] # a /\ partner[c] # b
            BY <2>1, <3>2, PairAssumption DEF Pairs
        <3>4. QED
            BY <2>2, <3>1, <3>2, <3>3
    <2>6. QED
        BY <2>4, <2>5
<1>3. CASE \E a \in Accounts : Parts(a)
    <2>1. PICK a \in Accounts : Parts(a)
        BY <1>3
    <2>2. partner[a] \in Accounts
        BY <2>1 DEF Parts, PartnersMutual
    <2>3. \A c \in Accounts :
             partner'[c] = IF c = a \/ c = partner[a] THEN NoAccount ELSE partner[c]
        BY <2>1, <2>2 DEF Parts, TypeOK
    <2>4. partner[partner[a]] = a
        BY <2>1 DEF Parts, PartnersMutual
    <2>5. SUFFICES ASSUME NEW c \in Accounts, partner'[c] # NoAccount
                   PROVE  partner'[c] \in Accounts \ {c} /\ partner'[partner'[c]] = c
        BY DEF PartnersMutual
    <2>6. c # a /\ c # partner[a] /\ partner'[c] = partner[c]
        BY <2>3, <2>5
    <2>7. partner[c] \in Accounts \ {c} /\ partner[partner[c]] = c
        BY <2>5, <2>6 DEF PartnersMutual
    <2>8. partner[c] # a /\ partner[c] # partner[a]
        BY <2>4, <2>6, <2>7
    <2>9. QED
        BY <2>3, <2>6, <2>7, <2>8
<1>4. QED
    BY <1>1, <1>2, <1>3, PartnerKinds

\* A pending request stays acceptable when the step leaves its accounts alone.
LEMMA StillAcceptable ==
    ASSUME TypeOK, PendingAcceptable, NEW i \in Ids, clock' \in Nat, clock <= clock',
           request'[i] = request[i], Pending(i),
           \A c \in {request[i].from, request[i].to} :
               status'[c] = status[c] /\ partner'[c] = partner[c] /\ eligibleAt'[c] = eligibleAt[c],
           BlockedEitherWay(request[i].from, request[i].to)'
               => BlockedEitherWay(request[i].from, request[i].to)
    PROVE  /\ Available(request[i].from, clock)' /\ Available(request[i].to, clock)'
           /\ ~ BlockedEitherWay(request[i].from, request[i].to)'
<1>1. /\ Available(request[i].from, clock) /\ Available(request[i].to, clock)
      /\ ~ BlockedEitherWay(request[i].from, request[i].to)
    BY DEF PendingAcceptable
<1>2. request[i].from \in Accounts /\ request[i].to \in Accounts
    BY DEF TypeOK, RowShape, Pending
<1>3. \A c \in {request[i].from, request[i].to} : eligibleAt[c] \in Nat /\ clock \in Nat
    BY <1>2 DEF TypeOK
<1>4. QED
    BY <1>1, <1>3 DEF Available

\* The facts about a request that is pending after a step, and was before it.
LEMMA AcceptableStep ==
    ASSUME TypeOK, MaxLag \in Nat, [Next]_vars, PendingAcceptable, PartnersMutual,
           NEW i \in Ids, Pending(i), request'[i] = request[i],
           \* a formation leaves no pending request of its two accounts
           \A a, b \in Accounts, now \in TxTimes : CreateReciprocal(a, b, now)
               => ~ Involves(i, a) /\ ~ Involves(i, b),
           \A k \in Ids, now \in TxTimes : AcceptRequest(k, now)
               => ~ Involves(i, request[k].from) /\ ~ Involves(i, request[k].to)
    PROVE  /\ Available(request[i].from, clock)' /\ Available(request[i].to, clock)'
           /\ ~ BlockedEitherWay(request[i].from, request[i].to)'
<1> DEFINE x == request[i].from
           y == request[i].to
           Kept == /\ \A c \in {x, y} : /\ status'[c] = status[c] /\ partner'[c] = partner[c]
                                        /\ eligibleAt'[c] = eligibleAt[c]
                   /\ BlockedEitherWay(x, y)' => BlockedEitherWay(x, y)
<1>1. /\ x \in Accounts /\ y \in Accounts
      /\ \A c \in {x, y} : c \in Accounts /\ Involves(i, c)
                           /\ status[c] = "active" /\ partner[c] = NoAccount
    BY DEF TypeOK, RowShape, Pending, PendingAcceptable, Available, Involves
<1>2. clock' \in Nat /\ clock <= clock'
    <2>1. clock' = clock \/ clock' = clock + 1
        BY DEF Next, Tick, RequestStep, NeighbourStep, DenyRequest, CreateRequest,
               CreateReciprocal, FormPartnership, AcceptRequest, CancelRequest, DeclineRequest,
               ExpireRequest, RequestDeletion, RecoverAccount, FinalizeBreakup,
               FinalizeDeletion, BlockFormerPartner, UnblockFormerPartner, vars
    <2>2. QED
        BY <2>1 DEF TypeOK
<1>3. SUFFICES Kept
    BY <1>1, <1>2, StillAcceptable
<1>4. ASSUME UNCHANGED neighbours PROVE Kept
    BY <1>4 DEF neighbours, BlockedEitherWay
<1>5. ASSUME NEW a \in Accounts, NEW b \in Accounts, FormPartnership(a, b),
             ~ Involves(i, a), ~ Involves(i, b)
      PROVE  Kept
    <2>1. \A c \in {x, y} : partner'[c] = partner[c]
        BY <1>1, <1>5 DEF FormPartnership, TypeOK, Involves
    <2>2. QED
        BY <1>5, <2>1 DEF FormPartnership, BlockedEitherWay
<1>6. CASE RequestStep
    <2>1. ASSUME NEW a \in Accounts, NEW b \in Accounts, NEW now \in TxTimes,
                 CreateReciprocal(a, b, now)
          PROVE  Kept
        BY <1>5, <2>1 DEF CreateReciprocal
    <2>2. ASSUME NEW k \in Ids, NEW now \in TxTimes, AcceptRequest(k, now)
          PROVE  Kept
        BY <1>5, <2>2, AcceptMakesPair
    <2>3. QED
        BY <1>4, <1>6, <2>1, <2>2
           DEF RequestStep, DenyRequest, CreateRequest, CancelRequest, DeclineRequest, ExpireRequest
<1>7. ASSUME NEW a \in Accounts, RequestDeletion(a) PROVE Kept
    <2>1. ~ Involves(i, a)
        <3>1. SUFFICES ASSUME Involves(i, a) PROVE FALSE
            OBVIOUS
        <3>2. request'[i] = Closed(i, "invalidated")
            BY <1>7, <3>1 DEF RequestDeletion, InvalidatedBy
        <3>3. QED
            BY <3>2, RowTypes DEF Closed, Pending, RequestRow
    <2>2. \A c \in {x, y} : status'[c] = status[c]
        BY <1>1, <1>7, <2>1 DEF RequestDeletion, TypeOK
    <2>3. QED
        BY <1>7, <2>2 DEF RequestDeletion, BlockedEitherWay
<1>8. ASSUME NEW a \in Accounts, RecoverAccount(a) PROVE Kept
    <2>1. \A c \in {x, y} : status'[c] = status[c]
        BY <1>1, <1>8 DEF RecoverAccount, TypeOK
    <2>2. QED
        BY <1>8, <2>1 DEF RecoverAccount, BlockedEitherWay
<1>9. ASSUME NEW a \in Accounts, NEW at, NEW cooled \in SUBSET {a, partner[a]},
             partner[a] # NoAccount, EndPartnership(a, at, cooled)
      PROVE  \A c \in {x, y} : partner'[c] = partner[c] /\ eligibleAt'[c] = eligibleAt[c]
    <2>1. partner[a] \in Accounts /\ partner[partner[a]] = a
        BY <1>9 DEF PartnersMutual
    <2>2. \A c \in {x, y} : c # a /\ c # partner[a]
        BY <1>1, <1>9, <2>1, PairAssumption
    <2>3. QED
        BY <1>1, <1>9, <2>1, <2>2 DEF EndPartnership, TypeOK
<1>10. ASSUME NEW a \in Accounts, NEW at \in 0 .. clock, FinalizeBreakup(a, at) PROVE Kept
    BY <1>9, <1>10 DEF FinalizeBreakup, BlockedEitherWay
<1>11. ASSUME NEW a \in Accounts, NEW at \in 0 .. clock, FinalizeDeletion(a, at) PROVE Kept
    <2>1. \A c \in {x, y} : status'[c] = status[c]
        BY <1>1, <1>11 DEF FinalizeDeletion, TypeOK
    <2>2. \A c \in {x, y} : partner'[c] = partner[c] /\ eligibleAt'[c] = eligibleAt[c]
        BY <1>9, <1>11 DEF FinalizeDeletion
    <2>3. QED
        BY <1>11, <2>1, <2>2 DEF FinalizeDeletion, BlockedEitherWay
<1>12. ASSUME NEW a \in Accounts, NEW b \in Accounts, BlockFormerPartner(a, b) PROVE Kept
    <2>1. ~ Between(i, a, b)
        <3>1. SUFFICES ASSUME Between(i, a, b) PROVE FALSE
            OBVIOUS
        <3>2. request'[i] = Closed(i, "invalidated")
            BY <1>12, <3>1 DEF BlockFormerPartner, InvalidatedByBlock
        <3>3. QED
            BY <3>2, RowTypes DEF Closed, Pending, RequestRow
    <2>2. <<x, y>> # <<a, b>> /\ <<y, x>> # <<a, b>>
        BY <2>1 DEF Between
    <2>3. QED
        BY <1>12, <2>2 DEF BlockFormerPartner, BlockedEitherWay
<1>13. ASSUME NEW a \in Accounts, NEW b \in Accounts, UnblockFormerPartner(a, b) PROVE Kept
    BY <1>13 DEF UnblockFormerPartner, BlockedEitherWay
<1>14. CASE NeighbourStep
    BY <1>7, <1>8, <1>10, <1>11, <1>12, <1>13, <1>14 DEF NeighbourStep
<1>15. CASE Tick \/ UNCHANGED vars
    BY <1>4, <1>15 DEF Tick, vars
<1>16. QED
    BY <1>6, <1>14, <1>15 DEF Next

LEMMA PendingAcceptableStep ==
    ASSUME TypeOK, MaxLag \in Nat, [Next]_vars, PendingAcceptable, PartnersMutual
    PROVE  PendingAcceptable'
<1>1. SUFFICES ASSUME NEW i \in Ids, request'[i].status = "pending"
               PROVE  /\ Available(request[i].from, clock)' /\ Available(request[i].to, clock)'
                      /\ ~ BlockedEitherWay(request[i].from, request[i].to)'
    BY DEF PendingAcceptable, Pending
<1>2. ASSUME NEW a \in Accounts, NEW b \in Accounts, NEW now \in TxTimes,
             CreateReciprocal(a, b, now)
      PROVE  LeftOrClosed(request[i], request'[i]) /\ ~ Involves(i, a) /\ ~ Involves(i, b)
    BY <1>1, <1>2, CreateReciprocalAdds DEF Adds
<1>3. ASSUME NEW k \in Ids, NEW now \in TxTimes, AcceptRequest(k, now)
      PROVE  ~ Involves(i, request[k].from) /\ ~ Involves(i, request[k].to)
    BY <1>1, <1>3, AcceptMakesPair
<1>4. CASE LeftOrClosed(request[i], request'[i])
    <2>1. request'[i] = request[i] /\ Pending(i)
        BY <1>1, <1>4, ClosedRowFacts DEF Pending
    <2>2. QED
        BY <1>2, <1>3, <2>1, AcceptableStep
<1>5. CASE ~ LeftOrClosed(request[i], request'[i])
    <2>1. ~ Closes
        BY <1>5 DEF Closes
    <2>2. PICK a \in Accounts, b \in Accounts, now \in TxTimes : CreateRequest(a, b, now)
        BY <1>2, <1>5, <2>1, CreatingSteps
    <2>3. Adds(a, b, now) /\ i = NextId
        BY <1>5, <2>2, CreateAdds DEF Adds
    <2>4. /\ request'[i].from = a /\ request'[i].to = b
          /\ Available(a, now) /\ Available(b, now) /\ ~ BlockedEitherWay(a, b)
        BY <2>3 DEF Adds, PairAllowed
    <2>5. UNCHANGED <<clock, status, partner, eligibleAt, blocks>>
        BY <2>2 DEF CreateRequest, neighbours
    <2>6. eligibleAt[a] \in Nat /\ eligibleAt[b] \in Nat /\ now \in Nat /\ now <= clock /\ clock \in Nat
        BY TxTimesType DEF TypeOK
    <2>7. QED
        BY <2>4, <2>5, <2>6 DEF Available, BlockedEitherWay
<1>6. QED
    BY <1>4, <1>5

\* A pending request could be accepted, and stays so until it is answered,
\* expires or is invalidated: formation, deletion and blocks leave no pending
\* request of those they touch.
THEOREM PendingCanBeAccepted == Spec => []PendingAcceptable
<1>1. Init => PendingAcceptable /\ PartnersMutual
    BY DEF Init, PendingAcceptable, Pending, NoRequest, PartnersMutual
<1>2. TypeOK /\ PendingAcceptable /\ PartnersMutual /\ [Next]_vars
          => PendingAcceptable' /\ PartnersMutual'
    BY PendingAcceptableStep, MutualStep, RequestBoundsAssumption
<1>3. QED
    BY <1>1, <1>2, TypeCorrect, PTL DEF Spec

-----------------------------------------------------------------------------
(* The limit of a month.                                                     *)

\* A set of request numbers has a last one.
LEMMA LastRequest ==
    ASSUME NEW sent \in SUBSET Ids, sent # {}, MaxRequests \in Nat
    PROVE  \E k \in sent : \A i \in sent : i <= k
<1> DEFINE less == OpToRel(<, Nat)
           rest == {MaxRequests - i : i \in sent}
<1>1. \A i \in sent : i \in Int /\ MaxRequests - i \in Nat
    BY DEF Ids
<1>2. rest \subseteq Nat /\ rest # {}
    BY <1>1
<1>3. \A x, y \in Nat : <<x, y>> \in less <=> x < y
    BY DEF OpToRel
<1>4. IsWellFoundedOn(less, Nat)
    BY NatLessThanWellFounded, Zenon
<1> HIDE DEF less
<1>5. PICK m \in rest : \A y \in rest : ~ (<<y, m>> \in less)
    BY <1>2, <1>4, WFMin
<1>6. PICK k \in sent : m = MaxRequests - k
    BY <1>5
<1>7. ASSUME NEW i \in sent PROVE i <= k
    <2>1. MaxRequests - i \in rest /\ MaxRequests - i \in Nat /\ MaxRequests - k \in Nat
        BY <1>1
    <2>2. ~ (MaxRequests - i < MaxRequests - k)
        BY <1>3, <1>5, <1>6, <2>1
    <2>3. QED
        BY <1>1, <2>2
<1>8. QED
    BY <1>7

\* The requests in the same direction that were counted when k was inserted.
Counted(k) ==
    {i \in Ids : /\ i < k /\ Directed(i, request[k].from, request[k].to)
                 /\ request[k].createdAt - RollingMonth < request[i].createdAt
                 /\ request[i].createdAt <= request[k].createdAt}

\* Every request was inserted below the limit.
InsertedBelowLimit ==
    \A k \in Ids : request[k].status # "absent" => Cardinality(Counted(k)) < MonthlyLimit

LEMMA CountedSame ==
    ASSUME NEW k \in Ids,
           \A i \in Ids : i <= k =>
               /\ request'[i].from = request[i].from /\ request'[i].to = request[i].to
               /\ request'[i].createdAt = request[i].createdAt
    PROVE  Counted(k)' = Counted(k)
BY DEF Counted, Directed, Ids

LEMMA CountedFinite ==
    ASSUME MaxRequests \in Nat, NEW counted \in SUBSET Ids
    PROVE  /\ IsFiniteSet(counted) /\ Cardinality(counted) \in Nat
           /\ \A part \in SUBSET counted : Cardinality(part) <= Cardinality(counted)
<1>1. IsFiniteSet(Ids)
    BY FS_Interval DEF Ids
<1>2. IsFiniteSet(counted)
    BY <1>1, FS_Subset
<1>3. QED
    BY <1>2, FS_Subset, FS_CardinalityType

LEMMA BelowLimitStep ==
    ASSUME TypeOK, MaxLag \in Nat, MaxRequests \in Nat, [Next]_vars, Contiguous, InsertedBelowLimit
    PROVE  InsertedBelowLimit'
<1>1. SUFFICES ASSUME NEW k \in Ids, request'[k].status # "absent"
               PROVE  Cardinality(Counted(k)') < MonthlyLimit
    BY DEF InsertedBelowLimit
<1>2. CASE Closes
    <2>1. \A i \in Ids : LeftOrClosed(request[i], request'[i])
        BY <1>2 DEF Closes
    <2>2. Counted(k)' = Counted(k) /\ request[k].status # "absent"
        BY <1>1, <2>1, ClosedRowFacts, CountedSame
    <2>3. QED
        BY <2>2 DEF InsertedBelowLimit
<1>3. CASE \E a, b \in Accounts, now \in TxTimes : Adds(a, b, now)
    <2>1. PICK a \in Accounts, b \in Accounts, now \in TxTimes : Adds(a, b, now)
        BY <1>3
    <2>2. \A i \in Ids \ {NextId} : LeftOrClosed(request[i], request'[i])
        BY <2>1 DEF Adds
    <2>3. PICK n \in 0 .. MaxRequests :
              NextId = n + 1 /\ \A i \in Ids : request[i].status = "absent" <=> n < i
        BY NextIdIsFree
    <2>4. CASE k # NextId
        <3>1. request[k].status # "absent"
            BY <1>1, <2>2, <2>4, ClosedRowFacts
        <3>2. k < NextId
            BY <2>3, <3>1 DEF Ids
        <3>3. \A i \in Ids : i <= k => i # NextId
            BY <2>3, <3>2 DEF Ids
        <3>4. Counted(k)' = Counted(k)
            BY <2>2, <3>3, ClosedRowFacts, CountedSame
        <3>5. QED
            BY <3>1, <3>4 DEF InsertedBelowLimit
    <2>5. CASE k = NextId
        <3>1. /\ request'[k].from = a /\ request'[k].to = b /\ request'[k].createdAt = now
              /\ Cardinality(CreatedSince(a, b, now - RollingMonth, now)) < MonthlyLimit
            BY <2>1, <2>5 DEF Adds, PairAllowed
        <3>2. ASSUME NEW i \in Ids, i < k
              PROVE  /\ request'[i].from = request[i].from /\ request'[i].to = request[i].to
                     /\ request'[i].createdAt = request[i].createdAt
            <4>1. i # NextId
                BY <2>5, <3>2 DEF Ids
            <4>2. QED
                BY <2>2, <3>2, <4>1, ClosedRowFacts
        <3>3. Counted(k)' \subseteq CreatedSince(a, b, now - RollingMonth, now)
            BY <3>1, <3>2 DEF Counted, CreatedSince, Directed
        <3>4. CreatedSince(a, b, now - RollingMonth, now) \in SUBSET Ids
            BY DEF CreatedSince
        <3>5. Cardinality(Counted(k)') <= Cardinality(CreatedSince(a, b, now - RollingMonth, now))
            BY <3>3, <3>4, CountedFinite
        <3>6. /\ Cardinality(Counted(k)') \in Nat
              /\ Cardinality(CreatedSince(a, b, now - RollingMonth, now)) \in Nat
            BY <3>3, <3>4, CountedFinite
        <3>7. QED
            BY <3>1, <3>5, <3>6, PeriodsAssumption
    <2>6. QED
        BY <2>4, <2>5
<1>4. QED
    BY <1>2, <1>3, StepKinds

\* Below the limit at each insertion, the last of too many requests is a month
\* younger than one of them.
LEMMA LimitFromInsertions ==
    ASSUME TypeOK, MaxRequests \in Nat, InsertedBelowLimit
    PROVE  MonthlyLimitEnforced
<1>1. SUFFICES ASSUME NEW sent \in ExcessOfRequests,
                      \A i, k \in sent : i < k => request[i].createdAt <= request[k].createdAt
               PROVE  \E i, k \in sent : request[i].createdAt + RollingMonth <= request[k].createdAt
    BY DEF MonthlyLimitEnforced
<1>2. /\ sent \in SUBSET Ids /\ \A i \in sent : request[i].status # "absent"
      /\ Cardinality(sent) > MonthlyLimit /\ SameSenderAndRecipient(sent)
    BY DEF ExcessOfRequests
<1>3. IsFiniteSet(sent) /\ Cardinality(sent) \in Nat
    BY <1>2, CountedFinite
<1>4. sent # {}
    BY <1>2, PeriodsAssumption, FS_EmptySet
<1>5. PICK k \in sent : \A i \in sent : i <= k
    BY <1>2, <1>4, LastRequest
<1>6. Cardinality(sent \ {k}) = Cardinality(sent) - 1
    BY <1>3, FS_RemoveElement
<1>7. ~ (sent \ {k} \subseteq Counted(k))
    <2>1. Cardinality(Counted(k)) < MonthlyLimit /\ Counted(k) \in SUBSET Ids
        BY <1>2 DEF InsertedBelowLimit, Counted
    <2>2. sent \ {k} \subseteq Counted(k) => Cardinality(sent \ {k}) <= Cardinality(Counted(k))
        BY <2>1, CountedFinite
    <2>3. Cardinality(Counted(k)) \in Nat
        BY <2>1, CountedFinite
    <2>4. QED
        BY <1>2, <1>3, <1>6, <2>1, <2>2, <2>3, PeriodsAssumption
<1>8. PICK i \in sent \ {k} : i \notin Counted(k)
    BY <1>7
<1>9. i \in Ids /\ k \in Ids /\ i < k
    BY <1>2, <1>5, <1>8 DEF Ids
<1>10. Directed(i, request[k].from, request[k].to) /\ request[i].createdAt <= request[k].createdAt
    BY <1>1, <1>2, <1>8, <1>9 DEF SameSenderAndRecipient
<1>11. ~ (request[k].createdAt - RollingMonth < request[i].createdAt)
    BY <1>8, <1>9, <1>10 DEF Counted
<1>12. request[i].createdAt \in Nat /\ request[k].createdAt \in Nat
    BY <1>9, RowTypes
<1>13. request[i].createdAt + RollingMonth <= request[k].createdAt
    BY <1>11, <1>12, PeriodsAssumption
<1>14. QED
    BY <1>13

\* However requests are answered, withdrawn or expire meanwhile, more of them in
\* one direction than the limit, stamped in the order of their insertion, span
\* a month.
THEOREM MonthlyLimitHolds == Spec => []MonthlyLimitEnforced
<1>1. Init => Contiguous /\ InsertedBelowLimit
    <2>1. SUFFICES ASSUME Init PROVE Contiguous /\ InsertedBelowLimit
        OBVIOUS
    <2>2. \A i \in Ids : request[i].status = "absent"
        BY <2>1 DEF Init, NoRequest
    <2>3. QED
        BY <2>2, RequestBoundsAssumption DEF Contiguous, Ids, InsertedBelowLimit
<1>2. TypeOK /\ Contiguous /\ InsertedBelowLimit /\ [Next]_vars => Contiguous' /\ InsertedBelowLimit'
    BY ContiguousStep, BelowLimitStep, RequestBoundsAssumption
<1>3. TypeOK /\ InsertedBelowLimit => MonthlyLimitEnforced
    BY LimitFromInsertions, RequestBoundsAssumption
<1>4. QED
    BY <1>1, <1>2, <1>3, TypeCorrect, PTL DEF Spec

=============================================================================
