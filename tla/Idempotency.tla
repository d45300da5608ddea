----------------------------- MODULE Idempotency -----------------------------
(***************************************************************************)
(* One Idempotency-Key of one account, and the requests that carry it: a   *)
(* client repeats a request it has no answer for, a faulty one sends       *)
(* another request under the same key.                                     *)
(*                                                                         *)
(* Transactions of one scope lock the same accounts or the same            *)
(* partnership and are serial; only a partner request looks for a stored   *)
(* answer before its transaction.                                          *)
(***************************************************************************)
EXTENDS Naturals, Sequences

CONSTANTS
    Payloads,      \* requests sent under the key
    MaxRepeats,   \* bound: requests sent
    MaxAge,        \* bound: periods of retention that pass
    MaxTurns       \* bound: times what the request asks for becomes possible or impossible

ASSUME KeyAssumption == {MaxRepeats, MaxAge, MaxTurns} \subseteq Nat

VARIABLES
    keyScope,   \* the operation the key was made for
    stored,     \* the row of idempotency_records
    attempts,   \* requests, and what they were answered
    effects,    \* executions: of which request, and when
    allowed,    \* the rules of the operation admit it now
    keyAge,     \* periods of retention gone by
    turns

keyVars == <<keyScope, stored, attempts, effects, allowed, keyAge, turns>>

Scopes == {"initiate_breakup", "cancel_breakup", "relationship_item", "partner_request"}
NoRecord == [fingerprint |-> "none", answer |-> 0, until |-> 0]
Denied == 0
Answers == {"awaited", "done", "denied", "reused", "unavailable"}

KeyTypeOK ==
    /\ keyScope \in Scopes
    /\ stored \in [fingerprint : Payloads \cup {"none"}, answer : 0 .. MaxRepeats, until : 0 .. MaxAge + 1]
    /\ attempts \in Seq([payload : Payloads, looked : BOOLEAN, answer : Answers, effect : 0 .. MaxRepeats])
    /\ effects \in Seq([payload : Payloads, at : 0 .. MaxAge])
    /\ allowed \in BOOLEAN /\ keyAge \in 0 .. MaxAge /\ turns \in 0 .. MaxTurns

KeyInit ==
    /\ keyScope \in Scopes /\ stored = NoRecord
    /\ attempts = <<>> /\ effects = <<>>
    /\ allowed \in BOOLEAN /\ keyAge = 0 /\ turns = 0

SendUnder(p) ==
    /\ Len(attempts) < MaxRepeats
    /\ attempts' = Append(attempts, [payload |-> p, looked |-> FALSE, answer |-> "awaited", effect |-> 0])
    /\ UNCHANGED <<keyScope, stored, effects, allowed, keyAge, turns>>

Reply(i, answer, effect) == attempts' = [attempts EXCEPT ![i].answer = answer, ![i].effect = effect]
Unanswered(i) == attempts[i].answer = "awaited"

\* Mutation: the stored fingerprint is not compared.
SameRequest_Any(i) == TRUE

SameRequest(i) == stored.fingerprint = attempts[i].payload

\* A stored answer is given again to the same request, and refused to another.
Replay(i) ==
    IF ~ SameRequest(i) THEN Reply(i, "reused", 0)
    ELSE IF stored.answer = Denied THEN Reply(i, "denied", 0) ELSE Reply(i, "done", stored.answer)

\* findCompletedPartnerRequestIdempotency, outside the transaction.
LookFirst(i) ==
    /\ keyScope = "partner_request" /\ Unanswered(i) /\ ~ attempts[i].looked
    /\ IF stored # NoRecord THEN Replay(i) ELSE attempts' = [attempts EXCEPT ![i].looked = TRUE]
    /\ UNCHANGED <<keyScope, stored, effects, allowed, keyAge, turns>>

\* Only the relationship space lets a record run out.
RecordKept == stored # NoRecord /\ (keyScope = "relationship_item" => stored.until > keyAge)

\* A breakup that was cancelled is not found any more, before its record is looked at.
BreakupClosed == keyScope = "cancel_breakup" /\ effects # <<>>

InTransaction(i) == Unanswered(i) /\ (keyScope = "partner_request" => attempts[i].looked)

Unavailable(i) ==
    /\ InTransaction(i) /\ BreakupClosed
    /\ Reply(i, "unavailable", 0)
    /\ UNCHANGED <<keyScope, stored, effects, allowed, keyAge, turns>>

ReplayStored(i) ==
    /\ InTransaction(i) /\ ~ BreakupClosed /\ RecordKept
    /\ Replay(i)
    /\ UNCHANGED <<keyScope, stored, effects, allowed, keyAge, turns>>

Reserved(i, answer) == [fingerprint |-> attempts[i].payload, answer |-> answer, until |-> keyAge + 1]

ExecuteOnce(i) ==
    /\ InTransaction(i) /\ ~ BreakupClosed /\ ~ RecordKept /\ allowed
    /\ effects' = Append(effects, [payload |-> attempts[i].payload, at |-> keyAge])
    /\ stored' = Reserved(i, Len(effects) + 1)
    /\ Reply(i, "done", Len(effects) + 1)
    /\ UNCHANGED <<keyScope, allowed, keyAge, turns>>

\* A partner request remembers a denial; the others roll back.
DenyUnder(i) ==
    /\ InTransaction(i) /\ ~ BreakupClosed /\ ~ RecordKept /\ ~ allowed
    /\ stored' = IF keyScope = "partner_request" THEN Reserved(i, Denied) ELSE stored
    /\ Reply(i, "denied", 0)
    /\ UNCHANGED <<keyScope, effects, allowed, keyAge, turns>>

RulesTurn ==
    /\ turns < MaxTurns /\ turns' = turns + 1
    /\ allowed' = ~ allowed
    /\ UNCHANGED <<keyScope, stored, attempts, effects, keyAge>>

RetentionPasses ==
    /\ keyAge < MaxAge /\ keyAge' = keyAge + 1
    /\ UNCHANGED <<keyScope, stored, attempts, effects, allowed, turns>>

KeyNext ==
    \/ \E p \in Payloads : SendUnder(p)
    \/ \E i \in DOMAIN attempts :
        LookFirst(i) \/ Unavailable(i) \/ ReplayStored(i) \/ ExecuteOnce(i) \/ DenyUnder(i)
    \/ RulesTurn \/ RetentionPasses

KeySpec == KeyInit /\ [][KeyNext]_keyVars

-----------------------------------------------------------------------------
(* Properties.                                                              *)

\* However often and in whatever order requests under one key arrive (reserveMutation,
\* findCompletedMutation, completeMutation): what it asks for happens once, and again only
\* for an item whose record has run out; an answer is that of the request's own execution,
\* never of another sent under the same key; and two answers to one partner request agree.
KeyAccounted ==
    /\ \A e, f \in DOMAIN effects : e < f => keyScope = "relationship_item" /\ effects[e].at < effects[f].at
    /\ \A i \in DOMAIN attempts :
           attempts[i].answer = "done" => effects[attempts[i].effect].payload = attempts[i].payload
    /\ \A i, j \in DOMAIN attempts :
           LET a == attempts[i] b == attempts[j]
           IN  (keyScope = "partner_request" /\ a.payload = b.payload /\ ~ Unanswered(i) /\ ~ Unanswered(j))
                   => a.answer = b.answer /\ a.effect = b.effect

=============================================================================
