------------------------------- MODULE Calls --------------------------------
(***************************************************************************)
(* The calls of one partnership: the service's mutations, the scheduled    *)
(* timeouts, and everything that ends a call from outside (logout, device  *)
(* revocation, account deletion, dissolution).                             *)
(*                                                                         *)
(* A request is authenticated before its transaction begins: it is issued  *)
(* with the version its client has seen and served later, if at all.  A    *)
(* transaction holds the locks of the accounts, the lifecycle and the      *)
(* call, and is one step.  A device has one session.  Audit events, the    *)
(* call's kind, TURN credentials and the pushes that go with a notice are  *)
(* left out, and so is the replay of a completed request, which changes    *)
(* nothing.                                                                *)
(***************************************************************************)
EXTENDS Integers, FiniteSets

CONSTANTS
    Alice, Bob,      \* the sessions of the two members
    NoSession,
    MaxCalls,        \* bound: calls the partnership makes
    MaxRequests      \* bound: requests on their way at once

ASSUME CallsAssumption ==
    /\ Alice \cap Bob = {} /\ NoSession \notin Alice \cup Bob
    /\ MaxCalls \in Nat /\ MaxRequests \in Nat

VARIABLES
    calls,       \* call_sessions rows with their participants
    timeouts,    \* pending scheduled actions of the calls
    notices,     \* c1.call.changed events
    requests,    \* authenticated requests that have not been served
    revoked,     \* sessions that are revoked
    policy,      \* what evaluateStartCall finds: "open", "deleting", "dissolved"
    outlived     \* sessions whose revocation a live call has outlived

callVars == <<calls, timeouts, notices, requests, revoked, policy, outlived>>

Sessions == Alice \cup Bob
CallIds  == 1 .. MaxCalls
Roles    == {"caller", "callee"}
Phases   == {"ringing", "accepted", "connected"}
Ends     == {"reject", "cancel", "end"}
Versions == 1 .. 4

CallRow == [status : Phases \cup {"none", "ended"}, caller : {Alice, Bob},
            version : 0 .. 4, generation : 0 .. 4,
            endpoint : [Roles -> Sessions \cup {NoSession}], up : SUBSET Roles]

CallsTypeOK ==
    /\ calls \in [CallIds -> CallRow]
    /\ timeouts \subseteq [call : CallIds, state : Phases, generation : Versions]
    /\ notices \subseteq [call : CallIds, version : Versions]
    /\ requests \subseteq [op : Ends \cup {"create", "accept", "connected"}, by : Sessions,
                           call : CallIds, version : 0 .. 4]
    /\ revoked \subseteq Sessions /\ outlived \subseteq Sessions
    /\ policy \in {"open", "deleting", "dissolved"}

CallsInit ==
    /\ calls = [c \in CallIds |-> [status |-> "none", caller |-> Alice, version |-> 0, generation |-> 0,
                                   endpoint |-> [r \in Roles |-> NoSession], up |-> {}]]
    /\ timeouts = {} /\ notices = {} /\ requests = {} /\ revoked = {} /\ outlived = {}
    /\ policy = "open"

AccountOf(s) == IF s \in Alice THEN Alice ELSE Bob
RoleIn(s, c) == IF AccountOf(s) = calls[c].caller THEN "caller" ELSE "callee"

-----------------------------------------------------------------------------
(* The repository: what a statement makes of the rows.                      *)

LoadCurrentCall == {c \in CallIds : calls[c].status \in Phases}

InsertCallSession(c, s) ==
    [calls EXCEPT ![c] = [status |-> "ringing", caller |-> AccountOf(s), version |-> 1, generation |-> 1,
                          endpoint |-> [r \in Roles |-> IF r = "caller" THEN s ELSE NoSession], up |-> {}]]

FreshCall == {c \in CallIds : calls[c].status = "none" /\ \A d \in 1 .. c - 1 : calls[d].status # "none"}

Moves(row, status) == [row EXCEPT !.status = status, !.version = @ + 1, !.generation = @ + 1]

AcceptCall(c, s) ==
    [calls EXCEPT ![c] = [Moves(@, "accepted") EXCEPT !.endpoint["callee"] = s]]

TerminalizeCall(c) == [calls EXCEPT ![c] = Moves(@, "ended")]

\* Both endpoints have to be up for the call to be connected.
RecordEndpointConnected(c, role) ==
    LET marked == [calls[c] EXCEPT !.up = @ \cup {role}]
    IN  [calls EXCEPT ![c] = IF marked.status = "accepted" /\ marked.up = Roles
                             THEN Moves(marked, "connected") ELSE marked]

TimeoutApplies(t) == calls[t.call].status = t.state /\ calls[t.call].generation = t.generation

TerminalizeCalls(C) == [c \in CallIds |-> IF c \in C THEN Moves(calls[c], "ended") ELSE calls[c]]

\* Mutation: only a connected call is ended.
CallsByEndpointSession_Connected(s) ==
    {c \in LoadCurrentCall : calls[c].status = "connected" /\ \E r \in Roles : calls[c].endpoint[r] = s}

CallsByEndpointSession(s) == {c \in LoadCurrentCall : \E r \in Roles : calls[c].endpoint[r] = s}

CallsByEndpointDevice(s) == {c \in LoadCurrentCall : \E r \in Roles : calls[c].endpoint[r] = s}

CurrentCallForPartnership == LoadCurrentCall

-----------------------------------------------------------------------------
(* Requests.                                                                *)

ScheduleDeadline(c) ==
    timeouts' = timeouts \cup {[call |-> c, state |-> calls'[c].status, generation |-> calls'[c].generation]}

QueueChanged(C) == notices' = notices \cup {[call |-> c, version |-> calls'[c].version] : c \in C}

Rings(s, c, role) == calls[c].status = "ringing" /\ RoleIn(s, c) = role
HoldsEndpoint(s, c) ==
    calls[c].status \in {"accepted", "connected"} /\ calls[c].endpoint[RoleIn(s, c)] = s

Permits(op, s, c) ==
    CASE op = "create" -> policy = "open" /\ LoadCurrentCall = {} /\ c \in FreshCall
      [] op = "accept" -> policy = "open" /\ Rings(s, c, "callee")
      [] op = "reject" -> Rings(s, c, "callee")
      [] op = "cancel" -> Rings(s, c, "caller")
      [] OTHER         -> HoldsEndpoint(s, c)

\* A client asks for what the call it sees permits; the call may be over when it is served.
Issue(op, s, c) ==
    /\ s \notin revoked /\ Cardinality(requests) < MaxRequests
    /\ Permits(op, s, c)
    /\ requests' = requests \cup {[op |-> op, by |-> s, call |-> c,
                                   version |-> IF op \in Ends \cup {"accept"} THEN calls[c].version ELSE 0]}
    /\ UNCHANGED <<calls, timeouts, notices, revoked, policy, outlived>>

\* The request or its connection is lost, or it is refused.
Abandon(q) ==
    /\ q \in requests /\ requests' = requests \ {q}
    /\ UNCHANGED <<calls, timeouts, notices, revoked, policy, outlived>>

\* The transaction does not read the session again: the call may have an endpoint that was
\* revoked after the request was authenticated.
Serve(q, op) ==
    /\ q \in requests /\ q.op = op /\ Permits(op, q.by, q.call)
    /\ requests' = requests \ {q}
    /\ outlived' = IF q.by \in revoked THEN outlived \cup {q.by} ELSE outlived
    /\ UNCHANGED <<revoked, policy>>

Create(q) ==
    /\ Serve(q, "create")
    /\ calls' = InsertCallSession(q.call, q.by)
    /\ ScheduleDeadline(q.call) /\ QueueChanged({q.call})

Accept(q) ==
    /\ Serve(q, "accept") /\ calls[q.call].version = q.version
    /\ calls' = AcceptCall(q.call, q.by)
    /\ ScheduleDeadline(q.call) /\ QueueChanged({q.call})

TerminalMutation(q, action) ==
    /\ Serve(q, action) /\ calls[q.call].version = q.version
    /\ calls' = TerminalizeCall(q.call)
    /\ QueueChanged({q.call})
    /\ UNCHANGED timeouts

Reject(q) == TerminalMutation(q, "reject")
Cancel(q) == TerminalMutation(q, "cancel")
End(q)    == TerminalMutation(q, "end")
\* A failure ends the call like its end, for another reason.
Fail(q)   == TerminalMutation(q, "end")

EndpointConnected(q) ==
    /\ Serve(q, "connected")
    /\ calls' = RecordEndpointConnected(q.call, RoleIn(q.by, q.call))
    /\ IF calls'[q.call].status # calls[q.call].status
       THEN ScheduleDeadline(q.call) /\ QueueChanged({q.call})
       ELSE UNCHANGED <<timeouts, notices>>

-----------------------------------------------------------------------------
(* What ends a call from outside.                                           *)

Terminalize(C) == calls' = TerminalizeCalls(C) /\ QueueChanged(C) /\ UNCHANGED <<timeouts, requests>>

Logout(s) ==
    /\ s \notin revoked /\ revoked' = revoked \cup {s}
    /\ Terminalize(CallsByEndpointSession(s))
    /\ UNCHANGED <<policy, outlived>>

RevokeDevice(s) ==
    /\ s \notin revoked /\ revoked' = revoked \cup {s}
    /\ Terminalize(CallsByEndpointDevice(s))
    /\ UNCHANGED <<policy, outlived>>

\* completePasswordRecovery revokes every session of the account and completeEmailChange
\* all but its own; neither looks at the calls.
RevokeOthers(account, own) ==
    /\ (account \ own) \ revoked # {}
    /\ revoked' = revoked \cup (account \ own)
    /\ outlived' = outlived \cup {s \in account \ own : CallsByEndpointSession(s) # {}}
    /\ UNCHANGED <<calls, timeouts, notices, requests, policy>>

CompletePasswordRecovery(account) == policy # "deleting" /\ RevokeOthers(account, {})
CompleteEmailChange(account) == \E s \in account \ revoked : RevokeOthers(account, {s})

RequestDeletion(account) ==
    /\ policy = "open" /\ policy' = "deleting" /\ account \ revoked # {}
    /\ revoked' = revoked \cup account
    /\ Terminalize(CurrentCallForPartnership)
    /\ UNCHANGED outlived

Recover ==
    /\ policy = "deleting" /\ policy' = "open"
    /\ UNCHANGED <<calls, timeouts, notices, requests, revoked, outlived>>

DissolvePartnership ==
    /\ policy # "dissolved" /\ policy' = "dissolved"
    /\ Terminalize(CurrentCallForPartnership)
    /\ UNCHANGED <<revoked, outlived>>

\* The deadline has passed when its action is claimed.
TimeOut(t) ==
    /\ t \in timeouts /\ timeouts' = timeouts \ {t}
    /\ LET C == IF TimeoutApplies(t) THEN {t.call} ELSE {} IN calls' = TerminalizeCalls(C) /\ QueueChanged(C)
    /\ UNCHANGED <<requests, revoked, policy, outlived>>

-----------------------------------------------------------------------------

CallsNext ==
    \/ \E op \in Ends \cup {"create", "accept", "connected"}, s \in Sessions, c \in CallIds :
           Issue(op, s, c)
    \/ \E q \in requests : Abandon(q) \/ Create(q) \/ Accept(q) \/ Reject(q) \/ Cancel(q)
                           \/ End(q) \/ Fail(q) \/ EndpointConnected(q)
    \/ \E s \in Sessions : Logout(s) \/ RevokeDevice(s)
    \/ \E a \in {Alice, Bob} : CompletePasswordRecovery(a) \/ CompleteEmailChange(a) \/ RequestDeletion(a)
    \/ Recover \/ DissolvePartnership
    \/ \E t \in timeouts : TimeOut(t)

CallsSpec == CallsInit /\ [][CallsNext]_callVars

-----------------------------------------------------------------------------
(* Properties.                                                              *)

\* A call is not left behind (CallingService, createC1CallTimeoutHandlers): none is under way
\* while the policy forbids it; whatever its phase, an action of that phase and of the current
\* generation is scheduled to end it (one whose attempts run out ends nothing, which is
\* ScheduledActions' concern); every version it has had was announced; and its endpoints hold
\* their sessions, unless the revocation overtook the endpoint's request or is one that ends
\* no calls: such a call lingers under a session that is gone until its timeout.
CallsAccounted ==
    /\ policy # "open" => LoadCurrentCall = {}
    /\ \A c \in CallIds :
           /\ \A v \in 1 .. calls[c].version : [call |-> c, version |-> v] \in notices
           /\ calls[c].status \in Phases =>
                  /\ [call |-> c, state |-> calls[c].status, generation |-> calls[c].generation] \in timeouts
                  /\ \A r \in Roles : calls[c].endpoint[r] \in revoked => calls[c].endpoint[r] \in outlived
           /\ calls[c].status = "connected" => calls[c].up = Roles

=============================================================================
