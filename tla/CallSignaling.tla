--------------------------- MODULE CallSignaling ----------------------------
(***************************************************************************)
(* The signalling of one call in an API process: the connections of its    *)
(* two endpoints, the frames between them, and the backlog of those whose  *)
(* receiver is not connected.                                              *)
(*                                                                         *)
(* The process runs one callback at a time and awaits the database between *)
(* them: authority is read when a connection is authorized, when a frame   *)
(* arrives and every 30 s, and used later.  The protocol follows from the  *)
(* call's kind and is the same at both ends.  A frame is its number on its *)
(* sender's connection; the limits of rate, size and buffering, and what a *)
(* frame says, are the choice of Misbehave.                                *)
(***************************************************************************)
EXTENDS Integers, Sequences

CONSTANTS
    MaxOpens,       \* bound: connections of an endpoint
    MaxFrames,      \* bound: frames on a connection of the caller
    MaxReplies,     \* bound: frames on a connection of the callee
    MaxBacklog      \* pending.length >= 128

ASSUME SignalingAssumption == MaxOpens \in Nat /\ {MaxFrames, MaxReplies, MaxBacklog} \subseteq Nat

VARIABLES
    authority,    \* endpoints the database authorizes
    admitted,     \* upgrades that were authorized and not yet accepted
    connection,   \* #connections: the generation of the endpoint's connection, 0 for none
    latest,       \* #generations
    awaiting,     \* frames that wait for #revalidate
    verdict,      \* what a pending #revalidate has read
    sent,         \* frames sent on the current connection
    pending,      \* #pendingByCall
    received      \* frames that have reached the current connection

signalVars == <<authority, admitted, connection, latest, awaiting, verdict, sent, pending, received>>

Endpoints == {"caller", "callee"}
Peer(e) == IF e = "caller" THEN "callee" ELSE "caller"
Frame == [from : Endpoints, generation : 1 .. MaxOpens, number : 1 .. MaxFrames + MaxReplies]

SignalingTypeOK ==
    /\ authority \subseteq Endpoints /\ admitted \subseteq Endpoints
    /\ connection \in [Endpoints -> 0 .. MaxOpens] /\ latest \in [Endpoints -> 0 .. MaxOpens]
    /\ verdict \in [Endpoints -> {"none", "reading", "granted", "refused"}]
    /\ sent \in [Endpoints -> 0 .. MaxFrames + MaxReplies]
    /\ pending \in Seq(Frame) /\ Len(pending) <= MaxBacklog
    /\ \A e \in Endpoints : awaiting[e] \in Seq(Frame) /\ received[e] \in Seq(Frame)

SignalingInit ==
    /\ authority = Endpoints /\ admitted = {} /\ pending = <<>>
    /\ connection = [e \in Endpoints |-> 0] /\ latest = [e \in Endpoints |-> 0]
    /\ awaiting = [e \in Endpoints |-> <<>>] /\ received = [e \in Endpoints |-> <<>>]
    /\ verdict = [e \in Endpoints |-> "none"] /\ sent = [e \in Endpoints |-> 0]

\* Array.filter, as a function, which a proof can unfold.
Filtered(s, keep) ==
    LET kept[n \in 0 .. Len(s)] ==
            IF n = 0 THEN <<>>
            ELSE IF s[n] \in keep THEN Append(kept[n - 1], s[n]) ELSE kept[n - 1]
    IN  kept[Len(s)]

FramesOf(e, s) == Filtered(s, {f \in Frame : f.from = e})

\* The call ends, or a member, a device or a session loses the right to it.
LoseAuthority ==
    /\ \E e \in authority : authority' = authority \ {e}
    /\ UNCHANGED <<admitted, connection, latest, awaiting, verdict, sent, pending, received>>

-----------------------------------------------------------------------------
(* Connections.                                                             *)

\* The socket of e is gone: its frames leave the backlog and nothing awaits for it.
Removed(e) ==
    /\ awaiting' = [awaiting EXCEPT ![e] = <<>>]
    /\ verdict' = [verdict EXCEPT ![e] = "none"]
    /\ received' = [received EXCEPT ![e] = <<>>]
    /\ sent' = [sent EXCEPT ![e] = 0]
    /\ connection' = [connection EXCEPT ![e] = 0]
    /\ pending' = IF connection[Peer(e)] = 0 THEN <<>> ELSE FramesOf(Peer(e), pending)
    /\ UNCHANGED latest

Admit(e) ==
    /\ e \in authority /\ admitted' = admitted \cup {e}
    /\ UNCHANGED <<authority, connection, latest, awaiting, verdict, sent, pending, received>>

FlushPending(e) ==
    Filtered(FramesOf(Peer(e), pending), {f \in Frame : f.generation = connection[Peer(e)]})

\* A second connection of the endpoint supersedes the first.
AcceptSocket(e) ==
    /\ e \in admitted /\ latest[e] < MaxOpens
    /\ admitted' = admitted \ {e}
    /\ latest' = [latest EXCEPT ![e] = @ + 1]
    /\ connection' = [connection EXCEPT ![e] = latest[e] + 1]
    /\ received' = [received EXCEPT ![e] = FlushPending(e)]
    /\ pending' = <<>>
    /\ awaiting' = [awaiting EXCEPT ![e] = <<>>]
    /\ verdict' = [verdict EXCEPT ![e] = "none"]
    /\ sent' = [sent EXCEPT ![e] = 0]
    /\ UNCHANGED authority

CloseEndpoint(e) == connection[e] # 0 /\ Removed(e) /\ UNCHANGED <<authority, admitted>>

\* A frame that is malformed, too large or one too many closes its connection.
Misbehave(e) == CloseEndpoint(e)

ShutDown ==
    /\ connection' = [e \in Endpoints |-> 0] /\ pending' = <<>> /\ admitted' = {}
    /\ awaiting' = [e \in Endpoints |-> <<>>] /\ received' = [e \in Endpoints |-> <<>>]
    /\ verdict' = [e \in Endpoints |-> "none"] /\ sent' = [e \in Endpoints |-> 0]
    /\ UNCHANGED <<authority, latest>>

-----------------------------------------------------------------------------
(* Frames.                                                                  *)

\* The frames that arrive while the database is asked share the answer.
OnMessage(e) ==
    /\ connection[e] # 0 /\ sent[e] < IF e = "caller" THEN MaxFrames ELSE MaxReplies
    /\ sent' = [sent EXCEPT ![e] = @ + 1]
    /\ awaiting' = [awaiting EXCEPT ![e] =
                        Append(@, [from |-> e, generation |-> connection[e], number |-> sent[e] + 1])]
    /\ verdict' = [verdict EXCEPT ![e] = IF @ = "none" THEN "reading" ELSE @]
    /\ UNCHANGED <<authority, admitted, connection, latest, pending, received>>

\* The maintenance timer revalidates without a frame.
Revalidate(e) ==
    /\ connection[e] # 0 /\ verdict[e] = "none"
    /\ verdict' = [verdict EXCEPT ![e] = "reading"]
    /\ UNCHANGED <<authority, admitted, connection, latest, awaiting, sent, pending, received>>

ReadAuthority(e) ==
    /\ verdict[e] = "reading"
    /\ verdict' = [verdict EXCEPT ![e] = IF e \in authority THEN "granted" ELSE "refused"]
    /\ UNCHANGED <<authority, admitted, connection, latest, awaiting, sent, pending, received>>

\* What has awaited is forwarded, or joins the backlog while the peer is not connected.
Forward(e) ==
    /\ verdict[e] = "granted"
    /\ verdict' = [verdict EXCEPT ![e] = "none"]
    /\ awaiting' = [awaiting EXCEPT ![e] = <<>>]
    /\ IF connection[Peer(e)] # 0
       THEN received' = [received EXCEPT ![Peer(e)] = @ \o awaiting[e]] /\ UNCHANGED pending
       ELSE Len(pending \o awaiting[e]) <= MaxBacklog /\ pending' = pending \o awaiting[e] /\ UNCHANGED received
    /\ UNCHANGED <<authority, admitted, connection, latest, sent>>

Refuse(e) ==
    /\ \/ verdict[e] = "refused"
       \/ verdict[e] = "granted" /\ connection[Peer(e)] = 0 /\ Len(pending \o awaiting[e]) > MaxBacklog
    /\ CloseEndpoint(e)

-----------------------------------------------------------------------------

SignalingNext ==
    \/ LoseAuthority \/ ShutDown
    \/ \E e \in Endpoints : Admit(e) \/ AcceptSocket(e) \/ CloseEndpoint(e) \/ Misbehave(e) \/ OnMessage(e)
                            \/ Revalidate(e) \/ ReadAuthority(e) \/ Forward(e) \/ Refuse(e)

SignalingSpec == SignalingInit /\ [][SignalingNext]_signalVars

-----------------------------------------------------------------------------
(* Properties.                                                              *)

\* An offer, its answer and their candidates arrive whole (CallSignalingHub): what a
\* connection has received of its peer's connection is in order and without a gap, and
\* nothing stays in the backlog that the connected peer should have, or of a connection
\* that is gone.
SignalsInOrder ==
    \A e \in Endpoints :
        /\ \A i \in 1 .. Len(received[e]) - 1 :
               LET f == received[e][i]
                   g == received[e][i + 1]
               IN  f.generation < g.generation \/ (f.generation = g.generation /\ g.number = f.number + 1)
        /\ FramesOf(e, pending) # <<>> => connection[Peer(e)] = 0
        /\ \A i \in 1 .. Len(pending) : pending[i].generation = connection[pending[i].from]

=============================================================================
