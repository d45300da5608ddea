----------------------------- MODULE TalkActions -----------------------------
(***************************************************************************)
(* What a member does to a message from the panel: the edit, the deletion  *)
(* and the reaction that go out at once or wait in the queue of the        *)
(* device, the refresh that shows their result, and the pull of changes    *)
(* that goes on meanwhile.                                                 *)
(*                                                                         *)
(* One message of the member; the other devices of the account change it   *)
(* too.  What the server accepts is in Messaging, how the queue is kept in *)
(* OfflineReplay; every await is a step.                                   *)
(***************************************************************************)
EXTENDS Naturals, Sequences

CONSTANTS
    MaxVersions,   \* bound: states the message goes through
    MaxActs,       \* bound: idempotency keys of the panel
    MaxTroubles    \* bound: requests that go wrong

ASSUME TalkAssumption ==
    /\ MaxVersions \in Nat \ {0}
    /\ {MaxActs, MaxTroubles} \subseteq Nat

VARIABLES
    versions,   \* the message on the server, after each of its changes
    talk,       \* what the panel shows and does
    basis,      \* for every key, the state of the message it was pressed on
    waiting,    \* operations queued on the device
    executed,   \* keys the server has executed
    overtaken,  \* an answer read before the last pull was merged after it
    troubles

talkVars == <<versions, talk, basis, waiting, executed, overtaken, troubles>>

Acts == {"edit", "delete", "react", "unreact"}
Elsewhere == 0
State == [by : 0 .. MaxActs, act : Acts \cup {"send"}, version : 1 .. MaxVersions, text : 1 .. MaxVersions,
          deleted : BOOLEAN, reaction : 0 .. MaxVersions]
Operation == [act : Acts, key : 1 .. MaxActs, version : 1 .. MaxVersions]
NoOperation == [act |-> "none", key |-> 0, version |-> 0]
Panel == [shown : 1 .. MaxVersions, cursor : 1 .. MaxVersions,
          step : {"rest", "request", "refresh", "merge"}, doing : Operation \cup {NoOperation},
          read : 0 .. MaxVersions, pull : {"none", "listed", "loaded"}, upto : 0 .. MaxVersions,
          loaded : 0 .. MaxVersions]

TalkTypeOK ==
    /\ versions \in Seq(State) /\ Len(versions) \in 1 .. MaxVersions
    /\ talk \in Panel
    /\ DOMAIN basis \subseteq 1 .. MaxActs /\ \A k \in DOMAIN basis : basis[k] \in DOMAIN versions
    /\ waiting \subseteq Operation /\ executed \subseteq 1 .. MaxActs
    /\ overtaken \in BOOLEAN /\ troubles \in 0 .. MaxTroubles

TalkInit ==
    /\ versions = <<[by |-> Elsewhere, act |-> "send", version |-> 1, text |-> 1, deleted |-> FALSE, reaction |-> 0]>>
    /\ talk = [shown |-> 1, cursor |-> 1, step |-> "rest", doing |-> NoOperation, read |-> 0, pull |-> "none",
               upto |-> 0, loaded |-> 0]
    /\ basis = <<>> /\ waiting = {} /\ executed = {}
    /\ overtaken = FALSE /\ troubles = 0

Now == Len(versions)
Trouble == troubles < MaxTroubles /\ troubles' = troubles + 1
Atrest == talk.step = "rest"
Turns(p) == talk' = p
Settles(p) == [p EXCEPT !.step = "rest", !.doing = NoOperation, !.read = 0]

-----------------------------------------------------------------------------
(* The server.                                                              *)

Changed(op) ==
    LET s == versions[Now]
        t == [s EXCEPT !.by = op.key, !.act = op.act]
    IN  CASE op.act = "edit"    -> [t EXCEPT !.version = @ + 1, !.text = Now + 1]
          [] op.act = "delete"  -> [t EXCEPT !.version = @ + 1, !.deleted = TRUE, !.reaction = 0]
          [] op.act = "react"   -> [t EXCEPT !.reaction = Now + 1]
          [] OTHER              -> [t EXCEPT !.reaction = 0]

\* Mutation: an edit is accepted whatever version it was written on.
Permitted_AnyVersion(op) == ~ versions[Now].deleted

Permitted(op) == ~ versions[Now].deleted /\ (op.act = "edit" => op.version = versions[Now].version)

\* Nothing to take back: the request is completed and announces no change.
Vain(op) == op.act = "unreact" /\ versions[Now].reaction = 0

Honoured(op) == op.key \in executed \/ Permitted(op)

\* A repeated key gets its first answer.
Honours(op) ==
    /\ executed' = executed \cup {op.key}
    /\ IF op.key \in executed \/ Vain(op) THEN UNCHANGED versions
       ELSE Now < MaxVersions /\ versions' = Append(versions, Changed(op))

-----------------------------------------------------------------------------
(* The member.                                                              *)

\* Every press has a key of its own.
Press(act) ==
    LET op == [act |-> act, key |-> Len(basis) + 1, version |-> versions[talk.shown].version]
    IN  /\ Atrest /\ ~ versions[talk.shown].deleted /\ Len(basis) < MaxActs
        /\ act = "unreact" => versions[talk.shown].reaction # 0
        /\ basis' = Append(basis, talk.shown)
        /\ \/ Turns([talk EXCEPT !.step = "request", !.doing = op]) /\ UNCHANGED <<waiting, troubles>>
           \/ Trouble /\ waiting' = waiting \cup {op} /\ UNCHANGED talk     \* offline
        /\ UNCHANGED <<versions, executed, overtaken>>

Answered ==
    /\ talk.step = "request" /\ Honoured(talk.doing)
    /\ Honours(talk.doing)
    /\ Turns([talk EXCEPT !.step = "refresh"])
    /\ UNCHANGED <<basis, waiting, overtaken, troubles>>

\* A refusal of an edit or a deletion shows the message as it is now.
TurnedDown ==
    /\ talk.step = "request" /\ ~ Honoured(talk.doing)
    /\ Turns(IF talk.doing.act \in {"edit", "delete"} THEN [talk EXCEPT !.step = "refresh"] ELSE Settles(talk))
    /\ UNCHANGED <<versions, basis, waiting, executed, overtaken, troubles>>

\* The network gives way, before or after the request is executed: it is queued.
RequestLost ==
    /\ talk.step = "request" /\ Trouble
    /\ \/ Honoured(talk.doing) /\ Honours(talk.doing)
       \/ UNCHANGED <<versions, executed>>
    /\ waiting' = waiting \cup {talk.doing}
    /\ Turns(Settles(talk))
    /\ UNCHANGED <<basis, overtaken>>

\* An error is shown, for the request or for the refresh after it; whatever was executed
\* stays executed.
RequestFails ==
    /\ talk.step = "request" /\ Trouble
    /\ \/ Honoured(talk.doing) /\ Honours(talk.doing)
       \/ UNCHANGED <<versions, executed>>
    /\ Turns(Settles(talk))
    /\ UNCHANGED <<basis, waiting, overtaken>>

ReadMessage ==
    /\ talk.step = "refresh"
    /\ Turns([talk EXCEPT !.step = "merge", !.read = Now])
    /\ UNCHANGED <<versions, basis, waiting, executed, overtaken, troubles>>

\* mergeMessages: the answer replaces what is shown, whatever was merged meanwhile.
MergeMessage ==
    /\ talk.step = "merge"
    /\ Turns(Settles([talk EXCEPT !.shown = talk.read]))
    /\ overtaken' = (overtaken \/ talk.read < talk.cursor)
    /\ UNCHANGED <<versions, basis, waiting, executed, troubles>>

\* The replay executes the operation, or the server refuses it for good.
ReplayOperation(op) ==
    /\ op \in waiting
    /\ waiting' = waiting \ {op}
    /\ IF Honoured(op) THEN Honours(op) ELSE UNCHANGED <<versions, executed>>
    /\ UNCHANGED <<talk, basis, overtaken, troubles>>

-----------------------------------------------------------------------------
(* The pull, and what happens elsewhere.                                    *)

ListChanges ==
    /\ talk.pull = "none" /\ Now > talk.cursor
    /\ Turns([talk EXCEPT !.pull = "listed", !.upto = Now])
    /\ UNCHANGED <<versions, basis, waiting, executed, overtaken, troubles>>

LoadCanonical ==
    /\ talk.pull = "listed"
    /\ Turns([talk EXCEPT !.pull = "loaded", !.loaded = Now])
    /\ UNCHANGED <<versions, basis, waiting, executed, overtaken, troubles>>

\* The changes are committed and shown.
CommitPull ==
    /\ talk.pull = "loaded"
    /\ Turns([talk EXCEPT !.pull = "none", !.upto = 0, !.loaded = 0, !.shown = talk.loaded, !.cursor = talk.upto])
    /\ overtaken' = FALSE
    /\ UNCHANGED <<versions, basis, waiting, executed, troubles>>

ChangedElsewhere(act) ==
    LET op == [act |-> act, key |-> Elsewhere, version |-> versions[Now].version]
    IN  /\ Now < MaxVersions /\ Permitted(op) /\ ~ Vain(op)
        /\ versions' = Append(versions, Changed(op))
        /\ UNCHANGED <<talk, basis, waiting, executed, overtaken, troubles>>

TalkNext ==
    \/ \E act \in Acts : Press(act) \/ ChangedElsewhere(act)
    \/ Answered \/ TurnedDown \/ RequestLost \/ RequestFails \/ ReadMessage \/ MergeMessage
    \/ \E op \in waiting : ReplayOperation(op)
    \/ ListChanges \/ LoadCanonical \/ CommitPull

TalkSpec == TalkInit /\ [][TalkNext]_talkVars

-----------------------------------------------------------------------------
(* Properties.                                                              *)

\* However late an operation of the panel arrives (editMessage, deleteMessage, react and
\* their replay): none changes the message twice; an edit replaces exactly the text its
\* member was looking at; nothing follows a deletion.  A panel that has pulled every change
\* shows the message as it is, unless an answer read before was merged after.
TalkAccounted ==
    /\ \A i, j \in DOMAIN versions :
           i < j => ~ versions[i].deleted /\ (versions[j].by = Elsewhere \/ versions[i].by # versions[j].by)
    /\ \A i \in DOMAIN versions :
           (versions[i].act = "edit" /\ versions[i].by # Elsewhere)
               => versions[basis[versions[i].by]].text = versions[i - 1].text
    /\ (Atrest /\ talk.pull = "none" /\ talk.cursor = Now /\ ~ overtaken) => talk.shown = Now

=============================================================================
