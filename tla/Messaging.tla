------------------------------ MODULE Messaging ------------------------------
(***************************************************************************)
(* The primary conversation of a partnership: messages, reactions,         *)
(* nicknames and receipts, the log of changes the clients follow, and the  *)
(* protected content keys of what is encrypted.                            *)
(*                                                                         *)
(* A mutation locks the accounts, the lifecycle, the conversation and the  *)
(* message, and is one step; the outbox event it queues carries the        *)
(* sequence of its change and is the log's entry.  A request is delivered  *)
(* any number of times: its idempotency key is its number.  The key of a   *)
(* content is named by what it protects, as its unique constraint does,    *)
(* and a reaction's id is its request's.  Attachments are MediaObjects'    *)
(* concern and how a group becomes ready is CryptoGroups'; typing,         *)
(* presence and the reads are left out.                                    *)
(***************************************************************************)
EXTENDS Integers, Sequences

CONSTANTS
    Members,
    Readers,         \* bound: members whose receipts are followed
    Subjects,        \* bound: members who are given a nickname
    NoMember,
    MaxMessages,     \* bound: messages sent
    MaxMutations,    \* bound: requests that change something
    MaxNickname      \* bound: versions of a nickname

ASSUME MessagingAssumption ==
    /\ Readers \subseteq Members /\ Subjects \subseteq Members /\ NoMember \notin Members
    /\ MaxMessages \in Nat /\ MaxMutations \in Nat /\ MaxNickname \in Nat

VARIABLES
    messages,    \* messages rows, by server sequence
    reactions,   \* message_reactions rows, by message and reactor
    nicknames,   \* partnership_chat_nicknames rows, by subject
    keys,        \* protected_content_keys rows
    log,         \* conversation_changes rows, each with its request
    answered,    \* requests whose idempotency record is complete
    receipts,    \* conversation_member_state rows
    phase,       \* the lifecycle: "active", "breakup", "deleting", "terminated"
    freeze,      \* the open breakup, with the last message and change it found
    crypto,      \* "off" until encryption is required, then "ready" or "rekey"
    activating,  \* a statement that requires encryption has its snapshot and waits for the row
    missed       \* what has been written plain since that snapshot

messagingVars == <<messages, reactions, nicknames, keys, log, answered, receipts, phase, freeze, crypto,
                 activating, missed>>

Sequences == 1 .. MaxMessages
Requests  == 1 .. MaxMutations
Forms     == {"none", "plain", "sealed"}
ContentVersions  == 0 .. MaxMutations + 1

Message  == [state : {"absent", "live", "deleted"}, sender : Members \cup {NoMember}, version : ContentVersions,
             last : 0 .. MaxMutations, body : Forms, overdue : BOOLEAN]
Reaction == [form : Forms, id : 0 .. MaxMutations]
Nickname == [form : Forms, version : 1 .. MaxNickname]
Change   == [message : Sequences, version : ContentVersions, by : Requests]
ContentKey ==
         [type : {"message"}, id : Sequences, version : ContentVersions]
    \cup [type : {"message_reaction"}, id : Requests, version : {1}]
    \cup [type : {"partnership_nickname"}, id : Subjects, version : 2 .. MaxNickname]

\* What a member writes: <<"message", m, NoMember>>, <<"reaction", m, a>>, <<"nickname", 0, s>>.
Contents == {"message", "reaction", "nickname"} \X (0 .. MaxMessages) \X (Members \cup {NoMember})

BodyOf(m)     == <<"message", m, NoMember>>
ReactionOf(x) == <<"reaction", x[1], x[2]>>
NicknameOf(s) == <<"nickname", 0, s>>

MessagingTypeOK ==
    /\ messages \in [Sequences -> Message]
    /\ reactions \in [Sequences \X Members -> Reaction]
    /\ nicknames \in [Subjects -> Nickname]
    /\ keys \subseteq ContentKey
    /\ log \in Seq(Change) /\ Len(log) <= MaxMutations
    /\ answered \subseteq Requests
    /\ receipts \in [Readers -> [delivered : 0 .. MaxMessages, read : 0 .. MaxMessages]]
    /\ phase \in {"active", "breakup", "deleting", "terminated"}
    /\ freeze \in [open : BOOLEAN, message : 0 .. MaxMessages, change : 0 .. MaxMutations]
    /\ crypto \in {"off", "ready", "rekey"}
    /\ activating \in BOOLEAN /\ missed \subseteq Contents

NoReaction == [form |-> "none", id |-> 0]
NoBreakup  == [open |-> FALSE, message |-> 0, change |-> 0]

MessagingInit ==
    /\ messages = [m \in Sequences |-> [state |-> "absent", sender |-> NoMember, version |-> 0, last |-> 0,
                                        body |-> "none", overdue |-> FALSE]]
    /\ reactions = [x \in Sequences \X Members |-> NoReaction]
    /\ nicknames = [s \in Subjects |-> [form |-> "none", version |-> 1]]
    /\ keys = {} /\ log = <<>> /\ answered = {}
    /\ receipts = [a \in Readers |-> [delivered |-> 0, read |-> 0]]
    /\ phase = "active" /\ freeze = NoBreakup /\ crypto = "off" /\ activating = FALSE /\ missed = {}

Sent == {m \in Sequences : messages[m].state # "absent"}
LastSequence == IF Sent = {} THEN 0 ELSE CHOOSE m \in Sent : \A n \in Sent : n <= m

-----------------------------------------------------------------------------
(* What a mutation asks first.                                              *)

\* A request that was answered is answered again and changes nothing.
Reserve(k) == k \notin answered

Complete(k) == answered' = answered \cup {k}

\* deny: a deletion of either account makes the partnership view-only.
Writable == phase \in {"active", "breakup"}

\* edit_message, delete_message and react_message, on a message that existed at the breakup.
Mutable(m) ==
    /\ Writable /\ messages[m].state = "live"
    /\ freeze.open => m > freeze.message

\* requireCryptoProtectedWrite wants a group that is ready; CRYPTO_REQUIRED refuses plaintext.
Admits(form) == IF form = "plain" THEN crypto = "off" ELSE crypto = "ready"

\* What a waiting activation does not see: its snapshot is older.
Missed(form, content) == IF activating /\ form = "plain" THEN {content} ELSE {}

MessageKey(m, version) == [type |-> "message", id |-> m, version |-> version]
ReactionKey(k)         == [type |-> "message_reaction", id |-> k, version |-> 1]
NicknameKey(s, version) == [type |-> "partnership_nickname", id |-> s, version |-> version]

KeysOf(form, key)    == IF form = "sealed" THEN {key} ELSE {}

BodyKey(m)        == KeysOf(messages[m].body, MessageKey(m, messages[m].version))
ReactionKeys(x)   == KeysOf(reactions[x].form, ReactionKey(reactions[x].id))
NicknameKeys(s)   == KeysOf(nicknames[s].form, NicknameKey(s, nicknames[s].version))

\* The change, its event and the message's last change.
InsertChange(m, version, k) ==
    log' = Append(log, [message |-> m, version |-> version, by |-> k])

NextChange == Len(log) + 1

-----------------------------------------------------------------------------
(* Messages.                                                                *)

InsertMessage(m, a, form) ==
    messages' = [messages EXCEPT ![m] = [state |-> "live", sender |-> a, version |-> 1, last |-> NextChange,
                                         body |-> form, overdue |-> FALSE]]

\* A reply is a message, to one that exists.
Send(a, form, k) ==
    /\ Reserve(k) /\ Writable /\ Admits(form)
    /\ LastSequence < MaxMessages
    /\ InsertMessage(LastSequence + 1, a, form)
    /\ keys' = keys \cup KeysOf(form, MessageKey(LastSequence + 1, 1))
    /\ InsertChange(LastSequence + 1, 1, k) /\ Complete(k)
    /\ missed' = missed \cup Missed(form, BodyOf(LastSequence + 1))
    /\ UNCHANGED <<reactions, nicknames, receipts, phase, freeze, crypto, activating>>

UpdateMessageBody(m, form) ==
    messages' = [messages EXCEPT ![m].body = form, ![m].version = @ + 1, ![m].last = NextChange]

\* The expected version is the current one, or the edit is refused.
Edit(a, m, form, k) ==
    /\ Reserve(k) /\ Mutable(m) /\ Admits(form)
    /\ messages[m].sender = a /\ ~ messages[m].overdue
    /\ UpdateMessageBody(m, form)
    /\ keys' = (keys \cup KeysOf(form, MessageKey(m, messages[m].version + 1))) \ BodyKey(m)
    /\ InsertChange(m, messages[m].version + 1, k) /\ Complete(k)
    /\ missed' = missed \cup Missed(form, BodyOf(m))
    /\ UNCHANGED <<reactions, nicknames, receipts, phase, freeze, crypto, activating>>

TombstoneMessage(m) ==
    /\ messages' = [messages EXCEPT ![m].state = "deleted", ![m].body = "none",
                                    ![m].version = @ + 1, ![m].last = NextChange]
    /\ reactions' = [x \in Sequences \X Members |-> IF x[1] = m THEN NoReaction ELSE reactions[x]]

\* Mutation: deleting a message forgets the keys of its reactions.
ActiveReactionKeys_None(m) == {}

ActiveReactionKeys(m) == UNION {ReactionKeys(<<m, a>>) : a \in Members}

Delete(a, m, k) ==
    /\ Reserve(k) /\ Mutable(m) /\ messages[m].sender = a
    /\ TombstoneMessage(m)
    /\ keys' = keys \ (BodyKey(m) \cup ActiveReactionKeys(m))
    /\ InsertChange(m, messages[m].version + 1, k) /\ Complete(k)
    /\ UNCHANGED <<nicknames, receipts, phase, freeze, crypto, activating, missed>>

EditWindowCloses(m) ==
    /\ messages[m].state = "live" /\ ~ messages[m].overdue
    /\ messages' = [messages EXCEPT ![m].overdue = TRUE]
    /\ UNCHANGED <<reactions, nicknames, keys, log, answered, receipts, phase, freeze, crypto, activating,
                   missed>>

-----------------------------------------------------------------------------
(* Reactions, nicknames and receipts.                                       *)

\* A plain reaction keeps the id of the row it replaces, a protected one gives it its own.
PutReaction(x, form, k) ==
    reactions' = [reactions EXCEPT ![x] =
        [form |-> form, id |-> IF form = "plain" /\ reactions[x].form # "none" THEN reactions[x].id ELSE k]]

SetReaction(a, m, form, k) ==
    /\ Reserve(k) /\ Mutable(m) /\ Admits(form)
    /\ PutReaction(<<m, a>>, form, k)
    /\ messages' = [messages EXCEPT ![m].last = NextChange]
    /\ keys' = (keys \cup KeysOf(form, ReactionKey(k))) \ ReactionKeys(<<m, a>>)
    /\ InsertChange(m, messages[m].version, k) /\ Complete(k)
    /\ missed' = missed \cup Missed(form, ReactionOf(<<m, a>>))
    /\ UNCHANGED <<nicknames, receipts, phase, freeze, crypto, activating>>

DropReaction(x) == reactions' = [reactions EXCEPT ![x] = NoReaction]

RemoveReaction(a, m, k) ==
    /\ Reserve(k) /\ Mutable(m) /\ reactions[<<m, a>>].form # "none"
    /\ DropReaction(<<m, a>>)
    /\ messages' = [messages EXCEPT ![m].last = NextChange]
    /\ keys' = keys \ ReactionKeys(<<m, a>>)
    /\ InsertChange(m, messages[m].version, k) /\ Complete(k)
    /\ UNCHANGED <<nicknames, receipts, phase, freeze, crypto, activating, missed>>

\* Without a reaction the request is completed and nothing is announced.
RemoveNoReaction(a, m, k) ==
    /\ Reserve(k) /\ Mutable(m) /\ reactions[<<m, a>>].form = "none"
    /\ Complete(k)
    /\ UNCHANGED <<messages, reactions, nicknames, keys, log, receipts, phase, freeze, crypto, activating,
                   missed>>

PutNickname(s, form) ==
    nicknames' = [nicknames EXCEPT ![s] = [form |-> form, version |-> @.version + 1]]

\* A nickname may be cleared whatever the group's state.
SetNickname(s, form, k) ==
    /\ Reserve(k) /\ Writable /\ (form = "none" \/ Admits(form))
    /\ nicknames[s].version < MaxNickname
    /\ PutNickname(s, form)
    /\ keys' = (keys \cup KeysOf(form, NicknameKey(s, nicknames[s].version + 1))) \ NicknameKeys(s)
    /\ Complete(k)
    /\ missed' = missed \cup Missed(form, NicknameOf(s))
    /\ UNCHANGED <<messages, reactions, log, receipts, phase, freeze, crypto, activating>>

Latest(a, b) == IF a < b THEN b ELSE a

\* GREATEST: a receipt only moves forward, and what is read was delivered.
UpsertReceipt(row, type, through) ==
    [delivered |-> Latest(row.delivered, through),
     read |-> IF type = "read" THEN Latest(row.read, through) ELSE row.read]

\* A receipt is a partner's right to see the data, which a deletion leaves alone.
Receipt(a, type, through) ==
    /\ phase # "terminated" /\ through <= LastSequence
    /\ receipts' = [receipts EXCEPT ![a] = UpsertReceipt(@, type, through)]
    /\ UNCHANGED <<messages, reactions, nicknames, keys, log, answered, phase, freeze, crypto, activating,
                   missed>>

-----------------------------------------------------------------------------
(* The partnership and its group.                                           *)

InitiateBreakup ==
    /\ phase = "active" /\ phase' = "breakup"
    /\ freeze' = [open |-> TRUE, message |-> LastSequence, change |-> Len(log)]
    /\ UNCHANGED <<messages, reactions, nicknames, keys, log, answered, receipts, crypto, activating, missed>>

CloseBreakup ==
    /\ phase = "breakup" /\ phase' = "active" /\ freeze' = NoBreakup
    /\ UNCHANGED <<messages, reactions, nicknames, keys, log, answered, receipts, crypto, activating, missed>>

\* A deletion begins or is recovered from, and leaves the breakup open.
ChangeDeletion ==
    /\ phase # "terminated"
    /\ phase' = IF phase # "deleting" THEN "deleting" ELSE IF freeze.open THEN "breakup" ELSE "active"
    /\ UNCHANGED <<messages, reactions, nicknames, keys, log, answered, receipts, freeze, crypto, activating,
                   missed>>

Terminate ==
    /\ phase \in {"breakup", "deleting"} /\ phase' = "terminated" /\ freeze' = NoBreakup
    /\ UNCHANGED <<messages, reactions, nicknames, keys, log, answered, receipts, crypto, activating, missed>>

\* What is stored in the clear.
PlainContent ==
         {BodyOf(m) : m \in {n \in Sequences : messages[n].body = "plain"}}
    \cup {ReactionOf(x) : x \in {y \in Sequences \X Members : reactions[y].form = "plain"}}
    \cup {NicknameOf(s) : s \in {t \in Subjects : nicknames[t].form = "plain"}}

\* Encryption is only required of a partnership that has nothing plain: one UPDATE looks for
\* plaintext in its snapshot and then waits for the partnership's row.  A member who writes has
\* that row locked and does not change it, so the statement goes on without looking again.  The
\* commits that activate hold the group's row: one of them waits at a time.
BeginActivation ==
    /\ crypto = "off" /\ ~ activating /\ phase # "terminated" /\ PlainContent = {}
    /\ activating' = TRUE
    /\ UNCHANGED <<messages, reactions, nicknames, keys, log, answered, receipts, phase, freeze, crypto,
                   missed>>

\* The row itself is read again, the snapshot is not.
ActivateCrypto ==
    /\ activating /\ phase # "terminated"
    /\ crypto' = "ready" /\ activating' = FALSE
    /\ UNCHANGED <<messages, reactions, nicknames, keys, log, answered, receipts, phase, freeze, missed>>

\* The partnership was terminated while it waited, or the transaction rolls back.
AbandonActivation ==
    /\ activating /\ activating' = FALSE /\ missed' = {}
    /\ UNCHANGED <<messages, reactions, nicknames, keys, log, answered, receipts, phase, freeze, crypto>>

ChangeGroup ==
    /\ crypto # "off" /\ crypto' = IF crypto = "ready" THEN "rekey" ELSE "ready"
    /\ UNCHANGED <<messages, reactions, nicknames, keys, log, answered, receipts, phase, freeze, activating,
                   missed>>

\* Two targets of the deletion manifest.  The schema refuses to take a key from a row that
\* needs it: the second one fails until the first has succeeded.
DeleteMessagingContent ==
    /\ phase = "terminated"
    /\ messages' = [m \in Sequences |-> [messages[m] EXCEPT !.state = "absent", !.body = "none"]]
    /\ reactions' = [x \in Sequences \X Members |-> NoReaction]
    /\ nicknames' = [s \in Subjects |-> [nicknames[s] EXCEPT !.form = "none"]]
    /\ log' = <<>> /\ receipts' = [a \in Readers |-> [delivered |-> 0, read |-> 0]]
    /\ UNCHANGED <<keys, answered, phase, freeze, crypto, activating, missed>>

References ==
         (UNION {BodyKey(m) : m \in Sequences}) \cup (UNION {ReactionKeys(x) : x \in Sequences \X Members})
    \cup (UNION {NicknameKeys(s) : s \in Subjects})

DeleteCryptoState ==
    /\ phase = "terminated" /\ References = {} /\ keys' = {}
    /\ UNCHANGED <<messages, reactions, nicknames, log, answered, receipts, phase, freeze, crypto, activating,
                   missed>>

-----------------------------------------------------------------------------

Fresh(k) == \A j \in Requests : j < k => j \in answered

MessagingNext ==
    \/ \E k \in Requests, a \in Members :
           /\ Fresh(k)
           /\ \/ \E form \in {"plain", "sealed"} :
                     Send(a, form, k) \/ \E m \in Sequences : Edit(a, m, form, k) \/ SetReaction(a, m, form, k)
              \/ \E m \in Sequences : Delete(a, m, k) \/ RemoveReaction(a, m, k) \/ RemoveNoReaction(a, m, k)
              \/ \E form \in Forms, s \in Subjects : SetNickname(s, form, k)
    \/ \E a \in Readers, type \in {"delivered", "read"}, through \in Sequences : Receipt(a, type, through)
    \/ \E m \in Sequences : EditWindowCloses(m)
    \/ InitiateBreakup \/ CloseBreakup \/ ChangeDeletion \/ Terminate
    \/ BeginActivation \/ ActivateCrypto \/ AbandonActivation \/ ChangeGroup
    \/ DeleteMessagingContent \/ DeleteCryptoState

MessagingSpec == MessagingInit /\ [][MessagingNext]_messagingVars

-----------------------------------------------------------------------------
(* Properties.                                                              *)

\* What the members see can be read and is theirs (MessagingService): a partnership that
\* lives keeps exactly the content keys its encrypted messages, reactions and nicknames
\* need; once encryption is required nothing is plain but what was written while the statement
\* that requires it waited for the partnership; a message of before the breakup has not changed
\* since; a message's last change is the last the log has of it; no request has changed the
\* conversation twice; and a receipt never runs ahead.
MessagesAccounted ==
    /\ IF phase = "terminated" THEN References \subseteq keys ELSE References = keys
    /\ crypto # "off" => PlainContent \subseteq missed
    /\ freeze.open => \A i \in DOMAIN log : i > freeze.change => log[i].message > freeze.message
    /\ \A m \in Sent : messages[m].last \in DOMAIN log /\ log[messages[m].last].message = m
                       /\ \A i \in DOMAIN log : log[i].message = m => i <= messages[m].last
    /\ \A i, j \in DOMAIN log : log[i].by = log[j].by => i = j
    /\ \A a \in Readers : receipts[a].read <= receipts[a].delivered /\ receipts[a].delivered <= LastSequence

=============================================================================
