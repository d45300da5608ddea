---------------------------- MODULE MessagesProofs ----------------------------
(* Theorems about the chat, each module for any of its constants: what is     *)
(* sent and answered, the actions on a message, the receipts, the nicknames   *)
(* and the drafts.                                                            *)
EXTENDS Messaging, TalkActions, ReadReceipts, Nicknames, MediaDrafts,
        WellFoundedInduction, FiniteSetTheorems, TLAPS

-----------------------------------------------------------------------------
(* The smallest and the greatest of a set of numbers.                        *)

LEMMA FirstNatural ==
    ASSUME NEW T, T \subseteq Nat, T # {}
    PROVE  \E x \in T : \A y \in T : x <= y
<1>1. PICK R : R = OpToRel(<, Nat)
    OBVIOUS
<1>2. IsWellFoundedOn(R, Nat)
    BY <1>1, NatLessThanWellFounded
<1>3. PICK x \in T : \A y \in T : ~ (<<y, x>> \in R)
    BY <1>2, WFMin
<1>4. ASSUME NEW y \in T PROVE x <= y
    <2>1. x \in Nat /\ y \in Nat /\ ~ (<<y, x>> \in R)
        BY <1>3, <1>4
    <2>2. y < x => <<y, x>> \in R
        BY <1>1, <2>1 DEF OpToRel
    <2>3. QED
        BY <2>1, <2>2
<1>5. QED
    BY <1>4

LEMMA GreatestBelow ==
    ASSUME NEW n \in Nat, NEW S, S \subseteq 1 .. n, S # {}
    PROVE  \E m \in S : \A i \in S : i <= m
<1> DEFINE T == {n - i : i \in S}
<1>1. T \subseteq Nat /\ T # {}
    <2>1. ASSUME NEW i \in S PROVE n - i \in Nat
        OBVIOUS
    <2>2. T \subseteq Nat
        BY <2>1
    <2>3. PICK i \in S : TRUE
        OBVIOUS
    <2>4. n - i \in T
        OBVIOUS
    <2>5. QED
        BY <2>2, <2>4
<1>2. PICK x \in T : \A y \in T : x <= y
    BY <1>1, FirstNatural
<1>3. PICK m \in S : x = n - m
    BY <1>2
<1>4. ASSUME NEW i \in S PROVE i <= m
    <2>1. n - i \in T
        BY <1>4
    <2>2. n - m <= n - i
        BY <1>2, <1>3, <2>1
    <2>3. m \in Nat /\ i \in Nat
        OBVIOUS
    <2>4. QED
        BY <2>2, <2>3
<1>5. QED
    BY <1>4
-----------------------------------------------------------------------------
(* Messaging: what holds in every state, besides MessagesAccounted.         *)

MessageRow  == [state : {"absent", "live", "deleted"}, sender : Members \cup {NoMember}, version : Nat,
                last : Nat, body : Forms, overdue : BOOLEAN]
ReactionRow == [form : Forms, id : Nat]
NicknameRow == [form : Forms, version : Nat]
ReceiptOfMember  == [delivered : Nat, read : Nat]
LogRow      == [message : Nat, version : Nat, by : Nat]
Pairs       == Sequences \X Members

MessagesShape ==
    /\ messages \in [Sequences -> MessageRow] /\ reactions \in [Pairs -> ReactionRow]
    /\ nicknames \in [Subjects -> NicknameRow] /\ receipts \in [Readers -> ReceiptOfMember]
    /\ log \in Seq(LogRow) /\ answered \subseteq Nat
    /\ freeze \in [open : BOOLEAN, message : Nat, change : Nat]

\* The key of one row is not the key of another: a reaction is named by the request that put it.
RowsApart ==
    /\ \A m \in Sequences : messages[m].state # "live" => messages[m].body = "none"
    /\ \A x \in Pairs : reactions[x].form # "none" => reactions[x].id \in answered
    /\ \A x, y \in Pairs :
           reactions[x].form # "none" /\ reactions[y].form # "none" /\ reactions[x].id = reactions[y].id => x = y

KeysMatch == IF phase = "terminated" THEN References \subseteq keys ELSE References = keys

\* The log is of messages that were sent, and of requests that were answered.
LogInOrder ==
    /\ \A i \in 1 .. Len(log) : log[i].message \in Sent /\ log[i].by \in answered
    /\ \A i, j \in 1 .. Len(log) : log[i].by = log[j].by => i = j
    /\ \A m \in Sent : /\ messages[m].last \in 1 .. Len(log) /\ log[messages[m].last].message = m
                       /\ \A i \in 1 .. Len(log) : log[i].message = m => i <= messages[m].last

FreezeHolds ==
    /\ phase = "terminated" => ~ freeze.open
    /\ freeze.open => /\ freeze.message <= LastSequence
                      /\ \A i \in 1 .. Len(log) : i > freeze.change => log[i].message > freeze.message

ReceiptsBehind ==
    \A a \in Readers : receipts[a].read <= receipts[a].delivered /\ receipts[a].delivered <= LastSequence

\* What is plain although encryption is required, or about to be, was written after the snapshot.
SealedOnly ==
    /\ activating => crypto = "off"
    /\ activating \/ crypto # "off" =>
           /\ \A m \in Sequences : messages[m].body = "plain" => BodyOf(m) \in missed
           /\ \A x \in Pairs : reactions[x].form = "plain" => ReactionOf(x) \in missed
           /\ \A s \in Subjects : nicknames[s].form = "plain" => NicknameOf(s) \in missed

MessagesInv == MessagesShape /\ RowsApart /\ KeysMatch /\ LogInOrder /\ FreezeHolds /\ ReceiptsBehind /\ SealedOnly

LEMMA LastRecordOf ==
    ASSUME NEW S, S \subseteq Sequences, NEW l, l = IF S = {} THEN 0 ELSE CHOOSE m \in S : \A n \in S : n <= m
    PROVE  l \in 0 .. MaxMessages /\ l \in Nat /\ (l # 0 => l \in S) /\ \A m \in S : m \in Nat /\ m <= l
<1>1. MaxMessages \in Nat /\ S \subseteq 1 .. MaxMessages
    BY MessagingAssumption DEF Sequences
<1>2. CASE S = {}
    BY <1>1, <1>2
<1>3. CASE S # {}
    <2>1. PICK m \in S : \A n \in S : n <= m
        BY <1>1, <1>3, GreatestBelow
    <2>2. l = CHOOSE i \in S : \A n \in S : n <= i
        BY <1>3
    <2>3. l \in S /\ \A n \in S : n <= l
        BY <2>1, <2>2, Zenon
    <2>4. \A n \in S : n \in 1 .. MaxMessages
        BY <1>1
    <2>5. l \in 1 .. MaxMessages
        BY <2>3, <2>4
    <2>6. l \in 0 .. MaxMessages /\ l \in Nat
        BY <1>1, <2>5
    <2>7. \A n \in S : n \in Nat
        BY <2>4
    <2>8. QED
        BY <2>3, <2>6, <2>7, Zenon
<1>4. QED
    BY <1>2, <1>3

LEMMA LastSent ==
    /\ LastSequence \in 0 .. MaxMessages /\ LastSequence \in Nat /\ (LastSequence # 0 => LastSequence \in Sent)
    /\ \A m \in Sent : m \in Nat /\ m <= LastSequence
<1>1. PICK S : S = Sent
    OBVIOUS
<1>2. S \subseteq Sequences
    BY <1>1 DEF Sent
<1>3. PICK l : l = LastSequence
    OBVIOUS
<1>4. l = IF S = {} THEN 0 ELSE CHOOSE m \in S : \A n \in S : n <= m
    BY <1>1, <1>3 DEF LastSequence
<1>5. l \in 0 .. MaxMessages /\ l \in Nat /\ (l # 0 => l \in S) /\ \A m \in S : m \in Nat /\ m <= l
    BY <1>2, <1>4, LastRecordOf, SMTT(20)
<1>6. QED
    BY <1>1, <1>3, <1>5

LEMMA LastSentNext ==
    /\ LastSequence' \in 0 .. MaxMessages /\ LastSequence' \in Nat /\ (LastSequence' # 0 => LastSequence' \in Sent')
    /\ \A m \in Sent' : m \in Nat /\ m <= LastSequence'
<1>1. PICK S : S = Sent'
    OBVIOUS
<1>2. S \subseteq Sequences
    BY <1>1 DEF Sent
<1>3. PICK l : l = LastSequence'
    OBVIOUS
<1>4. l = IF S = {} THEN 0 ELSE CHOOSE m \in S : \A n \in S : n <= m
    BY <1>1, <1>3 DEF LastSequence
<1>5. l \in 0 .. MaxMessages /\ l \in Nat /\ (l # 0 => l \in S) /\ \A m \in S : m \in Nat /\ m <= l
    BY <1>2, <1>4, LastRecordOf, SMTT(20)
<1>6. QED
    BY <1>1, <1>3, <1>5

LEMMA LastGrows == ASSUME Sent \subseteq Sent' PROVE LastSequence <= LastSequence'
<1>1. LastSequence \in Nat /\ (LastSequence # 0 => LastSequence \in Sent)
    BY LastSent
<1>2. LastSequence' \in Nat /\ \A m \in Sent' : m <= LastSequence'
    BY LastSentNext
<1>3. QED
    BY <1>1, <1>2

LEMMA KeysApart ==
    /\ \A m, v, n, w : MessageKey(m, v) = MessageKey(n, w) => m = n /\ v = w
    /\ \A j, k : ReactionKey(j) = ReactionKey(k) => j = k
    /\ \A s, v, t, w : NicknameKey(s, v) = NicknameKey(t, w) => s = t /\ v = w
    /\ \A m, v, k : MessageKey(m, v) # ReactionKey(k)
    /\ \A m, v, s, w : MessageKey(m, v) # NicknameKey(s, w)
    /\ \A k, s, w : ReactionKey(k) # NicknameKey(s, w)
<1>1. \A m, v : /\ MessageKey(m, v).type = "message"
                /\ MessageKey(m, v).id = m /\ MessageKey(m, v).version = v
    BY DEF MessageKey
<1>2. \A k : ReactionKey(k).type = "message_reaction" /\ ReactionKey(k).id = k
    BY DEF ReactionKey
<1>3. \A s, w : /\ NicknameKey(s, w).type = "partnership_nickname"
                /\ NicknameKey(s, w).id = s /\ NicknameKey(s, w).version = w
    BY DEF NicknameKey
<1>4. "message" # "message_reaction" /\ "message" # "partnership_nickname" /\ "message_reaction" # "partnership_nickname"
    OBVIOUS
<1>5. \A m, v, n, w : MessageKey(m, v) = MessageKey(n, w) => m = n /\ v = w
    BY <1>1
<1>6. \A j, k : ReactionKey(j) = ReactionKey(k) => j = k
    BY <1>2
<1>7. \A s, v, t, w : NicknameKey(s, v) = NicknameKey(t, w) => s = t /\ v = w
    BY <1>3
<1>8. \A m, v, k : MessageKey(m, v) # ReactionKey(k)
    BY <1>1, <1>2, <1>4
<1>9. \A m, v, s, w : MessageKey(m, v) # NicknameKey(s, w)
    BY <1>1, <1>3, <1>4
<1>10. \A k, s, w : ReactionKey(k) # NicknameKey(s, w)
    BY <1>2, <1>3, <1>4
<1>11. QED
    BY <1>5, <1>6, <1>7, <1>8, <1>9, <1>10

ByBody(c)     == \E m \in Sequences : messages[m].body = "sealed" /\ c = MessageKey(m, messages[m].version)
ByReaction(c) == \E x \in Pairs : reactions[x].form = "sealed" /\ c = ReactionKey(reactions[x].id)
ByNickname(c) == \E s \in Subjects : nicknames[s].form = "sealed" /\ c = NicknameKey(s, nicknames[s].version)
Referenced(c) == ByBody(c) \/ ByReaction(c) \/ ByNickname(c)

EveryReference == \A c : c \in References <=> Referenced(c)

LEMMA ReferencesAre == EveryReference
<1> USE DEF EveryReference
<1> SUFFICES ASSUME NEW c PROVE c \in References <=> Referenced(c)
    OBVIOUS
<1>1. c \in References <=> \/ \E m \in Sequences : c \in BodyKey(m)
                           \/ \E x \in Pairs : c \in ReactionKeys(x)
                           \/ \E s \in Subjects : c \in NicknameKeys(s)
    <2> DEFINE A == UNION {BodyKey(m) : m \in Sequences}
               B == UNION {ReactionKeys(x) : x \in Sequences \X Members}
               C == UNION {NicknameKeys(s) : s \in Subjects}
    <2>1. References = A \cup B \cup C
        BY DEF References
    <2>2. c \in A <=> \E m \in Sequences : c \in BodyKey(m)
        OBVIOUS
    <2>3. c \in B <=> \E x \in Sequences \X Members : c \in ReactionKeys(x)
        OBVIOUS
    <2>4. c \in C <=> \E s \in Subjects : c \in NicknameKeys(s)
        OBVIOUS
    <2> HIDE DEF A, B, C
    <2>5. c \in References <=> c \in A \/ c \in B \/ c \in C
        BY <2>1
    <2>6. QED
        BY <2>2, <2>3, <2>4, <2>5 DEF Pairs
<1>2. ASSUME NEW m \in Sequences
      PROVE  c \in BodyKey(m) <=> (messages[m].body = "sealed" /\ c = MessageKey(m, messages[m].version))
    BY DEF BodyKey, KeysOf
<1>3. ASSUME NEW x \in Pairs
      PROVE  c \in ReactionKeys(x) <=> (reactions[x].form = "sealed" /\ c = ReactionKey(reactions[x].id))
    BY DEF ReactionKeys, KeysOf
<1>4. ASSUME NEW s \in Subjects
      PROVE  c \in NicknameKeys(s) <=> (nicknames[s].form = "sealed" /\ c = NicknameKey(s, nicknames[s].version))
    BY DEF NicknameKeys, KeysOf
<1>5. QED
    BY <1>1, <1>2, <1>3, <1>4, Zenon DEF Referenced, ByBody, ByReaction, ByNickname

LEMMA MessagesInvAccounted == MessagesInv => MessagesAccounted
<1> SUFFICES ASSUME MessagesInv PROVE MessagesAccounted
    OBVIOUS
<1>1. DOMAIN log = 1 .. Len(log)
    BY DEF MessagesInv, MessagesShape
<1>2. crypto # "off" => PlainContent \subseteq missed
    <2>1. SUFFICES ASSUME crypto # "off", NEW c \in PlainContent PROVE c \in missed
        OBVIOUS
    <2>2. \/ \E m \in Sequences : messages[m].body = "plain" /\ c = BodyOf(m)
          \/ \E x \in Pairs : reactions[x].form = "plain" /\ c = ReactionOf(x)
          \/ \E s \in Subjects : nicknames[s].form = "plain" /\ c = NicknameOf(s)
        BY DEF PlainContent, Pairs
    <2>3. QED
        BY <2>1, <2>2 DEF MessagesInv, SealedOnly
<1>3. QED
    BY <1>1, <1>2 DEF MessagesInv, KeysMatch, FreezeHolds, LogInOrder, ReceiptsBehind, MessagesAccounted

LEMMA MessagesInvInit == MessagingInit => MessagesInv
<1> SUFFICES ASSUME MessagingInit PROVE MessagesInv
    OBVIOUS
<1>1. /\ messages \in [Sequences -> MessageRow] /\ \A m \in Sequences : messages[m].state = "absent" /\ messages[m].body = "none"
    BY DEF MessagingInit, MessageRow, Forms
<1>2. reactions \in [Pairs -> ReactionRow] /\ \A x \in Pairs : reactions[x].form = "none"
    BY DEF MessagingInit, ReactionRow, NoReaction, Forms, Pairs
<1>3. nicknames \in [Subjects -> NicknameRow] /\ \A s \in Subjects : nicknames[s].form = "none"
    BY DEF MessagingInit, NicknameRow, Forms
<1>4. receipts \in [Readers -> ReceiptOfMember] /\ \A a \in Readers : receipts[a].delivered = 0 /\ receipts[a].read = 0
    BY DEF MessagingInit, ReceiptOfMember
<1>5. keys = {} /\ log = <<>> /\ answered = {} /\ freeze = NoBreakup /\ phase = "active" /\ crypto = "off" /\ ~ activating
    BY DEF MessagingInit
<1>6. log \in Seq(LogRow) /\ Len(log) = 0
    BY <1>5
<1>7. freeze \in [open : BOOLEAN, message : Nat, change : Nat] /\ ~ freeze.open
    BY <1>5 DEF NoBreakup
<1>8. MessagesShape
    BY <1>1, <1>2, <1>3, <1>4, <1>5, <1>6, <1>7 DEF MessagesShape
<1>9. RowsApart
    BY <1>1, <1>2 DEF RowsApart
<1>10. Sent = {} /\ LastSequence = 0
    BY <1>1 DEF Sent, LastSequence
<1>11. \A c : ~ Referenced(c)
    BY <1>1, <1>2, <1>3 DEF Referenced, ByBody, ByReaction, ByNickname
<1>12. KeysMatch
    BY <1>5, <1>11, ReferencesAre DEF EveryReference, KeysMatch
<1>13. LogInOrder
    BY <1>6, <1>10 DEF LogInOrder
<1>14. FreezeHolds /\ SealedOnly
    BY <1>5, <1>7 DEF FreezeHolds, SealedOnly
<1>15. ReceiptsBehind
    BY <1>4, <1>10 DEF ReceiptsBehind
<1>16. QED
    BY <1>8, <1>9, <1>12, <1>13, <1>14, <1>15 DEF MessagesInv

-----------------------------------------------------------------------------
(* The log, the freeze and the receipts when a message changes.             *)

\* A request that was not answered changes message m.
ChangesMessage(m, k) ==
    /\ m \in Sequences /\ k \in Nat /\ k \notin answered /\ answered' = answered \cup {k}
    /\ \E v \in Nat : log' = Append(log, [message |-> m, version |-> v, by |-> k])
    /\ messages' \in [Sequences -> MessageRow] /\ messages'[m].last = Len(log) + 1 /\ messages'[m].state # "absent"
    /\ \A n \in Sequences \ {m} : messages'[n] = messages[n]
    /\ freeze.open => m > freeze.message
    /\ phase # "terminated" /\ UNCHANGED <<receipts, phase, freeze, crypto, activating>>

LEMMA LogChanged ==
    ASSUME MessagesInv, NEW m, NEW k, ChangesMessage(m, k)
    PROVE  /\ LogInOrder' /\ FreezeHolds' /\ ReceiptsBehind'
           /\ log' \in Seq(LogRow) /\ answered' \subseteq Nat /\ freeze' \in [open : BOOLEAN, message : Nat, change : Nat]
           /\ receipts' \in [Readers -> ReceiptOfMember]
<1>1. PICK v \in Nat : log' = Append(log, [message |-> m, version |-> v, by |-> k])
    BY DEF ChangesMessage
<1>2. PICK r : r = [message |-> m, version |-> v, by |-> k]
    OBVIOUS
<1>3. m \in Sequences /\ m \in Nat /\ k \in Nat /\ r \in LogRow /\ r.message = m /\ r.by = k
    BY <1>2, MessagingAssumption DEF ChangesMessage, Sequences, LogRow
<1>4. /\ log \in Seq(LogRow) /\ Len(log) \in Nat /\ log' \in Seq(LogRow) /\ Len(log') = Len(log) + 1
      /\ log'[Len(log) + 1] = r /\ \A i \in 1 .. Len(log) : log'[i] = log[i]
    BY <1>1, <1>2, <1>3 DEF MessagesInv, MessagesShape
<1>5. Sent' = Sent \cup {m}
    BY <1>3 DEF ChangesMessage, Sent
<1>6. LastSequence <= LastSequence' /\ LastSequence \in Nat /\ LastSequence' \in Nat
    BY <1>5, LastGrows, LastSent, LastSentNext
<1>7. LogInOrder'
    <2>1. ASSUME NEW i \in 1 .. Len(log') PROVE log'[i].message \in Sent' /\ log'[i].by \in answered'
        <3>1. CASE i = Len(log) + 1
            BY <1>3, <1>4, <1>5, <3>1 DEF ChangesMessage
        <3>2. CASE i # Len(log) + 1
            <4>1. i \in 1 .. Len(log)
                BY <1>4, <3>2
            <4>2. QED
                BY <1>4, <1>5, <4>1 DEF ChangesMessage, MessagesInv, LogInOrder
        <3>3. QED
            BY <3>1, <3>2
    <2>2. ASSUME NEW i \in 1 .. Len(log'), NEW j \in 1 .. Len(log'), log'[i].by = log'[j].by PROVE i = j
        <3>1. \A n \in 1 .. Len(log) : log'[n].by # k
            BY <1>4 DEF ChangesMessage, MessagesInv, LogInOrder
        <3>2. log'[Len(log) + 1].by = k
            BY <1>3, <1>4
        <3>3. (i \in 1 .. Len(log) \/ i = Len(log) + 1) /\ (j \in 1 .. Len(log) \/ j = Len(log) + 1)
            BY <1>4
        <3>4. CASE i \in 1 .. Len(log) /\ j \in 1 .. Len(log)
            BY <1>4, <2>2, <3>4 DEF MessagesInv, LogInOrder
        <3>5. QED
            BY <2>2, <3>1, <3>2, <3>3, <3>4
    <2>3. ASSUME NEW n \in Sent'
          PROVE  /\ messages'[n].last \in 1 .. Len(log') /\ log'[messages'[n].last].message = n
                 /\ \A i \in 1 .. Len(log') : log'[i].message = n => i <= messages'[n].last
        <3>1. CASE n = m
            BY <1>3, <1>4, <3>1 DEF ChangesMessage
        <3>2. CASE n # m
            <4>1. n \in Sent /\ messages'[n] = messages[n]
                BY <1>5, <2>3, <3>2 DEF ChangesMessage, Sent
            <4>2. /\ messages[n].last \in 1 .. Len(log) /\ log[messages[n].last].message = n
                  /\ \A i \in 1 .. Len(log) : log[i].message = n => i <= messages[n].last
                BY <4>1 DEF MessagesInv, LogInOrder
            <4>3. log'[Len(log) + 1].message # n
                BY <1>3, <1>4, <3>2
            <4>4. ASSUME NEW i \in 1 .. Len(log'), log'[i].message = n PROVE i <= messages[n].last
                <5>1. i \in 1 .. Len(log)
                    BY <1>4, <4>3, <4>4
                <5>2. QED
                    BY <1>4, <4>2, <4>4, <5>1
            <4>5. messages[n].last \in 1 .. Len(log')
                BY <1>4, <4>2
            <4>6. QED
                BY <1>4, <4>1, <4>2, <4>4, <4>5
        <3>3. QED
            BY <3>1, <3>2
    <2>4. QED
        BY <2>1, <2>2, <2>3 DEF LogInOrder
<1>8. FreezeHolds'
    <2>1. freeze' = freeze /\ phase' = phase /\ freeze \in [open : BOOLEAN, message : Nat, change : Nat]
        BY DEF ChangesMessage, MessagesInv, MessagesShape
    <2>2. ASSUME freeze.open
          PROVE  /\ freeze.message <= LastSequence'
                 /\ \A i \in 1 .. Len(log') : i > freeze.change => log'[i].message > freeze.message
        <3>1. freeze.message <= LastSequence /\ freeze.message \in Nat
            BY <2>1, <2>2 DEF MessagesInv, FreezeHolds
        <3>2. ASSUME NEW i \in 1 .. Len(log'), i > freeze.change PROVE log'[i].message > freeze.message
            <4>1. CASE i = Len(log) + 1
                BY <1>3, <1>4, <2>2, <4>1 DEF ChangesMessage
            <4>2. CASE i # Len(log) + 1
                <5>1. i \in 1 .. Len(log)
                    BY <1>4, <4>2
                <5>2. QED
                    BY <1>4, <2>2, <3>2, <5>1 DEF MessagesInv, FreezeHolds
            <4>3. QED
                BY <4>1, <4>2
        <3>3. QED
            BY <1>6, <3>1, <3>2
    <2>3. QED
        BY <2>1, <2>2 DEF ChangesMessage, FreezeHolds
<1>9. ReceiptsBehind'
    <2>1. receipts' = receipts /\ receipts \in [Readers -> ReceiptOfMember]
        BY DEF ChangesMessage, MessagesInv, MessagesShape
    <2>2. ASSUME NEW a \in Readers
          PROVE  receipts[a].read <= receipts[a].delivered /\ receipts[a].delivered <= LastSequence'
        <3>1. receipts[a].delivered \in Nat /\ receipts[a].read <= receipts[a].delivered /\ receipts[a].delivered <= LastSequence
            BY <2>1 DEF ReceiptOfMember, MessagesInv, ReceiptsBehind
        <3>2. QED
            BY <1>6, <3>1
    <2>3. QED
        BY <2>1, <2>2 DEF ReceiptsBehind
<1>10. QED
    BY <1>3, <1>4, <1>7, <1>8, <1>9 DEF ChangesMessage, MessagesInv, MessagesShape

-----------------------------------------------------------------------------
(* The keys when a row changes.                                             *)

LEMMA KeysMove ==
    ASSUME MessagesInv, phase # "terminated", phase' = phase, NEW add, NEW drop,
           \A c : c \in keys' <=> (c \in keys /\ c \notin drop) \/ c \in add,
           \A c : Referenced(c)' <=> (Referenced(c) /\ c \notin drop) \/ c \in add
    PROVE  KeysMatch'
<1>1. References = keys
    BY DEF MessagesInv, KeysMatch
<1>2. EveryReference /\ EveryReference'
    BY ReferencesAre, PTL
<1>3. References' = keys'
    BY <1>1, <1>2 DEF EveryReference
<1>4. QED
    BY <1>3 DEF KeysMatch

\* The row of one message changes.
LEMMA BodyMoves ==
    ASSUME MessagesInv, NEW m \in Sequences, NEW form, NEW v, messages'[m].body = form, messages'[m].version = v,
           \A n \in Sequences \ {m} : messages'[n] = messages[n],
           messages[m].body = "sealed" => v # messages[m].version
    PROVE  /\ \A c : ByBody(c)' <=> (ByBody(c) /\ c \notin BodyKey(m)) \/ c \in KeysOf(form, MessageKey(m, v))
           /\ BodyKey(m) \cap KeysOf(form, MessageKey(m, v)) = {}
<1>1. ASSUME NEW c PROVE c \in BodyKey(m) <=> (messages[m].body = "sealed" /\ c = MessageKey(m, messages[m].version))
    BY DEF BodyKey, KeysOf
<1>2. ASSUME NEW c PROVE c \in KeysOf(form, MessageKey(m, v)) <=> (form = "sealed" /\ c = MessageKey(m, v))
    BY DEF KeysOf
<1>3. ASSUME NEW c PROVE ByBody(c)' <=> (ByBody(c) /\ c \notin BodyKey(m)) \/ c \in KeysOf(form, MessageKey(m, v))
    <2>1. ASSUME ByBody(c)' PROVE (ByBody(c) /\ c \notin BodyKey(m)) \/ c \in KeysOf(form, MessageKey(m, v))
        <3>1. PICK n \in Sequences : messages'[n].body = "sealed" /\ c = MessageKey(n, messages'[n].version)
            BY <2>1 DEF ByBody
        <3>2. CASE n = m
            BY <1>2, <3>1, <3>2
        <3>3. CASE n # m
            <4>1. messages[n].body = "sealed" /\ c = MessageKey(n, messages[n].version)
                BY <3>1, <3>3
            <4>2. c # MessageKey(m, messages[m].version)
                BY <3>3, <4>1, KeysApart
            <4>3. QED
                BY <1>1, <4>1, <4>2 DEF ByBody
        <3>4. QED
            BY <3>2, <3>3
    <2>2. ASSUME ByBody(c), c \notin BodyKey(m) PROVE ByBody(c)'
        <3>1. PICK n \in Sequences : messages[n].body = "sealed" /\ c = MessageKey(n, messages[n].version)
            BY <2>2 DEF ByBody
        <3>2. n # m
            BY <1>1, <2>2, <3>1
        <3>3. QED
            BY <3>1, <3>2 DEF ByBody
    <2>3. ASSUME c \in KeysOf(form, MessageKey(m, v)) PROVE ByBody(c)'
        BY <1>2, <2>3 DEF ByBody
    <2>4. QED
        BY <2>1, <2>2, <2>3
<1>4. BodyKey(m) \cap KeysOf(form, MessageKey(m, v)) = {}
    BY <1>1, <1>2, KeysApart
<1>5. QED
    BY <1>3, <1>4

\* The keys of the reactions of a set of pairs.
ReactionsOf(X, drop) == \A c : c \in drop <=> \E x \in X : reactions[x].form = "sealed" /\ c = ReactionKey(reactions[x].id)

\* Reactions of a set of pairs are taken away, and one of them may be put anew.
LEMMA ReactionsMove ==
    ASSUME MessagesInv, NEW X \in SUBSET Pairs, NEW drop, NEW add, ReactionsOf(X, drop), ReactionsOf(X, add)',
           \A x \in Pairs \ X : reactions'[x] = reactions[x]
    PROVE  \A c : ByReaction(c)' <=> (ByReaction(c) /\ c \notin drop) \/ c \in add
<1> USE DEF ReactionsOf
<1>1. ASSUME NEW c, ByReaction(c)' PROVE (ByReaction(c) /\ c \notin drop) \/ c \in add
    <2>1. PICK x \in Pairs : reactions'[x].form = "sealed" /\ c = ReactionKey(reactions'[x].id)
        BY <1>1 DEF ByReaction
    <2>2. CASE x \in X
        BY <2>1, <2>2
    <2>3. CASE x \notin X
        <3>1. reactions[x].form = "sealed" /\ c = ReactionKey(reactions[x].id)
            BY <2>1, <2>3
        <3>2. ASSUME c \in drop PROVE FALSE
            <4>1. PICK y \in X : reactions[y].form = "sealed" /\ c = ReactionKey(reactions[y].id)
                BY <3>2
            <4>2. reactions[y].id = reactions[x].id
                BY <3>1, <4>1, KeysApart
            <4>3. x = y
                BY <3>1, <4>1, <4>2 DEF MessagesInv, RowsApart
            <4>4. QED
                BY <2>3, <4>3
        <3>3. QED
            BY <3>1, <3>2 DEF ByReaction
    <2>4. QED
        BY <2>2, <2>3
<1>2. ASSUME NEW c, ByReaction(c), c \notin drop PROVE ByReaction(c)'
    <2>1. PICK x \in Pairs : reactions[x].form = "sealed" /\ c = ReactionKey(reactions[x].id)
        BY <1>2 DEF ByReaction
    <2>2. x \notin X
        BY <1>2, <2>1
    <2>3. QED
        BY <2>1, <2>2 DEF ByReaction
<1>3. ASSUME NEW c, c \in add PROVE ByReaction(c)'
    BY <1>3 DEF ByReaction
<1>4. QED
    BY <1>1, <1>2, <1>3

LEMMA NicknameMoves ==
    ASSUME MessagesInv, NEW s \in Subjects, NEW form, NEW v, nicknames'[s].form = form, nicknames'[s].version = v,
           \A t \in Subjects \ {s} : nicknames'[t] = nicknames[t], v # nicknames[s].version
    PROVE  /\ \A c : ByNickname(c)' <=> (ByNickname(c) /\ c \notin NicknameKeys(s)) \/ c \in KeysOf(form, NicknameKey(s, v))
           /\ NicknameKeys(s) \cap KeysOf(form, NicknameKey(s, v)) = {}
<1>1. ASSUME NEW c
      PROVE  c \in NicknameKeys(s) <=> (nicknames[s].form = "sealed" /\ c = NicknameKey(s, nicknames[s].version))
    BY DEF NicknameKeys, KeysOf
<1>2. ASSUME NEW c PROVE c \in KeysOf(form, NicknameKey(s, v)) <=> (form = "sealed" /\ c = NicknameKey(s, v))
    BY DEF KeysOf
<1>3. ASSUME NEW c PROVE ByNickname(c)' <=> (ByNickname(c) /\ c \notin NicknameKeys(s)) \/ c \in KeysOf(form, NicknameKey(s, v))
    <2>1. ASSUME ByNickname(c)' PROVE (ByNickname(c) /\ c \notin NicknameKeys(s)) \/ c \in KeysOf(form, NicknameKey(s, v))
        <3>1. PICK t \in Subjects : nicknames'[t].form = "sealed" /\ c = NicknameKey(t, nicknames'[t].version)
            BY <2>1 DEF ByNickname
        <3>2. CASE t = s
            BY <1>2, <3>1, <3>2
        <3>3. CASE t # s
            <4>1. nicknames[t].form = "sealed" /\ c = NicknameKey(t, nicknames[t].version)
                BY <3>1, <3>3
            <4>2. c # NicknameKey(s, nicknames[s].version)
                BY <3>3, <4>1, KeysApart
            <4>3. QED
                BY <1>1, <4>1, <4>2 DEF ByNickname
        <3>4. QED
            BY <3>2, <3>3
    <2>2. ASSUME ByNickname(c), c \notin NicknameKeys(s) PROVE ByNickname(c)'
        <3>1. PICK t \in Subjects : nicknames[t].form = "sealed" /\ c = NicknameKey(t, nicknames[t].version)
            BY <2>2 DEF ByNickname
        <3>2. t # s
            BY <1>1, <2>2, <3>1
        <3>3. QED
            BY <3>1, <3>2 DEF ByNickname
    <2>3. ASSUME c \in KeysOf(form, NicknameKey(s, v)) PROVE ByNickname(c)'
        BY <1>2, <2>3 DEF ByNickname
    <2>4. QED
        BY <2>1, <2>2, <2>3
<1>4. NicknameKeys(s) \cap KeysOf(form, NicknameKey(s, v)) = {}
    BY <1>1, <1>2, KeysApart
<1>5. QED
    BY <1>3, <1>4

-----------------------------------------------------------------------------
(* The steps.                                                               *)

LEMMA ShapeFacts ==
    ASSUME MessagesInv
    PROVE  /\ messages \in [Sequences -> MessageRow] /\ reactions \in [Pairs -> ReactionRow]
           /\ nicknames \in [Subjects -> NicknameRow] /\ receipts \in [Readers -> ReceiptOfMember]
           /\ log \in Seq(LogRow) /\ Len(log) \in Nat /\ answered \subseteq Nat
           /\ freeze \in [open : BOOLEAN, message : Nat, change : Nat]
BY DEF MessagesInv, MessagesShape

LEMMA WritableOpen == ASSUME Writable PROVE phase # "terminated"
BY DEF Writable

\* No activation has a snapshot, nor has one been made.
Unguarded == crypto = "off" /\ ~ activating

\* What becomes plain is recorded while an activation waits.
PlainMissed ==
    /\ missed \subseteq missed'
    /\ \A m \in Sequences : messages'[m].body = "plain" =>
           messages[m].body = "plain" \/ BodyOf(m) \in missed' \/ Unguarded
    /\ \A x \in Pairs : reactions'[x].form = "plain" =>
           reactions[x].form = "plain" \/ ReactionOf(x) \in missed' \/ Unguarded
    /\ \A s \in Subjects : nicknames'[s].form = "plain" =>
           nicknames[s].form = "plain" \/ NicknameOf(s) \in missed' \/ Unguarded

\* What is written is sealed once it has to be.
LEMMA StaysSealed ==
    ASSUME MessagesInv, UNCHANGED <<crypto, activating>>, PlainMissed
    PROVE  SealedOnly'
<1>1. activating' => crypto' = "off"
    BY DEF MessagesInv, SealedOnly
<1>2. ASSUME activating' \/ crypto' # "off"
      PROVE  /\ \A m \in Sequences : messages'[m].body = "plain" => BodyOf(m) \in missed'
             /\ \A x \in Pairs : reactions'[x].form = "plain" => ReactionOf(x) \in missed'
             /\ \A s \in Subjects : nicknames'[s].form = "plain" => NicknameOf(s) \in missed'
    <2>1. ~ Unguarded /\ (activating \/ crypto # "off")
        BY <1>2 DEF Unguarded
    <2>2. QED
        BY <2>1 DEF PlainMissed, MessagesInv, SealedOnly
<1>3. QED
    BY <1>1, <1>2 DEF SealedOnly, BodyOf, ReactionOf, NicknameOf

LEMMA AdmittedPlain ==
    ASSUME NEW form, Admits(form), NEW c, missed' = missed \cup Missed(form, c)
    PROVE  missed \subseteq missed' /\ (form = "plain" => c \in missed' \/ Unguarded)
BY DEF Admits, Missed, Unguarded

LEMMA SendStep ==
    ASSUME MessagesInv, NEW a \in Members, NEW form \in {"plain", "sealed"}, NEW k \in Requests, Send(a, form, k)
    PROVE  MessagesInv'
<1> DEFINE m == LastSequence + 1
<1>1. PICK t : t = [state |-> "live", sender |-> a, version |-> 1, last |-> Len(log) + 1, body |-> form, overdue |-> FALSE]
    OBVIOUS
<1>2. LastSequence \in Nat /\ (\A n \in Sent : n \in Nat /\ n <= LastSequence) /\ LastSequence < MaxMessages
    BY LastSent DEF Send
<1>3. m \in Sequences /\ m \notin Sent /\ m \in Nat
    BY <1>2, MessagingAssumption DEF Sequences
<1>4. messages[m].state = "absent" /\ messages[m].body = "none"
    BY <1>3 DEF Sent, MessagesInv, RowsApart
<1>5. messages' = [messages EXCEPT ![m] = t]
    BY <1>1 DEF Send, InsertMessage, NextChange
<1>6. /\ phase # "terminated" /\ k \notin answered /\ answered' = answered \cup {k} /\ k \in Nat
      /\ log' = Append(log, [message |-> m, version |-> 1, by |-> k])
      /\ keys' = keys \cup KeysOf(form, MessageKey(m, 1))
      /\ UNCHANGED <<reactions, nicknames, receipts, phase, freeze, crypto, activating>>
    BY WritableOpen DEF Send, Reserve, Complete, InsertChange, Requests
<1>7. /\ t \in MessageRow /\ t.body = form /\ t.version = 1 /\ t.last = Len(log) + 1 /\ t.state = "live"
    BY <1>1, ShapeFacts DEF MessageRow, Forms
<1> HIDE DEF m
<1>8. messages' \in [Sequences -> MessageRow] /\ messages'[m] = t /\ \A n \in Sequences \ {m} : messages'[n] = messages[n]
    BY <1>3, <1>5, <1>7, ShapeFacts
<1>9. freeze.open => m > freeze.message
    <2>1. freeze.message \in Nat
        BY ShapeFacts
    <2>2. QED
        BY <1>2, <2>1 DEF m, MessagesInv, FreezeHolds
<1>10. ChangesMessage(m, k)
    <2>1. \E v \in Nat : log' = Append(log, [message |-> m, version |-> v, by |-> k])
        BY <1>6
    <2>2. QED
        BY <1>3, <1>6, <1>7, <1>8, <1>9, <2>1 DEF ChangesMessage
<1>11. RowsApart'
    <2>1. \A n \in Sequences : messages'[n].state # "live" => messages'[n].body = "none"
        BY <1>7, <1>8 DEF MessagesInv, RowsApart
    <2>2. QED
        BY <1>6, <2>1 DEF MessagesInv, RowsApart
<1>12. KeysMatch'
    <2>1. \A c : ByBody(c)' <=> (ByBody(c) /\ c \notin BodyKey(m)) \/ c \in KeysOf(form, MessageKey(m, 1))
        BY <1>3, <1>4, <1>7, <1>8, BodyMoves
    <2>2. BodyKey(m) = {}
        BY <1>4 DEF BodyKey, KeysOf
    <2>3. \A c : (ByReaction(c)' <=> ByReaction(c)) /\ (ByNickname(c)' <=> ByNickname(c))
        BY <1>6 DEF ByReaction, ByNickname
    <2>4. \A c : Referenced(c)' <=> (Referenced(c) /\ c \notin {}) \/ c \in KeysOf(form, MessageKey(m, 1))
        BY <2>1, <2>2, <2>3 DEF Referenced
    <2>5. \A c : c \in keys' <=> (c \in keys /\ c \notin {}) \/ c \in KeysOf(form, MessageKey(m, 1))
        BY <1>6
    <2>6. QED
        BY <1>6, <2>4, <2>5, KeysMove
<1>13. PlainMissed
    <2>1. missed' = missed \cup Missed(form, BodyOf(m)) /\ Admits(form)
        BY DEF Send, m
    <2>2. missed \subseteq missed' /\ (form = "plain" => BodyOf(m) \in missed' \/ Unguarded)
        BY <2>1, AdmittedPlain
    <2>3. QED
        BY <1>6, <1>7, <1>8, <2>2 DEF PlainMissed
<1>14. QED
    BY <1>6, <1>8, <1>10, <1>11, <1>12, <1>13, LogChanged, StaysSealed, ShapeFacts DEF MessagesInv, MessagesShape

\* One row among the messages: what it becomes, and that the others stay.
LEMMA MessageBecomes ==
    ASSUME MessagesInv, NEW m \in Sequences, NEW t \in MessageRow, messages' = [messages EXCEPT ![m] = t]
    PROVE  /\ messages' \in [Sequences -> MessageRow] /\ messages'[m] = t
           /\ \A n \in Sequences \ {m} : messages'[n] = messages[n]
BY ShapeFacts

LEMMA EditStep ==
    ASSUME MessagesInv, NEW a \in Members, NEW m \in Sequences, NEW form \in {"plain", "sealed"}, NEW k \in Requests,
           Edit(a, m, form, k)
    PROVE  MessagesInv'
<1>1. PICK r : r = messages[m]
    OBVIOUS
<1>2. r \in MessageRow /\ r.state = "live" /\ r.version \in Nat /\ m \in Nat
    BY <1>1, ShapeFacts, MessagingAssumption DEF Edit, Mutable, MessageRow, Sequences
<1>3. PICK t : t = [r EXCEPT !.body = form, !.version = r.version + 1, !.last = Len(log) + 1]
    OBVIOUS
<1>4. t \in MessageRow /\ t.body = form /\ t.version = r.version + 1 /\ t.last = Len(log) + 1 /\ t.state = "live"
    <2>1. r.version + 1 \in Nat /\ Len(log) + 1 \in Nat /\ form \in Forms
        BY <1>2, ShapeFacts DEF Forms
    <2>2. \A v \in Nat, l \in Nat, f \in Forms : [r EXCEPT !.body = f, !.version = v, !.last = l] \in MessageRow
        BY <1>2 DEF MessageRow
    <2>3. t \in MessageRow
        BY <1>3, <2>1, <2>2
    <2>4. QED
        BY <1>2, <1>3, <2>3 DEF MessageRow
<1>5. messages' = [messages EXCEPT ![m] = t]
    BY <1>1, <1>3, ShapeFacts DEF Edit, UpdateMessageBody, NextChange
<1>6. /\ phase # "terminated" /\ k \notin answered /\ answered' = answered \cup {k} /\ k \in Nat
      /\ log' = Append(log, [message |-> m, version |-> r.version + 1, by |-> k])
      /\ keys' = (keys \cup KeysOf(form, MessageKey(m, r.version + 1))) \ BodyKey(m)
      /\ UNCHANGED <<reactions, nicknames, receipts, phase, freeze, crypto, activating>>
      /\ freeze.open => m > freeze.message
    BY <1>1, WritableOpen DEF Edit, Reserve, Complete, InsertChange, Requests, Mutable
<1>7. messages' \in [Sequences -> MessageRow] /\ messages'[m] = t /\ \A n \in Sequences \ {m} : messages'[n] = messages[n]
    BY <1>4, <1>5, MessageBecomes
<1>8. ChangesMessage(m, k)
    <2>1. \E v \in Nat : log' = Append(log, [message |-> m, version |-> v, by |-> k])
        <3>1. r.version + 1 \in Nat
            BY <1>2
        <3>2. QED
            BY <1>6, <3>1
    <2>2. QED
        BY <1>4, <1>6, <1>7, <2>1 DEF ChangesMessage
<1>9. RowsApart'
    <2>1. \A n \in Sequences : messages'[n].state # "live" => messages'[n].body = "none"
        BY <1>4, <1>7 DEF MessagesInv, RowsApart
    <2>2. QED
        BY <1>6, <2>1 DEF MessagesInv, RowsApart
<1>10. KeysMatch'
    <2> DEFINE add == KeysOf(form, MessageKey(m, r.version + 1))
    <2>1. /\ \A c : ByBody(c)' <=> (ByBody(c) /\ c \notin BodyKey(m)) \/ c \in add
          /\ BodyKey(m) \cap add = {}
        <3>1. r.version + 1 # r.version
            BY <1>2
        <3>2. QED
            BY <1>1, <1>4, <1>7, <3>1, BodyMoves
    <2>2. \A c : (ByReaction(c)' <=> ByReaction(c)) /\ (ByNickname(c)' <=> ByNickname(c))
        BY <1>6 DEF ByReaction, ByNickname
    <2>3. \A c : c \in BodyKey(m) => ~ ByReaction(c) /\ ~ ByNickname(c)
        BY KeysApart DEF BodyKey, KeysOf, ByReaction, ByNickname
    <2>4. \A c : c \in keys' <=> (c \in keys /\ c \notin BodyKey(m)) \/ c \in add
        BY <1>6, <2>1
    <2> HIDE DEF add
    <2>5. \A c : Referenced(c)' <=> (Referenced(c) /\ c \notin BodyKey(m)) \/ c \in add
        BY <2>1, <2>2, <2>3 DEF Referenced
    <2>6. PICK drop : drop = BodyKey(m)
        OBVIOUS
    <2>7. PICK new : new = add
        OBVIOUS
    <2>8. QED
        BY <1>6, <2>4, <2>5, <2>6, <2>7, KeysMove
<1>11. PlainMissed
    <2>1. missed' = missed \cup Missed(form, BodyOf(m)) /\ Admits(form)
        BY DEF Edit
    <2>2. missed \subseteq missed' /\ (form = "plain" => BodyOf(m) \in missed' \/ Unguarded)
        BY <2>1, AdmittedPlain
    <2>3. QED
        BY <1>4, <1>6, <1>7, <2>2 DEF PlainMissed
<1>12. QED
    BY <1>6, <1>7, <1>8, <1>9, <1>10, <1>11, LogChanged, StaysSealed, ShapeFacts DEF MessagesInv, MessagesShape

LEMMA PairParts ==
    ASSUME NEW x \in Pairs, NEW m, x[1] = m
    PROVE  x[2] \in Members /\ x = <<m, x[2]>>
BY DEF Pairs

LEMMA DeleteStep ==
    ASSUME MessagesInv, NEW a \in Members, NEW m \in Sequences, NEW k \in Requests, Delete(a, m, k)
    PROVE  MessagesInv'
<1>1. PICK r : r = messages[m]
    OBVIOUS
<1>2. r \in MessageRow /\ r.state = "live" /\ r.version \in Nat /\ m \in Nat
    BY <1>1, ShapeFacts, MessagingAssumption DEF Delete, Mutable, MessageRow, Sequences
<1>3. PICK t : t = [r EXCEPT !.state = "deleted", !.body = "none", !.version = r.version + 1, !.last = Len(log) + 1]
    OBVIOUS
<1>4. t \in MessageRow /\ t.body = "none" /\ t.version = r.version + 1 /\ t.last = Len(log) + 1 /\ t.state = "deleted"
    <2>1. r.version + 1 \in Nat /\ Len(log) + 1 \in Nat /\ "none" \in Forms
        BY <1>2, ShapeFacts DEF Forms
    <2>2. \A v \in Nat, l \in Nat, f \in Forms :
              [r EXCEPT !.state = "deleted", !.body = f, !.version = v, !.last = l] \in MessageRow
        BY <1>2 DEF MessageRow
    <2>3. t \in MessageRow
        BY <1>3, <2>1, <2>2
    <2>4. QED
        BY <1>2, <1>3, <2>3 DEF MessageRow
<1>5. messages' = [messages EXCEPT ![m] = t]
    BY <1>1, <1>3, ShapeFacts DEF Delete, TombstoneMessage, NextChange
<1>6. /\ phase # "terminated" /\ k \notin answered /\ answered' = answered \cup {k} /\ k \in Nat
      /\ log' = Append(log, [message |-> m, version |-> r.version + 1, by |-> k])
      /\ keys' = keys \ (BodyKey(m) \cup ActiveReactionKeys(m))
      /\ UNCHANGED <<nicknames, receipts, phase, freeze, crypto, activating, missed>>
      /\ freeze.open => m > freeze.message
    BY <1>1, WritableOpen DEF Delete, Reserve, Complete, InsertChange, Requests, Mutable
<1>7. messages' \in [Sequences -> MessageRow] /\ messages'[m] = t /\ \A n \in Sequences \ {m} : messages'[n] = messages[n]
    BY <1>4, <1>5, MessageBecomes
<1>8. ChangesMessage(m, k)
    <2>1. \E v \in Nat : log' = Append(log, [message |-> m, version |-> v, by |-> k])
        <3>1. r.version + 1 \in Nat
            BY <1>2
        <3>2. QED
            BY <1>6, <3>1
    <2>2. QED
        BY <1>4, <1>6, <1>7, <2>1 DEF ChangesMessage
<1>9. NoReaction \in ReactionRow /\ NoReaction.form = "none"
    BY DEF NoReaction, ReactionRow, Forms
<1>10. /\ reactions' \in [Pairs -> ReactionRow]
       /\ \A x \in Pairs : reactions'[x] = IF x[1] = m THEN NoReaction ELSE reactions[x]
    <2>1. reactions' = [x \in Pairs |-> IF x[1] = m THEN NoReaction ELSE reactions[x]]
        BY DEF Delete, TombstoneMessage, Pairs
    <2>2. QED
        BY <1>9, <2>1, ShapeFacts
<1>11. RowsApart'
    <2>1. \A n \in Sequences : messages'[n].state # "live" => messages'[n].body = "none"
        BY <1>4, <1>7 DEF MessagesInv, RowsApart
    <2>2. \A x \in Pairs : reactions'[x].form # "none" => reactions'[x] = reactions[x]
        BY <1>9, <1>10
    <2>3. QED
        BY <1>6, <2>1, <2>2 DEF MessagesInv, RowsApart
<1>12. KeysMatch'
    <2>1. \A c : ByBody(c)' <=> ByBody(c) /\ c \notin BodyKey(m)
        <3>1. r.version + 1 # r.version /\ KeysOf("none", MessageKey(m, r.version + 1)) = {}
            BY <1>2 DEF KeysOf
        <3>2. \A c : ByBody(c)' <=> (ByBody(c) /\ c \notin BodyKey(m)) \/ c \in KeysOf("none", MessageKey(m, r.version + 1))
            BY <1>1, <1>4, <1>7, <3>1, BodyMoves
        <3>3. QED
            BY <3>1, <3>2
    <2>2. PICK X \in SUBSET Pairs : X = {x \in Pairs : x[1] = m}
        OBVIOUS
    <2>3. \A c : c \in ActiveReactionKeys(m) <=> \E x \in X : reactions[x].form = "sealed" /\ c = ReactionKey(reactions[x].id)
        <3>1. ASSUME NEW c, c \in ActiveReactionKeys(m)
              PROVE  \E x \in X : reactions[x].form = "sealed" /\ c = ReactionKey(reactions[x].id)
            <4>1. PICK b \in Members : c \in ReactionKeys(<<m, b>>)
                BY <3>1 DEF ActiveReactionKeys
            <4>2. <<m, b>> \in X
                BY <2>2 DEF Pairs
            <4>3. QED
                BY <4>1, <4>2 DEF ReactionKeys, KeysOf
        <3>2. ASSUME NEW x \in X, reactions[x].form = "sealed"
              PROVE  ReactionKey(reactions[x].id) \in ActiveReactionKeys(m)
            <4>1. x[2] \in Members /\ x = <<m, x[2]>>
                BY <2>2, PairParts
            <4>2. ReactionKey(reactions[x].id) \in ReactionKeys(x)
                BY <3>2 DEF ReactionKeys, KeysOf
            <4>3. \E b \in Members : ReactionKey(reactions[x].id) \in ReactionKeys(<<m, b>>)
                BY <4>1, <4>2
            <4>4. QED
                BY <4>3 DEF ActiveReactionKeys
        <3>3. QED
            BY <3>1, <3>2
    <2>4. \A c : ByReaction(c)' <=> ByReaction(c) /\ c \notin ActiveReactionKeys(m)
        <3>1. PICK drop : drop = ActiveReactionKeys(m)
            OBVIOUS
        <3>2. PICK none : none = {}
            OBVIOUS
        <3>6. \A c : c \in none <=> \E x \in X : reactions'[x].form = "sealed" /\ c = ReactionKey(reactions'[x].id)
            BY <1>9, <1>10, <2>2, <3>2
        <3>7. ReactionsOf(X, drop) /\ ReactionsOf(X, none)'
            BY <2>3, <3>1, <3>6 DEF ReactionsOf
        <3>3. \A x \in Pairs \ X : reactions'[x] = reactions[x]
            BY <1>10, <2>2
        <3>4. \A c : ByReaction(c)' <=> (ByReaction(c) /\ c \notin drop) \/ c \in none
            BY <3>7, <3>3, ReactionsMove, Zenon
        <3>5. QED
            BY <3>1, <3>2, <3>4
    <2>5. \A c : ByNickname(c)' <=> ByNickname(c)
        BY <1>6 DEF ByNickname
    <2>6. \A c : c \in BodyKey(m) => ~ ByReaction(c) /\ ~ ByNickname(c)
        BY KeysApart DEF BodyKey, KeysOf, ByReaction, ByNickname
    <2>7. \A c : c \in ActiveReactionKeys(m) => ~ ByBody(c) /\ ~ ByNickname(c)
        BY <2>3, KeysApart DEF ByBody, ByNickname
    <2>8. PICK drop : drop = BodyKey(m) \cup ActiveReactionKeys(m)
        OBVIOUS
    <2>12. PICK none : none = {}
        OBVIOUS
    <2>9. \A c : Referenced(c)' <=> (Referenced(c) /\ c \notin drop) \/ c \in none
        BY <2>1, <2>4, <2>5, <2>6, <2>7, <2>8, <2>12 DEF Referenced
    <2>10. \A c : c \in keys' <=> (c \in keys /\ c \notin drop) \/ c \in none
        BY <1>6, <2>8, <2>12
    <2>11. QED
        BY <1>6, <2>9, <2>10, KeysMove
<1>13. PlainMissed
    <2>1. \A n \in Sequences : messages'[n].body = "plain" => messages[n].body = "plain"
        BY <1>4, <1>7
    <2>2. \A x \in Pairs : reactions'[x].form = "plain" => reactions[x].form = "plain"
        BY <1>9, <1>10
    <2>3. QED
        BY <1>6, <2>1, <2>2 DEF PlainMissed
<1>14. QED
    BY <1>6, <1>7, <1>8, <1>10, <1>11, <1>12, <1>13, LogChanged, StaysSealed, ShapeFacts DEF MessagesInv, MessagesShape

\* A message gets its last change and nothing else.
LEMMA OnlyLast ==
    ASSUME MessagesInv, NEW m \in Sequences, messages' = [messages EXCEPT ![m].last = Len(log) + 1]
    PROVE  /\ messages' \in [Sequences -> MessageRow] /\ messages'[m].last = Len(log) + 1
           /\ \A n \in Sequences : /\ messages'[n].state = messages[n].state /\ messages'[n].body = messages[n].body
                                   /\ messages'[n].version = messages[n].version
           /\ \A n \in Sequences \ {m} : messages'[n] = messages[n]
<1>1. PICK r : r = messages[m]
    OBVIOUS
<1>2. PICK t : t = [r EXCEPT !.last = Len(log) + 1]
    OBVIOUS
<1>3. r \in MessageRow /\ Len(log) + 1 \in Nat
    BY <1>1, ShapeFacts
<1>4. t \in MessageRow /\ t.last = Len(log) + 1 /\ t.state = r.state /\ t.body = r.body /\ t.version = r.version
    BY <1>2, <1>3 DEF MessageRow
<1>5. messages' = [messages EXCEPT ![m] = t]
    BY <1>1, <1>2, ShapeFacts
<1>6. QED
    BY <1>1, <1>4, <1>5, MessageBecomes

\* One reaction to a message is put, or taken away.
LEMMA ReactionChanged ==
    ASSUME MessagesInv, NEW m \in Sequences, NEW x \in Pairs, x[1] = m, NEW k, NEW q \in ReactionRow, ChangesMessage(m, k),
           messages' = [messages EXCEPT ![m].last = Len(log) + 1], reactions' = [reactions EXCEPT ![x] = q],
           NEW add, NEW drop, drop = ReactionKeys(x), add = KeysOf(q.form, ReactionKey(q.id)),
           keys' = (keys \cup add) \ drop, UNCHANGED nicknames,
           missed \subseteq missed', q.form = "plain" => ReactionOf(x) \in missed' \/ Unguarded,
           \/ q.form = "none" \/ q.id = k
           \/ q.form = "plain" /\ reactions[x].form # "none" /\ q.id = reactions[x].id
    PROVE  MessagesInv'
<1>1. /\ k \notin answered /\ answered' = answered \cup {k} /\ phase # "terminated"
      /\ UNCHANGED <<receipts, phase, freeze, crypto, activating>>
    BY DEF ChangesMessage
<1>2. reactions' \in [Pairs -> ReactionRow] /\ reactions'[x] = q /\ \A y \in Pairs \ {x} : reactions'[y] = reactions[y]
    BY ShapeFacts
<1>3. /\ messages' \in [Sequences -> MessageRow]
      /\ \A n \in Sequences : /\ messages'[n].state = messages[n].state /\ messages'[n].body = messages[n].body
                              /\ messages'[n].version = messages[n].version
    BY OnlyLast
<1>4. /\ \A y \in Pairs : reactions[y].form # "none" => reactions[y].id \in answered
      /\ \A y, z \in Pairs :
             reactions[y].form # "none" /\ reactions[z].form # "none" /\ reactions[y].id = reactions[z].id => y = z
    BY DEF MessagesInv, RowsApart
<1>5. RowsApart'
    <2>1. \A n \in Sequences : messages'[n].state # "live" => messages'[n].body = "none"
        BY <1>3 DEF MessagesInv, RowsApart
    <2>2. \A y \in Pairs : reactions'[y].form # "none" => reactions'[y].id \in answered'
        BY <1>1, <1>2, <1>4
    <2>3. ASSUME NEW y \in Pairs \ {x}, reactions'[y].form # "none", q.form # "none" PROVE reactions'[y].id # q.id
        <3>1. reactions'[y] = reactions[y] /\ reactions[y].id \in answered
            BY <1>2, <1>4, <2>3
        <3>2. QED
            BY <1>1, <1>4, <2>3, <3>1
    <2>4. \A y, z \in Pairs :
              reactions'[y].form # "none" /\ reactions'[z].form # "none" /\ reactions'[y].id = reactions'[z].id => y = z
        BY <1>2, <1>4, <2>3
    <2>5. QED
        BY <2>1, <2>2, <2>4 DEF RowsApart
<1>6. KeysMatch'
    <2>1. PICK X \in SUBSET Pairs : X = {x}
        OBVIOUS
    <2>2. \A c : c \in drop <=> \E y \in X : reactions[y].form = "sealed" /\ c = ReactionKey(reactions[y].id)
        BY <2>1 DEF ReactionKeys, KeysOf
    <2>3. \A c : c \in add <=> \E y \in X : reactions'[y].form = "sealed" /\ c = ReactionKey(reactions'[y].id)
        BY <1>2, <2>1 DEF KeysOf
    <2>4. \A c : ByReaction(c)' <=> (ByReaction(c) /\ c \notin drop) \/ c \in add
        <3>1. ReactionsOf(X, drop) /\ ReactionsOf(X, add)'
            BY <2>2, <2>3 DEF ReactionsOf
        <3>2. \A y \in Pairs \ X : reactions'[y] = reactions[y]
            BY <1>2, <2>1
        <3>3. QED
            BY <3>1, <3>2, ReactionsMove
    <2>5. \A c : ByBody(c)' <=> ByBody(c)
        BY <1>3 DEF ByBody
    <2>6. \A c : ByNickname(c)' <=> ByNickname(c)
        BY DEF ByNickname
    <2>7. \A c : c \in drop => ~ ByBody(c) /\ ~ ByNickname(c)
        BY <2>2, KeysApart DEF ByBody, ByNickname
    <2>8. \A c : c \in add => c \notin drop
        <3>1. SUFFICES ASSUME NEW c, c \in add, c \in drop PROVE FALSE
            OBVIOUS
        <3>2. q.form = "sealed" /\ c = ReactionKey(q.id)
            BY <3>1 DEF KeysOf
        <3>3. reactions[x].form = "sealed" /\ c = ReactionKey(reactions[x].id)
            BY <3>1, <2>1, <2>2
        <3>4. q.id = reactions[x].id /\ q.id = k
            BY <3>2, <3>3, KeysApart
        <3>5. QED
            BY <1>1, <1>4, <3>3, <3>4
    <2>9. \A c : c \in keys' <=> (c \in keys /\ c \notin drop) \/ c \in add
        BY <2>8
    <2>10. \A c : Referenced(c)' <=> (Referenced(c) /\ c \notin drop) \/ c \in add
        BY <2>4, <2>5, <2>6, <2>7 DEF Referenced
    <2>11. QED
        BY <1>1, <2>9, <2>10, KeysMove
<1>7. PlainMissed
    <2>1. \A y \in Pairs : reactions'[y].form = "plain" =>
              reactions[y].form = "plain" \/ ReactionOf(y) \in missed' \/ Unguarded
        BY <1>2
    <2>2. QED
        BY <1>3, <2>1 DEF PlainMissed
<1>8. QED
    BY <1>1, <1>2, <1>3, <1>5, <1>6, <1>7, LogChanged, StaysSealed, ShapeFacts DEF MessagesInv, MessagesShape

LEMMA VersionOf == ASSUME MessagesInv, NEW m \in Sequences PROVE messages[m].version \in Nat
BY ShapeFacts DEF MessageRow

\* A mutation of a live message that leaves its body alone.
LEMMA LastChanges ==
    ASSUME MessagesInv, NEW m \in Sequences, NEW k \in Requests, Reserve(k), Mutable(m), Complete(k),
           messages' = [messages EXCEPT ![m].last = NextChange], InsertChange(m, messages[m].version, k),
           UNCHANGED <<receipts, phase, freeze, crypto, activating>>
    PROVE  ChangesMessage(m, k) /\ messages' = [messages EXCEPT ![m].last = Len(log) + 1]
<1>1. messages' = [messages EXCEPT ![m].last = Len(log) + 1]
    BY DEF NextChange
<1>2. /\ messages' \in [Sequences -> MessageRow] /\ messages'[m].last = Len(log) + 1
      /\ messages'[m].state = messages[m].state /\ \A n \in Sequences \ {m} : messages'[n] = messages[n]
    BY <1>1, OnlyLast
<1>3. \E v \in Nat : log' = Append(log, [message |-> m, version |-> v, by |-> k])
    BY VersionOf DEF InsertChange
<1>4. QED
    BY <1>1, <1>2, <1>3, WritableOpen DEF ChangesMessage, Reserve, Complete, Mutable, Requests

LEMMA SetReactionStep ==
    ASSUME MessagesInv, NEW a \in Members, NEW m \in Sequences, NEW form \in {"plain", "sealed"}, NEW k \in Requests,
           SetReaction(a, m, form, k)
    PROVE  MessagesInv'
<1>1. PICK x \in Pairs : x = <<m, a>>
    BY DEF Pairs
<1>2. ChangesMessage(m, k) /\ messages' = [messages EXCEPT ![m].last = Len(log) + 1]
    BY LastChanges DEF SetReaction
<1>3. PICK q : q = [form |-> form, id |-> IF form = "plain" /\ reactions[x].form # "none" THEN reactions[x].id ELSE k]
    OBVIOUS
<1>4. reactions[x] \in ReactionRow /\ k \in Nat
    BY ShapeFacts DEF Requests
<1>5. q \in ReactionRow /\ q.form = form /\ (form = "sealed" => q.id = k)
    BY <1>3, <1>4 DEF ReactionRow, Forms
<1>6. q.id = k \/ (q.form = "plain" /\ reactions[x].form # "none" /\ q.id = reactions[x].id)
    BY <1>3
<1>7. reactions' = [reactions EXCEPT ![x] = q]
    BY <1>1, <1>3 DEF SetReaction, PutReaction
<1>8. missed \subseteq missed' /\ (q.form = "plain" => ReactionOf(x) \in missed' \/ Unguarded)
    BY <1>1, <1>5, AdmittedPlain DEF SetReaction
<1>9. PICK drop : drop = ReactionKeys(x)
    OBVIOUS
<1>10. PICK add : add = KeysOf(q.form, ReactionKey(q.id))
    OBVIOUS
<1>11. add = KeysOf(form, ReactionKey(k))
    BY <1>5, <1>10 DEF KeysOf
<1>12. keys' = (keys \cup add) \ drop /\ UNCHANGED nicknames
    BY <1>1, <1>9, <1>11 DEF SetReaction
<1>13. x[1] = m
    BY <1>1
<1>14. QED
    BY <1>2, <1>5, <1>6, <1>7, <1>8, <1>9, <1>10, <1>12, <1>13, ReactionChanged

LEMMA RemoveReactionStep ==
    ASSUME MessagesInv, NEW a \in Members, NEW m \in Sequences, NEW k \in Requests, RemoveReaction(a, m, k)
    PROVE  MessagesInv'
<1>1. PICK x \in Pairs : x = <<m, a>>
    BY DEF Pairs
<1>2. ChangesMessage(m, k) /\ messages' = [messages EXCEPT ![m].last = Len(log) + 1]
    BY LastChanges DEF RemoveReaction
<1>3. PICK q : q = NoReaction
    OBVIOUS
<1>4. q \in ReactionRow /\ q.form = "none"
    BY <1>3 DEF ReactionRow, Forms, NoReaction
<1>5. reactions' = [reactions EXCEPT ![x] = q]
    BY <1>1, <1>3 DEF RemoveReaction, DropReaction
<1>6. PICK drop : drop = ReactionKeys(x)
    OBVIOUS
<1>7. PICK add : add = KeysOf(q.form, ReactionKey(q.id))
    OBVIOUS
<1>8. add = {}
    BY <1>4, <1>7 DEF KeysOf
<1>9. keys' = (keys \cup add) \ drop /\ UNCHANGED nicknames /\ missed \subseteq missed'
    BY <1>1, <1>6, <1>8 DEF RemoveReaction
<1>10. x[1] = m
    BY <1>1
<1>11. QED
    BY <1>2, <1>4, <1>5, <1>6, <1>7, <1>9, <1>10, ReactionChanged
\* Nothing that is referenced changes.
LEMMA SameReferences ==
    ASSUME MessagesInv, UNCHANGED <<messages, reactions, nicknames, keys>>, phase = "terminated" <=> phase' = "terminated"
    PROVE  KeysMatch'
<1>1. \A c : Referenced(c)' <=> Referenced(c)
    BY DEF Referenced, ByBody, ByReaction, ByNickname
<1>2. EveryReference /\ EveryReference'
    BY ReferencesAre, PTL
<1>3. \A c : c \in References' <=> c \in References
    BY <1>1, <1>2 DEF EveryReference
<1>4. References' = References
    BY <1>3
<1>5. QED
    BY <1>4 DEF MessagesInv, KeysMatch

LEMMA SameLast == ASSUME UNCHANGED messages PROVE Sent' = Sent /\ LastSequence' = LastSequence
BY DEF Sent, LastSequence

\* The conversation stays as it was, but for the requests that are answered.
LEMMA NothingTouched ==
    ASSUME MessagesInv, UNCHANGED <<messages, reactions, log>>, answered \subseteq answered'
    PROVE  RowsApart' /\ LogInOrder'
<1>1. RowsApart'
    BY DEF MessagesInv, RowsApart
<1>2. Sent' = Sent
    BY SameLast
<1>3. LogInOrder'
    BY <1>2 DEF MessagesInv, LogInOrder
<1>4. QED
    BY <1>1, <1>3

LEMMA SameFreeze ==
    ASSUME MessagesInv, UNCHANGED <<messages, log, freeze>>, phase' = "terminated" => phase = "terminated"
    PROVE  FreezeHolds'
<1>1. LastSequence' = LastSequence
    BY SameLast
<1>2. QED
    BY <1>1 DEF MessagesInv, FreezeHolds

LEMMA SameReceipts == ASSUME MessagesInv, UNCHANGED <<messages, receipts>> PROVE ReceiptsBehind'
<1>1. LastSequence' = LastSequence
    BY SameLast
<1>2. QED
    BY <1>1 DEF MessagesInv, ReceiptsBehind

LEMMA SamePlain == ASSUME UNCHANGED <<messages, reactions, nicknames, missed>> PROVE PlainMissed
BY DEF PlainMissed

LEMMA RemoveNoReactionStep ==
    ASSUME MessagesInv, NEW a \in Members, NEW m \in Sequences, NEW k \in Requests, RemoveNoReaction(a, m, k)
    PROVE  MessagesInv'
<1>1. /\ answered' = answered \cup {k} /\ k \in Nat
      /\ UNCHANGED <<messages, reactions, nicknames, keys, log, receipts, phase, freeze, crypto, activating, missed>>
    BY DEF RemoveNoReaction, Complete, Requests
<1>2. RowsApart' /\ LogInOrder'
    BY <1>1, NothingTouched
<1>3. KeysMatch' /\ FreezeHolds' /\ ReceiptsBehind' /\ SealedOnly'
    BY <1>1, SameReferences, SameFreeze, SameReceipts, SamePlain, StaysSealed
<1>4. MessagesShape'
    BY <1>1 DEF MessagesInv, MessagesShape
<1>5. QED
    BY <1>2, <1>3, <1>4 DEF MessagesInv

LEMMA SetNicknameStep ==
    ASSUME MessagesInv, NEW s \in Subjects, NEW form \in Forms, NEW k \in Requests, SetNickname(s, form, k)
    PROVE  MessagesInv'
<1>1. PICK w : w = nicknames[s].version + 1
    OBVIOUS
<1>2. nicknames[s] \in NicknameRow /\ nicknames[s].version \in Nat
    BY ShapeFacts DEF NicknameRow
<1>3. w \in Nat /\ w # nicknames[s].version
    BY <1>1, <1>2
<1>4. PICK q : q = [form |-> form, version |-> w]
    OBVIOUS
<1>5. q \in NicknameRow /\ q.form = form /\ q.version = w
    BY <1>3, <1>4 DEF NicknameRow
<1>6. nicknames' = [nicknames EXCEPT ![s] = q]
    BY <1>1, <1>4, ShapeFacts DEF SetNickname, PutNickname
<1>7. /\ answered' = answered \cup {k} /\ k \in Nat /\ phase # "terminated"
      /\ keys' = (keys \cup KeysOf(form, NicknameKey(s, w))) \ NicknameKeys(s)
      /\ UNCHANGED <<messages, reactions, log, receipts, phase, freeze, crypto, activating>>
    BY <1>1, WritableOpen DEF SetNickname, Complete, Requests
<1>8. nicknames' \in [Subjects -> NicknameRow] /\ nicknames'[s] = q /\ \A t \in Subjects \ {s} : nicknames'[t] = nicknames[t]
    BY <1>5, <1>6, ShapeFacts
<1>9. RowsApart' /\ LogInOrder'
    BY <1>7, NothingTouched
<1>10. KeysMatch'
    <2>1. /\ \A c : ByNickname(c)' <=> (ByNickname(c) /\ c \notin NicknameKeys(s)) \/ c \in KeysOf(form, NicknameKey(s, w))
          /\ NicknameKeys(s) \cap KeysOf(form, NicknameKey(s, w)) = {}
        BY <1>3, <1>5, <1>8, NicknameMoves
    <2>2. PICK drop : drop = NicknameKeys(s)
        OBVIOUS
    <2>3. PICK add : add = KeysOf(form, NicknameKey(s, w))
        OBVIOUS
    <2>4. \A c : (ByBody(c)' <=> ByBody(c)) /\ (ByReaction(c)' <=> ByReaction(c))
        BY <1>7 DEF ByBody, ByReaction
    <2>5. \A c : c \in drop => ~ ByBody(c) /\ ~ ByReaction(c)
        BY <2>2, KeysApart DEF NicknameKeys, KeysOf, ByBody, ByReaction
    <2>6. \A c : c \in keys' <=> (c \in keys /\ c \notin drop) \/ c \in add
        BY <1>7, <2>1, <2>2, <2>3
    <2>7. \A c : ByNickname(c)' <=> (ByNickname(c) /\ c \notin drop) \/ c \in add
        BY <2>1, <2>2, <2>3
    <2>8. \A c : Referenced(c)' <=> (Referenced(c) /\ c \notin drop) \/ c \in add
        BY <2>4, <2>5, <2>7 DEF Referenced
    <2>9. QED
        BY <1>7, <2>6, <2>8, KeysMove
<1>11. FreezeHolds' /\ ReceiptsBehind'
    BY <1>7, SameFreeze, SameReceipts
<1>12. SealedOnly'
    <2>1. missed' = missed \cup Missed(form, NicknameOf(s)) /\ (form = "none" \/ Admits(form))
        BY DEF SetNickname
    <2>2. missed \subseteq missed' /\ (form = "plain" => NicknameOf(s) \in missed' \/ Unguarded)
        BY <2>1, AdmittedPlain
    <2>3. PlainMissed
        BY <1>5, <1>7, <1>8, <2>2 DEF PlainMissed
    <2>4. QED
        BY <1>7, <2>3, StaysSealed
<1>13. MessagesShape'
    BY <1>7, <1>8 DEF MessagesInv, MessagesShape
<1>14. QED
    BY <1>9, <1>10, <1>11, <1>12, <1>13 DEF MessagesInv

LEMMA ReceiptStep ==
    ASSUME MessagesInv, NEW a \in Readers, NEW type, NEW through \in Sequences, Receipt(a, type, through)
    PROVE  MessagesInv'
<1>1. PICK r : r = receipts[a]
    OBVIOUS
<1>2. r \in ReceiptOfMember /\ r.delivered \in Nat /\ r.read \in Nat /\ r.read <= r.delivered /\ r.delivered <= LastSequence
    BY <1>1, ShapeFacts DEF ReceiptOfMember, MessagesInv, ReceiptsBehind
<1>3. through \in Nat /\ through <= LastSequence
    BY MessagingAssumption DEF Receipt, Sequences
<1>4. PICK q : q = UpsertReceipt(r, type, through)
    OBVIOUS
<1>5. /\ q \in ReceiptOfMember /\ q.read <= q.delivered /\ q.delivered <= LastSequence
    <2>1. /\ q.delivered = IF r.delivered < through THEN through ELSE r.delivered
          /\ q.read = IF type = "read" THEN IF r.read < through THEN through ELSE r.read ELSE r.read
        BY <1>4 DEF UpsertReceipt, Latest
    <2>2. q.delivered \in Nat /\ q.read \in Nat /\ q.read <= q.delivered /\ q.delivered <= LastSequence
        BY <1>2, <1>3, <2>1
    <2>3. q = [delivered |-> q.delivered, read |-> q.read]
        BY <1>4 DEF UpsertReceipt
    <2>4. QED
        BY <2>2, <2>3 DEF ReceiptOfMember
<1>6. receipts' = [receipts EXCEPT ![a] = q]
    BY <1>1, <1>4, ShapeFacts DEF Receipt
<1>7. UNCHANGED <<messages, reactions, nicknames, keys, log, answered, phase, freeze, crypto, activating, missed>>
    BY DEF Receipt
<1>8. receipts' \in [Readers -> ReceiptOfMember] /\ receipts'[a] = q /\ \A b \in Readers \ {a} : receipts'[b] = receipts[b]
    BY <1>5, <1>6, ShapeFacts
<1>9. LastSequence' = LastSequence
    BY <1>7, SameLast
<1>10. ReceiptsBehind'
    BY <1>5, <1>8, <1>9 DEF MessagesInv, ReceiptsBehind
<1>11. RowsApart' /\ LogInOrder' /\ KeysMatch' /\ FreezeHolds' /\ SealedOnly'
    BY <1>7, NothingTouched, SameReferences, SameFreeze, SamePlain, StaysSealed
<1>12. MessagesShape'
    BY <1>7, <1>8 DEF MessagesInv, MessagesShape
<1>13. QED
    BY <1>10, <1>11, <1>12 DEF MessagesInv

LEMMA EditWindowClosesStep ==
    ASSUME MessagesInv, NEW m \in Sequences, EditWindowCloses(m)
    PROVE  MessagesInv'
<1>1. PICK r : r = messages[m]
    OBVIOUS
<1>2. r \in MessageRow
    BY <1>1, ShapeFacts
<1>3. PICK t : t = [r EXCEPT !.overdue = TRUE]
    OBVIOUS
<1>4. t \in MessageRow /\ t.state = r.state /\ t.body = r.body /\ t.version = r.version /\ t.last = r.last
    <2>1. \A b \in BOOLEAN : [r EXCEPT !.overdue = b] \in MessageRow
        BY <1>2 DEF MessageRow
    <2>2. t \in MessageRow
        BY <1>3, <2>1
    <2>3. QED
        BY <1>2, <1>3, <2>2 DEF MessageRow
<1>5. messages' = [messages EXCEPT ![m] = t]
    BY <1>1, <1>3, ShapeFacts DEF EditWindowCloses
<1>6. UNCHANGED <<reactions, nicknames, keys, log, answered, receipts, phase, freeze, crypto, activating, missed>>
    BY DEF EditWindowCloses
<1>7. messages' \in [Sequences -> MessageRow] /\ messages'[m] = t /\ \A n \in Sequences \ {m} : messages'[n] = messages[n]
    BY <1>4, <1>5, MessageBecomes
<1>8. \A n \in Sequences : /\ messages'[n].state = messages[n].state /\ messages'[n].body = messages[n].body
                           /\ messages'[n].version = messages[n].version /\ messages'[n].last = messages[n].last
    BY <1>1, <1>4, <1>7
<1>9. Sent' = Sent
    BY <1>8 DEF Sent
<1>10. LastSequence' = LastSequence
    BY <1>9 DEF LastSequence
<1>11. RowsApart'
    BY <1>6, <1>8 DEF MessagesInv, RowsApart
<1>12. LogInOrder'
    <2>1. \A n \in Sent : n \in Sequences
        BY DEF Sent
    <2>2. QED
        BY <1>6, <1>8, <1>9, <2>1 DEF MessagesInv, LogInOrder
<1>13. KeysMatch'
    <2>1. \A c : Referenced(c)' <=> Referenced(c)
        BY <1>6, <1>8 DEF Referenced, ByBody, ByReaction, ByNickname
    <2>2. EveryReference /\ EveryReference'
        BY ReferencesAre, PTL
    <2>3. \A c : c \in References' <=> c \in References
        BY <2>1, <2>2 DEF EveryReference
    <2>4. References' = References
        BY <2>3
    <2>5. QED
        BY <1>6, <2>4 DEF MessagesInv, KeysMatch
<1>14. FreezeHolds' /\ ReceiptsBehind'
    BY <1>6, <1>10 DEF MessagesInv, FreezeHolds, ReceiptsBehind
<1>15. PlainMissed
    BY <1>6, <1>8 DEF PlainMissed
<1>16. QED
    BY <1>6, <1>7, <1>11, <1>12, <1>13, <1>14, <1>15, StaysSealed DEF MessagesInv, MessagesShape

\* The partnership or its group changes, and the conversation does not.
LEMMA AroundStep ==
    ASSUME MessagesInv, UNCHANGED <<messages, reactions, nicknames, keys, log, answered, receipts>>,
           freeze' \in [open : BOOLEAN, message : Nat, change : Nat], FreezeHolds', SealedOnly', KeysMatch'
    PROVE  MessagesInv'
BY NothingTouched, SameReceipts DEF MessagesInv, MessagesShape

LEMMA InitiateBreakupStep == ASSUME MessagesInv, InitiateBreakup PROVE MessagesInv'
<1>1. /\ freeze' = [open |-> TRUE, message |-> LastSequence, change |-> Len(log)] /\ phase = "active" /\ phase' = "breakup"
      /\ UNCHANGED <<messages, reactions, nicknames, keys, log, answered, receipts, crypto, activating, missed>>
    BY DEF InitiateBreakup
<1>2. LastSequence \in Nat /\ Len(log) \in Nat /\ LastSequence' = LastSequence
    BY <1>1, LastSent, ShapeFacts, SameLast
<1>3. freeze' \in [open : BOOLEAN, message : Nat, change : Nat] /\ freeze'.message = LastSequence /\ freeze'.change = Len(log)
    BY <1>1, <1>2
<1>4. FreezeHolds'
    BY <1>1, <1>2, <1>3 DEF FreezeHolds
<1>5. SealedOnly' /\ KeysMatch'
    BY <1>1, SamePlain, StaysSealed, SameReferences
<1>6. QED
    BY <1>1, <1>3, <1>4, <1>5, AroundStep

LEMMA NoBreakupHolds == NoBreakup \in [open : BOOLEAN, message : Nat, change : Nat] /\ ~ NoBreakup.open
BY DEF NoBreakup

LEMMA CloseBreakupStep == ASSUME MessagesInv, CloseBreakup PROVE MessagesInv'
<1>1. /\ freeze' = NoBreakup /\ phase = "breakup" /\ phase' = "active"
      /\ UNCHANGED <<messages, reactions, nicknames, keys, log, answered, receipts, crypto, activating, missed>>
    BY DEF CloseBreakup
<1>2. FreezeHolds' /\ freeze' \in [open : BOOLEAN, message : Nat, change : Nat]
    BY <1>1, NoBreakupHolds DEF FreezeHolds
<1>3. SealedOnly' /\ KeysMatch'
    BY <1>1, SamePlain, StaysSealed, SameReferences
<1>4. QED
    BY <1>1, <1>2, <1>3, AroundStep

LEMMA TerminateStep == ASSUME MessagesInv, Terminate PROVE MessagesInv'
<1>1. /\ freeze' = NoBreakup /\ phase # "terminated" /\ phase' = "terminated"
      /\ UNCHANGED <<messages, reactions, nicknames, keys, log, answered, receipts, crypto, activating, missed>>
    BY DEF Terminate
<1>2. FreezeHolds' /\ freeze' \in [open : BOOLEAN, message : Nat, change : Nat]
    BY <1>1, NoBreakupHolds DEF FreezeHolds
<1>3. SealedOnly'
    BY <1>1, SamePlain, StaysSealed
<1>4. KeysMatch'
    <2>1. References' = References
        BY <1>1 DEF References, BodyKey, ReactionKeys, NicknameKeys
    <2>2. QED
        BY <1>1, <2>1 DEF MessagesInv, KeysMatch
<1>5. QED
    BY <1>1, <1>2, <1>3, <1>4, AroundStep

LEMMA ChangeDeletionStep == ASSUME MessagesInv, ChangeDeletion PROVE MessagesInv'
<1>1. /\ phase # "terminated" /\ phase' # "terminated"
      /\ UNCHANGED <<messages, reactions, nicknames, keys, log, answered, receipts, freeze, crypto, activating, missed>>
    BY DEF ChangeDeletion
<1>2. freeze' \in [open : BOOLEAN, message : Nat, change : Nat]
    BY <1>1, ShapeFacts
<1>3. FreezeHolds' /\ SealedOnly' /\ KeysMatch'
    BY <1>1, SameFreeze, SamePlain, StaysSealed, SameReferences
<1>4. QED
    BY <1>1, <1>2, <1>3, AroundStep

\* A statement that finds nothing plain in its snapshot has missed nothing yet.
LEMMA NothingPlain ==
    ASSUME PlainContent = {}
    PROVE  /\ \A m \in Sequences : messages[m].body # "plain"
           /\ \A x \in Pairs : reactions[x].form # "plain"
           /\ \A s \in Subjects : nicknames[s].form # "plain"
<1>1. ASSUME NEW m \in Sequences, messages[m].body = "plain" PROVE FALSE
    <2>1. BodyOf(m) \in PlainContent
        BY <1>1 DEF PlainContent
    <2>2. QED
        BY <2>1
<1>2. ASSUME NEW x \in Pairs, reactions[x].form = "plain" PROVE FALSE
    <2>1. ReactionOf(x) \in PlainContent
        BY <1>2 DEF PlainContent, Pairs
    <2>2. QED
        BY <2>1
<1>3. ASSUME NEW s \in Subjects, nicknames[s].form = "plain" PROVE FALSE
    <2>1. NicknameOf(s) \in PlainContent
        BY <1>3 DEF PlainContent
    <2>2. QED
        BY <2>1
<1>4. QED
    BY <1>1, <1>2, <1>3

LEMMA CryptoStep ==
    ASSUME MessagesInv, BeginActivation \/ ActivateCrypto \/ AbandonActivation \/ ChangeGroup
    PROVE  MessagesInv'
<1>1. UNCHANGED <<messages, reactions, nicknames, keys, log, answered, receipts, phase, freeze>>
    BY DEF BeginActivation, ActivateCrypto, AbandonActivation, ChangeGroup
<1>2. freeze' \in [open : BOOLEAN, message : Nat, change : Nat]
    BY <1>1, ShapeFacts
<1>3. SealedOnly'
    <2>1. CASE BeginActivation
        <3>1. crypto' = "off"
            BY <2>1 DEF BeginActivation
        <3>2. /\ \A m \in Sequences : messages'[m].body # "plain"
              /\ \A x \in Pairs : reactions'[x].form # "plain"
              /\ \A s \in Subjects : nicknames'[s].form # "plain"
            BY <1>1, <2>1, NothingPlain DEF BeginActivation
        <3>3. QED
            BY <3>1, <3>2 DEF SealedOnly
    <2>2. CASE ActivateCrypto
        BY <1>1, <2>2 DEF ActivateCrypto, MessagesInv, SealedOnly, BodyOf, ReactionOf, NicknameOf
    <2>3. CASE AbandonActivation
        BY <2>3 DEF AbandonActivation, MessagesInv, SealedOnly
    <2>4. CASE ChangeGroup
        BY <1>1, <2>4 DEF ChangeGroup, MessagesInv, SealedOnly, BodyOf, ReactionOf, NicknameOf
    <2>5. QED
        BY <2>1, <2>2, <2>3, <2>4
<1>4. FreezeHolds' /\ KeysMatch'
    BY <1>1, SameFreeze, SameReferences
<1>5. QED
    BY <1>1, <1>2, <1>3, <1>4, AroundStep

LEMMA DeleteMessagingContentStep == ASSUME MessagesInv, DeleteMessagingContent PROVE MessagesInv'
<1>1. /\ messages' = [m \in Sequences |-> [messages[m] EXCEPT !.state = "absent", !.body = "none"]]
      /\ reactions' = [x \in Pairs |-> NoReaction]
      /\ nicknames' = [s \in Subjects |-> [nicknames[s] EXCEPT !.form = "none"]]
      /\ log' = <<>> /\ receipts' = [a \in Readers |-> [delivered |-> 0, read |-> 0]]
      /\ phase = "terminated" /\ UNCHANGED <<keys, answered, phase, freeze, crypto, activating, missed>>
    BY DEF DeleteMessagingContent, Pairs
<1>2. /\ messages' \in [Sequences -> MessageRow]
      /\ \A m \in Sequences : messages'[m].state = "absent" /\ messages'[m].body = "none"
    <2>1. \A r \in MessageRow, f \in Forms, z \in {"absent", "live", "deleted"} :
              /\ [r EXCEPT !.state = z, !.body = f] \in MessageRow
              /\ [r EXCEPT !.state = z, !.body = f].state = z /\ [r EXCEPT !.state = z, !.body = f].body = f
        BY DEF MessageRow
    <2>2. \A m \in Sequences : messages[m] \in MessageRow
        BY ShapeFacts
    <2>3. \A m \in Sequences : /\ messages'[m] \in MessageRow
                               /\ messages'[m].state = "absent" /\ messages'[m].body = "none"
        BY <1>1, <2>1, <2>2 DEF Forms
    <2>4. messages' = [m \in Sequences |-> messages'[m]]
        BY <1>1
    <2>5. QED
        BY <2>3, <2>4
<1>3. reactions' \in [Pairs -> ReactionRow] /\ \A x \in Pairs : reactions'[x].form = "none"
    BY <1>1 DEF NoReaction, ReactionRow, Forms
<1>4. nicknames' \in [Subjects -> NicknameRow] /\ \A s \in Subjects : nicknames'[s].form = "none"
    <2>1. \A r \in NicknameRow, f \in Forms : [r EXCEPT !.form = f] \in NicknameRow /\ [r EXCEPT !.form = f].form = f
        BY DEF NicknameRow
    <2>2. \A s \in Subjects : nicknames[s] \in NicknameRow
        BY ShapeFacts
    <2>3. \A s \in Subjects : nicknames'[s] \in NicknameRow /\ nicknames'[s].form = "none"
        BY <1>1, <2>1, <2>2 DEF Forms
    <2>4. nicknames' = [s \in Subjects |-> nicknames'[s]]
        BY <1>1
    <2>5. QED
        BY <2>3, <2>4
<1>5. receipts' \in [Readers -> ReceiptOfMember] /\ \A a \in Readers : receipts'[a].delivered = 0 /\ receipts'[a].read = 0
    BY <1>1 DEF ReceiptOfMember
<1>6. log' \in Seq(LogRow) /\ Len(log') = 0
    <2>1. log' = <<>>
        BY <1>1
    <2>2. \A z : z = <<>> => z \in Seq(LogRow) /\ Len(z) = 0
        OBVIOUS
    <2>3. QED
        BY <2>1, <2>2
<1>7. Sent' = {} /\ LastSequence' = 0
    BY <1>2 DEF Sent, LastSequence
<1>8. MessagesShape'
    BY <1>1, <1>2, <1>3, <1>4, <1>5, <1>6, ShapeFacts DEF MessagesShape
<1>9. RowsApart'
    BY <1>2, <1>3 DEF RowsApart
<1>10. KeysMatch'
    <2>1. \A c : ~ Referenced(c)'
        BY <1>2, <1>3, <1>4 DEF Referenced, ByBody, ByReaction, ByNickname
    <2>2. EveryReference'
        BY ReferencesAre, PTL
    <2>3. \A c : c \notin References'
        BY <2>1, <2>2 DEF EveryReference
    <2>4. QED
        BY <1>1, <2>3 DEF KeysMatch
<1>11. LogInOrder' /\ FreezeHolds'
    <2>1. 1 .. Len(log') = {}
        BY <1>6
    <2>2. LogInOrder'
        BY <1>7, <2>1 DEF LogInOrder
    <2>3. ~ freeze'.open
        BY <1>1 DEF MessagesInv, FreezeHolds
    <2>4. QED
        BY <2>2, <2>3 DEF FreezeHolds
<1>12. ReceiptsBehind'
    BY <1>5, <1>7 DEF ReceiptsBehind
<1>13. SealedOnly'
    <2>1. PlainMissed
        BY <1>1, <1>2, <1>3, <1>4 DEF PlainMissed
    <2>2. QED
        BY <1>1, <2>1, StaysSealed
<1>14. QED
    BY <1>8, <1>9, <1>10, <1>11, <1>12, <1>13 DEF MessagesInv

LEMMA DeleteCryptoStateStep == ASSUME MessagesInv, DeleteCryptoState PROVE MessagesInv'
<1>1. /\ phase = "terminated" /\ References = {} /\ keys' = {}
      /\ UNCHANGED <<messages, reactions, nicknames, log, answered, receipts, phase, freeze, crypto, activating, missed>>
    BY DEF DeleteCryptoState
<1>2. References' = References
    BY <1>1 DEF References, BodyKey, ReactionKeys, NicknameKeys
<1>3. KeysMatch'
    BY <1>1, <1>2 DEF KeysMatch
<1>4. RowsApart' /\ LogInOrder' /\ FreezeHolds' /\ ReceiptsBehind' /\ SealedOnly'
    BY <1>1, NothingTouched, SameFreeze, SameReceipts, SamePlain, StaysSealed
<1>5. MessagesShape'
    BY <1>1 DEF MessagesInv, MessagesShape
<1>6. QED
    BY <1>3, <1>4, <1>5 DEF MessagesInv

LEMMA MessagesStep == MessagesInv /\ [MessagingNext]_messagingVars => MessagesInv'
<1> SUFFICES ASSUME MessagesInv, [MessagingNext]_messagingVars PROVE MessagesInv'
    OBVIOUS
<1>1. CASE UNCHANGED messagingVars
    <2>1. UNCHANGED <<messages, reactions, nicknames, keys, log, answered, receipts, phase, freeze, crypto, activating,
                      missed>>
        BY <1>1 DEF messagingVars
    <2>2. FreezeHolds' /\ SealedOnly' /\ KeysMatch'
        BY <2>1, SameFreeze, SamePlain, StaysSealed, SameReferences
    <2>3. freeze' \in [open : BOOLEAN, message : Nat, change : Nat]
        BY <2>1, ShapeFacts
    <2>4. QED
        BY <2>1, <2>2, <2>3, AroundStep
<1>2. ASSUME NEW k \in Requests, NEW a \in Members, NEW form \in {"plain", "sealed"}, NEW m \in Sequences,
             Send(a, form, k) \/ Edit(a, m, form, k) \/ SetReaction(a, m, form, k)
      PROVE  MessagesInv'
    BY <1>2, SendStep, EditStep, SetReactionStep
<1>3. ASSUME NEW k \in Requests, NEW a \in Members, NEW m \in Sequences,
             Delete(a, m, k) \/ RemoveReaction(a, m, k) \/ RemoveNoReaction(a, m, k)
      PROVE  MessagesInv'
    BY <1>3, DeleteStep, RemoveReactionStep, RemoveNoReactionStep
<1>4. ASSUME NEW k \in Requests, NEW form \in Forms, NEW s \in Subjects, SetNickname(s, form, k) PROVE MessagesInv'
    BY <1>4, SetNicknameStep
<1>5. ASSUME NEW a \in Readers, NEW type \in {"delivered", "read"}, NEW through \in Sequences, Receipt(a, type, through)
      PROVE  MessagesInv'
    BY <1>5, ReceiptStep
<1>6. ASSUME NEW m \in Sequences, EditWindowCloses(m) PROVE MessagesInv'
    BY <1>6, EditWindowClosesStep
<1>7. CASE \/ InitiateBreakup \/ CloseBreakup \/ ChangeDeletion \/ Terminate
           \/ BeginActivation \/ ActivateCrypto \/ AbandonActivation \/ ChangeGroup
           \/ DeleteMessagingContent \/ DeleteCryptoState
    BY <1>7, InitiateBreakupStep, CloseBreakupStep, ChangeDeletionStep, TerminateStep, CryptoStep,
       DeleteMessagingContentStep, DeleteCryptoStateStep
<1>8. ASSUME NEW k \in Requests, NEW a \in Members, NEW form \in {"plain", "sealed"}, Send(a, form, k) PROVE MessagesInv'
    BY <1>8, SendStep
<1>9. QED
    BY <1>1, <1>2, <1>3, <1>4, <1>5, <1>6, <1>7, <1>8 DEF MessagingNext

\* What the members see can be read and is theirs: the keys of a living partnership are
\* exactly those its encrypted messages, reactions and nicknames need, once encryption is
\* required nothing is plain but what was written while the statement that requires it waited for
\* the partnership, what was sent before a breakup has not changed since, the last change of a
\* message is the last the log has of it, no request has changed the conversation twice and no
\* receipt runs ahead (MessagingService).
THEOREM KeysMatchWhatIsSealed == MessagingSpec => []MessagesAccounted
<1>1. MessagingSpec => []MessagesInv
    BY MessagesInvInit, MessagesStep, PTL DEF MessagingSpec
<1>2. QED
    BY <1>1, MessagesInvAccounted, PTL

-----------------------------------------------------------------------------
(* TalkActions: what holds in every state, besides TalkAccounted.           *)

Version      == [by : Nat, act : Acts \cup {"send"}, version : Nat, text : Nat, deleted : BOOLEAN, reaction : Nat]
PressedOperation     == [act : Acts, key : Nat, version : Nat]
PanelShape   == [shown : Nat, cursor : Nat, step : {"rest", "request", "refresh", "merge"},
                 doing : PressedOperation \cup {NoOperation}, read : Nat, pull : {"none", "listed", "loaded"},
                 upto : Nat, loaded : Nat]

\* An operation carries the version of the state its member was looking at.
Grounded(op) ==
    op \in PressedOperation /\ op.key \in 1 .. Len(basis) /\ op.version = versions[basis[op.key]].version

TalkShape ==
    /\ versions \in Seq(Version) /\ Len(versions) > 0
    /\ basis \in Seq(Nat) /\ \A k \in 1 .. Len(basis) : basis[k] \in 1 .. Len(versions)
    /\ \A op \in waiting : Grounded(op)
    /\ executed \subseteq Nat /\ overtaken \in BOOLEAN
    /\ talk \in PanelShape /\ talk.shown \in 1 .. Len(versions)
    /\ talk.step = "request" => Grounded(talk.doing)

\* The text changes only with the version, the message only while it is there, and with the
\* key of what changed it.
VersionsInOrder ==
    /\ versions[1].act = "send" /\ versions[1].by = Elsewhere
    /\ \A i, j \in 1 .. Len(versions) : i < j =>
           /\ versions[i].version <= versions[j].version /\ ~ versions[i].deleted
           /\ versions[i].version = versions[j].version => versions[i].text = versions[j].text
           /\ versions[j].by = Elsewhere \/ versions[i].by # versions[j].by
    /\ \A i \in 1 .. Len(versions) :
           /\ versions[i].by # Elsewhere => versions[i].by \in executed
           /\ versions[i].act = "edit" /\ versions[i].by # Elsewhere =>
                  versions[i].by \in 1 .. Len(basis) /\ versions[basis[versions[i].by]].text = versions[i - 1].text

\* What is shown is not older than what has been pulled.
PanelCurrent ==
    /\ talk.cursor \in 1 .. Len(versions)
    /\ talk.step = "merge" => talk.read \in 1 .. Len(versions)
    /\ talk.pull # "none" => talk.upto \in 1 .. Len(versions)
    /\ talk.pull = "loaded" => talk.loaded \in talk.upto .. Len(versions)
    /\ ~ overtaken => talk.cursor <= talk.shown

TalkInv == TalkShape /\ VersionsInOrder /\ PanelCurrent

LEMMA TalkInvInit == TalkInit => TalkInv
<1> SUFFICES ASSUME TalkInit PROVE TalkInv
    OBVIOUS
<1> DEFINE v == [by |-> Elsewhere, act |-> "send", version |-> 1, text |-> 1, deleted |-> FALSE, reaction |-> 0]
<1>1. v \in Version /\ v.act = "send" /\ v.by = Elsewhere
    BY DEF Version, Elsewhere
<1>2. versions = <<v>>
    BY DEF TalkInit
<1> HIDE DEF v
<1>3. versions \in Seq(Version) /\ Len(versions) = 1 /\ versions[1] = v
    BY <1>1, <1>2
<1>4. talk \in PanelShape /\ talk.shown = 1 /\ talk.cursor = 1 /\ talk.step = "rest" /\ talk.pull = "none"
    BY DEF TalkInit, PanelShape
<1>5. TalkShape
    <2>1. basis = <<>> /\ waiting = {} /\ executed = {}
        BY DEF TalkInit
    <2>2. overtaken \in BOOLEAN
        BY DEF TalkInit
    <2>3. basis \in Seq(Nat) /\ Len(basis) = 0
        BY <2>1
    <2>4. QED
        BY <1>3, <1>4, <2>1, <2>2, <2>3 DEF TalkShape
<1>6. VersionsInOrder
    BY <1>1, <1>3 DEF VersionsInOrder
<1>7. PanelCurrent
    BY <1>3, <1>4 DEF PanelCurrent
<1>8. QED
    BY <1>5, <1>6, <1>7 DEF TalkInv

LEMMA TalkInvAccounted == TalkInv => TalkAccounted
<1> SUFFICES ASSUME TalkInv PROVE TalkAccounted
    OBVIOUS
<1>1. DOMAIN versions = 1 .. Len(versions)
    BY DEF TalkInv, TalkShape
<1>2. (Atrest /\ talk.pull = "none" /\ talk.cursor = Now /\ ~ overtaken) => talk.shown = Now
    BY DEF TalkInv, TalkShape, PanelCurrent, Now
<1>3. QED
    BY <1>1, <1>2 DEF TalkInv, VersionsInOrder, TalkAccounted

-----------------------------------------------------------------------------
(* Records: what an EXCEPT leaves of a version and of the panel.            *)

LEMMA RowEdited ==
    ASSUME NEW t \in Version, NEW n \in Nat, NEW r, r = [t EXCEPT !.version = t.version + 1, !.text = n]
    PROVE  r \in Version /\ r.by = t.by /\ r.act = t.act /\ r.version = t.version + 1
<1>1. t.version + 1 \in Nat
    BY DEF Version
<1>2. \A k \in Nat : [t EXCEPT !.version = k, !.text = n] \in Version
    BY DEF Version
<1>3. r \in Version
    BY <1>1, <1>2
<1>4. r.by = t.by /\ r.act = t.act /\ r.version = t.version + 1
    BY DEF Version
<1>5. QED
    BY <1>3, <1>4

LEMMA RowDeleted ==
    ASSUME NEW t \in Version, NEW r, r = [t EXCEPT !.version = t.version + 1, !.deleted = TRUE, !.reaction = 0]
    PROVE  r \in Version /\ r.by = t.by /\ r.act = t.act /\ r.version = t.version + 1
<1>1. t.version + 1 \in Nat
    BY DEF Version
<1>2. \A k \in Nat, d \in BOOLEAN : [t EXCEPT !.version = k, !.deleted = d, !.reaction = 0] \in Version
    BY DEF Version
<1>3. r \in Version
    BY <1>1, <1>2
<1>4. r.by = t.by /\ r.act = t.act /\ r.version = t.version + 1
    BY DEF Version
<1>5. QED
    BY <1>3, <1>4

LEMMA ChangedRow ==
    ASSUME TalkInv, NEW op \in PressedOperation
    PROVE  /\ Changed(op) \in Version /\ Changed(op).by = op.key /\ Changed(op).act = op.act
           /\ op.act \in {"edit", "delete"} => Changed(op).version = versions[Now].version + 1
           /\ op.act \notin {"edit", "delete"} => /\ Changed(op).version = versions[Now].version
                                                  /\ Changed(op).text = versions[Now].text
<1>1. Now \in Nat /\ Now \in 1 .. Len(versions) /\ versions[Now] \in Version
    BY DEF TalkInv, TalkShape, Now
<1> DEFINE s == versions[Now]
           t == [s EXCEPT !.by = op.key, !.act = op.act]
<1>2. /\ t \in Version /\ t.by = op.key /\ t.act = op.act /\ t.version = s.version /\ t.text = s.text
    BY <1>1 DEF Version, PressedOperation
<1>3. Changed(op) = CASE op.act = "edit"    -> [t EXCEPT !.version = t.version + 1, !.text = Now + 1]
                      [] op.act = "delete"  -> [t EXCEPT !.version = t.version + 1, !.deleted = TRUE, !.reaction = 0]
                      [] op.act = "react"   -> [t EXCEPT !.reaction = Now + 1]
                      [] OTHER              -> [t EXCEPT !.reaction = 0]
    BY DEF Changed
<1> HIDE DEF t
<1>4. CASE op.act = "edit"
    <2>1. Changed(op) = [t EXCEPT !.version = t.version + 1, !.text = Now + 1]
        BY <1>3, <1>4
    <2>2. Now + 1 \in Nat
        BY <1>1
    <2>3. Changed(op) \in Version /\ Changed(op).by = t.by /\ Changed(op).act = t.act /\ Changed(op).version = t.version + 1
        BY <1>2, <2>1, <2>2, RowEdited
    <2>4. QED
        BY <1>2, <1>4, <2>3
<1>5. CASE op.act = "delete"
    <2>1. Changed(op) = [t EXCEPT !.version = t.version + 1, !.deleted = TRUE, !.reaction = 0]
        BY <1>3, <1>5
    <2>2. Changed(op) \in Version /\ Changed(op).by = t.by /\ Changed(op).act = t.act /\ Changed(op).version = t.version + 1
        BY <1>2, <2>1, RowDeleted
    <2>3. QED
        BY <1>2, <1>5, <2>2
<1>6. CASE op.act = "react"
    BY <1>1, <1>2, <1>3, <1>6, SMTT(20) DEF Version
<1>7. CASE op.act = "unreact"
    BY <1>1, <1>2, <1>3, <1>7, SMTT(20) DEF Version
<1>8. QED
    BY <1>4, <1>5, <1>6, <1>7 DEF PressedOperation, Acts

VersionsGrow ==
    /\ versions' \in Seq(Version) /\ Len(versions') >= Len(versions)
    /\ \A i \in 1 .. Len(versions) : versions'[i] = versions[i]

\* A permitted operation of the panel, or of another device, gives the message its next state.
LEMMA VersionAppended ==
    ASSUME TalkInv, NEW op \in PressedOperation, Permitted(op), versions' = Append(versions, Changed(op)), basis' = basis,
           \/ op.key = Elsewhere /\ executed' = executed
           \/ Grounded(op) /\ op.key \notin executed /\ executed' = executed \cup {op.key}
    PROVE  VersionsGrow /\ VersionsInOrder'
<1> DEFINE v == Changed(op)
           n == Len(versions)
<1>1. /\ v \in Version /\ v.by = op.key /\ v.act = op.act
      /\ op.act \in {"edit", "delete"} => v.version = versions[n].version + 1
      /\ op.act \notin {"edit", "delete"} => v.version = versions[n].version /\ v.text = versions[n].text
    BY ChangedRow DEF Now
<1> HIDE DEF v
<1>2. /\ versions' \in Seq(Version) /\ Len(versions') = n + 1 /\ versions'[n + 1] = v /\ n \in Nat /\ n > 0
      /\ \A i \in 1 .. n : versions'[i] = versions[i] /\ versions[i] \in Version
    BY <1>1 DEF v, TalkInv, TalkShape
<1>20. v.version \in Nat /\ \A i \in 1 .. n : versions[i].version \in Nat
    BY <1>1, <1>2 DEF Version
<1>21. versions[n].version <= v.version /\ (versions[n].version = v.version => versions[n].text = v.text)
    <2>1. n \in 1 .. n
        BY <1>2
    <2>2. QED
        BY <1>1, <1>20, <2>1
<1>3. VersionsGrow
    BY <1>2 DEF VersionsGrow
<1>4. ASSUME NEW i \in 1 .. n
      PROVE  /\ ~ versions[i].deleted /\ versions[i].version <= versions[n].version /\ versions[n].version <= v.version
             /\ versions[i].version = versions[n].version => versions[i].text = versions[n].text
             /\ op.key # Elsewhere => versions[i].by # op.key
    <2>1. ~ versions[i].deleted
        BY <1>2 DEF Permitted, Now, TalkInv, VersionsInOrder
    <2>2. versions[i].version <= versions[n].version
          /\ (versions[i].version = versions[n].version => versions[i].text = versions[n].text)
        <3>1. CASE i = n
            BY <1>2, <1>20, <3>1
        <3>2. CASE i # n
            BY <1>2, <3>2 DEF TalkInv, VersionsInOrder
        <3>3. QED
            BY <3>1, <3>2
    <2>3. versions[n].version <= v.version
        BY <1>21
    <2>4. op.key # Elsewhere => versions[i].by # op.key
        BY DEF TalkInv, VersionsInOrder
    <2>5. QED
        BY <2>1, <2>2, <2>3, <2>4
<1>5. ASSUME NEW i \in 1 .. n PROVE versions[i].version = v.version => versions[i].text = v.text
    <2>1. n \in 1 .. n
        BY <1>2
    <2>2. QED
        BY <1>4, <1>20, <1>21, <2>1
<1>6. ASSUME NEW i \in 1 .. n, NEW j \in 1 .. n + 1, i < j
      PROVE  /\ versions'[i].version <= versions'[j].version /\ ~ versions'[i].deleted
             /\ versions'[i].version = versions'[j].version => versions'[i].text = versions'[j].text
             /\ versions'[j].by = Elsewhere \/ versions'[i].by # versions'[j].by
    <2>1. CASE j = n + 1
        <3>1. versions[i].version <= v.version
            <4>1. n \in 1 .. n
                BY <1>2
            <4>2. QED
                BY <1>4, <1>20, <4>1
        <3>2. QED
            BY <1>1, <1>2, <1>4, <1>5, <2>1, <3>1
    <2>2. CASE j # n + 1
        BY <1>2, <1>6, <2>2 DEF TalkInv, VersionsInOrder
    <2>3. QED
        BY <2>1, <2>2
<1>7. ASSUME v.act = "edit", v.by # Elsewhere
      PROVE  v.by \in 1 .. Len(basis) /\ versions'[basis[v.by]].text = versions'[n].text
    <2>1. Grounded(op) /\ op.act = "edit" /\ op.key = v.by
        BY <1>1, <1>7
    <2>2. op.version = versions[n].version /\ basis[v.by] \in 1 .. n
        BY <2>1 DEF Permitted, Now, Grounded, TalkInv, TalkShape
    <2>3. versions[basis[v.by]].version = versions[n].version
        BY <2>1, <2>2 DEF Grounded
    <2>4. versions[basis[v.by]].text = versions[n].text
        BY <1>4, <2>2, <2>3
    <2>5. QED
        BY <1>2, <2>1, <2>2, <2>4 DEF Grounded
<1>8. ASSUME NEW i \in 1 .. n + 1
      PROVE  /\ versions'[i].by # Elsewhere => versions'[i].by \in executed'
             /\ versions'[i].act = "edit" /\ versions'[i].by # Elsewhere =>
                    /\ versions'[i].by \in 1 .. Len(basis)
                    /\ versions'[basis[versions'[i].by]].text = versions'[i - 1].text
    <2>1. CASE i = n + 1
        <3>1. versions'[i] = v /\ i - 1 = n
            BY <1>2, <2>1
        <3>2. v.by # Elsewhere => v.by \in executed'
            BY <1>1
        <3>3. QED
            BY <1>7, <3>1, <3>2
    <2>2. CASE i # n + 1
        <3>1. versions'[i] = versions[i] /\ (versions[i].by # Elsewhere => versions[i].by \in executed)
            BY <1>2, <2>2 DEF TalkInv, VersionsInOrder
        <3>2. ASSUME versions[i].act = "edit", versions[i].by # Elsewhere
              PROVE  /\ versions[i].by \in 1 .. Len(basis)
                     /\ versions'[basis[versions[i].by]].text = versions'[i - 1].text
            <4>1. /\ versions[i].by \in 1 .. Len(basis) /\ i # 1
                  /\ versions[basis[versions[i].by]].text = versions[i - 1].text
                BY <1>2, <2>2, <3>2 DEF TalkInv, VersionsInOrder
            <4>2. basis[versions[i].by] \in 1 .. n /\ i - 1 \in 1 .. n
                BY <1>2, <2>2, <4>1 DEF TalkInv, TalkShape
            <4>3. QED
                BY <1>2, <4>1, <4>2
        <3>3. QED
            BY <3>1, <3>2
    <2>3. QED
        BY <2>1, <2>2
<1>9. versions'[1] = versions[1]
    BY <1>2
<1>10. VersionsInOrder'
    <2>1. \A i, j \in 1 .. Len(versions') : i < j => i \in 1 .. n
        BY <1>2
    <2>2. versions'[1].act = "send" /\ versions'[1].by = Elsewhere
        BY <1>9 DEF TalkInv, VersionsInOrder
    <2>3. \A i, j \in 1 .. Len(versions') : i < j =>
              /\ versions'[i].version <= versions'[j].version /\ ~ versions'[i].deleted
              /\ versions'[i].version = versions'[j].version => versions'[i].text = versions'[j].text
              /\ versions'[j].by = Elsewhere \/ versions'[i].by # versions'[j].by
        BY <1>2, <1>6, <2>1
    <2>4. \A i \in 1 .. Len(versions') :
              /\ versions'[i].by # Elsewhere => versions'[i].by \in executed'
              /\ versions'[i].act = "edit" /\ versions'[i].by # Elsewhere =>
                     /\ versions'[i].by \in 1 .. Len(basis')
                     /\ versions'[basis'[versions'[i].by]].text = versions'[i - 1].text
        BY <1>2, <1>8
    <2>5. QED
        BY <2>2, <2>3, <2>4 DEF VersionsInOrder
<1>11. QED
    BY <1>3, <1>10

LEMMA VersionsSame ==
    ASSUME TalkInv, UNCHANGED <<versions, executed, basis>>
    PROVE  VersionsGrow /\ VersionsInOrder' /\ executed' \subseteq Nat
<1>1. VersionsGrow
    BY DEF VersionsGrow, TalkInv, TalkShape
<1>2. VersionsInOrder'
    BY DEF TalkInv, VersionsInOrder
<1>3. QED
    BY <1>1, <1>2 DEF TalkInv, TalkShape

LEMMA OperationHonoured ==
    ASSUME TalkInv, NEW op, Grounded(op), Honoured(op), Honours(op), basis' = basis
    PROVE  VersionsGrow /\ VersionsInOrder' /\ executed' \subseteq Nat
<1>1. op \in PressedOperation /\ op.key \in Nat
    BY DEF Grounded, PressedOperation
<1>2. executed' = executed \cup {op.key} /\ executed' \subseteq Nat
    BY <1>1 DEF Honours, TalkInv, TalkShape
<1>3. CASE versions' = versions
    <2>1. VersionsGrow
        BY <1>3 DEF VersionsGrow, TalkInv, TalkShape
    <2>2. VersionsInOrder'
        BY <1>2, <1>3 DEF TalkInv, VersionsInOrder
    <2>3. QED
        BY <1>2, <2>1, <2>2
<1>4. CASE versions' # versions
    <2>1. op.key \notin executed /\ versions' = Append(versions, Changed(op))
        BY <1>4 DEF Honours
    <2>2. Permitted(op)
        BY <2>1 DEF Honoured
    <2>3. QED
        BY <1>1, <1>2, <2>1, <2>2, VersionAppended
<1>5. QED
    BY <1>3, <1>4

\* The rest of the state stays, or becomes what is asked of it, while the message goes on.
LEMMA TalkGoesOn ==
    ASSUME TalkInv, VersionsGrow, VersionsInOrder', executed' \subseteq Nat, overtaken' \in BOOLEAN, basis' = basis,
           waiting' \subseteq waiting \cup {op \in PressedOperation : Grounded(op)}, talk' \in PanelShape,
           talk'.shown \in 1 .. Len(versions'), talk'.step = "request" => Grounded(talk'.doing),
           PanelCurrent'
    PROVE  TalkInv'
<1>1. ASSUME NEW op, Grounded(op)
      PROVE  op \in PressedOperation /\ op.key \in 1 .. Len(basis) /\ op.version = versions'[basis[op.key]].version
    BY <1>1 DEF Grounded, VersionsGrow, TalkInv, TalkShape
<1>2. \A op \in waiting' : Grounded(op)'
    BY <1>1 DEF TalkInv, TalkShape, Grounded
<1>3. talk'.step = "request" => Grounded(talk.doing)'
    BY <1>1 DEF Grounded
<1>4. \A k \in 1 .. Len(basis) : basis[k] \in 1 .. Len(versions')
    BY DEF VersionsGrow, TalkInv, TalkShape
<1>5. TalkShape'
    BY <1>2, <1>3, <1>4 DEF TalkInv, TalkShape, VersionsGrow
<1>6. QED
    BY <1>5 DEF TalkInv

\* Nothing of the message, and the panel takes the next step.
LEMMA PanelTurns ==
    ASSUME TalkInv, UNCHANGED <<versions, basis, executed>>, overtaken' \in BOOLEAN,
           waiting' \subseteq waiting \cup {op \in PressedOperation : Grounded(op)}, talk' \in PanelShape,
           talk'.shown \in 1 .. Len(versions), talk'.step = "request" => Grounded(talk'.doing),
           talk'.cursor \in 1 .. Len(versions),
           talk'.step = "merge" => talk'.read \in 1 .. Len(versions),
           talk'.pull # "none" => talk'.upto \in 1 .. Len(versions),
           talk'.pull = "loaded" => talk'.loaded \in talk'.upto .. Len(versions),
           ~ overtaken' => talk'.cursor <= talk'.shown
    PROVE  TalkInv'
<1>1. VersionsGrow /\ VersionsInOrder' /\ executed' \subseteq Nat
    BY VersionsSame
<1>2. PanelCurrent'
    BY DEF PanelCurrent
<1>3. talk'.shown \in 1 .. Len(versions')
    OBVIOUS
<1>4. QED
    BY <1>1, <1>2, <1>3, TalkGoesOn

LEMMA VersionsGone ==
    ASSUME TalkInv, VersionsGrow
    PROVE  \A n \in 1 .. Len(versions) : n \in 1 .. Len(versions')
BY DEF VersionsGrow, TalkInv, TalkShape

\* The message goes on, and of the panel only what it is about changes.
LEMMA RequestEnds ==
    ASSUME TalkInv, VersionsGrow, VersionsInOrder', executed' \subseteq Nat, overtaken' = overtaken, basis' = basis,
           waiting' \subseteq waiting \cup {op \in PressedOperation : Grounded(op)},
           \/ talk' = talk \/ talk' = [talk EXCEPT !.step = "refresh"] \/ talk' = Settles(talk)
    PROVE  TalkInv'
<1>1. /\ talk' \in PanelShape /\ talk'.shown = talk.shown /\ talk'.cursor = talk.cursor /\ talk'.pull = talk.pull
      /\ talk'.upto = talk.upto /\ talk'.loaded = talk.loaded
      /\ talk'.step \in {"request", "merge"} => talk' = talk
    <2>1. CASE talk' = talk
        BY <2>1 DEF TalkInv, TalkShape
    <2>2. CASE talk' = [talk EXCEPT !.step = "refresh"]
        BY <2>2 DEF TalkInv, TalkShape, PanelShape
    <2>3. CASE talk' = Settles(talk)
        BY <2>3 DEF Settles, TalkInv, TalkShape, PanelShape
    <2>4. QED
        BY <2>1, <2>2, <2>3
<1>2. \A n \in 1 .. Len(versions) : n \in 1 .. Len(versions')
    BY VersionsGone
<1>3. Len(versions') >= Len(versions) /\ Len(versions) \in Nat /\ Len(versions') \in Nat
    BY DEF VersionsGrow, TalkInv, TalkShape
<1>4. PanelCurrent'
    BY <1>1, <1>2, <1>3 DEF PanelCurrent, TalkInv, PanelShape
<1>5. talk'.shown \in 1 .. Len(versions') /\ (talk'.step = "request" => Grounded(talk'.doing)) /\ overtaken' \in BOOLEAN
    BY <1>1, <1>2 DEF TalkInv, TalkShape
<1>6. QED
    BY <1>1, <1>4, <1>5, TalkGoesOn

-----------------------------------------------------------------------------
(* Steps: the panel presses, asks, merges and pulls.                        *)

LEMMA Pressed == ASSUME TalkInv, NEW act \in Acts, Press(act) PROVE TalkInv'
<1> DEFINE n == Len(basis) + 1
           op == [act |-> act, key |-> n, version |-> versions[talk.shown].version]
<1>1. /\ basis' = Append(basis, talk.shown) /\ UNCHANGED <<versions, executed, overtaken>>
      /\ waiting' \subseteq waiting \cup {op} /\ (talk' = talk \/ talk' = [talk EXCEPT !.step = "request", !.doing = op])
      /\ talk.step = "rest"
    BY DEF Press, Turns, Trouble, Atrest
<1>2. versions[talk.shown] \in Version /\ talk.shown \in 1 .. Len(versions) /\ Len(basis) \in Nat
    BY DEF TalkInv, TalkShape
<1>3. op \in PressedOperation /\ op.key = n /\ op.version = versions[talk.shown].version
    BY <1>2 DEF PressedOperation, Version
<1> HIDE DEF op
<1>4. /\ basis' \in Seq(Nat) /\ Len(basis') = n /\ basis'[n] = talk.shown
      /\ \A k \in 1 .. Len(basis) : basis'[k] = basis[k]
    BY <1>1, <1>2 DEF TalkInv, TalkShape
<1>5. ASSUME NEW o, Grounded(o) \/ o = op
      PROVE  o \in PressedOperation /\ o.key \in 1 .. Len(basis') /\ o.version = versions[basis'[o.key]].version
    BY <1>2, <1>3, <1>4, <1>5, SMTT(20) DEF Grounded
<1>6. /\ talk' \in PanelShape /\ talk'.shown = talk.shown /\ talk'.cursor = talk.cursor /\ talk'.pull = talk.pull
      /\ talk'.upto = talk.upto /\ talk'.loaded = talk.loaded /\ talk'.step # "merge"
      /\ talk'.step = "request" => talk'.doing = op
    BY <1>1, <1>3 DEF TalkInv, TalkShape, PanelShape
<1>7. TalkShape'
    <2>1. \A o \in waiting' : Grounded(o)'
        BY <1>1, <1>5 DEF TalkInv, TalkShape, Grounded
    <2>2. talk'.step = "request" => Grounded(talk.doing)'
        BY <1>1, <1>5, <1>6 DEF Grounded
    <2>3. \A k \in 1 .. Len(basis') : basis'[k] \in 1 .. Len(versions')
        BY <1>1, <1>2, <1>4 DEF TalkInv, TalkShape
    <2>4. QED
        BY <1>1, <1>4, <1>6, <2>1, <2>2, <2>3 DEF TalkInv, TalkShape
<1>8. VersionsInOrder'
    BY <1>1, <1>2, <1>4, SMTT(20) DEF TalkInv, VersionsInOrder
<1>9. PanelCurrent'
    BY <1>1, <1>6 DEF TalkInv, PanelCurrent
<1>10. QED
    BY <1>7, <1>8, <1>9 DEF TalkInv

LEMMA RequestStep ==
    ASSUME TalkInv, Answered \/ TurnedDown \/ RequestLost \/ RequestFails
    PROVE  TalkInv'
<1>1. talk.step = "request" /\ Grounded(talk.doing) /\ talk.doing \in PressedOperation
    BY DEF Answered, TurnedDown, RequestLost, RequestFails, TalkInv, TalkShape, Grounded
<1>2. VersionsGrow /\ VersionsInOrder' /\ executed' \subseteq Nat /\ basis' = basis
    BY <1>1, OperationHonoured, VersionsSame DEF Answered, TurnedDown, RequestLost, RequestFails
<1>3. overtaken' = overtaken /\ waiting' \subseteq waiting \cup {op \in PressedOperation : Grounded(op)}
    BY <1>1 DEF Answered, TurnedDown, RequestLost, RequestFails
<1>4. talk' = [talk EXCEPT !.step = "refresh"] \/ talk' = Settles(talk)
    BY DEF Answered, TurnedDown, RequestLost, RequestFails, Turns
<1>5. QED
    BY <1>2, <1>3, <1>4, RequestEnds

LEMMA OperationReplayed == ASSUME TalkInv, NEW op \in waiting, ReplayOperation(op) PROVE TalkInv'
<1>1. Grounded(op)
    BY DEF TalkInv, TalkShape
<1>2. VersionsGrow /\ VersionsInOrder' /\ executed' \subseteq Nat /\ basis' = basis
    BY <1>1, OperationHonoured, VersionsSame DEF ReplayOperation
<1>3. QED
    BY <1>2, RequestEnds DEF ReplayOperation

LEMMA OtherDevice == ASSUME TalkInv, NEW act \in Acts, ChangedElsewhere(act) PROVE TalkInv'
<1> DEFINE op == [act |-> act, key |-> Elsewhere, version |-> versions[Now].version]
<1>1. versions[Now] \in Version
    BY DEF TalkInv, TalkShape, Now
<1>2. op \in PressedOperation /\ op.key = Elsewhere
    BY <1>1 DEF PressedOperation, Version, Elsewhere
<1>3. Permitted(op) /\ versions' = Append(versions, Changed(op)) /\ UNCHANGED <<talk, basis, waiting, executed, overtaken>>
    BY DEF ChangedElsewhere
<1> HIDE DEF op
<1>4. VersionsGrow /\ VersionsInOrder'
    BY <1>2, <1>3, VersionAppended
<1>5. executed' \subseteq Nat
    BY <1>3 DEF TalkInv, TalkShape
<1>6. QED
    BY <1>3, <1>4, <1>5, RequestEnds

LEMMA RefreshStep == ASSUME TalkInv, ReadMessage \/ MergeMessage PROVE TalkInv'
<1>1. /\ talk \in PanelShape /\ Len(versions) \in 1 .. Len(versions) /\ Len(versions) \in Nat
    BY DEF TalkInv, TalkShape
<1>2. CASE ReadMessage
    <2>1. talk' = [talk EXCEPT !.step = "merge", !.read = Len(versions)] /\ UNCHANGED <<versions, basis, waiting, executed, overtaken>>
        BY <1>2 DEF ReadMessage, Turns, Now
    <2>2. talk' \in PanelShape
        BY <1>1, <2>1 DEF PanelShape
    <2>3. QED
        BY <1>1, <2>1, <2>2, PanelTurns DEF PanelShape, TalkInv, TalkShape, PanelCurrent
<1>3. CASE MergeMessage
    <2> DEFINE t == [talk EXCEPT !.shown = talk.read]
    <2>1. t \in PanelShape /\ t.shown = talk.read /\ t.cursor = talk.cursor /\ t.pull = talk.pull
          /\ t.upto = talk.upto /\ t.loaded = talk.loaded
        BY <1>1 DEF PanelShape
    <2>2. talk' = Settles(t) /\ overtaken' = (overtaken \/ talk.read < talk.cursor) /\ UNCHANGED <<versions, basis, waiting, executed>>
        BY <1>3 DEF MergeMessage, Turns
    <2> HIDE DEF t
    <2>3. /\ talk' \in PanelShape /\ talk'.shown = talk.read /\ talk'.cursor = talk.cursor /\ talk'.pull = talk.pull
          /\ talk'.upto = talk.upto /\ talk'.loaded = talk.loaded /\ talk'.step = "rest"
        BY <2>1, <2>2 DEF Settles, PanelShape
    <2>4. talk.read \in 1 .. Len(versions)
        BY <1>3 DEF MergeMessage, TalkInv, PanelCurrent
    <2>5. ~ overtaken' => talk'.cursor <= talk'.shown
        <3>1. ~ overtaken' => ~ (talk.read < talk.cursor)
            BY <2>2
        <3>2. talk.read \in Nat /\ talk.cursor \in Nat
            BY <1>1 DEF PanelShape
        <3>3. talk.read \in Nat /\ talk.cursor \in Nat /\ ~ (talk.read < talk.cursor) => talk.cursor <= talk.read
            OBVIOUS
        <3>4. QED
            BY <2>3, <3>1, <3>2, <3>3, Zenon
    <2>6. overtaken' \in BOOLEAN
        BY <2>2
    <2>7. QED
        BY <1>1, <2>2, <2>3, <2>4, <2>5, <2>6, PanelTurns DEF TalkInv, PanelCurrent
<1>4. QED
    BY <1>2, <1>3

LEMMA PullStep == ASSUME TalkInv, ListChanges \/ LoadCanonical \/ CommitPull PROVE TalkInv'
<1>1. /\ talk \in PanelShape /\ Len(versions) \in 1 .. Len(versions) /\ Len(versions) \in Nat
      /\ overtaken \in BOOLEAN
    BY DEF TalkInv, TalkShape
<1>2. /\ talk' \in PanelShape /\ talk'.step = talk.step /\ talk'.doing = talk.doing /\ talk'.read = talk.read
      /\ UNCHANGED <<versions, basis, waiting, executed>>
    <2>1. CASE ListChanges
        BY <1>1, <2>1 DEF ListChanges, Turns, PanelShape, Now
    <2>2. CASE LoadCanonical
        BY <1>1, <2>2 DEF LoadCanonical, Turns, PanelShape, Now
    <2>3. CASE CommitPull
        BY <1>1, <2>3 DEF CommitPull, Turns, PanelShape
    <2>4. QED
        BY <2>1, <2>2, <2>3
<1>3. CASE ListChanges
    <2>1. /\ talk'.shown = talk.shown /\ talk'.cursor = talk.cursor /\ talk'.pull = "listed"
          /\ talk'.upto = Len(versions) /\ overtaken' = overtaken
        BY <1>1, <1>3 DEF ListChanges, Turns, PanelShape, Now
    <2>2. QED
        BY <1>1, <1>2, <2>1, PanelTurns DEF TalkInv, TalkShape, PanelCurrent
<1>4. CASE LoadCanonical
    <2>1. /\ talk'.shown = talk.shown /\ talk'.cursor = talk.cursor /\ talk'.pull = "loaded" /\ talk.pull = "listed"
          /\ talk'.upto = talk.upto /\ talk'.loaded = Len(versions) /\ overtaken' = overtaken
        BY <1>1, <1>4 DEF LoadCanonical, Turns, PanelShape, Now
    <2>2. talk'.loaded \in talk'.upto .. Len(versions) /\ talk'.upto \in 1 .. Len(versions)
        BY <1>1, <2>1 DEF TalkInv, PanelCurrent
    <2>3. QED
        BY <1>1, <1>2, <2>1, <2>2, PanelTurns DEF TalkInv, TalkShape, PanelCurrent
<1>5. CASE CommitPull
    <2>1. /\ talk'.shown = talk.loaded /\ talk'.cursor = talk.upto /\ talk'.pull = "none" /\ talk.pull = "loaded"
          /\ overtaken' = FALSE
        BY <1>1, <1>5 DEF CommitPull, Turns, PanelShape
    <2>2. talk.upto \in 1 .. Len(versions) /\ talk.loaded \in talk.upto .. Len(versions)
        BY <2>1 DEF TalkInv, PanelCurrent
    <2>3. talk'.shown \in 1 .. Len(versions) /\ talk'.cursor \in 1 .. Len(versions) /\ talk'.cursor <= talk'.shown
        BY <2>1, <2>2
    <2>4. QED
        BY <1>1, <1>2, <2>1, <2>3, PanelTurns DEF TalkInv, TalkShape, PanelCurrent
<1>6. QED
    BY <1>3, <1>4, <1>5

LEMMA TalkStep == TalkInv /\ [TalkNext]_talkVars => TalkInv'
<1> SUFFICES ASSUME TalkInv, [TalkNext]_talkVars PROVE TalkInv'
    OBVIOUS
<1>1. ASSUME UNCHANGED talkVars PROVE TalkInv'
    BY <1>1, VersionsSame, RequestEnds DEF talkVars
<1>2. QED
    BY <1>1, Pressed, OtherDevice, RequestStep, RefreshStep, PullStep, OperationReplayed DEF TalkNext

\* However late an operation of the panel arrives, and whoever else changes the message: none
\* changes it twice, an edit replaces exactly the text its member was looking at, and nothing
\* follows a deletion (editMessage, deleteMessage, react and their replay), for any number of
\* states, keys and troubles.
THEOREM TalkNeverRepeats == TalkSpec => []TalkAccounted
<1>1. TalkSpec => []TalkInv
    BY TalkInvInit, TalkStep, PTL DEF TalkSpec
<1>2. QED
    BY <1>1, TalkInvAccounted, PTL

-----------------------------------------------------------------------------
(* ReadReceipts: the furthest of two positions, and the newest one shown.   *)

LEMMA FurthestOfTwo ==
    ASSUME NEW m \in Nat, NEW n \in Nat
    PROVE  Furthest(m, n) = IF m < n THEN n ELSE m
<1> DEFINE S == {m, n}
           r == IF m < n THEN n ELSE m
<1>1. r \in S /\ \A y \in S : r >= y
    OBVIOUS
<1>2. \A x \in S : (\A y \in S : x >= y) => x = r
    OBVIOUS
<1>3. Max(S) \in S /\ \A y \in S : Max(S) >= y
    BY <1>1 DEF Max
<1>4. Max(S) = r
    BY <1>2, <1>3
<1>5. QED
    BY <1>4 DEF Furthest, Greatest

LEMMA GreatestShown ==
    ASSUME NEW n \in Nat, NEW S, S \subseteq 1 .. n
    PROVE  /\ Greatest(S) \in 0 .. n /\ (Greatest(S) # 0 => Greatest(S) \in S)
           /\ \A i \in S : i <= Greatest(S)
<1>1. CASE S = {}
    BY <1>1 DEF Greatest
<1>2. CASE S # {}
    <2> DEFINE T == {n - i : i \in S}
    <2>1. T \subseteq Nat /\ T # {}
        <3>1. ASSUME NEW i \in S PROVE n - i \in Nat
            OBVIOUS
        <3>2. T \subseteq Nat
            BY <3>1
        <3>3. PICK i \in S : TRUE
            BY <1>2
        <3>4. n - i \in T
            OBVIOUS
        <3>5. QED
            BY <3>2, <3>4
    <2>2. PICK x \in T : \A y \in T : x <= y
        BY <2>1, FirstNatural
    <2>3. PICK m \in S : x = n - m
        BY <2>2
    <2>4. \A i \in S : m >= i
        <3>1. ASSUME NEW i \in S PROVE m >= i
            <4>1. n - i \in T
                BY <3>1
            <4>2. n - m <= n - i
                BY <2>2, <2>3, <4>1
            <4>3. m \in Nat /\ i \in Nat
                OBVIOUS
            <4>4. QED
                BY <4>2, <4>3
        <3>2. QED
            BY <3>1
    <2>5. Max(S) \in S /\ \A y \in S : Max(S) >= y
        BY <2>4 DEF Max
    <2>6. Greatest(S) = Max(S)
        BY <1>2 DEF Greatest
    <2>7. \A i \in S : i \in 1 .. n
        OBVIOUS
    <2> HIDE DEF T
    <2>8. Max(S) \in 1 .. n
        BY <2>5, <2>7
    <2>9. Max(S) \in 0 .. n /\ \A i \in S : i <= Max(S)
        BY <2>5, <2>7, <2>8
    <2>10. QED
        BY <2>5, <2>6, <2>9
<1>3. QED
    BY <1>1, <1>2

-----------------------------------------------------------------------------
(* ReadReceipts: what holds in every state, besides ReceiptsAccounted.      *)

ThreadLength == Len(thread)
ReceiptPair == [delivered : Nat, read : Nat]

\* A message of the partner's the device has or one the cursor jumped over; one that was
\* looked at; and one this panel shows.
Held(i)    == thread[i] = "partner" => i \in jumped \/ \E p \in Panels : i \in panels[p].shown
Seen(i)    == thread[i] = "partner" => i \in jumped \cup lookedAt
OwnsUpTo(s, i) == thread[i] = "partner" => i \in jumped \cup s.shown

\* What a row tells, on the server, on the device or in the hands of a panel.
RowSound(r) ==
    /\ r \in ReceiptPair /\ r.read <= r.delivered /\ r.delivered <= ThreadLength
    /\ \A i \in 1 .. r.delivered : Held(i)
    /\ \A i \in 1 .. r.read : Seen(i)

ReadingPanel ==
    [step : {"closed", "opening", "opened", "rest", "pulled", "checked", "paged", "settled", "deliver", "read"},
     watched : BOOLEAN, shown : SUBSET Nat, cursor : Nat, from : Nat, top : Nat, fetched : Nat,
     summary : ReceiptPair, previous : ReceiptPair, telling : ReceiptPair]

Loading(s) == s.step \in {"closed", "opening", "opened"}

\* Before its first load a panel shows own messages only.  Afterwards it has everything up to
\* its cursor, and up to the newest message it shows.
PanelReady(s) ==
    /\ s \in ReadingPanel
    /\ s.shown \subseteq 1 .. ThreadLength /\ {s.cursor, s.from, s.top, s.fetched} \subseteq 0 .. ThreadLength
    /\ RowSound(s.summary) /\ RowSound(s.previous) /\ RowSound(s.telling)
    /\ Loading(s) => \A i \in s.shown : thread[i] # "partner"
    /\ s.step = "opened" => s.from <= s.fetched
    /\ ~ Loading(s) =>
           /\ \A i \in 1 .. s.cursor : OwnsUpTo(s, i)
           /\ \A i \in 1 .. s.top : OwnsUpTo(s, i)
           /\ \A m \in s.shown : \A i \in 1 .. m : OwnsUpTo(s, i)
           /\ s.step = "pulled" => \A i \in 1 .. s.from : OwnsUpTo(s, i)

PanelSound(s) == PanelReady(s) /\ (s.watched => s.shown \subseteq lookedAt)

ReceiptsShape ==
    /\ thread \in Seq({"own", "partner"}) /\ panels \in [Panels -> ReadingPanel]
    /\ RowSound(receipt) /\ RowSound(saved)

ReceiptsInv == ReceiptsShape /\ \A p \in Panels : PanelSound(panels[p])

LEMMA ReceiptsInvAccounted == ReceiptsInv => ReceiptsAccounted
<1> SUFFICES ASSUME ReceiptsInv PROVE ReceiptsAccounted
    OBVIOUS
<1> DEFINE had == UNION {panels[p].shown : p \in Panels}
<1>1. ASSUME NEW row \in {receipt, saved}
      PROVE  FromPartner(row.delivered) \subseteq had \cup jumped /\ FromPartner(row.read) \subseteq lookedAt \cup jumped
    BY DEF ReceiptsInv, ReceiptsShape, RowSound, Held, Seen, FromPartner
<1>2. receipt.read <= receipt.delivered /\ receipt.delivered <= Len(thread)
    BY DEF ReceiptsInv, ReceiptsShape, RowSound, ThreadLength
<1>3. QED
    BY <1>1, <1>2 DEF ReceiptsAccounted

LEMMA NothingToldSound ==
    ASSUME thread \in Seq({"own", "partner"}) PROVE RowSound(NothingTold)
<1>1. NothingTold \in ReceiptPair /\ NothingTold.read = 0 /\ NothingTold.delivered = 0 /\ ThreadLength \in Nat
    BY DEF NothingTold, ReceiptPair, ThreadLength
<1>2. 1 .. 0 = {}
    OBVIOUS
<1>3. QED
    BY <1>1, <1>2 DEF RowSound

LEMMA ReceiptsInvInit == ReceiptsInit => ReceiptsInv
<1> SUFFICES ASSUME ReceiptsInit PROVE ReceiptsInv
    OBVIOUS
<1>1. thread \in Seq({"own", "partner"}) /\ ThreadLength = 1
    BY DEF ReceiptsInit, ThreadLength
<1>2. RowSound(NothingTold) /\ NothingTold \in ReceiptPair
    BY <1>1, NothingToldSound DEF RowSound
<1>3. /\ ClosedPanel \in ReadingPanel /\ ClosedPanel.step = "closed" /\ ClosedPanel.shown = {}
      /\ ClosedPanel.cursor = 0 /\ ClosedPanel.from = 0 /\ ClosedPanel.top = 0 /\ ClosedPanel.fetched = 0
      /\ ClosedPanel.summary = NothingTold /\ ClosedPanel.previous = NothingTold /\ ClosedPanel.telling = NothingTold
    BY <1>2 DEF ClosedPanel, ReadingPanel
<1>4. PanelSound(ClosedPanel)
    BY <1>1, <1>2, <1>3 DEF PanelSound, PanelReady, Loading
<1>5. panels = [p \in Panels |-> ClosedPanel] /\ receipt = NothingTold /\ saved = NothingTold
    BY DEF ReceiptsInit
<1>6. QED
    BY <1>1, <1>2, <1>3, <1>4, <1>5 DEF ReceiptsInv, ReceiptsShape

-----------------------------------------------------------------------------
(* What was held, seen or told stays so.                                    *)

\* Messages are added, and a message of the partner's that is shown stays so.
ThreadGoes ==
    /\ thread' \in Seq({"own", "partner"}) /\ Len(thread) <= Len(thread')
    /\ \A i \in 1 .. Len(thread) : thread'[i] = thread[i]
    /\ lookedAt \subseteq lookedAt' /\ jumped \subseteq jumped'
    /\ \A p \in Panels : \A i \in 1 .. Len(thread) :
           thread[i] = "partner" /\ i \in panels[p].shown => i \in panels'[p].shown

LEMMA RowKept ==
    ASSUME ReceiptsShape, ThreadGoes, NEW r, RowSound(r)
    PROVE  RowSound(r)'
<1>1. ThreadLength \in Nat /\ ThreadLength' \in Nat /\ ThreadLength <= ThreadLength' /\ r \in ReceiptPair /\ r.read \in Nat /\ r.delivered \in Nat
    BY DEF ThreadGoes, ThreadLength, ReceiptsShape, RowSound, ReceiptPair
<1>2. ASSUME NEW i \in 1 .. r.delivered PROVE Held(i)'
    <2>1. i \in 1 .. Len(thread) /\ Held(i)
        BY <1>1, <1>2 DEF RowSound, ThreadLength
    <2>2. QED
        BY <2>1 DEF Held, ThreadGoes
<1>3. ASSUME NEW i \in 1 .. r.read PROVE Seen(i)'
    <2>1. i \in 1 .. Len(thread) /\ Seen(i)
        BY <1>1, <1>3 DEF RowSound, ThreadLength
    <2>2. QED
        BY <2>1 DEF Seen, ThreadGoes
<1>4. QED
    BY <1>1, <1>2, <1>3 DEF RowSound

LEMMA OwnsKept ==
    ASSUME ReceiptsShape, ThreadGoes, NEW s, NEW i \in 1 .. ThreadLength, OwnsUpTo(s, i)
    PROVE  OwnsUpTo(s, i)'
BY DEF OwnsUpTo, ThreadGoes, ThreadLength

LEMMA ReadyKept ==
    ASSUME ReceiptsShape, ThreadGoes, NEW s, PanelReady(s)
    PROVE  PanelReady(s)'
<1>1. ThreadLength \in Nat /\ ThreadLength' \in Nat /\ ThreadLength <= ThreadLength'
    BY DEF ThreadGoes, ThreadLength, ReceiptsShape
<1>2. s \in ReadingPanel /\ s.shown \subseteq 1 .. ThreadLength /\ {s.cursor, s.from, s.top, s.fetched} \subseteq 0 .. ThreadLength
    BY DEF PanelReady
<1>3. RowSound(s.summary)' /\ RowSound(s.previous)' /\ RowSound(s.telling)'
    BY RowKept DEF PanelReady
<1>4. Loading(s) => \A i \in s.shown : thread'[i] # "partner"
    BY <1>2 DEF PanelReady, ThreadGoes, ThreadLength
<1>5. ~ Loading(s) =>
           /\ \A i \in 1 .. s.cursor : OwnsUpTo(s, i)'
           /\ \A i \in 1 .. s.top : OwnsUpTo(s, i)'
           /\ \A m \in s.shown : \A i \in 1 .. m : OwnsUpTo(s, i)'
           /\ s.step = "pulled" => \A i \in 1 .. s.from : OwnsUpTo(s, i)'
    <2>1. ASSUME NEW n \in 0 .. ThreadLength, NEW i \in 1 .. n PROVE i \in 1 .. ThreadLength
        BY <1>1
    <2>2. ASSUME NEW m \in s.shown PROVE m \in 0 .. ThreadLength
        BY <1>1, <1>2
    <2>3. QED
        BY <1>2, <2>1, <2>2, OwnsKept DEF PanelReady
<1>6. s.shown \subseteq 1 .. ThreadLength' /\ {s.cursor, s.from, s.top, s.fetched} \subseteq 0 .. ThreadLength'
    BY <1>1, <1>2
<1>8. s.step = "opened" => s.from <= s.fetched
    BY DEF PanelReady
<1>9. QED
    BY <1>2, <1>3, <1>4, <1>5, <1>6, <1>8 DEF PanelReady, Loading

LEMMA PanelKept ==
    ASSUME ReceiptsShape, ThreadGoes, NEW s, PanelSound(s)
    PROVE  PanelSound(s)'
BY ReadyKept DEF PanelSound, ThreadGoes

\* A panel turns to what is sound, and nothing is taken back.
LEMMA PanelTurned ==
    ASSUME ReceiptsInv, NEW p \in Panels, NEW s, panels' = [panels EXCEPT ![p] = s], ThreadGoes,
           PanelSound(s)', RowSound(receipt)', RowSound(saved)'
    PROVE  ReceiptsInv'
<1>1. s \in ReadingPanel /\ panels' \in [Panels -> ReadingPanel] /\ panels'[p] = s /\ \A q \in Panels \ {p} : panels'[q] = panels[q]
    BY DEF PanelSound, PanelReady, ReceiptsInv, ReceiptsShape
<1>2. ASSUME NEW q \in Panels PROVE PanelSound(panels[q])'
    <2>1. CASE q = p
        BY <1>1, <2>1
    <2>2. CASE q # p
        <3>1. PICK t : t = panels[q]
            OBVIOUS
        <3>2. PanelSound(t)
            BY <3>1 DEF ReceiptsInv
        <3>3. PanelSound(t)'
            BY <3>2, PanelKept DEF ReceiptsInv
        <3>4. panels'[q] = t
            BY <1>1, <2>2, <3>1
        <3>5. QED
            BY <3>3, <3>4
    <2>3. QED
        BY <2>1, <2>2
<1>3. QED
    BY <1>1, <1>2 DEF ReceiptsInv, ReceiptsShape, ThreadGoes

-----------------------------------------------------------------------------
(* The steps of a panel and of the server.                                  *)

\* A panel keeps what it shows of the partner's, and what it shows is looked at if it is.
LEMMA Turning ==
    ASSUME ReceiptsInv, NEW p \in Panels, NEW s, Becomes(p, s), jumped \subseteq jumped',
           thread' = thread \/ \E who \in {"own", "partner"} : thread' = Append(thread, who),
           \A i \in 1 .. ThreadLength : thread[i] = "partner" /\ i \in panels[p].shown => i \in s.shown
    PROVE  ThreadGoes /\ panels' = [panels EXCEPT ![p] = s] /\ (s.watched => s.shown \subseteq lookedAt')
<1>1. thread \in Seq({"own", "partner"}) /\ panels \in [Panels -> ReadingPanel]
    BY DEF ReceiptsInv, ReceiptsShape
<1>2. /\ thread' \in Seq({"own", "partner"}) /\ Len(thread) <= Len(thread')
      /\ \A i \in 1 .. Len(thread) : thread'[i] = thread[i]
    <2>1. CASE thread' = thread
        BY <1>1, <2>1
    <2>2. CASE thread' # thread
        <3>1. PICK who \in {"own", "partner"} : thread' = Append(thread, who)
            BY <2>2
        <3>2. QED
            BY <1>1, <3>1
    <2>3. QED
        BY <2>1, <2>2
<1>3. panels' = [panels EXCEPT ![p] = s] /\ lookedAt \subseteq lookedAt' /\ (s.watched => s.shown \subseteq lookedAt')
    BY DEF Becomes
<1>4. ASSUME NEW q \in Panels, NEW i \in 1 .. Len(thread), thread[i] = "partner", i \in panels[q].shown
      PROVE  i \in panels'[q].shown
    BY <1>1, <1>3, <1>4 DEF ThreadLength
<1>5. QED
    BY <1>2, <1>3, <1>4 DEF ThreadGoes

\* What a panel is about to tell comes from rows that are sound, and goes nowhere else.
LEMMA SoundRowsStay ==
    ASSUME ReceiptsInv, ThreadGoes
    PROVE  /\ receipt' = receipt => RowSound(receipt)'
           /\ saved' = saved => RowSound(saved)'
<1>1. PICK r : r = receipt
    OBVIOUS
<1>2. PICK t : t = saved
    OBVIOUS
<1>3. RowSound(r) /\ RowSound(t) /\ ReceiptsShape
    BY <1>1, <1>2 DEF ReceiptsInv, ReceiptsShape
<1>4. RowSound(r)' /\ RowSound(t)'
    BY <1>3, RowKept
<1>5. QED
    BY <1>1, <1>2, <1>4

LEMMA PartnerSendsStep == ASSUME ReceiptsInv, PartnerSends PROVE ReceiptsInv'
<1>1. thread' = Append(thread, "partner") /\ UNCHANGED <<receipt, saved, panels, lookedAt, jumped>>
    BY DEF PartnerSends
<1>2. ThreadGoes
    BY <1>1 DEF ThreadGoes, ReceiptsInv, ReceiptsShape
<1>3. RowSound(receipt)' /\ RowSound(saved)'
    BY <1>1, <1>2, SoundRowsStay
<1>4. ASSUME NEW q \in Panels PROVE PanelSound(panels[q])'
    <2>1. PICK t : t = panels[q]
        OBVIOUS
    <2>2. PanelSound(t)'
        BY <1>2, <2>1, PanelKept DEF ReceiptsInv
    <2>3. QED
        BY <1>1, <2>1, <2>2
<1>5. QED
    BY <1>1, <1>2, <1>3, <1>4 DEF ReceiptsInv, ReceiptsShape, ThreadGoes

LEMMA OwnSendStep == ASSUME ReceiptsInv, NEW p \in Panels, OwnSend(p) PROVE ReceiptsInv'
<1> DEFINE n == ThreadLength + 1
<1>1. PICK s : s = panels[p]
    OBVIOUS
<1>2. PICK t : t = [s EXCEPT !.shown = s.shown \cup {n}, !.cursor = n]
    OBVIOUS
<1>3. /\ s.step # "closed" /\ s.watched /\ thread' = Append(thread, "own") /\ Becomes(p, t)
      /\ jumped' = IF s.step \in {"opening", "opened"} THEN jumped
                   ELSE jumped \cup ((s.cursor + 1 .. ThreadLength) \ s.shown)
      /\ UNCHANGED <<receipt, saved>>
    <2>1. ThreadLength \in Nat /\ Len(thread) + 1 - 1 = ThreadLength
        BY DEF ReceiptsInv, ReceiptsShape, ThreadLength
    <2>2. QED
        BY <1>1, <1>2, <2>1 DEF OwnSend, ThreadLength
<1>4. PanelSound(s) /\ s \in ReadingPanel /\ ThreadLength \in Nat /\ thread \in Seq({"own", "partner"})
    BY <1>1 DEF ReceiptsInv, ReceiptsShape, PanelSound, PanelReady, ThreadLength
<1>5. /\ t \in ReadingPanel /\ t.step = s.step /\ t.watched = s.watched /\ t.shown = s.shown \cup {n} /\ t.cursor = n
      /\ t.from = s.from /\ t.top = s.top /\ t.fetched = s.fetched
      /\ t.summary = s.summary /\ t.previous = s.previous /\ t.telling = s.telling
    <2>1. n \in Nat /\ s.shown \cup {n} \in SUBSET Nat
        BY <1>4 DEF ReadingPanel
    <2>2. \A S \in SUBSET Nat, k \in Nat : [s EXCEPT !.shown = S, !.cursor = k] \in ReadingPanel
        BY <1>4 DEF ReadingPanel
    <2>3. t \in ReadingPanel
        BY <1>2, <2>1, <2>2
    <2>4. QED
        BY <1>2, <1>4, <2>3 DEF ReadingPanel
<1>6. ThreadGoes /\ panels' = [panels EXCEPT ![p] = t] /\ (t.watched => t.shown \subseteq lookedAt')
    <2>1. jumped \subseteq jumped' /\ \E who \in {"own", "partner"} : thread' = Append(thread, who)
        BY <1>3
    <2>2. \A i \in 1 .. ThreadLength : thread[i] = "partner" /\ i \in panels[p].shown => i \in t.shown
        BY <1>1, <1>5
    <2>3. QED
        BY <1>3, <2>1, <2>2, Turning
<1>7. PanelSound(s)' /\ RowSound(receipt)' /\ RowSound(saved)'
    BY <1>3, <1>4, <1>6, PanelKept, SoundRowsStay DEF ReceiptsInv
<1>8. ThreadLength' = n /\ thread'[n] = "own" /\ n \in Nat
    BY <1>3, <1>4 DEF ThreadLength
<1>9. ASSUME ~ Loading(s), NEW i \in 1 .. n PROVE OwnsUpTo(t, i)'
    <2>1. CASE i = n
        BY <1>8, <2>1 DEF OwnsUpTo
    <2>2. CASE i # n /\ i <= s.cursor
        <3>1. i \in 1 .. s.cursor /\ OwnsUpTo(s, i)'
            BY <1>4, <1>7, <1>9, <2>2 DEF PanelSound, PanelReady, ReadingPanel, Loading
        <3>2. QED
            BY <1>5, <3>1 DEF OwnsUpTo
    <2>3. CASE i # n /\ i > s.cursor
        <3>1. s.cursor \in Nat /\ i \in s.cursor + 1 .. ThreadLength
            BY <1>4, <1>8, <2>3 DEF ReadingPanel
        <3>2. i \in s.shown \/ i \in jumped'
            BY <1>3, <1>9, <3>1 DEF Loading
        <3>3. QED
            BY <1>5, <3>2 DEF OwnsUpTo
    <2>4. QED
        BY <1>4, <1>8, <2>1, <2>2, <2>3 DEF ReadingPanel
<1>10. PanelSound(t)'
    <2>1. t.shown \subseteq 1 .. ThreadLength' /\ {t.cursor, t.from, t.top, t.fetched} \subseteq 0 .. ThreadLength'
        <3>1. s.shown \subseteq 1 .. ThreadLength' /\ {s.cursor, s.from, s.top, s.fetched} \subseteq 0 .. ThreadLength'
            BY <1>7 DEF PanelSound, PanelReady
        <3>2. n \in 1 .. ThreadLength' /\ n \in 0 .. ThreadLength'
            BY <1>4, <1>8
        <3>3. QED
            BY <1>5, <3>1, <3>2
    <2>2. Loading(t) => \A i \in t.shown : thread'[i] # "partner"
        BY <1>5, <1>7, <1>8 DEF PanelSound, PanelReady, Loading
    <2>3. ~ Loading(t) =>
           /\ \A i \in 1 .. t.cursor : OwnsUpTo(t, i)'
           /\ \A i \in 1 .. t.top : OwnsUpTo(t, i)'
           /\ \A m \in t.shown : \A i \in 1 .. m : OwnsUpTo(t, i)'
           /\ t.step = "pulled" => \A i \in 1 .. t.from : OwnsUpTo(t, i)'
        <3>1. ASSUME ~ Loading(t) PROVE \A m \in 0 .. n : \A i \in 1 .. m : OwnsUpTo(t, i)'
            <4>1. ~ Loading(s)
                BY <1>5, <3>1 DEF Loading
            <4>2. \A m \in 0 .. n : \A i \in 1 .. m : i \in 1 .. n
                BY <1>8
            <4>3. QED
                BY <1>9, <4>1, <4>2
        <3>2. t.cursor \in 0 .. n /\ t.top \in 0 .. n /\ t.from \in 0 .. n /\ \A m \in t.shown : m \in 0 .. n
            BY <1>8, <2>1
        <3>3. QED
            BY <3>1, <3>2
    <2>4. QED
        BY <1>5, <1>6, <1>7, <2>1, <2>2, <2>3 DEF PanelSound, PanelReady, Loading
<1>11. QED
    BY <1>6, <1>7, <1>10, PanelTurned

\* The panel goes on to t, and the rows become r on the server and w on the device.
LEMMA PanelGoesOn ==
    ASSUME ReceiptsInv, NEW p \in Panels, NEW s, s = panels[p], NEW t, Becomes(p, t), UNCHANGED <<thread, jumped>>,
           PanelReady(t), \A i \in 1 .. ThreadLength : thread[i] = "partner" /\ i \in s.shown => i \in t.shown,
           NEW r, receipt' = r, RowSound(r), NEW w, saved' = w, RowSound(w)
    PROVE  ReceiptsInv'
<1>1. ThreadGoes /\ panels' = [panels EXCEPT ![p] = t] /\ (t.watched => t.shown \subseteq lookedAt')
    BY Turning
<1>2. PanelReady(t)' /\ RowSound(r)' /\ RowSound(w)'
    BY <1>1, ReadyKept, RowKept DEF ReceiptsInv
<1>3. QED
    BY <1>1, <1>2, PanelTurned DEF PanelSound

LEMMA PanelFacts ==
    ASSUME ReceiptsInv, NEW p \in Panels, NEW s, s = panels[p]
    PROVE  PanelReady(s) /\ s \in ReadingPanel /\ ThreadLength \in Nat /\ ThreadLength = Len(thread) /\ RowSound(receipt) /\ RowSound(saved)
BY DEF ReceiptsInv, ReceiptsShape, PanelSound, PanelReady, ThreadLength

LEMMA PairType ==
    ASSUME NEW r, RowSound(r) PROVE r \in ReceiptPair /\ r.read \in Nat /\ r.delivered \in Nat
BY DEF RowSound, ReceiptPair

\* At rest, and on to a step that asks nothing more of what is shown.
LEMMA ReadyAtStep ==
    ASSUME NEW s, PanelReady(s), ~ Loading(s), NEW t \in ReadingPanel, ~ Loading(t), t.step # "pulled",
           t.shown = s.shown, t.cursor = s.cursor, t.from \in {s.from, 0}, t.top \in {s.top, 0},
           t.fetched \in {s.fetched, 0, ThreadLength}, ThreadLength \in Nat,
           RowSound(t.summary), RowSound(t.previous), RowSound(t.telling)
    PROVE  PanelReady(t)
<1>1. s.shown \subseteq 1 .. ThreadLength /\ {s.cursor, s.from, s.top, s.fetched} \subseteq 0 .. ThreadLength
    BY DEF PanelReady
<1>2. /\ \A i \in 1 .. s.cursor : OwnsUpTo(s, i)
      /\ \A i \in 1 .. s.top : OwnsUpTo(s, i)
      /\ \A m \in s.shown : \A i \in 1 .. m : OwnsUpTo(s, i)
    BY DEF PanelReady
<1>3. \A i : OwnsUpTo(s, i) <=> OwnsUpTo(t, i)
    BY DEF OwnsUpTo
<1>4. /\ \A i \in 1 .. t.cursor : OwnsUpTo(t, i)
      /\ \A i \in 1 .. t.top : OwnsUpTo(t, i)
      /\ \A m \in t.shown : \A i \in 1 .. m : OwnsUpTo(t, i)
    BY <1>2, <1>3
<1>5. t.shown \subseteq 1 .. ThreadLength /\ {t.cursor, t.from, t.top, t.fetched} \subseteq 0 .. ThreadLength
    BY <1>1
<1>6. QED
    BY <1>4, <1>5 DEF PanelReady, Loading

LEMMA RestsReady ==
    ASSUME ReceiptsInv, NEW p \in Panels, NEW s, s = panels[p], ~ Loading(s), NEW t,
           t = [ClosedPanel EXCEPT !.step = "rest", !.watched = s.watched, !.shown = s.shown, !.cursor = s.cursor]
    PROVE  PanelReady(t) /\ t.shown = s.shown
<1>1. PanelReady(s) /\ s \in ReadingPanel /\ ThreadLength \in Nat /\ thread \in Seq({"own", "partner"})
    BY PanelFacts DEF ReceiptsInv, ReceiptsShape
<1>2. RowSound(NothingTold) /\ NothingTold \in ReceiptPair
    BY <1>1, NothingToldSound DEF RowSound
<1>3. PICK c : c = ClosedPanel
    OBVIOUS
<1>4. /\ c \in ReadingPanel /\ c.from = 0 /\ c.top = 0 /\ c.fetched = 0
      /\ c.summary = NothingTold /\ c.previous = NothingTold /\ c.telling = NothingTold
    BY <1>2, <1>3 DEF ClosedPanel, ReadingPanel
<1>5. t = [c EXCEPT !.step = "rest", !.watched = s.watched, !.shown = s.shown, !.cursor = s.cursor]
    BY <1>3
<1>6. s.watched \in BOOLEAN /\ s.shown \in SUBSET Nat /\ s.cursor \in Nat
    BY <1>1 DEF ReadingPanel
<1>7. t \in ReadingPanel
    <2>1. PICK w \in BOOLEAN, S \in SUBSET Nat, n \in Nat : w = s.watched /\ S = s.shown /\ n = s.cursor
        BY <1>6, Zenon
    <2>2. [c EXCEPT !.step = "rest", !.watched = w, !.shown = S, !.cursor = n] \in ReadingPanel
        BY <1>4 DEF ReadingPanel
    <2>3. QED
        BY <1>5, <2>1, <2>2, Zenon
<1>8. /\ t.step = "rest" /\ t.shown = s.shown /\ t.cursor = s.cursor /\ t.from = 0 /\ t.top = 0 /\ t.fetched = 0
      /\ t.summary = NothingTold /\ t.previous = NothingTold /\ t.telling = NothingTold
    BY <1>4, <1>5 DEF ReadingPanel
<1>9. QED
    <2>1. ~ Loading(t) /\ t.step # "pulled"
        BY <1>8 DEF Loading
    <2>2. t.from \in {s.from, 0} /\ t.top \in {s.top, 0} /\ t.fetched \in {s.fetched, 0, ThreadLength}
        BY <1>8
    <2>3. RowSound(t.summary) /\ RowSound(t.previous) /\ RowSound(t.telling)
        BY <1>2, <1>8
    <2>4. QED
        BY <1>1, <1>7, <1>8, <2>1, <2>2, <2>3, ReadyAtStep

LEMMA LookStep == ASSUME ReceiptsInv, NEW p \in Panels, Look(p) PROVE ReceiptsInv'
<1>1. PICK s : s = panels[p]
    OBVIOUS
<1>2. PanelReady(s) /\ s \in ReadingPanel /\ RowSound(receipt) /\ RowSound(saved)
    BY <1>1, PanelFacts
<1>3. PICK t : t = [s EXCEPT !.watched = ~ s.watched]
    OBVIOUS
<1>4. Becomes(p, t) /\ UNCHANGED <<thread, receipt, saved, jumped>>
    BY <1>1, <1>3 DEF Look
<1>5. t \in ReadingPanel
    <2>1. PICK w \in BOOLEAN : w = ~ s.watched
        OBVIOUS
    <2>2. [s EXCEPT !.watched = w] \in ReadingPanel
        BY <1>2 DEF ReadingPanel
    <2>3. QED
        BY <1>3, <2>1, <2>2, Zenon
<1>6. /\ t.step = s.step /\ t.shown = s.shown /\ t.cursor = s.cursor /\ t.from = s.from /\ t.top = s.top
      /\ t.fetched = s.fetched /\ t.summary = s.summary /\ t.previous = s.previous /\ t.telling = s.telling
    BY <1>2, <1>3 DEF ReadingPanel
<1>7. PanelReady(t)
    BY <1>2, <1>5, <1>6 DEF PanelReady, Loading, OwnsUpTo
<1>8. QED
    BY <1>1, <1>2, <1>4, <1>6, <1>7, PanelGoesOn

LEMMA OpenStep == ASSUME ReceiptsInv, NEW p \in Panels, OpenPanel(p) PROVE ReceiptsInv'
<1>1. PICK s : s = panels[p]
    OBVIOUS
<1>2. /\ PanelReady(s) /\ s \in ReadingPanel /\ RowSound(receipt) /\ RowSound(saved) /\ receipt \in ReceiptPair
      /\ ThreadLength \in Nat /\ ThreadLength = Len(thread)
    BY <1>1, PanelFacts, PairType
<1>3. PICK t : t = [[s EXCEPT !.summary = receipt] EXCEPT !.step = "opening", !.from = ThreadLength]
    OBVIOUS
<1>4. s.step = "closed" /\ Becomes(p, t) /\ UNCHANGED <<thread, receipt, saved, jumped>>
    BY <1>1, <1>2, <1>3 DEF OpenPanel, Summarised
<1>5. t = [s EXCEPT !.summary = receipt, !.step = "opening", !.from = ThreadLength]
    BY <1>2, <1>3 DEF ReadingPanel
<1>6. t \in ReadingPanel
    BY <1>2, <1>5 DEF ReadingPanel
<1>7. /\ t.step = "opening" /\ t.shown = s.shown /\ t.cursor = s.cursor /\ t.from = ThreadLength /\ t.top = s.top
      /\ t.fetched = s.fetched /\ t.summary = receipt /\ t.previous = s.previous /\ t.telling = s.telling
    BY <1>2, <1>5 DEF ReadingPanel
<1>8. t.shown \subseteq 1 .. ThreadLength /\ {t.cursor, t.from, t.top, t.fetched} \subseteq 0 .. ThreadLength
    BY <1>2, <1>7 DEF PanelReady
<1>9. PanelReady(t)
    BY <1>2, <1>4, <1>6, <1>7, <1>8 DEF PanelReady, Loading
<1>10. QED
    BY <1>1, <1>2, <1>4, <1>7, <1>9, PanelGoesOn

LEMMA LoadStep == ASSUME ReceiptsInv, NEW p \in Panels, LoadNewest(p) PROVE ReceiptsInv'
<1>1. PICK s : s = panels[p]
    OBVIOUS
<1>2. /\ PanelReady(s) /\ s \in ReadingPanel /\ RowSound(receipt) /\ RowSound(saved)
      /\ ThreadLength \in Nat /\ ThreadLength = Len(thread)
    BY <1>1, PanelFacts
<1>3. PICK t : t = [s EXCEPT !.step = "opened", !.fetched = ThreadLength]
    OBVIOUS
<1>4. s.step = "opening" /\ Becomes(p, t) /\ UNCHANGED <<thread, receipt, saved, jumped>>
    BY <1>1, <1>2, <1>3 DEF LoadNewest
<1>5. t \in ReadingPanel
    BY <1>2, <1>3 DEF ReadingPanel
<1>6. /\ t.step = "opened" /\ t.shown = s.shown /\ t.cursor = s.cursor /\ t.from = s.from /\ t.top = s.top
      /\ t.fetched = ThreadLength /\ t.summary = s.summary /\ t.previous = s.previous /\ t.telling = s.telling
    BY <1>2, <1>3 DEF ReadingPanel
<1>7. /\ t.shown \subseteq 1 .. ThreadLength /\ {t.cursor, t.from, t.top, t.fetched} \subseteq 0 .. ThreadLength /\ t.from <= t.fetched
    BY <1>2, <1>6 DEF PanelReady
<1>8. PanelReady(t)
    BY <1>2, <1>4, <1>5, <1>6, <1>7 DEF PanelReady, Loading
<1>9. QED
    BY <1>1, <1>2, <1>4, <1>6, <1>8, PanelGoesOn

LEMMA InitialStep == ASSUME ReceiptsInv, NEW p \in Panels, CommitInitial(p) PROVE ReceiptsInv'
<1>1. PICK s : s = panels[p]
    OBVIOUS
<1>2. /\ PanelReady(s) /\ s \in ReadingPanel /\ RowSound(receipt) /\ RowSound(s.summary) /\ ThreadLength \in Nat
    BY <1>1, PanelFacts DEF PanelReady
<1>3. PICK t : t = [s EXCEPT !.step = "settled", !.shown = 1 .. s.fetched, !.top = s.fetched,
                             !.cursor = s.from, !.from = 0, !.fetched = 0]
    OBVIOUS
<1>4. s.step = "opened" /\ Becomes(p, t) /\ UNCHANGED <<thread, receipt, jumped>> /\ saved' = s.summary
    BY <1>1, <1>3 DEF CommitInitial
<1>5. s.fetched \in Nat /\ s.from \in Nat /\ 1 .. s.fetched \in SUBSET Nat /\ s.from <= s.fetched /\ s.fetched <= ThreadLength
    BY <1>2, <1>4 DEF PanelReady, ReadingPanel
<1>6. t \in ReadingPanel
    <2>1. PICK S \in SUBSET Nat : S = 1 .. s.fetched
        BY <1>5
    <2>2. [s EXCEPT !.step = "settled", !.shown = S, !.top = s.fetched, !.cursor = s.from, !.from = 0, !.fetched = 0]
              \in ReadingPanel
        BY <1>2, <1>5 DEF ReadingPanel
    <2>3. QED
        BY <1>3, <2>1, <2>2, Zenon
<1>7. /\ t.step = "settled" /\ t.shown = 1 .. s.fetched /\ t.cursor = s.from /\ t.from = 0 /\ t.top = s.fetched
      /\ t.fetched = 0 /\ t.summary = s.summary /\ t.previous = s.previous /\ t.telling = s.telling
    BY <1>2, <1>3 DEF ReadingPanel
<1>8. \A i \in 1 .. s.fetched : OwnsUpTo(t, i)
    BY <1>7 DEF OwnsUpTo
<1>9. /\ \A i \in 1 .. t.cursor : OwnsUpTo(t, i)
      /\ \A i \in 1 .. t.top : OwnsUpTo(t, i)
      /\ \A m \in t.shown : \A i \in 1 .. m : OwnsUpTo(t, i)
    <2>1. \A m \in 0 .. s.fetched : \A i \in 1 .. m : i \in 1 .. s.fetched
        BY <1>5
    <2>2. t.cursor \in 0 .. s.fetched /\ t.top \in 0 .. s.fetched /\ \A m \in t.shown : m \in 0 .. s.fetched
        BY <1>5, <1>7
    <2>3. QED
        BY <1>8, <2>1, <2>2
<1>10. t.shown \subseteq 1 .. ThreadLength /\ {t.cursor, t.from, t.top, t.fetched} \subseteq 0 .. ThreadLength
    BY <1>2, <1>5, <1>7
<1>11. PanelReady(t)
    BY <1>2, <1>6, <1>7, <1>9, <1>10 DEF PanelReady, Loading
<1>12. \A i \in 1 .. ThreadLength : thread[i] = "partner" /\ i \in s.shown => i \in t.shown
    BY <1>2, <1>4 DEF PanelReady, Loading
<1>13. QED
    BY <1>1, <1>2, <1>4, <1>11, <1>12, PanelGoesOn

\* What a panel has up to n it has up to any position before.
LEMMA ShownThrough ==
    ASSUME NEW s, PanelReady(s), ~ Loading(s), ThreadLength \in Nat, NEW n, n \in s.shown \/ n \in {0, s.cursor, s.top}
    PROVE  n \in 0 .. ThreadLength /\ \A i \in 1 .. n : OwnsUpTo(s, i)
BY DEF PanelReady

LEMMA PullChangesStep == ASSUME ReceiptsInv, NEW p \in Panels, PullChanges(p) PROVE ReceiptsInv'
<1>1. PICK s : s = panels[p]
    OBVIOUS
<1>2. /\ PanelReady(s) /\ s \in ReadingPanel /\ RowSound(receipt) /\ RowSound(saved) /\ saved \in ReceiptPair
      /\ ThreadLength \in Nat /\ ThreadLength = Len(thread) /\ s.step = "rest" /\ ~ Loading(s)
    BY <1>1, PanelFacts, PairType DEF PullChanges, Loading
<1>3. PICK g : g = Greatest(s.shown)
    OBVIOUS
<1>4. g \in 0 .. ThreadLength /\ \A i \in 1 .. g : OwnsUpTo(s, i)
    <2>1. s.shown \subseteq 1 .. ThreadLength
        BY <1>2 DEF PanelReady
    <2>2. g = 0 \/ g \in s.shown
        BY <1>2, <1>3, <2>1, GreatestShown
    <2>3. QED
        BY <1>2, <2>2, ShownThrough
<1>5. PICK u : u = [s EXCEPT !.top = g]
    OBVIOUS
<1>6. /\ u \in ReadingPanel /\ u.step = s.step /\ u.shown = s.shown /\ u.cursor = s.cursor /\ u.from = s.from
      /\ u.top = g /\ u.fetched = s.fetched /\ u.summary = s.summary /\ u.previous = s.previous /\ u.telling = s.telling
    BY <1>2, <1>4, <1>5 DEF ReadingPanel
<1>7. PICK t : t = IF ThreadLength > s.cursor THEN [[u EXCEPT !.previous = saved] EXCEPT !.step = "pulled", !.from = s.cursor, !.fetched = ThreadLength]
                   ELSE [u EXCEPT !.step = "checked"]
    OBVIOUS
<1>8. Becomes(p, t) /\ UNCHANGED <<thread, receipt, saved, jumped>>
    BY <1>1, <1>2, <1>3, <1>5, <1>6, <1>7 DEF PullChanges, ReadSync
<1>9. s.cursor \in Nat /\ s.cursor <= ThreadLength
    BY <1>2 DEF PanelReady, ReadingPanel
<1>10. /\ t \in ReadingPanel /\ t.shown = s.shown /\ t.cursor = s.cursor /\ t.top = g
       /\ \/ t.step = "pulled" /\ t.from = s.cursor /\ t.fetched = ThreadLength
          \/ t.step = "checked" /\ t.from = s.from /\ t.fetched = s.fetched
       /\ t.summary = s.summary /\ t.previous \in {s.previous, saved} /\ t.telling = s.telling
    <2>1. CASE ThreadLength > s.cursor
        <3>1. t = [u EXCEPT !.previous = saved, !.step = "pulled", !.from = s.cursor, !.fetched = ThreadLength]
            BY <1>6, <1>7, <2>1 DEF ReadingPanel
        <3>2. t \in ReadingPanel
            BY <1>2, <1>6, <1>9, <3>1 DEF ReadingPanel
        <3>3. QED
            BY <1>6, <3>1, <3>2 DEF ReadingPanel
    <2>2. CASE ~ (ThreadLength > s.cursor)
        BY <1>6, <1>7, <2>2 DEF ReadingPanel
    <2>3. QED
        BY <2>1, <2>2
<1>11. t.shown \subseteq 1 .. ThreadLength /\ {t.cursor, t.from, t.top, t.fetched} \subseteq 0 .. ThreadLength
    BY <1>2, <1>4, <1>10 DEF PanelReady
<1>12. RowSound(t.summary) /\ RowSound(t.previous) /\ RowSound(t.telling)
    BY <1>2, <1>10 DEF PanelReady
<1>13. \A i : OwnsUpTo(s, i) <=> OwnsUpTo(t, i)
    BY <1>10 DEF OwnsUpTo
<1>14. /\ \A i \in 1 .. t.cursor : OwnsUpTo(t, i)
       /\ \A i \in 1 .. t.top : OwnsUpTo(t, i)
       /\ \A m \in t.shown : \A i \in 1 .. m : OwnsUpTo(t, i)
       /\ t.step = "pulled" => \A i \in 1 .. t.from : OwnsUpTo(t, i)
    BY <1>2, <1>4, <1>10, <1>13 DEF PanelReady
<1>15. PanelReady(t)
    BY <1>10, <1>11, <1>12, <1>14 DEF PanelReady, Loading
<1>16. QED
    BY <1>1, <1>2, <1>8, <1>10, <1>15, PanelGoesOn

\* Messages up to n follow what the panel has up to m: it has them all.
LEMMA PageShown ==
    ASSUME NEW s, PanelReady(s), ~ Loading(s), ThreadLength \in Nat, NEW m \in 0 .. ThreadLength, NEW n \in 0 .. ThreadLength,
           \A i \in 1 .. m : OwnsUpTo(s, i), NEW t, t.shown = s.shown \cup (m + 1 .. n)
    PROVE  /\ \A i \in 1 .. n : OwnsUpTo(t, i)
           /\ \A i \in 1 .. s.cursor : OwnsUpTo(t, i)
           /\ \A i \in 1 .. s.top : OwnsUpTo(t, i)
           /\ \A k \in t.shown : \A i \in 1 .. k : OwnsUpTo(t, i)
           /\ t.shown \subseteq 1 .. ThreadLength
<1>1. \A i : OwnsUpTo(s, i) => OwnsUpTo(t, i)
    BY DEF OwnsUpTo
<1>2. ASSUME NEW i \in 1 .. n PROVE OwnsUpTo(t, i)
    <2>1. CASE i <= m
        <3>1. i \in 1 .. m
            BY <2>1
        <3>2. QED
            BY <1>1, <3>1
    <2>2. CASE ~ (i <= m)
        <3>1. i \in m + 1 .. n
            BY <2>2
        <3>2. QED
            BY <3>1 DEF OwnsUpTo
    <2>3. QED
        BY <2>1, <2>2
<1>3. /\ \A i \in 1 .. s.cursor : OwnsUpTo(t, i)
      /\ \A i \in 1 .. s.top : OwnsUpTo(t, i)
      /\ \A k \in s.shown : \A i \in 1 .. k : OwnsUpTo(t, i)
    BY <1>1 DEF PanelReady
<1>4. ASSUME NEW k \in m + 1 .. n, NEW i \in 1 .. k PROVE i \in 1 .. n
    OBVIOUS
<1>5. s.shown \subseteq 1 .. ThreadLength
    BY DEF PanelReady
<1>6. QED
    BY <1>2, <1>3, <1>4, <1>5

LEMMA CommitPulledStep == ASSUME ReceiptsInv, NEW p \in Panels, CommitPulled(p) PROVE ReceiptsInv'
<1>1. PICK s : s = panels[p]
    OBVIOUS
<1>2. /\ PanelReady(s) /\ s \in ReadingPanel /\ RowSound(receipt) /\ RowSound(s.previous)
      /\ ThreadLength \in Nat /\ s.step = "pulled" /\ ~ Loading(s)
    BY <1>1, PanelFacts DEF CommitPulled, Loading, PanelReady
<1>3. /\ s.from \in 0 .. ThreadLength /\ s.fetched \in 0 .. ThreadLength /\ s.top \in 0 .. ThreadLength /\ \A i \in 1 .. s.from : OwnsUpTo(s, i)
    BY <1>2 DEF PanelReady
<1>4. PICK g : g = Furthest(s.top, s.fetched)
    OBVIOUS
<1>5. g \in 0 .. ThreadLength /\ g \in {s.top, s.fetched}
    BY <1>2, <1>3, <1>4, FurthestOfTwo
<1>6. PICK S : S = s.shown \cup (s.from + 1 .. s.fetched)
    OBVIOUS
<1>7. PICK t : t = [s EXCEPT !.step = "checked", !.shown = S, !.top = g, !.cursor = s.fetched,
                             !.from = 0, !.fetched = 0, !.previous = NothingTold]
    OBVIOUS
<1>8. Becomes(p, t) /\ UNCHANGED <<thread, receipt, jumped>> /\ saved' = s.previous
    BY <1>1, <1>4, <1>6, <1>7 DEF CommitPulled
<1>9. RowSound(NothingTold) /\ NothingTold \in ReceiptPair
    BY NothingToldSound DEF ReceiptsInv, ReceiptsShape, RowSound
<1>10. S \in SUBSET Nat /\ g \in Nat /\ s.fetched \in Nat
    BY <1>2, <1>3, <1>5, <1>6 DEF ReadingPanel
<1>11. t \in ReadingPanel
    BY <1>2, <1>7, <1>9, <1>10 DEF ReadingPanel
<1>12. /\ t.step = "checked" /\ t.shown = S /\ t.cursor = s.fetched /\ t.from = 0 /\ t.top = g
       /\ t.fetched = 0 /\ t.summary = s.summary /\ t.previous = NothingTold /\ t.telling = s.telling
    BY <1>2, <1>7 DEF ReadingPanel
<1>13. /\ \A i \in 1 .. s.fetched : OwnsUpTo(t, i)
       /\ \A i \in 1 .. s.top : OwnsUpTo(t, i)
       /\ \A k \in t.shown : \A i \in 1 .. k : OwnsUpTo(t, i)
       /\ t.shown \subseteq 1 .. ThreadLength
    BY <1>2, <1>3, <1>6, <1>12, PageShown
<1>14. {t.cursor, t.from, t.top, t.fetched} \subseteq 0 .. ThreadLength
    BY <1>2, <1>3, <1>5, <1>12
<1>15. RowSound(t.summary) /\ RowSound(t.previous) /\ RowSound(t.telling)
    BY <1>2, <1>9, <1>12 DEF PanelReady
<1>16. PanelReady(t)
    BY <1>5, <1>11, <1>12, <1>13, <1>14, <1>15 DEF PanelReady, Loading
<1>17. \A i \in 1 .. ThreadLength : thread[i] = "partner" /\ i \in s.shown => i \in t.shown
    BY <1>6, <1>12
<1>18. QED
    BY <1>1, <1>2, <1>8, <1>16, <1>17, PanelGoesOn

LEMMA CheckStep == ASSUME ReceiptsInv, NEW p \in Panels, CheckNewest(p) PROVE ReceiptsInv'
<1>1. PICK s : s = panels[p]
    OBVIOUS
<1>2. /\ PanelReady(s) /\ s \in ReadingPanel /\ RowSound(receipt) /\ RowSound(saved) /\ saved \in ReceiptPair /\ receipt \in ReceiptPair
      /\ ThreadLength \in Nat /\ ThreadLength = Len(thread) /\ s.step = "checked" /\ ~ Loading(s)
    BY <1>1, PanelFacts, PairType DEF CheckNewest, Loading, Summarised
<1>3. PICK u : u = [s EXCEPT !.summary = receipt]
    OBVIOUS
<1>4. /\ u \in ReadingPanel /\ u.step = s.step /\ u.shown = s.shown /\ u.cursor = s.cursor /\ u.from = s.from
      /\ u.top = s.top /\ u.fetched = s.fetched /\ u.summary = receipt /\ u.previous = s.previous /\ u.telling = s.telling
    BY <1>2, <1>3 DEF ReadingPanel
<1>5. PICK t : t = IF ThreadLength > u.top THEN [[u EXCEPT !.previous = saved] EXCEPT !.step = "paged", !.fetched = ThreadLength]
                   ELSE [u EXCEPT !.step = "settled"]
    OBVIOUS
<1>6. Becomes(p, t) /\ UNCHANGED <<thread, receipt, saved, jumped>>
    BY <1>1, <1>2, <1>3, <1>5 DEF CheckNewest, ReadSync, Summarised
<1>7. /\ t \in ReadingPanel /\ t.shown = s.shown /\ t.cursor = s.cursor /\ t.top = s.top /\ t.from = s.from
      /\ t.step \in {"paged", "settled"} /\ t.fetched \in {s.fetched, ThreadLength}
      /\ t.summary = receipt /\ t.previous \in {s.previous, saved} /\ t.telling = s.telling
    <2>1. CASE ThreadLength > u.top
        <3>1. t = [u EXCEPT !.previous = saved, !.step = "paged", !.fetched = ThreadLength]
            BY <1>4, <1>5, <2>1 DEF ReadingPanel
        <3>2. t \in ReadingPanel
            BY <1>2, <1>4, <3>1 DEF ReadingPanel
        <3>3. QED
            BY <1>4, <3>1, <3>2 DEF ReadingPanel
    <2>2. CASE ~ (ThreadLength > u.top)
        BY <1>4, <1>5, <2>2 DEF ReadingPanel
    <2>3. QED
        BY <2>1, <2>2
<1>8. RowSound(t.summary) /\ RowSound(t.previous) /\ RowSound(t.telling)
    BY <1>2, <1>7 DEF PanelReady
<1>9. PanelReady(t)
    BY <1>2, <1>7, <1>8, ReadyAtStep DEF Loading
<1>10. QED
    BY <1>1, <1>2, <1>6, <1>7, <1>9, PanelGoesOn

LEMMA CommitPageStep == ASSUME ReceiptsInv, NEW p \in Panels, CommitPage(p) PROVE ReceiptsInv'
<1>1. PICK s : s = panels[p]
    OBVIOUS
<1>2. /\ PanelReady(s) /\ s \in ReadingPanel /\ RowSound(receipt) /\ receipt \in ReceiptPair /\ RowSound(s.previous)
      /\ ThreadLength \in Nat /\ s.step = "paged" /\ ~ Loading(s)
    BY <1>1, PanelFacts, PairType DEF CommitPage, Loading, PanelReady
<1>3. s.top \in 0 .. ThreadLength /\ s.fetched \in 0 .. ThreadLength /\ s.cursor \in 0 .. ThreadLength /\ s.from \in 0 .. ThreadLength
      /\ \A i \in 1 .. s.top : OwnsUpTo(s, i)
    BY <1>2 DEF PanelReady
<1>4. PICK S : S = s.shown \cup (s.top + 1 .. s.fetched)
    OBVIOUS
<1>5. PICK t : t = [[s EXCEPT !.summary = receipt] EXCEPT !.step = "settled", !.shown = S, !.top = s.fetched,
                                                          !.fetched = 0, !.previous = NothingTold]
    OBVIOUS
<1>6. t = [s EXCEPT !.summary = receipt, !.step = "settled", !.shown = S, !.top = s.fetched,
                    !.fetched = 0, !.previous = NothingTold]
    BY <1>2, <1>5 DEF ReadingPanel
<1>7. Becomes(p, t) /\ UNCHANGED <<thread, receipt, jumped>> /\ saved' = s.previous
    BY <1>1, <1>2, <1>4, <1>6 DEF CommitPage, Summarised, ReadingPanel
<1>8. RowSound(NothingTold) /\ NothingTold \in ReceiptPair
    BY NothingToldSound DEF ReceiptsInv, ReceiptsShape, RowSound
<1>9. S \in SUBSET Nat /\ s.fetched \in Nat
    BY <1>2, <1>3, <1>4 DEF ReadingPanel
<1>10. t \in ReadingPanel
    BY <1>2, <1>6, <1>8, <1>9 DEF ReadingPanel
<1>11. /\ t.step = "settled" /\ t.shown = S /\ t.cursor = s.cursor /\ t.from = s.from /\ t.top = s.fetched
       /\ t.fetched = 0 /\ t.summary = receipt /\ t.previous = NothingTold /\ t.telling = s.telling
    BY <1>2, <1>6 DEF ReadingPanel
<1>12. /\ \A i \in 1 .. s.fetched : OwnsUpTo(t, i)
       /\ \A i \in 1 .. s.cursor : OwnsUpTo(t, i)
       /\ \A k \in t.shown : \A i \in 1 .. k : OwnsUpTo(t, i)
       /\ t.shown \subseteq 1 .. ThreadLength
    BY <1>2, <1>3, <1>4, <1>11, PageShown
<1>13. {t.cursor, t.from, t.top, t.fetched} \subseteq 0 .. ThreadLength
    BY <1>2, <1>3, <1>11
<1>14. RowSound(t.summary) /\ RowSound(t.previous) /\ RowSound(t.telling)
    BY <1>2, <1>8, <1>11 DEF PanelReady
<1>15. PanelReady(t)
    BY <1>10, <1>11, <1>12, <1>13, <1>14 DEF PanelReady, Loading
<1>16. \A i \in 1 .. ThreadLength : thread[i] = "partner" /\ i \in s.shown => i \in t.shown
    BY <1>4, <1>11
<1>17. QED
    BY <1>1, <1>2, <1>7, <1>15, <1>16, PanelGoesOn

\* What a row claims moves on to n, which is held, and to k, which was seen.
LEMMA RowMovesOn ==
    ASSUME ThreadLength \in Nat, NEW r, RowSound(r), NEW n \in 0 .. ThreadLength, NEW k \in 0 .. n,
           \A i \in 1 .. n : Held(i), \A i \in 1 .. k : Seen(i),
           NEW w, w = [delivered |-> Furthest(r.delivered, n), read |-> Furthest(r.read, k)]
    PROVE  RowSound(w)
<1>1. r.read \in Nat /\ r.delivered \in Nat /\ r.read <= r.delivered /\ r.delivered <= ThreadLength
    BY PairType DEF RowSound
<1>2. /\ w.delivered = (IF r.delivered < n THEN n ELSE r.delivered)
      /\ w.read = (IF r.read < k THEN k ELSE r.read)
    BY <1>1, FurthestOfTwo
<1>3. w \in ReceiptPair /\ w.read <= w.delivered /\ w.delivered <= ThreadLength
    <2>1. w.read \in Nat /\ w.delivered \in Nat /\ w.read <= w.delivered /\ w.delivered <= ThreadLength
        BY <1>1, <1>2
    <2>2. w = [delivered |-> w.delivered, read |-> w.read]
        OBVIOUS
    <2>3. QED
        BY <2>1, <2>2 DEF ReceiptPair
<1>4. \A i \in 1 .. w.delivered : Held(i)
    BY <1>1, <1>2 DEF RowSound
<1>5. \A i \in 1 .. w.read : Seen(i)
    BY <1>1, <1>2 DEF RowSound
<1>6. QED
    BY <1>3, <1>4, <1>5 DEF RowSound

LEMMA AcknowledgeStep == ASSUME ReceiptsInv, NEW p \in Panels, Acknowledge(p) PROVE ReceiptsInv'
<1>1. PICK s : s = panels[p]
    OBVIOUS
<1>2. /\ PanelReady(s) /\ PanelSound(s) /\ s \in ReadingPanel /\ RowSound(receipt) /\ RowSound(saved)
      /\ ThreadLength \in Nat /\ s.step = "settled" /\ ~ Loading(s)
    BY <1>1, PanelFacts DEF Acknowledge, Loading, ReceiptsInv
<1>3. s.top \in 0 .. ThreadLength /\ \A i \in 1 .. s.top : OwnsUpTo(s, i)
    BY <1>2 DEF PanelReady
<1>4. \A i \in 1 .. s.top : Held(i)
    BY <1>1, <1>3 DEF OwnsUpTo, Held
<1>5. PICK k : k = ReadThrough(s)
    OBVIOUS
<1>6. k \in 0 .. s.top /\ \A i \in 1 .. k : Seen(i)
    <2>1. CASE s.watched
        <3>1. k = s.top /\ s.shown \subseteq lookedAt
            BY <1>2, <1>5, <2>1 DEF ReadThrough, PanelSound
        <3>2. \A i \in 1 .. k : Seen(i)
            BY <1>3, <3>1 DEF OwnsUpTo, Seen
        <3>3. QED
            BY <1>3, <3>1, <3>2
    <2>2. CASE ~ s.watched
        BY <1>3, <1>5, <2>2 DEF ReadThrough
    <2>3. QED
        BY <2>1, <2>2
<1>7. PICK row : row = [delivered |-> Furthest(saved.delivered, s.top), read |-> Furthest(saved.read, k)]
    OBVIOUS
<1>8. RowSound(row) /\ row \in ReceiptPair
    <2>1. PICK d : d = saved
        OBVIOUS
    <2>2. row = [delivered |-> Furthest(d.delivered, s.top), read |-> Furthest(d.read, k)]
        BY <1>7, <2>1
    <2>3. RowSound(row)
        BY <1>2, <1>3, <1>4, <1>6, <2>1, <2>2, RowMovesOn
    <2>4. QED
        BY <2>3, PairType
<1>9. PICK w : w = saved'
    OBVIOUS
<1>10. RowSound(w) /\ UNCHANGED <<thread, receipt, jumped>>
    BY <1>1, <1>2, <1>5, <1>7, <1>8, <1>9 DEF Acknowledge
<1>11. CASE Rests(p)
    <2>1. PICK t : t = [ClosedPanel EXCEPT !.step = "rest", !.watched = s.watched, !.shown = s.shown, !.cursor = s.cursor]
        OBVIOUS
    <2>2. Becomes(p, t)
        BY <1>1, <1>11, <2>1 DEF Rests
    <2>3. PanelReady(t) /\ t.shown = s.shown
        BY <1>1, <1>2, <2>1, RestsReady
    <2>4. QED
        BY <1>1, <1>2, <1>9, <1>10, <2>2, <2>3, PanelGoesOn
<1>12. CASE ~ Rests(p)
    <2>1. PICK t : t = [s EXCEPT !.step = "deliver", !.telling = row, !.top = 0]
        OBVIOUS
    <2>2. Becomes(p, t)
        BY <1>1, <1>5, <1>7, <1>12, <2>1 DEF Acknowledge
    <2>3. /\ t \in ReadingPanel /\ t.step = "deliver" /\ t.shown = s.shown /\ t.cursor = s.cursor /\ t.from = s.from
          /\ t.top = 0 /\ t.fetched = s.fetched /\ t.summary = s.summary /\ t.previous = s.previous /\ t.telling = row
        BY <1>2, <1>8, <2>1 DEF ReadingPanel
    <2>4. RowSound(t.summary) /\ RowSound(t.previous) /\ RowSound(t.telling)
        BY <1>2, <1>8, <2>3 DEF PanelReady
    <2>5. PanelReady(t)
        BY <1>2, <2>3, <2>4, ReadyAtStep DEF Loading
    <2>6. QED
        BY <1>1, <1>2, <1>9, <1>10, <2>2, <2>3, <2>5, PanelGoesOn
<1>13. QED
    BY <1>11, <1>12

\* A receipt of the telling row is posted: the server's row stays sound.
LEMMA Posted ==
    ASSUME ReceiptsInv, NEW s, PanelReady(s), NEW known,
           \/ PostReceipt("delivered", s.telling.delivered, known)
           \/ PostReceipt("read", s.telling.read, known)
           \/ UNCHANGED receipt
    PROVE  \E r : receipt' = r /\ RowSound(r)
<1>1. RowSound(receipt) /\ RowSound(s.telling) /\ ThreadLength \in Nat
    BY DEF ReceiptsInv, ReceiptsShape, PanelReady, ThreadLength
<1>2. PICK q : q = receipt
    OBVIOUS
<1>3. PICK y : y = s.telling
    OBVIOUS
<1>4. /\ q \in ReceiptPair /\ q.read \in Nat /\ q.delivered \in Nat /\ y.read \in Nat /\ y.delivered \in Nat
      /\ RowSound(q) /\ RowSound(y)
    BY <1>1, <1>2, <1>3, PairType
<1>5. PICK r : r = receipt'
    OBVIOUS
<1>6. CASE r = q
    BY <1>4, <1>5, <1>6
<1>7. CASE r # q
    <2>1. PICK n : \/ n = y.delivered /\ r = [delivered |-> Furthest(q.delivered, n), read |-> q.read]
                   \/ n = y.read /\ r = [delivered |-> Furthest(q.delivered, n), read |-> Furthest(q.read, n)]
        <3>1. \/ Tells("delivered", y.delivered)
              \/ Tells("read", y.read)
            BY <1>2, <1>3, <1>5, <1>7 DEF PostReceipt
        <3>2. CASE Tells("delivered", y.delivered)
            BY <1>2, <1>5, <3>2 DEF Tells
        <3>3. CASE Tells("read", y.read)
            BY <1>2, <1>5, <3>3 DEF Tells
        <3>4. QED
            BY <3>1, <3>2, <3>3
    <2>2. /\ n \in 0 .. ThreadLength /\ \A i \in 1 .. n : Held(i)
        BY <1>1, <1>4, <2>1 DEF RowSound
    <2>3. \E k \in 0 .. n : /\ \A i \in 1 .. k : Seen(i)
                            /\ r = [delivered |-> Furthest(q.delivered, n), read |-> Furthest(q.read, k)]
        <3>1. Furthest(q.read, 0) = q.read
            BY <1>4, FurthestOfTwo
        <3>2. CASE n = y.delivered /\ r = [delivered |-> Furthest(q.delivered, n), read |-> q.read]
            <4>1. 0 \in 0 .. n /\ \A i \in 1 .. 0 : Seen(i)
                BY <2>2
            <4>2. QED
                BY <3>1, <3>2, <4>1
        <3>3. CASE n = y.read /\ r = [delivered |-> Furthest(q.delivered, n), read |-> Furthest(q.read, n)]
            <4>1. n \in 0 .. n /\ \A i \in 1 .. n : Seen(i)
                BY <1>4, <2>2, <3>3 DEF RowSound
            <4>2. QED
                BY <3>3, <4>1
        <3>4. QED
            BY <2>1, <3>2, <3>3
    <2>4. RowSound(r)
        BY <1>1, <1>4, <2>2, <2>3, RowMovesOn
    <2>5. QED
        BY <1>5, <2>4
<1>8. QED
    BY <1>6, <1>7

LEMMA PostStep ==
    ASSUME ReceiptsInv, NEW p \in Panels, PostDelivered(p) \/ PostRead(p) \/ ReceiptLost(p)
    PROVE  ReceiptsInv'
<1>1. PICK s : s = panels[p]
    OBVIOUS
<1>2. /\ PanelReady(s) /\ s \in ReadingPanel /\ RowSound(saved) /\ ThreadLength \in Nat
      /\ s.step \in {"deliver", "read"} /\ ~ Loading(s)
    BY <1>1, PanelFacts DEF PostDelivered, PostRead, ReceiptLost, Loading
<1>3. PICK r : receipt' = r /\ RowSound(r)
    <2>1. \/ PostReceipt("delivered", s.telling.delivered, s.summary.delivered)
          \/ PostReceipt("read", s.telling.read, s.summary.read)
          \/ UNCHANGED receipt
        BY <1>1 DEF PostDelivered, PostRead, ReceiptLost
    <2>2. QED
        BY <1>2, <2>1, Posted
<1>4. UNCHANGED <<thread, saved, jumped>> /\ (Rests(p) \/ Steps(p, "read"))
    BY DEF PostDelivered, PostRead, ReceiptLost
<1>5. PICK w : w = saved
    OBVIOUS
<1>6. CASE Rests(p)
    <2>1. PICK t : t = [ClosedPanel EXCEPT !.step = "rest", !.watched = s.watched, !.shown = s.shown, !.cursor = s.cursor]
        OBVIOUS
    <2>2. Becomes(p, t)
        BY <1>1, <1>6, <2>1 DEF Rests
    <2>3. PanelReady(t) /\ t.shown = s.shown
        BY <1>1, <1>2, <2>1, RestsReady
    <2>4. QED
        BY <1>1, <1>2, <1>3, <1>4, <1>5, <2>2, <2>3, PanelGoesOn
<1>7. CASE Steps(p, "read")
    <2>1. PICK t : t = [s EXCEPT !.step = "read"]
        OBVIOUS
    <2>2. Becomes(p, t)
        BY <1>1, <1>7, <2>1 DEF Steps
    <2>3. /\ t \in ReadingPanel /\ t.step = "read" /\ t.shown = s.shown /\ t.cursor = s.cursor /\ t.from = s.from
          /\ t.top = s.top /\ t.fetched = s.fetched /\ t.summary = s.summary /\ t.previous = s.previous
          /\ t.telling = s.telling
        BY <1>2, <2>1 DEF ReadingPanel
    <2>4. RowSound(t.summary) /\ RowSound(t.previous) /\ RowSound(t.telling)
        BY <1>2, <2>3 DEF PanelReady
    <2>5. PanelReady(t)
        BY <1>2, <2>3, <2>4, ReadyAtStep DEF Loading
    <2>6. QED
        BY <1>1, <1>2, <1>3, <1>4, <1>5, <2>2, <2>3, <2>5, PanelGoesOn
<1>8. QED
    BY <1>4, <1>6, <1>7

LEMMA ReceiptsStep == ReceiptsInv /\ [ReceiptsNext]_receiptVars => ReceiptsInv'
<1> SUFFICES ASSUME ReceiptsInv, [ReceiptsNext]_receiptVars PROVE ReceiptsInv'
    OBVIOUS
<1>1. ASSUME UNCHANGED receiptVars PROVE ReceiptsInv'
    BY <1>1 DEF receiptVars, ReceiptsInv, ReceiptsShape, PanelSound, PanelReady, RowSound, Held, Seen, OwnsUpTo, ThreadLength
<1>2. QED
    BY <1>1, PartnerSendsStep, OwnSendStep, LookStep, OpenStep, LoadStep, InitialStep, PullChangesStep, CommitPulledStep,
       CheckStep, CommitPageStep, AcknowledgeStep, PostStep DEF ReceiptsNext

\* A receipt claims nothing the device does not have, and as read nothing that was not looked
\* at on a panel, except what an own message made a cursor jump over (acknowledge,
\* advancePendingReceipts, MessagingPanel), for any number of panels, messages and losses.
THEOREM ReceiptsClaimWhatIsThere == ReceiptsSpec => []ReceiptsAccounted
<1>1. QED
    BY ReceiptsInvInit, ReceiptsStep, ReceiptsInvAccounted, PTL DEF ReceiptsSpec

-----------------------------------------------------------------------------
(* Nicknames: what holds in every state, besides NicknamesAccounted.        *)

NameRow == [by : {"panel", "elsewhere"}, over : Nat, moved : BOOLEAN]

NamesShape ==
    /\ names \in Seq(NameRow) /\ behind \in Nat
    /\ field \in [known : Nat, typed : BOOLEAN, over : Nat, step : {"rest", "request", "saved", "conflict"},
                  expected : Nat]

NamesInv == NamesShape /\ NicknamesAccounted

LEMMA NamesInvInit == NameInit => NamesInv
<1> SUFFICES ASSUME NameInit PROVE NamesInv
    OBVIOUS
<1> DEFINE n == [by |-> "elsewhere", over |-> 0, moved |-> FALSE]
<1>1. n \in NameRow /\ n.by = "elsewhere"
    BY DEF NameRow
<1>2. names = <<n>>
    BY DEF NameInit
<1> HIDE DEF n
<1>3. names \in Seq(NameRow) /\ DOMAIN names = {1} /\ names[1] = n
    BY <1>1, <1>2
<1>4. NamesShape
    BY <1>3 DEF NamesShape, NameInit
<1>5. NicknamesAccounted
    BY <1>1, <1>3 DEF NicknamesAccounted
<1>6. QED
    BY <1>4, <1>5 DEF NamesInv

\* A version is added to those there are.
LEMMA NameAdded ==
    ASSUME NamesInv, NEW r \in NameRow, names' = Append(names, r),
           r.by = "panel" /\ ~ r.moved => r.over = Len(names)
    PROVE  names' \in Seq(NameRow) /\ NicknamesAccounted'
<1>1. names \in Seq(NameRow) /\ Len(names) \in Nat
    BY DEF NamesInv, NamesShape
<1>2. /\ names' \in Seq(NameRow) /\ DOMAIN names' = 1 .. Len(names) + 1 /\ DOMAIN names = 1 .. Len(names)
      /\ names'[Len(names) + 1] = r /\ \A v \in 1 .. Len(names) : names'[v] = names[v]
    BY <1>1
<1>3. ASSUME NEW v \in 1 .. Len(names) + 1, names'[v].by = "panel", ~ names'[v].moved
      PROVE  names'[v].over = v - 1
    <2>1. CASE v = Len(names) + 1
        BY <1>1, <1>2, <1>3, <2>1
    <2>2. CASE v # Len(names) + 1
        BY <1>1, <1>2, <1>3, <2>2 DEF NamesInv, NicknamesAccounted
    <2>3. QED
        BY <2>1, <2>2
<1>4. QED
    BY <1>2, <1>3 DEF NicknamesAccounted

LEMMA NameWritten ==
    ASSUME NamesInv, WrittenNickname
    PROVE  names' \in Seq(NameRow) /\ NicknamesAccounted'
<1> DEFINE r == [by |-> "panel", over |-> field.over, moved |-> field.expected # field.over]
<1>1. field.over \in Nat /\ field.expected \in Nat
    BY DEF NamesInv, NamesShape
<1>2. r \in NameRow /\ (r.by = "panel" /\ ~ r.moved => r.over = field.expected)
    BY <1>1 DEF NameRow
<1>3. names' = Append(names, r) /\ field.expected = Len(names)
    BY DEF WrittenNickname, AtVersion
<1>4. QED
    BY <1>2, <1>3, NameAdded

LEMMA NamesStep == NamesInv /\ [NameNext]_nameVars => NamesInv'
<1> SUFFICES ASSUME NamesInv, [NameNext]_nameVars PROVE NamesInv'
    OBVIOUS
<1>1. /\ names \in Seq(NameRow) /\ behind \in Nat /\ Len(names) \in Nat
      /\ field \in [known : Nat, typed : BOOLEAN, over : Nat, step : {"rest", "request", "saved", "conflict"},
                    expected : Nat]
    BY DEF NamesInv, NamesShape
<1>2. UNCHANGED names => names' \in Seq(NameRow) /\ NicknamesAccounted'
    BY <1>1 DEF NamesInv, NicknamesAccounted
<1>3. CASE TypeNickname
    BY <1>1, <1>2, <1>3 DEF TypeNickname, NamesInv, NamesShape
<1>4. CASE SaveNickname
    BY <1>1, <1>2, <1>4 DEF SaveNickname, NamesInv, NamesShape
<1>5. CASE NicknameSaved
    BY <1>1, <1>5, NameWritten DEF NicknameSaved, NamesInv, NamesShape
<1>6. CASE NicknameConflict
    BY <1>1, <1>2, <1>6 DEF NicknameConflict, NamesInv, NamesShape
<1>7. CASE SaveFails
    BY <1>1, <1>2, <1>7, NameWritten DEF SaveFails, NamesInv, NamesShape
<1>8. ASSUME NEW version \in Nat
      PROVE  LET f == Renewed(field, version)
             IN  /\ f \in [known : Nat, typed : BOOLEAN, over : Nat, step : {"rest", "request", "saved", "conflict"},
                           expected : Nat]
                 /\ [f EXCEPT !.step = "rest"] \in
                        [known : Nat, typed : BOOLEAN, over : Nat, step : {"rest", "request", "saved", "conflict"},
                         expected : Nat]
    <2>1. field.over \in Nat
        BY <1>1
    <2>2. \A o \in Nat : [field EXCEPT !.known = version, !.over = o] \in
              [known : Nat, typed : BOOLEAN, over : Nat, step : {"rest", "request", "saved", "conflict"}, expected : Nat]
        BY <1>1
    <2>3. Renewed(field, version) \in
              [known : Nat, typed : BOOLEAN, over : Nat, step : {"rest", "request", "saved", "conflict"}, expected : Nat]
        BY <2>1, <2>2 DEF Renewed
    <2>4. QED
        BY <2>3
<1>9. CASE RefreshAfter
    BY <1>1, <1>2, <1>8, <1>9 DEF RefreshAfter, NamesInv, NamesShape
<1>10. CASE ReadBehind
    BY <1>1, <1>2, <1>10 DEF ReadBehind, NamesInv, NamesShape
<1>11. CASE ShowBehind
    BY <1>1, <1>2, <1>8, <1>11 DEF ShowBehind, NamesInv, NamesShape
<1>12. CASE NameElsewhere
    <2>1. [by |-> "elsewhere", over |-> Len(names), moved |-> FALSE] \in NameRow
        BY <1>1 DEF NameRow
    <2>2. QED
        BY <1>1, <1>12, <2>1, NameAdded DEF NameElsewhere, NamesInv, NamesShape
<1>13. CASE UNCHANGED nameVars
    BY <1>1, <1>2, <1>13 DEF nameVars, NamesInv, NamesShape
<1>14. QED
    BY <1>3, <1>4, <1>5, <1>6, <1>7, <1>9, <1>10, <1>11, <1>12, <1>13 DEF NameNext

\* A nickname saved from the panel replaces the version its member was looking at, unless a
\* read behind moved it (saveNickname), for any number of versions, reads and faults.
THEOREM NicknamesReplaceWhatWasSeen == NameSpec => []NicknamesAccounted
<1>1. NamesInv => NicknamesAccounted
    BY DEF NamesInv
<1>2. QED
    BY <1>1, NamesInvInit, NamesStep, PTL DEF NameSpec

-----------------------------------------------------------------------------
(* MediaDrafts: what holds in every state.                                  *)

RowRecord    == [state : {"none", "prepared", "uploading", "ready", "failed"}, known : Nat]
UploadRecord == [state : {"absent", "uploading", "ready", "bound", "gone"}, generation : Nat, bytes : BOOLEAN]
PageSteps    == UploadSteps \cup {"idle", "post", "answered", "discard", "remove"}
PageRecord ==
    [listed : SUBSET Drafts, failed : SUBSET Drafts, text : Nat, key : Nat, for : SUBSET Drafts, body : BOOLEAN,
     step : PageSteps, work : {"none", "send", "retry", "voice"}, left : SUBSET Drafts, draft : SUBSET Drafts,
     copy : RowRecord, grant : Nat, then : {"put", "ready", "fail"}, posting : Nat]
SendingRecord == [key : Nat, text : Nat, drafts : SUBSET Drafts, role : {"attachment", "voice"},
                  state : {"queued", "sent", "refused"}]

DraftsShape ==
    /\ shelf \in [Drafts -> RowRecord] /\ uploads \in [Drafts -> UploadRecord] /\ pages \in [Pages -> PageRecord]
    /\ outgoing \subseteq SendingRecord /\ written \in Nat /\ used \in Nat /\ composer \in {"chat", "relationship"}

PostSteps == {"post", "answered", "discard"}

\* A draft that may leave the device.
Once(d)     == d \in removed \/ \E m \in outgoing : d \in m.drafts
Uploaded(d) == uploads[d].state \in {"ready", "bound", "gone"}

ShelfHolds(d) ==
    /\ shelf[d].state = "ready" => Uploaded(d)
    /\ shelf[d].known <= uploads[d].generation
    /\ uploads[d].state = "absent" => uploads[d].generation = 0
    /\ uploads[d].state \notin {"absent", "gone"} /\ shelf[d] = NoRow => Once(d)

TaskOver(g) == g.left = {} /\ g.draft = {} /\ g.copy = NoRow /\ g.grant = 0 /\ g.posting = 0

\* What a page knows of the draft it works on.
TaskHolds(p) ==
    /\ pages[p].step \in UploadSteps \cup {"remove"} \/ pages[p].work = "voice" => \E d \in Drafts : pages[p].draft = {d}
    /\ pages[p].step \in UploadSteps => pages[p].work \in {"send", "retry", "voice"}
    /\ pages[p].step \in PostSteps => pages[p].work \in {"send", "voice"}
    /\ pages[p].step \in {"idle", "remove"} => pages[p].work = "none"
    /\ pages[p].step = "idle" => TaskOver(pages[p])
    /\ pages[p].step \notin UploadSteps => pages[p].copy.known = 0 /\ pages[p].grant = 0
    /\ \A d \in pages[p].draft :
           /\ pages[p].copy.known <= uploads[d].generation /\ pages[p].grant <= uploads[d].generation
           /\ pages[p].step \in UploadSteps \ {"load"} => shelf[d] # NoRow \/ Once(d)
           /\ pages[p].step = "ready" \/ (pages[p].step = "save" /\ pages[p].then = "ready") => Uploaded(d)
    /\ pages[p].step = "discard" => \A d \in pages[p].left : Once(d)
    /\ pages[p].step = "answered" => SentWith(pages[p].posting) # {}

\* A key is of one page, and of one sending.
OwnKeys(p) == {pages[p].key, pages[p].posting} \ {0}
PageKeys(p) ==
    /\ OwnKeys(p) \subseteq 1 .. used
    /\ pages[p].work = "send" => pages[p].key # 0 /\ pages[p].posting \in {0, pages[p].key}
    /\ pages[p].work = "voice" => pages[p].posting = 0 \/ pages[p].posting # pages[p].key
    /\ pages[p].step \in PostSteps => pages[p].posting # 0
    /\ \A m \in outgoing :
           /\ m.key = pages[p].key => m.drafts = pages[p].for
           /\ pages[p].step \in PostSteps /\ m.key = pages[p].posting => m.drafts = Attached(pages[p])
MessageKeys ==
    /\ \A m \in outgoing : m.key \in 1 .. used
    /\ \A m, n \in outgoing : m.key = n.key => m.drafts = n.drafts
    /\ \A m, n \in outgoing : m.key = n.key /\ m.state = "sent" /\ n.state = "sent" => m = n
KeysHold ==
    /\ MessageKeys /\ \A p \in Pages : PageKeys(p)
    /\ \A p, q \in Pages : p # q => OwnKeys(p) \cap OwnKeys(q) = {}

\* What is sent is bound, to one sending.
BoundHolds ==
    /\ \A m \in outgoing : m.state = "sent" => \A d \in m.drafts : uploads[d].state = "bound"
    /\ \A m, n \in outgoing : m.state = "sent" /\ n.state = "sent" /\ m # n => m.drafts \cap n.drafts = {}

\* The texts of the chat: until a text is sent again on purpose, all its sendings have one key.
PageTexts(p) ==
    /\ pages[p].text <= written
    /\ pages[p].work = "send" => pages[p].text # 0 \/ pages[p].for # {}
    /\ \A m \in outgoing :
           /\ m.key = pages[p].key /\ ~ (pages[p].step = "discard" /\ pages[p].work = "send") => m.state = "sent"
           /\ m.drafts = {} /\ m.text = pages[p].text => m.text \in repeated \/ m.key = pages[p].key
MessageTexts ==
    /\ \A m \in outgoing : m.text <= written /\ (m.drafts = {} => m.text # 0)
    /\ \A m, n \in outgoing :
           m.drafts = {} /\ n.drafts = {} /\ m.text = n.text => m.text \in repeated \/ m.key = n.key
TextsHold ==
    composer = "chat" =>
        /\ MessageTexts /\ \A p \in Pages : PageTexts(p)
        /\ \A p, q \in Pages : p # q /\ pages[p].text # 0 => pages[p].text # pages[q].text

DraftsInv ==
    /\ DraftsShape /\ (\A d \in Drafts : ShelfHolds(d)) /\ (\A p \in Pages : TaskHolds(p))
    /\ KeysHold /\ BoundHolds /\ TextsHold

-----------------------------------------------------------------------------

LEMMA DraftsInvAccounted == DraftsInv => DraftsAccounted
<1> SUFFICES ASSUME DraftsInv PROVE DraftsAccounted
    OBVIOUS
<1>1. ASSUME NEW d \in Drafts
      PROVE  /\ shelf[d].state = "ready" => uploads[d].state \in {"ready", "bound", "gone"}
             /\ shelf[d].known <= uploads[d].generation
             /\ (uploads[d].state \notin {"absent", "gone"} /\ shelf[d] = NoRow)
                    => d \in removed \/ \E m \in outgoing : d \in m.drafts
    BY DEF DraftsInv, ShelfHolds, Uploaded, Once
<1>2. ASSUME NEW m \in outgoing, NEW n \in outgoing, m.state = "sent", n.state = "sent", m # n
      PROVE  /\ m.drafts \cap n.drafts = {}
             /\ (composer = "chat" /\ m.text = n.text /\ m.drafts = n.drafts) => m.text \in repeated
    <2>1. m.drafts \cap n.drafts = {}
        BY <1>2 DEF DraftsInv, BoundHolds
    <2>2. m.key # n.key
        BY <1>2 DEF DraftsInv, KeysHold, MessageKeys
    <2>3. ASSUME composer = "chat", m.text = n.text, m.drafts = n.drafts PROVE m.text \in repeated
        <3>1. m.drafts = {} /\ n.drafts = {}
            BY <2>1, <2>3
        <3>2. QED
            BY <2>2, <2>3, <3>1 DEF DraftsInv, TextsHold, MessageTexts
    <2>4. QED
        BY <2>1, <2>3
<1>3. QED
    BY <1>1, <1>2 DEF DraftsAccounted

LEMMA NewPageIs ==
    /\ NewPage \in PageRecord /\ NewPage.text = 0 /\ NewPage.key = 0 /\ NewPage.for = {} /\ NewPage.step = "idle"
    /\ NewPage.work = "none" /\ NewPage.left = {} /\ NewPage.draft = {} /\ NewPage.copy = NoRow /\ NewPage.grant = 0
    /\ NewPage.posting = 0
    /\ NoRow \in RowRecord /\ NoRow.known = 0 /\ NoRow.state = "none"
<1>1. NoRow \in RowRecord /\ NoRow.known = 0 /\ NoRow.state = "none"
    BY DEF NoRow, RowRecord
<1>2. \A b \in BOOLEAN, c \in RowRecord :
          [listed |-> {}, failed |-> {}, text |-> 0, key |-> 0, for |-> {}, body |-> b, step |-> "idle", work |-> "none",
           left |-> {}, draft |-> {}, copy |-> c, grant |-> 0, then |-> "put", posting |-> 0] \in PageRecord
    BY DEF PageRecord, PageSteps
<1>3. NewPage \in PageRecord
    BY <1>1, <1>2 DEF NewPage
<1>4. QED
    BY <1>1, <1>3 DEF NewPage

LEMMA DraftsInvInit == DraftInit => DraftsInv
<1> SUFFICES ASSUME DraftInit PROVE DraftsInv
    OBVIOUS
<1>1. /\ shelf = [d \in Drafts |-> NoRow] /\ pages = [p \in Pages |-> NewPage] /\ outgoing = {} /\ written = 0 /\ used = 0
      /\ composer \in {"chat", "relationship"}
      /\ uploads = [d \in Drafts |-> [state |-> "absent", generation |-> 0, bytes |-> FALSE]]
    BY DEF DraftInit
<1>2. shelf \in [Drafts -> RowRecord] /\ \A d \in Drafts : shelf[d].state = "none" /\ shelf[d].known = 0
    BY <1>1, NewPageIs
<1>3. uploads \in [Drafts -> UploadRecord] /\ \A d \in Drafts : uploads[d].state = "absent" /\ uploads[d].generation = 0
    <2>1. PICK u : u = [state |-> "absent", generation |-> 0, bytes |-> FALSE]
        OBVIOUS
    <2>2. u \in UploadRecord /\ u.state = "absent" /\ u.generation = 0
        BY <2>1 DEF UploadRecord
    <2>3. uploads = [d \in Drafts |-> u]
        BY <1>1, <2>1
    <2>4. QED
        BY <2>2, <2>3
<1>4. pages \in [Pages -> PageRecord] /\ \A p \in Pages : pages[p] = NewPage
    BY <1>1, NewPageIs
<1>5. DraftsShape
    BY <1>1, <1>2, <1>3, <1>4 DEF DraftsShape
<1>6. \A d \in Drafts : ShelfHolds(d)
    BY <1>2, <1>3 DEF ShelfHolds
<1>7. \A p \in Pages : TaskHolds(p)
    BY <1>4, NewPageIs DEF TaskHolds, TaskOver, UploadSteps, PostSteps
<1>8. KeysHold /\ BoundHolds
    <2>1. \A p \in Pages : OwnKeys(p) = {}
        BY <1>4, NewPageIs DEF OwnKeys
    <2>2. \A p \in Pages : PageKeys(p)
        BY <1>1, <1>4, <2>1, NewPageIs DEF PageKeys, PostSteps
    <2>3. QED
        BY <1>1, <2>1, <2>2 DEF KeysHold, MessageKeys, BoundHolds
<1>9. TextsHold
    BY <1>1, <1>4, NewPageIs DEF TextsHold, MessageTexts, PageTexts
<1>10. QED
    BY <1>5, <1>6, <1>7, <1>8, <1>9 DEF DraftsInv
-----------------------------------------------------------------------------
(* What becomes of the shelf and the uploads.                               *)

UploadGoes(u, v) ==
    /\ u.generation <= v.generation
    /\ u.state \in {"ready", "bound", "gone"} => v.state \in {"ready", "bound", "gone"}
    /\ u.state = "bound" => v.state = "bound"
    /\ v.state = "absent" => u.state = "absent" /\ v.generation = u.generation

WorldGoes ==
    /\ shelf' \in [Drafts -> RowRecord] /\ uploads' \in [Drafts -> UploadRecord] /\ composer' = composer
    /\ \A d \in Drafts :
           /\ UploadGoes(uploads[d], uploads'[d]) /\ (Once(d) => Once(d)')
           /\ shelf[d] # NoRow => shelf'[d] # NoRow \/ Once(d)'
           /\ \/ shelf'[d] = shelf[d]
              \/ (shelf'[d].state = "ready" => Uploaded(d)') /\ shelf'[d].known <= uploads'[d].generation
           /\ uploads[d].state \in {"absent", "gone"} /\ uploads'[d].state \notin {"absent", "gone"}
                  => shelf'[d] # NoRow \/ Once(d)'
    /\ \A k \in Nat : SentWith(k) # {} => SentWith(k)' # {}

LEMMA ShapeOf ==
    ASSUME DraftsInv
    PROVE  /\ shelf \in [Drafts -> RowRecord] /\ uploads \in [Drafts -> UploadRecord] /\ pages \in [Pages -> PageRecord]
           /\ outgoing \subseteq SendingRecord /\ written \in Nat /\ used \in Nat /\ composer \in {"chat", "relationship"}
           /\ \A d \in Drafts : shelf[d] \in RowRecord /\ shelf[d].known \in Nat
                                /\ uploads[d] \in UploadRecord /\ uploads[d].generation \in Nat
BY DEF DraftsInv, DraftsShape, RowRecord, UploadRecord

LEMMA PageFacts ==
    ASSUME DraftsInv, NEW p \in Pages, NEW page, page = pages[p]
    PROVE  /\ page \in PageRecord /\ page.text \in Nat /\ page.key \in Nat /\ page.posting \in Nat /\ page.grant \in Nat
           /\ page.copy \in RowRecord /\ page.copy.known \in Nat
           /\ page.for \subseteq Drafts /\ page.listed \subseteq Drafts /\ page.failed \subseteq Drafts
           /\ page.left \subseteq Drafts /\ page.draft \subseteq Drafts
<1>1. page \in PageRecord
    BY ShapeOf
<1>2. QED
    BY <1>1 DEF PageRecord, RowRecord

LEMMA ShelfHoldsNext ==
    ASSUME DraftsInv, WorldGoes, NEW d \in Drafts
    PROVE  ShelfHolds(d)'
<1>1. ShelfHolds(d) /\ UploadGoes(uploads[d], uploads'[d])
    BY DEF DraftsInv, WorldGoes
<1>2. shelf[d].known \in Nat /\ uploads[d].generation \in Nat /\ uploads'[d].generation \in Nat /\ uploads'[d] \in UploadRecord
    BY ShapeOf DEF WorldGoes, UploadRecord
<1>3. shelf'[d].state = "ready" => Uploaded(d)'
    <2>1. CASE shelf'[d] = shelf[d]
        BY <1>1, <2>1 DEF ShelfHolds, Uploaded, UploadGoes
    <2>2. CASE shelf'[d] # shelf[d]
        BY <2>2 DEF WorldGoes
    <2>3. QED
        BY <2>1, <2>2
<1>4. shelf'[d].known <= uploads'[d].generation
    <2>1. CASE shelf'[d] = shelf[d]
        BY <1>1, <1>2, <2>1 DEF ShelfHolds, UploadGoes
    <2>2. CASE shelf'[d] # shelf[d]
        BY <2>2 DEF WorldGoes
    <2>3. QED
        BY <2>1, <2>2
<1>5. uploads'[d].state = "absent" => uploads'[d].generation = 0
    BY <1>1 DEF ShelfHolds, UploadGoes
<1>6. ASSUME uploads'[d].state \notin {"absent", "gone"}, shelf'[d] = NoRow PROVE Once(d)'
    <2>1. CASE uploads[d].state \in {"absent", "gone"}
        BY <1>6, <2>1 DEF WorldGoes
    <2>2. CASE uploads[d].state \notin {"absent", "gone"} /\ shelf[d] = NoRow
        BY <1>1, <2>2 DEF ShelfHolds, WorldGoes
    <2>3. CASE shelf[d] # NoRow
        BY <1>6, <2>3 DEF WorldGoes
    <2>4. QED
        BY <2>1, <2>2, <2>3
<1>7. QED
    BY <1>3, <1>4, <1>5, <1>6 DEF ShelfHolds

\* A page that does nothing keeps what it knows.
LEMMA TaskStays ==
    ASSUME DraftsInv, WorldGoes, NEW q \in Pages, pages'[q] = pages[q]
    PROVE  TaskHolds(q)'
<1>1. TaskHolds(q)
    BY DEF DraftsInv
<1>2. PICK page : page = pages[q]
    OBVIOUS
<1>3. page.copy.known \in Nat /\ page.grant \in Nat /\ page.posting \in Nat /\ page.draft \subseteq Drafts /\ page.left \subseteq Drafts
    BY <1>2, PageFacts
<1>4. ASSUME NEW d \in page.draft
      PROVE  /\ page.copy.known <= uploads'[d].generation /\ page.grant <= uploads'[d].generation
             /\ page.step \in UploadSteps \ {"load"} => shelf'[d] # NoRow \/ Once(d)'
             /\ page.step = "ready" \/ (page.step = "save" /\ page.then = "ready") => Uploaded(d)'
    <2>1. d \in Drafts
        BY <1>3
    <2>2. /\ page.copy.known <= uploads[d].generation /\ page.grant <= uploads[d].generation
          /\ page.step \in UploadSteps \ {"load"} => shelf[d] # NoRow \/ Once(d)
          /\ page.step = "ready" \/ (page.step = "save" /\ page.then = "ready") => Uploaded(d)
        BY <1>1, <1>2 DEF TaskHolds
    <2>3. /\ UploadGoes(uploads[d], uploads'[d]) /\ (Once(d) => Once(d)')
          /\ shelf[d] # NoRow => shelf'[d] # NoRow \/ Once(d)'
        BY <2>1 DEF WorldGoes
    <2>4. uploads[d].generation \in Nat /\ uploads'[d].generation \in Nat
        BY <2>1, ShapeOf DEF WorldGoes, UploadRecord
    <2>5. page.copy.known <= uploads'[d].generation /\ page.grant <= uploads'[d].generation
        BY <1>3, <2>2, <2>3, <2>4 DEF UploadGoes
    <2>6. page.step = "ready" \/ (page.step = "save" /\ page.then = "ready") => Uploaded(d)'
        BY <2>2, <2>3 DEF UploadGoes, Uploaded
    <2>7. QED
        BY <2>2, <2>3, <2>5, <2>6
<1>5. page.step = "discard" => \A d \in page.left : Once(d)'
    BY <1>1, <1>2, <1>3 DEF TaskHolds, WorldGoes
<1>6. page.step = "answered" => SentWith(page.posting)' # {}
    BY <1>1, <1>2, <1>3 DEF TaskHolds, WorldGoes
<1>7. page = pages'[q]
    BY <1>2
<1>8. SentWith(page.posting)' = SentWith(pages[q].posting)'
    BY <1>7 DEF SentWith
<1>9. /\ page.step \in UploadSteps \cup {"remove"} \/ page.work = "voice" => \E d \in Drafts : page.draft = {d}
      /\ page.step \in UploadSteps => page.work \in {"send", "retry", "voice"}
      /\ page.step \in PostSteps => page.work \in {"send", "voice"}
      /\ page.step \in {"idle", "remove"} => page.work = "none"
      /\ page.step = "idle" => TaskOver(page)
      /\ page.step \notin UploadSteps => page.copy.known = 0 /\ page.grant = 0
    BY <1>1, <1>2 DEF TaskHolds
<1>10. QED
    BY <1>4, <1>5, <1>6, <1>7, <1>8, <1>9 DEF TaskHolds, TaskOver

LEMMA GoesSame == ASSUME NEW u \in UploadRecord PROVE UploadGoes(u, u)
BY DEF UploadRecord, UploadGoes

LEMMA OnceStays == ASSUME NEW d, outgoing \subseteq outgoing', removed \subseteq removed' PROVE Once(d) => Once(d)'
BY DEF Once

LEMMA SentStays == ASSUME NEW k, outgoing \subseteq outgoing' PROVE SentWith(k) # {} => SentWith(k)' # {}
BY DEF SentWith

\* Nothing on the shelf or the server changes.
LEMMA WorldSame ==
    ASSUME DraftsInv, UNCHANGED <<shelf, uploads, composer>>, outgoing \subseteq outgoing', removed \subseteq removed'
    PROVE  WorldGoes
<1>1. \A d \in Drafts : UploadGoes(uploads[d], uploads'[d])
    BY ShapeOf, GoesSame
<1>2. QED
    BY <1>1, ShapeOf, OnceStays, SentStays DEF WorldGoes

\* One row of the shelf is written.
LEMMA WorldShelf ==
    ASSUME DraftsInv, NEW e \in Drafts, NEW row \in RowRecord, shelf' = [shelf EXCEPT ![e] = row],
           UNCHANGED <<uploads, composer, outgoing>>, removed \subseteq removed',
           row = NoRow => Once(e)', row.state = "ready" => Uploaded(e), row.known <= uploads[e].generation
    PROVE  WorldGoes /\ shelf'[e] = row
<1>1. \A d \in Drafts : UploadGoes(uploads[d], uploads'[d])
    BY ShapeOf, GoesSame
<1>2. shelf' \in [Drafts -> RowRecord] /\ shelf'[e] = row /\ \A d \in Drafts \ {e} : shelf'[d] = shelf[d]
    BY ShapeOf
<1>3. Uploaded(e)' <=> Uploaded(e)
    BY DEF Uploaded
<1>4. ASSUME NEW d \in Drafts
      PROVE  /\ UploadGoes(uploads[d], uploads'[d]) /\ (Once(d) => Once(d)')
             /\ shelf[d] # NoRow => shelf'[d] # NoRow \/ Once(d)'
             /\ \/ shelf'[d] = shelf[d]
                \/ (shelf'[d].state = "ready" => Uploaded(d)') /\ shelf'[d].known <= uploads'[d].generation
             /\ uploads[d].state \in {"absent", "gone"} /\ uploads'[d].state \notin {"absent", "gone"}
                    => shelf'[d] # NoRow \/ Once(d)'
    <2>1. CASE d = e
        BY <1>1, <1>2, <1>3, <2>1, OnceStays
    <2>2. CASE d # e
        BY <1>1, <1>2, <2>2, OnceStays
    <2>3. QED
        BY <2>1, <2>2
<1>5. QED
    BY <1>2, <1>4, ShapeOf, SentStays DEF WorldGoes

\* One object on the server changes.
LEMMA WorldUpload ==
    ASSUME DraftsInv, NEW e \in Drafts, NEW u \in UploadRecord, uploads' = [uploads EXCEPT ![e] = u],
           UNCHANGED <<shelf, composer, outgoing, removed>>, UploadGoes(uploads[e], u),
           uploads[e].state \in {"absent", "gone"} /\ u.state \notin {"absent", "gone"} => shelf[e] # NoRow \/ Once(e)
    PROVE  WorldGoes /\ uploads'[e] = u
<1>1. uploads' \in [Drafts -> UploadRecord] /\ uploads'[e] = u /\ \A d \in Drafts \ {e} : uploads'[d] = uploads[d]
    BY ShapeOf
<1>2. \A d \in Drafts : UploadGoes(uploads[d], uploads'[d])
    BY <1>1, ShapeOf, GoesSame
<1>3. \A d \in Drafts : Once(d) => Once(d)'
    BY OnceStays
<1>4. \A d \in Drafts : uploads[d].state \in {"absent", "gone"} /\ uploads'[d].state \notin {"absent", "gone"}
          => shelf'[d] # NoRow \/ Once(d)'
    BY <1>1, <1>3
<1>5. QED
    BY <1>1, <1>2, <1>3, <1>4, ShapeOf, SentStays DEF WorldGoes
-----------------------------------------------------------------------------
(* What becomes of the keys and the texts when one page does something.     *)

PageMovesTo(p, g, new) ==
    /\ g \in PageRecord /\ pages' = [pages EXCEPT ![p] = g] /\ outgoing' = outgoing \cup new /\ new \subseteq SendingRecord
    /\ repeated \subseteq repeated' /\ used' \in Nat /\ used <= used' /\ written' \in Nat /\ written <= written'

NewKey(k) == k = used' /\ used < used'

KeysFollow(p, g) ==
    /\ g.key = 0 \/ NewKey(g.key) \/ (g.key = pages[p].key /\ g.for = pages[p].for)
    /\ g.posting = 0 \/ NewKey(g.posting) \/ g.posting = g.key \/ g.posting = pages[p].posting
    /\ g.work = "send" => g.key # 0 /\ g.posting \in {0, g.key}
    /\ g.work = "voice" => g.posting = 0 \/ g.posting # g.key
    /\ g.step \in PostSteps => g.posting # 0 /\ g.work \in {"send", "voice"}
    /\ g.step \in PostSteps /\ g.work = "voice" =>
           \/ NewKey(g.posting)
           \/ /\ g.posting = pages[p].posting /\ g.draft = pages[p].draft
              /\ pages[p].step \in PostSteps /\ pages[p].work = "voice"

\* The sendings that are new are the page's, and bind what is ready.
Requested(p, new) ==
    \A r \in new :
        /\ pages[p].step \in PostSteps /\ r \in {Request(pages[p], "sent"), Request(pages[p], "queued")}
        /\ r.state = "sent" => /\ SentWith(pages[p].posting) = {}
                               /\ \A d \in r.drafts : uploads[d].state = "ready" /\ uploads'[d].state = "bound"

TextsFollow(p, g, new) ==
    /\ g.text \in {0, pages[p].text} \/ (g.text = written' /\ written < written')
    /\ composer = "chat" =>
           /\ g.work = "send" => g.text # 0 \/ g.for # {}
           /\ pages[p].step = "discard" /\ pages[p].work = "send" /\ g.key # 0 /\ g.key = pages[p].key
                  => g.step = "discard" /\ g.work = "send"
           /\ g.text = pages[p].text /\ g.text # 0 /\ pages[p].key # 0 /\ g.key # pages[p].key
                  => g.text \in repeated' \/ \A m \in outgoing' : m.key # pages[p].key
           /\ \A r \in new : r.state = "queued" /\ pages[p].work = "send"
                  => g.key = 0 \/ (g.step = "discard" /\ g.work = "send")

LEMMA PageMoves ==
    ASSUME DraftsInv, NEW p \in Pages, NEW g, NEW new, PageMovesTo(p, g, new)
    PROVE  /\ pages' \in [Pages -> PageRecord] /\ pages'[p] = g /\ \A q \in Pages \ {p} : pages'[q] = pages[q]
           /\ outgoing' \subseteq SendingRecord /\ g.key \in Nat /\ g.posting \in Nat /\ g.text \in Nat
<1>1. pages' \in [Pages -> PageRecord] /\ pages'[p] = g /\ \A q \in Pages \ {p} : pages'[q] = pages[q]
    BY ShapeOf DEF PageMovesTo
<1>2. outgoing' \subseteq SendingRecord /\ g \in PageRecord
    BY ShapeOf DEF PageMovesTo
<1>3. QED
    BY <1>1, <1>2 DEF PageRecord

LEMMA RequestIs ==
    ASSUME NEW page, NEW state, NEW r, r = Request(page, state)
    PROVE  /\ r.key = page.posting /\ r.drafts = Attached(page) /\ r.state = state
           /\ r.text = IF page.work = "voice" THEN 0 ELSE page.text
BY DEF Request

LEMMA RequestedIs ==
    ASSUME DraftsInv, NEW p \in Pages, NEW new, Requested(p, new), NEW r \in new
    PROVE  /\ r.key = pages[p].posting /\ r.key # 0 /\ r.key \in OwnKeys(p) /\ r.key \in 1 .. used
           /\ r.drafts = Attached(pages[p]) /\ r.state \in {"sent", "queued"}
           /\ r.text = IF pages[p].work = "voice" THEN 0 ELSE pages[p].text
           /\ pages[p].step \in PostSteps /\ pages[p].work \in {"send", "voice"}
<1>1. pages[p].step \in PostSteps /\ r \in {Request(pages[p], "sent"), Request(pages[p], "queued")}
    BY DEF Requested
<1>2. /\ r.key = pages[p].posting /\ r.drafts = Attached(pages[p]) /\ r.state \in {"sent", "queued"}
      /\ r.text = IF pages[p].work = "voice" THEN 0 ELSE pages[p].text
    BY <1>1, RequestIs
<1>3. PageKeys(p) /\ TaskHolds(p)
    BY DEF DraftsInv, KeysHold
<1>4. r.key # 0 /\ r.key \in OwnKeys(p) /\ r.key \in 1 .. used
    BY <1>1, <1>2, <1>3 DEF PageKeys, OwnKeys
<1>5. QED
    BY <1>1, <1>2, <1>3, <1>4 DEF TaskHolds

LEMMA OneRequest ==
    ASSUME DraftsInv, NEW p \in Pages, NEW new, Requested(p, new), NEW r \in new, NEW s \in new, r.state = s.state
    PROVE  r = s
<1>1. r \in {Request(pages[p], "sent"), Request(pages[p], "queued")} /\ s \in {Request(pages[p], "sent"), Request(pages[p], "queued")}
    BY DEF Requested
<1>2. PICK a : a = Request(pages[p], "sent")
    OBVIOUS
<1>3. PICK b : b = Request(pages[p], "queued")
    OBVIOUS
<1>4. a.state = "sent" /\ b.state = "queued"
    BY <1>2, <1>3, RequestIs
<1>5. QED
    BY <1>1, <1>2, <1>3, <1>4

LEMMA KeyOfMessage == ASSUME DraftsInv, NEW m \in outgoing PROVE m.key \in 1 .. used /\ m.key \in Nat /\ m.key # 0
<1>1. m.key \in 1 .. used /\ used \in Nat
    BY ShapeOf DEF DraftsInv, KeysHold, MessageKeys
<1>2. QED
    BY <1>1

LEMMA OwnKeysNext ==
    ASSUME DraftsInv, NEW p \in Pages, NEW g, NEW new, PageMovesTo(p, g, new), KeysFollow(p, g)
    PROVE  /\ \A k \in OwnKeys(p)' : k \in OwnKeys(p) \/ NewKey(k)
           /\ \A q \in Pages \ {p} : OwnKeys(q)' = OwnKeys(q)
           /\ \A q \in Pages : OwnKeys(q) \subseteq 1 .. used
<1>1. pages'[p] = g /\ \A q \in Pages \ {p} : pages'[q] = pages[q]
    BY PageMoves
<1>2. \A q \in Pages \ {p} : OwnKeys(q)' = OwnKeys(q)
    BY <1>1 DEF OwnKeys
<1>3. \A k \in OwnKeys(p)' : k \in OwnKeys(p) \/ NewKey(k)
    BY <1>1 DEF OwnKeys, KeysFollow
<1>4. QED
    BY <1>2, <1>3 DEF DraftsInv, KeysHold, PageKeys

LEMMA KeysNext ==
    ASSUME DraftsInv, NEW p \in Pages, NEW g, NEW new, PageMovesTo(p, g, new), KeysFollow(p, g), Requested(p, new)
    PROVE  KeysHold'
<1>1. /\ pages'[p] = g /\ (\A q \in Pages \ {p} : pages'[q] = pages[q]) /\ g.key \in Nat /\ g.posting \in Nat
      /\ outgoing' = outgoing \cup new
    BY PageMoves DEF PageMovesTo
<1>2. /\ \A k \in OwnKeys(p)' : k \in OwnKeys(p) \/ NewKey(k)
      /\ \A q \in Pages \ {p} : OwnKeys(q)' = OwnKeys(q)
      /\ \A q \in Pages : OwnKeys(q) \subseteq 1 .. used
    BY OwnKeysNext
<1>3. used \in Nat /\ used' \in Nat /\ used <= used' /\ 1 .. used \subseteq 1 .. used' /\ \A k : NewKey(k) => k \in 1 .. used' /\ k \notin 1 .. used
    BY ShapeOf DEF PageMovesTo, NewKey
<1>4. \A m \in outgoing : m.key \in 1 .. used
    BY KeyOfMessage
<1>5. \A r \in new : r.key = pages[p].posting /\ r.key \in 1 .. used /\ r.key \in OwnKeys(p) /\ r.drafts = Attached(pages[p]) /\ pages[p].step \in PostSteps
    BY RequestedIs
<1>6. PageKeys(p) /\ MessageKeys
    BY DEF DraftsInv, KeysHold
<1>7. MessageKeys'
    <2>1. \A m \in outgoing' : m.key \in 1 .. used'
        BY <1>1, <1>3, <1>4, <1>5
    <2>2. ASSUME NEW m \in outgoing', NEW n \in outgoing', m.key = n.key PROVE m.drafts = n.drafts
        <3>1. \A x \in outgoing, r \in new : x.key = r.key => x.drafts = r.drafts
            BY <1>5, <1>6 DEF PageKeys
        <3>2. \A r, s \in new : r.drafts = s.drafts
            BY <1>5
        <3>3. QED
            BY <1>1, <1>6, <2>2, <3>1, <3>2 DEF MessageKeys
    <2>3. ASSUME NEW m \in outgoing', NEW n \in outgoing', m.key = n.key, m.state = "sent", n.state = "sent" PROVE m = n
        <3>1. ASSUME NEW x \in outgoing, NEW r \in new, x.key = r.key, x.state = "sent", r.state = "sent" PROVE FALSE
            <4>1. SentWith(pages[p].posting) = {}
                BY <3>1 DEF Requested
            <4>2. x.key = pages[p].posting
                BY <1>5, <3>1
            <4>3. QED
                BY <3>1, <4>1, <4>2 DEF SentWith
        <3>2. \A r, s \in new : r.state = "sent" /\ s.state = "sent" => r = s
            BY OneRequest
        <3>3. QED
            BY <1>1, <1>6, <2>3, <3>1, <3>2 DEF MessageKeys
    <2>4. QED
        BY <2>1, <2>2, <2>3 DEF MessageKeys
<1>8. PageKeys(p)'
    <2>1. OwnKeys(p)' \subseteq 1 .. used'
        BY <1>2, <1>3
    <2>2. \A m \in outgoing' : m.key = g.key => m.drafts = g.for
        <3>1. ASSUME NEW m \in outgoing', m.key = g.key PROVE m.drafts = g.for
            <4>1. m.key \in 1 .. used /\ m.key # 0
                BY <1>1, <1>3, <1>4, <1>5
            <4>2. ~ NewKey(g.key)
                BY <1>3, <3>1, <4>1
            <4>3. g.key = pages[p].key /\ g.for = pages[p].for
                BY <3>1, <4>1, <4>2 DEF KeysFollow
            <4>4. CASE m \in outgoing
                BY <1>6, <3>1, <4>3, <4>4 DEF PageKeys
            <4>5. CASE m \in new
                <5>1. pages[p].posting = pages[p].key /\ pages[p].posting # 0
                    BY <1>5, <3>1, <4>1, <4>3, <4>5
                <5>2. pages[p].work = "send"
                    <6>1. pages[p].work \in {"send", "voice"}
                        BY <4>5, RequestedIs
                    <6>2. QED
                        BY <1>6, <5>1, <6>1 DEF PageKeys
                <5>3. Attached(pages[p]) = pages[p].for
                    BY <5>2 DEF Attached
                <5>4. QED
                    BY <1>5, <4>3, <4>5, <5>3
            <4>6. QED
                BY <1>1, <4>4, <4>5
        <3>2. QED
            BY <3>1
    <2>3. ASSUME NEW m \in outgoing', g.step \in PostSteps, m.key = g.posting PROVE m.drafts = Attached(g)
        <3>1. CASE g.work = "send"
            <4>1. g.posting = g.key
                BY <2>3, <3>1 DEF KeysFollow
            <4>2. Attached(g) = g.for
                BY <3>1 DEF Attached
            <4>3. QED
                BY <2>2, <2>3, <4>1, <4>2
        <3>2. CASE g.work = "voice"
            <4>1. m.key \in 1 .. used
                BY <1>1, <1>4, <1>5
            <4>2. ~ NewKey(g.posting)
                BY <1>3, <2>3, <4>1
            <4>3. /\ g.posting = pages[p].posting /\ g.draft = pages[p].draft
                  /\ pages[p].step \in PostSteps /\ pages[p].work = "voice"
                BY <2>3, <3>2, <4>2 DEF KeysFollow
            <4>4. Attached(g) = Attached(pages[p])
                BY <3>2, <4>3 DEF Attached
            <4>5. m.drafts = Attached(pages[p])
                BY <1>1, <1>5, <1>6, <2>3, <4>3 DEF PageKeys
            <4>6. QED
                BY <4>4, <4>5
        <3>3. QED
            BY <2>3, <3>1, <3>2 DEF KeysFollow
    <2>4. /\ g.work = "send" => g.key # 0 /\ g.posting \in {0, g.key}
          /\ g.work = "voice" => g.posting = 0 \/ g.posting # g.key
          /\ g.step \in PostSteps => g.posting # 0
        BY DEF KeysFollow
    <2>5. QED
        BY <1>1, <2>1, <2>2, <2>3, <2>4 DEF PageKeys
<1>9. ASSUME NEW q \in Pages \ {p} PROVE PageKeys(q)'
    <2>1. PageKeys(q) /\ pages'[q] = pages[q] /\ OwnKeys(p) \cap OwnKeys(q) = {} /\ OwnKeys(q)' \subseteq 1 .. used'
        BY <1>1, <1>2, <1>3 DEF DraftsInv, KeysHold
    <2>2. \A r \in new : r.key \notin OwnKeys(q) /\ r.key # 0
        BY <1>3, <1>5, <2>1
    <2>3. \A r \in new : r.key # pages[q].key /\ r.key # pages[q].posting
        BY <2>2 DEF OwnKeys
    <2>4. QED
        BY <1>1, <2>1, <2>3 DEF PageKeys
<1>10. ASSUME NEW q \in Pages, NEW s \in Pages, q # s PROVE OwnKeys(q)' \cap OwnKeys(s)' = {}
    <2>1. OwnKeys(q) \cap OwnKeys(s) = {}
        BY <1>10 DEF DraftsInv, KeysHold
    <2>2. QED
        BY <1>2, <1>3, <1>10, <2>1
<1>11. QED
    BY <1>7, <1>8, <1>9, <1>10 DEF KeysHold

LEMMA BoundNext ==
    ASSUME DraftsInv, WorldGoes, NEW p \in Pages, NEW new, new \subseteq SendingRecord, outgoing' = outgoing \cup new,
           Requested(p, new)
    PROVE  BoundHolds'
<1>1. \A m \in outgoing \cup new : m.drafts \subseteq Drafts
    BY ShapeOf DEF SendingRecord
<1>2. ASSUME NEW m \in outgoing, m.state = "sent", NEW d \in m.drafts
      PROVE  uploads[d].state = "bound" /\ uploads'[d].state = "bound"
    <2>1. d \in Drafts /\ uploads[d].state = "bound"
        BY <1>1, <1>2 DEF DraftsInv, BoundHolds
    <2>2. QED
        BY <2>1 DEF WorldGoes, UploadGoes
<1>3. ASSUME NEW r \in new, r.state = "sent", NEW d \in r.drafts
      PROVE  uploads[d].state = "ready" /\ uploads'[d].state = "bound"
    BY <1>3 DEF Requested
<1>4. \A r, s \in new : r.state = "sent" /\ s.state = "sent" => r = s
    BY OneRequest
<1>5. ASSUME NEW m \in outgoing', NEW n \in outgoing', m.state = "sent", n.state = "sent", m # n PROVE m.drafts \cap n.drafts = {}
    <2>1. \A x \in outgoing, r \in new : x.state = "sent" /\ r.state = "sent" => x.drafts \cap r.drafts = {}
        <3>1. SUFFICES ASSUME NEW x \in outgoing, NEW r \in new, x.state = "sent", r.state = "sent", NEW d \in x.drafts, d \in r.drafts
                       PROVE  FALSE
            OBVIOUS
        <3>2. uploads[d].state = "bound" /\ uploads[d].state = "ready"
            BY <1>2, <1>3, <3>1
        <3>3. QED
            BY <3>2
    <2>2. \A x, y \in outgoing : x.state = "sent" /\ y.state = "sent" /\ x # y => x.drafts \cap y.drafts = {}
        BY DEF DraftsInv, BoundHolds
    <2>3. CASE m \in outgoing /\ n \in outgoing
        BY <1>5, <2>2, <2>3
    <2>4. CASE m \in outgoing /\ n \in new
        BY <1>5, <2>1, <2>4
    <2>5. CASE m \in new /\ n \in outgoing
        BY <1>5, <2>1, <2>5
    <2>6. CASE m \in new /\ n \in new
        BY <1>4, <1>5, <2>6
    <2>7. QED
        BY <2>3, <2>4, <2>5, <2>6
<1>6. \A m \in outgoing' : m.state = "sent" => \A d \in m.drafts : uploads'[d].state = "bound"
    BY <1>2, <1>3
<1>7. QED
    BY <1>5, <1>6 DEF BoundHolds
LEMMA TextsNext ==
    ASSUME DraftsInv, UNCHANGED composer, NEW p \in Pages, NEW g, NEW new, PageMovesTo(p, g, new), KeysFollow(p, g),
           Requested(p, new), TextsFollow(p, g, new)
    PROVE  TextsHold'
<1> SUFFICES ASSUME composer = "chat"
             PROVE  /\ MessageTexts' /\ \A q \in Pages : PageTexts(q)'
                    /\ \A q, s \in Pages : q # s /\ pages'[q].text # 0 => pages'[q].text # pages'[s].text
    BY DEF TextsHold
<1>1. /\ pages'[p] = g /\ (\A q \in Pages \ {p} : pages'[q] = pages[q]) /\ g.key \in Nat /\ g.posting \in Nat /\ g.text \in Nat
      /\ outgoing' = outgoing \cup new /\ repeated \subseteq repeated'
    BY PageMoves DEF PageMovesTo
<1>2. /\ MessageTexts /\ \A q \in Pages : PageTexts(q)
      /\ \A q, s \in Pages : q # s /\ pages[q].text # 0 => pages[q].text # pages[s].text
    BY DEF DraftsInv, TextsHold
<1>3. /\ written \in Nat /\ written' \in Nat /\ written <= written'
      /\ used \in Nat /\ used' \in Nat /\ used <= used'
      /\ \A q \in Pages : pages[q].text \in Nat
      /\ \A m \in outgoing : m.text \in Nat
    BY ShapeOf, PageFacts DEF PageMovesTo, SendingRecord
<1>4. \A r \in new : /\ r.key = pages[p].posting /\ r.key # 0 /\ r.key \in OwnKeys(p) /\ r.key \in 1 .. used
                     /\ r.drafts = Attached(pages[p]) /\ r.state \in {"sent", "queued"}
                     /\ r.text = (IF pages[p].work = "voice" THEN 0 ELSE pages[p].text)
                     /\ pages[p].step \in PostSteps /\ pages[p].work \in {"send", "voice"}
    BY RequestedIs
<1>5. PageKeys(p) /\ TaskHolds(p) /\ PageTexts(p)
    BY <1>2 DEF DraftsInv, KeysHold
<1>6. pages[p].work = "send" => pages[p].key # 0
    BY <1>5 DEF PageKeys
\* What is asked for without a draft has the text of the page, and its key.
<1>7. ASSUME NEW r \in new
      PROVE  /\ r.text <= written /\ r.text \in Nat
             /\ r.drafts = {} => r.text # 0 /\ r.text = pages[p].text /\ pages[p].work = "send"
             /\ r.key = pages[p].key <=> pages[p].work = "send"
    <2>1. CASE pages[p].work = "voice"
        <3>1. r.text = 0 /\ \E d \in Drafts : r.drafts = {d}
            BY <1>4, <1>5, <2>1 DEF TaskHolds, Attached
        <3>2. r.key # pages[p].key
            BY <1>4, <1>5, <2>1 DEF PageKeys
        <3>3. r.drafts # {}
            BY <3>1
        <3>4. QED
            BY <1>3, <2>1, <3>1, <3>2, <3>3
    <2>2. CASE pages[p].work = "send"
        <3>1. r.text = pages[p].text /\ r.drafts = pages[p].for
            BY <1>4, <2>2 DEF Attached
        <3>2. r.key = pages[p].key
            BY <1>4, <1>5, <2>2 DEF PageKeys
        <3>3. pages[p].text <= written /\ (pages[p].text # 0 \/ pages[p].for # {})
            BY <1>5, <2>2 DEF PageTexts
        <3>4. QED
            BY <1>3, <2>2, <3>1, <3>2, <3>3
    <2>3. QED
        BY <1>4, <2>1, <2>2
<1>8. \A m \in outgoing' : m.text <= written /\ m.text \in Nat
    BY <1>1, <1>2, <1>3, <1>7 DEF MessageTexts
<1>9. MessageTexts'
    <2>1. \A m \in outgoing' : m.text <= written' /\ (m.drafts = {} => m.text # 0)
        <3>1. ASSUME NEW m \in outgoing' PROVE m.text <= written'
            BY <1>3, <1>8
        <3>2. QED
            BY <1>1, <1>2, <1>7, <3>1 DEF MessageTexts
    <2>2. ASSUME NEW m \in outgoing, NEW r \in new, m.drafts = {}, r.drafts = {}, m.text = r.text
          PROVE  m.text \in repeated \/ m.key = r.key
        <3>1. pages[p].work = "send" /\ r.text = pages[p].text /\ r.key = pages[p].key
            BY <1>7, <2>2
        <3>2. QED
            BY <1>5, <2>2, <3>1 DEF PageTexts
    <2>3. \A r, s \in new : r.key = s.key
        BY <1>4
    <2>4. ASSUME NEW m \in outgoing', NEW n \in outgoing', m.drafts = {}, n.drafts = {}, m.text = n.text
          PROVE  m.text \in repeated' \/ m.key = n.key
        BY <1>1, <1>2, <2>2, <2>3, <2>4 DEF MessageTexts
    <2>5. QED
        BY <2>1, <2>4 DEF MessageTexts
<1>10. PageTexts(p)'
    <2>1. g.text <= written'
        BY <1>2, <1>3 DEF TextsFollow, PageTexts
    <2>2. g.work = "send" => g.text # 0 \/ g.for # {}
        BY DEF TextsFollow
    <2>3. ASSUME NEW m \in outgoing', m.key = g.key, ~ (g.step = "discard" /\ g.work = "send") PROVE m.state = "sent"
        <3>1. m.key \in 1 .. used
            BY <1>1, <1>4, KeyOfMessage
        <3>2. g.key = pages[p].key /\ g.key # 0
            BY <1>3, <2>3, <3>1 DEF KeysFollow, NewKey
        <3>3. ~ (pages[p].step = "discard" /\ pages[p].work = "send")
            BY <2>3, <3>2 DEF TextsFollow
        <3>4. CASE m \in outgoing
            BY <1>5, <2>3, <3>2, <3>3, <3>4 DEF PageTexts
        <3>5. CASE m \in new
            <4>1. pages[p].work = "send"
                BY <1>7, <2>3, <3>2, <3>5
            <4>2. m.state # "queued"
                BY <2>3, <3>2, <3>5, <4>1 DEF TextsFollow
            <4>3. QED
                BY <1>4, <3>5, <4>2
        <3>6. QED
            BY <1>1, <3>4, <3>5
    <2>4. ASSUME NEW m \in outgoing', m.drafts = {}, m.text = g.text PROVE m.text \in repeated' \/ m.key = g.key
        <3>1. m.text # 0 /\ m.text <= written /\ m.text \in Nat
            BY <1>1, <1>2, <1>7, <1>8, <2>4 DEF MessageTexts
        <3>2. g.text = pages[p].text
            BY <1>3, <2>4, <3>1 DEF TextsFollow
        <3>3. m.text \in repeated \/ m.key = pages[p].key
            <4>1. CASE m \in outgoing
                BY <1>5, <2>4, <3>2, <4>1 DEF PageTexts
            <4>2. CASE m \in new
                BY <1>7, <2>4, <4>2
            <4>3. QED
                BY <1>1, <4>1, <4>2
        <3>4. CASE m.key = pages[p].key /\ g.key # pages[p].key
            <4>1. m.key # 0
                BY <1>1, <1>4, KeyOfMessage
            <4>2. g.text \in repeated'
                BY <2>4, <3>1, <3>2, <3>4, <4>1 DEF TextsFollow
            <4>3. QED
                BY <2>4, <4>2
        <3>5. QED
            BY <1>1, <3>3, <3>4
    <2>5. QED
        BY <1>1, <2>1, <2>2, <2>3, <2>4 DEF PageTexts
<1>11. ASSUME NEW q \in Pages \ {p} PROVE PageTexts(q)'
    <2>1. PageTexts(q) /\ pages'[q] = pages[q] /\ OwnKeys(p) \cap OwnKeys(q) = {}
        BY <1>1, <1>2 DEF DraftsInv, KeysHold
    <2>2. pages[q].text <= written'
        BY <1>3, <2>1 DEF PageTexts
    <2>3. \A r \in new : r.key # pages[q].key
        BY <1>4, <2>1 DEF OwnKeys
    <2>4. ASSUME NEW r \in new, r.drafts = {} PROVE r.text # pages[q].text
        BY <1>2, <1>7, <2>4
    <2>5. QED
        BY <1>1, <2>1, <2>2, <2>3, <2>4 DEF PageTexts
<1>12. ASSUME NEW q \in Pages, NEW s \in Pages, q # s, pages'[q].text # 0 PROVE pages'[q].text # pages'[s].text
    <2>1. \A x \in Pages : pages[x].text <= written
        BY <1>2 DEF PageTexts
    <2>2. CASE q = p
        <3>1. pages'[s] = pages[s] /\ pages[s].text <= written
            BY <1>1, <1>12, <2>1, <2>2
        <3>2. CASE g.text \in {0, pages[p].text}
            BY <1>1, <1>2, <1>12, <2>2, <3>1, <3>2
        <3>3. CASE g.text = written' /\ written < written'
            BY <1>1, <1>3, <2>2, <3>1, <3>3
        <3>4. QED
            BY <3>2, <3>3 DEF TextsFollow
    <2>3. CASE q # p /\ s = p
        <3>1. pages'[q] = pages[q] /\ pages[q].text <= written
            BY <1>1, <2>1, <2>3
        <3>2. CASE g.text \in {0, pages[p].text}
            BY <1>1, <1>2, <1>12, <2>3, <3>1, <3>2
        <3>3. CASE g.text = written' /\ written < written'
            BY <1>1, <1>3, <2>3, <3>1, <3>3
        <3>4. QED
            BY <3>2, <3>3 DEF TextsFollow
    <2>4. CASE q # p /\ s # p
        BY <1>1, <1>2, <1>12, <2>4
    <2>5. QED
        BY <2>2, <2>3, <2>4
<1>13. QED
    BY <1>9, <1>10, <1>11, <1>12

\* A page does something, and asks for the sendings that are new.
LEMMA PageStep ==
    ASSUME DraftsInv, WorldGoes, NEW p \in Pages, NEW g, NEW new, PageMovesTo(p, g, new), KeysFollow(p, g),
           Requested(p, new), TextsFollow(p, g, new), TaskHolds(p)'
    PROVE  DraftsInv'
<1>1. /\ pages' \in [Pages -> PageRecord] /\ (\A q \in Pages \ {p} : pages'[q] = pages[q]) /\ outgoing' \subseteq SendingRecord
      /\ outgoing' = outgoing \cup new /\ new \subseteq SendingRecord /\ used' \in Nat /\ written' \in Nat
    BY PageMoves DEF PageMovesTo
<1>2. \A q \in Pages : TaskHolds(q)'
    BY <1>1, TaskStays
<1>3. \A d \in Drafts : ShelfHolds(d)'
    BY ShelfHoldsNext
<1>4. UNCHANGED composer /\ composer \in {"chat", "relationship"}
    BY ShapeOf DEF WorldGoes
<1>5. KeysHold' /\ BoundHolds' /\ TextsHold'
    BY <1>1, <1>4, KeysNext, BoundNext, TextsNext
<1>6. DraftsShape'
    BY <1>1, <1>4 DEF DraftsShape, WorldGoes
<1>7. QED
    BY <1>2, <1>3, <1>5, <1>6 DEF DraftsInv

\* A page does something, and asks for nothing.
LEMMA QuietStep ==
    ASSUME DraftsInv, WorldGoes, NEW p \in Pages, NEW g \in PageRecord, pages' = [pages EXCEPT ![p] = g],
           UNCHANGED outgoing, repeated \subseteq repeated', used' \in Nat, used <= used', written' \in Nat, written <= written',
           KeysFollow(p, g), TextsFollow(p, g, {}), TaskHolds(p)'
    PROVE  DraftsInv'
<1>1. PICK none : none = {}
    OBVIOUS
<1>2. PageMovesTo(p, g, none) /\ Requested(p, none) /\ TextsFollow(p, g, none)
    BY <1>1 DEF PageMovesTo, Requested
<1>3. QED
    BY <1>2, PageStep
-----------------------------------------------------------------------------
(* What the operators do to a page.                                         *)

SendingKept(g, page) == g.text = page.text /\ g.key = page.key /\ g.for = page.for
TaskKept(g, page) ==
    /\ g.work = page.work /\ g.draft = page.draft /\ g.copy = page.copy /\ g.grant = page.grant
    /\ g.then = page.then /\ g.posting = page.posting

LEMMA BetweenIs ==
    ASSUME NEW page \in PageRecord, NEW g, g = Between(page)
    PROVE  g \in PageRecord /\ SendingKept(g, page) /\ TaskOver(g) /\ g.listed = page.listed /\ g.step = page.step /\ g.work = page.work
<1>1. PICK c \in RowRecord : c = NoRow
    BY NewPageIs
<1>2. PICK t \in {"put", "ready", "fail"} : t = "put"
    OBVIOUS
<1>3. PICK h : h = [page EXCEPT !.left = {}, !.draft = {}, !.copy = c]
    OBVIOUS
<1>10. PICK z \in Nat : z = 0
    OBVIOUS
<1>4. g = [h EXCEPT !.grant = z, !.then = t, !.posting = z]
    BY <1>1, <1>2, <1>3, <1>10 DEF Between
<1>5. h \in PageRecord
    BY <1>3 DEF PageRecord
<1>6. /\ SendingKept(h, page) /\ h.left = {} /\ h.draft = {} /\ h.copy = c
      /\ h.listed = page.listed /\ h.step = page.step /\ h.work = page.work
    BY <1>3, <1>5 DEF PageRecord, SendingKept
<1>7. g \in PageRecord
    BY <1>4, <1>5 DEF PageRecord
<1>8. /\ SendingKept(g, h) /\ g.left = h.left /\ g.draft = h.draft /\ g.copy = h.copy /\ g.grant = z /\ g.posting = z
      /\ g.listed = h.listed /\ g.step = h.step /\ g.work = h.work
    BY <1>4, <1>7 DEF PageRecord, SendingKept
<1>9. QED
    BY <1>1, <1>6, <1>7, <1>8, <1>10 DEF PageRecord, SendingKept, TaskOver

LEMMA ForgetIs ==
    ASSUME NEW page \in PageRecord, NEW g, g = Forget(page)
    PROVE  /\ g \in PageRecord /\ TaskKept(g, page) /\ g.key = 0 /\ g.for = {} /\ g.text = page.text
           /\ g.listed = page.listed /\ g.step = page.step /\ g.left = page.left
<1>1. \A n \in Nat, b \in BOOLEAN : [page EXCEPT !.key = n, !.for = {}, !.body = b] \in PageRecord
    BY DEF PageRecord
<1>2. g = [page EXCEPT !.key = 0, !.for = {}, !.body = FALSE]
    BY DEF Forget
<1>3. g \in PageRecord
    BY <1>1, <1>2
<1>4. QED
    BY <1>2, <1>3 DEF PageRecord, TaskKept

LEMMA StepIs ==
    ASSUME NEW page \in PageRecord, NEW s \in PageSteps, NEW g, g = [page EXCEPT !.step = s]
    PROVE  /\ g \in PageRecord /\ SendingKept(g, page) /\ TaskKept(g, page) /\ g.step = s
           /\ g.listed = page.listed /\ g.left = page.left
<1>1. g \in PageRecord
    BY DEF PageRecord
<1>2. QED
    BY <1>1 DEF PageRecord, SendingKept, TaskKept

LEMMA ListIs ==
    ASSUME NEW page \in PageRecord, NEW rows, NEW g, g = List(page, rows)
    PROVE  /\ g \in PageRecord /\ SendingKept(g, page) /\ TaskKept(g, page) /\ g.step = page.step
           /\ g.left = page.left
<1>1. PICK l \in SUBSET Drafts : l = Kept(rows)
    BY DEF Kept
<1>2. PICK f \in SUBSET Drafts : f = {d \in Drafts : rows[d].state = "failed"}
    OBVIOUS
<1>3. g = [page EXCEPT !.listed = l, !.failed = f]
    BY <1>1, <1>2 DEF List
<1>4. g \in PageRecord
    BY <1>3 DEF PageRecord
<1>5. QED
    BY <1>3, <1>4 DEF PageRecord, SendingKept, TaskKept

\* At the end of a task the chat keeps the sending.
Rested(g, page) ==
    /\ g \in PageRecord /\ g.text = page.text /\ g.step = "idle" /\ g.work = "none" /\ TaskOver(g)
    /\ IF composer = "chat" THEN g.key = page.key /\ g.for = page.for ELSE g.key = 0

LEMMA RestIs ==
    ASSUME NEW page \in PageRecord, NEW g, g = Rest(page)
    PROVE  Rested(g, page) /\ g.listed = page.listed
<1>1. PICK base : base = IF composer = "chat" THEN page ELSE Forget(page)
    OBVIOUS
<1>2. /\ base \in PageRecord /\ base.text = page.text /\ base.listed = page.listed
      /\ IF composer = "chat" THEN base.key = page.key /\ base.for = page.for ELSE base.key = 0
    BY <1>1, ForgetIs
<1>3. PICK b : b = Between(base)
    OBVIOUS
<1>4. b \in PageRecord /\ SendingKept(b, base) /\ TaskOver(b) /\ b.listed = base.listed
    BY <1>2, <1>3, BetweenIs
<1>5. g = [b EXCEPT !.step = "idle", !.work = "none"]
    BY <1>1, <1>3 DEF Rest
<1>6. g \in PageRecord
    BY <1>4, <1>5 DEF PageRecord, PageSteps
<1>7. g.step = "idle" /\ g.work = "none" /\ SendingKept(g, b) /\ TaskOver(g) /\ g.listed = b.listed
    BY <1>4, <1>5, <1>6 DEF PageRecord, SendingKept, TaskOver
<1>8. QED
    BY <1>2, <1>4, <1>6, <1>7 DEF SendingKept, Rested

LEMMA RefreshedIs ==
    ASSUME NEW page \in PageRecord, NEW rows, NEW g, g = Refreshed(page, rows)
    PROVE  Rested(g, page)
<1>1. PICK b : b = Rest(page)
    OBVIOUS
<1>2. Rested(b, page)
    BY <1>1, RestIs
<1>3. g = List(b, rows) /\ b \in PageRecord
    BY <1>1, <1>2 DEF Refreshed, Rested
<1>4. g \in PageRecord /\ SendingKept(g, b) /\ TaskKept(g, b) /\ g.step = b.step /\ g.left = b.left
    BY <1>3, ListIs
<1>5. QED
    BY <1>2, <1>4 DEF Rested, SendingKept, TaskKept, TaskOver

LEMMA StartUploadIs ==
    ASSUME NEW page \in PageRecord, NEW work \in {"send", "retry", "voice"}, NEW drafts \in SUBSET Drafts, drafts # {},
           NEW g, g = StartUpload(page, work, drafts)
    PROVE  /\ g \in PageRecord /\ SendingKept(g, page) /\ g.step = "load" /\ g.work = work /\ g.left = drafts
           /\ (\E d \in drafts : g.draft = {d}) /\ g.copy = NoRow /\ g.grant = 0 /\ g.posting = 0
<1>1. PICK d \in drafts : d = CHOOSE x \in drafts : TRUE
    OBVIOUS
<1>2. PICK b : b = Between(page)
    OBVIOUS
<1>3. b \in PageRecord /\ SendingKept(b, page) /\ TaskOver(b)
    BY <1>2, BetweenIs
<1>4. g = [b EXCEPT !.step = "load", !.work = work, !.left = drafts, !.draft = {d}]
    BY <1>1, <1>2 DEF StartUpload
<1>5. PICK e \in SUBSET Drafts : e = {d}
    BY <1>1
<1>6. g \in PageRecord
    BY <1>3, <1>4, <1>5 DEF PageRecord, PageSteps, UploadSteps
<1>7. g.step = "load" /\ g.work = work /\ g.left = drafts /\ g.draft = {d} /\ SendingKept(g, b)
      /\ g.copy = b.copy /\ g.grant = b.grant /\ g.posting = b.posting
    BY <1>3, <1>4, <1>6 DEF PageRecord, SendingKept
<1>8. QED
    BY <1>1, <1>3, <1>6, <1>7 DEF SendingKept, TaskOver

LEMMA StartDiscardIs ==
    ASSUME NEW page \in PageRecord, NEW drafts \in SUBSET Drafts, NEW g, g = StartDiscard(page, drafts)
    PROVE  /\ g \in PageRecord /\ SendingKept(g, page) /\ TaskKept(g, page) /\ g.step = "discard" /\ g.left = drafts
<1>1. g \in PageRecord /\ g = [page EXCEPT !.step = "discard", !.left = drafts]
    BY DEF StartDiscard, PageRecord, PageSteps
<1>2. QED
    BY <1>1 DEF PageRecord, SendingKept, TaskKept

-----------------------------------------------------------------------------
(* The kinds of steps a page takes.                                         *)

\* A page is at rest: its sending is forgotten or as it was.
LEMMA RestAsk ==
    ASSUME DraftsInv, WorldGoes, NEW p \in Pages, NEW g, NEW new, PageMovesTo(p, g, new), Requested(p, new), UNCHANGED used,
           g.step = "idle", g.work = "none", TaskOver(g),
           g.key = 0 \/ (g.key = pages[p].key /\ g.for = pages[p].for),
           g.text \in {0, pages[p].text} \/ (g.text = written' /\ written < written'),
           composer = "chat" /\ g.key # 0 => ~ (pages[p].step = "discard" /\ pages[p].work = "send"),
           composer = "chat" /\ g.key # pages[p].key /\ g.text = pages[p].text /\ g.text # 0
               => g.text \in repeated' \/ \A m \in outgoing' : m.key # pages[p].key,
           \A r \in new : composer = "chat" /\ r.state = "queued" => g.key = 0
    PROVE  DraftsInv'
<1>1. KeysFollow(p, g)
    BY DEF KeysFollow, PostSteps, TaskOver
<1>2. TextsFollow(p, g, new)
    BY DEF TextsFollow
<1>3. pages'[p] = g
    BY PageMoves
<1>4. TaskHolds(p)'
    BY <1>3, NewPageIs DEF TaskHolds, TaskOver, PostSteps, UploadSteps
<1>5. QED
    BY <1>1, <1>2, <1>4, PageStep

LEMMA RestStep ==
    ASSUME DraftsInv, WorldGoes, NEW p \in Pages, NEW g \in PageRecord, pages' = [pages EXCEPT ![p] = g],
           UNCHANGED <<outgoing, used>>, repeated \subseteq repeated', written' \in Nat, written <= written',
           g.step = "idle", g.work = "none", TaskOver(g),
           g.key = 0 \/ (g.key = pages[p].key /\ g.for = pages[p].for),
           g.text \in {0, pages[p].text} \/ (g.text = written' /\ written < written'),
           composer = "chat" /\ g.key # 0 => ~ (pages[p].step = "discard" /\ pages[p].work = "send"),
           composer = "chat" /\ g.key # pages[p].key /\ g.text = pages[p].text /\ g.text # 0
               => g.text \in repeated' \/ \A m \in outgoing : m.key # pages[p].key
    PROVE  DraftsInv'
<1>1. PICK none : none = {}
    OBVIOUS
<1>2. PageMovesTo(p, g, none) /\ Requested(p, none) /\ outgoing' = outgoing /\ used' = used
    BY <1>1, ShapeOf DEF PageMovesTo, Requested
<1>3. \A r \in none : composer = "chat" /\ r.state = "queued" => g.key = 0
    BY <1>1
<1>4. QED
    BY <1>2, <1>3, RestAsk

\* A task is over and the page shows the shelf.
LEMMA OverStep ==
    ASSUME DraftsInv, WorldGoes, NEW p \in Pages, NEW g, pages' = [pages EXCEPT ![p] = g], Rested(g, pages[p]),
           UNCHANGED <<outgoing, used, written, repeated>>, ~ (pages[p].step = "discard" /\ pages[p].work = "send")
    PROVE  DraftsInv'
<1>1. g \in PageRecord /\ g.text = pages[p].text /\ g.step = "idle" /\ g.work = "none" /\ TaskOver(g)
    BY DEF Rested
<1>2. g.key = 0 \/ (g.key = pages[p].key /\ g.for = pages[p].for)
    BY DEF Rested
<1>3. composer = "chat" => g.key = pages[p].key
    BY DEF Rested
<1>4. written' \in Nat /\ written <= written' /\ repeated \subseteq repeated'
    BY ShapeOf
<1>5. QED
    BY <1>1, <1>2, <1>3, <1>4, RestStep

\* An upload goes on.
LEMMA UploadStep ==
    ASSUME DraftsInv, WorldGoes, NEW p \in Pages, NEW g \in PageRecord, pages' = [pages EXCEPT ![p] = g],
           UNCHANGED <<outgoing, used, written, repeated>>, NEW e \in Drafts, pages[p].draft = {e},
           pages[p].step \in UploadSteps, g.step \in UploadSteps, SendingKept(g, pages[p]), g.work = pages[p].work, g.draft = {e},
           g.posting = pages[p].posting, g.copy.known <= uploads'[e].generation, g.grant <= uploads'[e].generation,
           g.step # "load" => shelf'[e] # NoRow \/ Once(e)',
           g.step = "ready" \/ (g.step = "save" /\ g.then = "ready") => Uploaded(e)'
    PROVE  DraftsInv'
<1>1. used \in Nat /\ used' \in Nat /\ used <= used' /\ written \in Nat /\ written' \in Nat /\ written <= written'
    BY ShapeOf
<1>2. pages'[p] = g
    BY ShapeOf
<1>3. PageKeys(p) /\ TaskHolds(p)
    BY DEF DraftsInv, KeysHold
<1>4. composer = "chat" => PageTexts(p)
    BY DEF DraftsInv, TextsHold
<1>5. g.step \notin PostSteps /\ g.step \notin {"idle", "remove", "discard", "answered"} /\ pages[p].step # "discard"
    BY DEF PostSteps, UploadSteps
<1>6. KeysFollow(p, g)
    BY <1>3, <1>5 DEF KeysFollow, SendingKept, PageKeys
<1>7. TextsFollow(p, g, {})
    BY <1>4, <1>5 DEF TextsFollow, SendingKept, PageTexts
<1>8. TaskHolds(p)'
    <2>1. pages[p].work \in {"send", "retry", "voice"}
        BY <1>3 DEF TaskHolds
    <2>2. QED
        BY <1>2, <1>5, <2>1 DEF TaskHolds
<1>9. QED
    BY <1>1, <1>6, <1>7, <1>8, QuietStep

LEMMA UploadOf ==
    ASSUME DraftsInv, NEW p \in Pages, pages[p].step \in UploadSteps
    PROVE  \E e \in Drafts : pages[p].draft = {e} /\ CurrentDraft(p) = e
<1>1. PICK e \in Drafts : pages[p].draft = {e}
    BY DEF DraftsInv, TaskHolds
<1>2. CurrentDraft(p) = e
    BY <1>1 DEF CurrentDraft
<1>3. QED
    BY <1>1, <1>2

LEMMA KnowsOf ==
    ASSUME DraftsInv, NEW p \in Pages, NEW e \in Drafts, pages[p].draft = {e}
    PROVE  /\ pages[p].copy.known <= uploads[e].generation /\ pages[p].grant <= uploads[e].generation
           /\ pages[p].step \in UploadSteps \ {"load"} => shelf[e] # NoRow \/ Once(e)
           /\ pages[p].step = "ready" \/ (pages[p].step = "save" /\ pages[p].then = "ready") => Uploaded(e)
BY DEF DraftsInv, TaskHolds

LEMMA UploadSet ==
    ASSUME NEW u \in UploadRecord, NEW s \in {"absent", "uploading", "ready", "bound", "gone"}, NEW v, v = [u EXCEPT !.state = s]
    PROVE  v \in UploadRecord /\ v.state = s /\ v.generation = u.generation /\ v.generation \in Nat
BY DEF UploadRecord

LEMMA UploadBytes ==
    ASSUME NEW u \in UploadRecord, NEW v, v = [u EXCEPT !.bytes = TRUE]
    PROVE  v \in UploadRecord /\ v.state = u.state /\ v.generation = u.generation
<1>1. PICK b \in BOOLEAN : b = TRUE
    OBVIOUS
<1>2. v = [u EXCEPT !.bytes = b]
    BY <1>1
<1>3. QED
    BY <1>2 DEF UploadRecord

\* Objects that are ready are bound.
LEMMA WorldBind ==
    ASSUME DraftsInv, NEW bind \in SUBSET Drafts, Bindable(bind), UNCHANGED <<shelf, composer>>,
           uploads' = [d \in Drafts |-> IF d \in bind THEN [uploads[d] EXCEPT !.state = "bound"] ELSE uploads[d]],
           \A d \in Drafts : Once(d) => Once(d)', \A k \in Nat : SentWith(k) # {} => SentWith(k)' # {}
    PROVE  WorldGoes /\ \A d \in bind : uploads[d].state = "ready" /\ uploads'[d].state = "bound"
<1>1. ASSUME NEW d \in Drafts
      PROVE  /\ uploads'[d] \in UploadRecord /\ UploadGoes(uploads[d], uploads'[d])
             /\ d \in bind => uploads[d].state = "ready" /\ uploads'[d].state = "bound"
             /\ uploads[d].state \in {"absent", "gone"} => uploads'[d].state \in {"absent", "gone"}
    <2>1. uploads[d] \in UploadRecord
        BY ShapeOf
    <2>2. CASE d \in bind
        <3>1. PICK v : v = [uploads[d] EXCEPT !.state = "bound"]
            OBVIOUS
        <3>2. uploads'[d] = v
            BY <2>2, <3>1
        <3>3. v \in UploadRecord /\ v.state = "bound" /\ v.generation = uploads[d].generation
            BY <2>1, <3>1, UploadSet
        <3>4. uploads[d].state = "ready" /\ uploads[d].generation \in Nat
            BY <2>1, <2>2, ShapeOf DEF Bindable
        <3>5. QED
            BY <3>2, <3>3, <3>4 DEF UploadGoes
    <2>3. CASE d \notin bind
        BY <2>1, <2>3, GoesSame
    <2>4. QED
        BY <2>2, <2>3
<1>2. uploads' \in [Drafts -> UploadRecord]
    <2>1. uploads' = [d \in Drafts |-> uploads'[d]]
        OBVIOUS
    <2>2. QED
        BY <1>1, <2>1
<1>3. shelf' \in [Drafts -> RowRecord]
    BY ShapeOf
<1>4. QED
    BY <1>1, <1>2, <1>3 DEF WorldGoes

\* A task takes up its first draft.
LEMMA StartStep ==
    ASSUME DraftsInv, WorldGoes, NEW p \in Pages, NEW g \in PageRecord, pages' = [pages EXCEPT ![p] = g],
           UNCHANGED <<outgoing, written>>, used' \in Nat, used <= used', repeated \subseteq repeated',
           g.step = "load", g.work \in {"send", "retry", "voice"}, NEW e \in Drafts, g.draft = {e}, g.copy = NoRow, g.grant = 0,
           g.posting = 0, g.text = pages[p].text, pages[p].step # "discard",
           g.key = 0 \/ NewKey(g.key) \/ (g.key = pages[p].key /\ g.for = pages[p].for),
           g.work = "send" => g.key # 0, composer = "chat" /\ g.work = "send" => g.text # 0 \/ g.for # {},
           composer = "chat" /\ g.text # 0 /\ pages[p].key # 0 /\ g.key # pages[p].key
               => g.text \in repeated' \/ \A m \in outgoing : m.key # pages[p].key
    PROVE  DraftsInv'
<1>1. pages'[p] = g /\ written' \in Nat /\ written <= written'
    BY ShapeOf
<1>2. g.step \notin PostSteps /\ g.step \in UploadSteps
    BY DEF PostSteps, UploadSteps
<1>3. KeysFollow(p, g)
    BY <1>2 DEF KeysFollow
<1>4. TextsFollow(p, g, {})
    BY DEF TextsFollow
<1>5. uploads'[e].generation \in Nat
    BY DEF WorldGoes, UploadRecord
<1>6. TaskHolds(p)'
    BY <1>1, <1>2, <1>5, NewPageIs DEF TaskHolds
<1>7. QED
    BY <1>1, <1>3, <1>4, <1>6, QuietStep

\* The uploads are done, and the request is made.
LEMMA StartPost ==
    ASSUME DraftsInv, WorldGoes, NEW p \in Pages, NEW g \in PageRecord, pages' = [pages EXCEPT ![p] = g],
           UNCHANGED <<outgoing, written>>, used' \in Nat, used <= used', repeated \subseteq repeated',
           g.step = "post", g.work \in {"send", "voice"}, g.copy.known = 0, g.grant = 0, g.posting # 0,
           g.text = pages[p].text, pages[p].step # "discard",
           g.key = 0 \/ NewKey(g.key) \/ (g.key = pages[p].key /\ g.for = pages[p].for),
           g.work = "send" => g.posting = g.key /\ g.key # 0,
           composer = "chat" /\ g.work = "send" => g.text # 0 \/ g.for # {},
           g.work = "voice" => NewKey(g.posting) /\ g.key = pages[p].key /\ \E e \in Drafts : g.draft = {e},
           composer = "chat" /\ g.text # 0 /\ pages[p].key # 0 /\ g.key # pages[p].key
               => g.text \in repeated' \/ \A m \in outgoing : m.key # pages[p].key
    PROVE  DraftsInv'
<1>1. pages'[p] = g /\ written' \in Nat /\ written <= written'
    BY ShapeOf
<1>2. g.step \in PostSteps /\ g.step \notin UploadSteps \cup {"remove", "idle", "discard", "answered"}
    BY DEF PostSteps, UploadSteps
<1>3. g.work = "voice" => g.posting # g.key
    <2>1. ASSUME g.work = "voice" PROVE g.posting # g.key
        <3>1. OwnKeys(p) \subseteq 1 .. used /\ pages[p].key \in Nat
            BY PageFacts DEF DraftsInv, KeysHold, PageKeys
        <3>2. pages[p].key = 0 \/ pages[p].key \in 1 .. used
            BY <3>1 DEF OwnKeys
        <3>3. QED
            BY <2>1, <3>1, <3>2, ShapeOf DEF NewKey
    <2>2. QED
        BY <2>1
<1>4. KeysFollow(p, g)
    BY <1>2, <1>3 DEF KeysFollow
<1>5. TextsFollow(p, g, {})
    BY DEF TextsFollow
<1>6. g.draft \subseteq Drafts /\ \A d \in Drafts : uploads'[d].generation \in Nat
    BY DEF WorldGoes, UploadRecord, PageRecord
<1>7. TaskHolds(p)'
    BY <1>1, <1>2, <1>6 DEF TaskHolds
<1>8. QED
    BY <1>1, <1>4, <1>5, <1>7, QuietStep

\* The request, its answer and the discard of the drafts follow each other.
LEMMA PostOn ==
    ASSUME DraftsInv, WorldGoes, NEW p \in Pages, NEW g, NEW new, PageMovesTo(p, g, new), Requested(p, new),
           UNCHANGED <<used, written>>, pages[p].step \in PostSteps, g.step \in PostSteps,
           SendingKept(g, pages[p]), TaskKept(g, pages[p]),
           pages[p].step = "discard" => g.step = "discard",
           g.step = "answered" => SentWith(g.posting)' # {}, g.step = "discard" => \A d \in g.left : Once(d)',
           composer = "chat" => \A r \in new : r.state = "queued" => g.step = "discard"
    PROVE  DraftsInv'
<1>1. pages'[p] = g
    BY PageMoves
<1>2. PageKeys(p) /\ TaskHolds(p)
    BY DEF DraftsInv, KeysHold
<1>3. composer = "chat" => PageTexts(p)
    BY DEF DraftsInv, TextsHold
<1>4. KeysFollow(p, g)
    BY <1>2 DEF KeysFollow, PageKeys, SendingKept, TaskKept, TaskHolds
<1>5. TextsFollow(p, g, new)
    BY <1>3 DEF TextsFollow, PageTexts, SendingKept, TaskKept
<1>6. /\ pages[p].step \notin UploadSteps \cup {"remove", "idle"} /\ g.step \notin UploadSteps \cup {"remove", "idle", "save", "ready"}
    BY DEF PostSteps, UploadSteps
<1>7. pages[p].copy.known = 0 /\ pages[p].grant = 0 /\ pages[p].draft \subseteq Drafts
    BY <1>2, <1>6, PageFacts DEF TaskHolds
<1>8. \A d \in Drafts : uploads'[d].generation \in Nat
    BY DEF WorldGoes, UploadRecord
<1>9. TaskHolds(p)'
    <2>1. /\ g.work = "voice" => \E d \in Drafts : g.draft = {d}
          /\ g.work \in {"send", "voice"} /\ g.copy.known = 0 /\ g.grant = 0
        BY <1>2, <1>7 DEF TaskHolds, TaskKept
    <2>2. \A d \in g.draft : g.copy.known <= uploads'[d].generation /\ g.grant <= uploads'[d].generation
        BY <1>7, <1>8 DEF TaskKept
    <2>3. g.step = "answered" => (SentWith(pages[p].posting) # {})'
        BY <1>1 DEF SentWith
    <2>6. QED
        BY <1>1, <1>6, <2>1, <2>2, <2>3 DEF TaskHolds
<1>10. QED
    BY <1>4, <1>5, <1>9, PageStep

-----------------------------------------------------------------------------
(* The steps of an upload.                                                  *)

RowStates == {"none", "prepared", "uploading", "ready", "failed"}

LEMMA RowSet ==
    ASSUME NEW c \in RowRecord, NEW s \in RowStates, s # "none", NEW row, row = [c EXCEPT !.state = s]
    PROVE  row \in RowRecord /\ row.state = s /\ row.known = c.known /\ row # NoRow
<1>1. row \in RowRecord /\ row.state = s /\ row.known = c.known
    BY DEF RowRecord, RowStates
<1>2. QED
    BY <1>1 DEF NoRow

LEMMA RowOf ==
    ASSUME NEW s \in RowStates, s # "none", NEW k \in Nat, NEW row, row = [state |-> s, known |-> k]
    PROVE  row \in RowRecord /\ row.state = s /\ row.known = k /\ row # NoRow
<1>1. row \in RowRecord /\ row.state = s /\ row.known = k
    BY DEF RowRecord, RowStates
<1>2. QED
    BY <1>1 DEF NoRow

LEMMA LoadRowStep == ASSUME DraftsInv, NEW p \in Pages, LoadRow(p) PROVE DraftsInv'
<1>1. pages[p].step = "load" /\ UNCHANGED <<composer, shelf, uploads, outgoing, written, used, removed, repeated>>
    BY DEF LoadRow, AtStep
<1>2. PICK e \in Drafts : pages[p].draft = {e} /\ CurrentDraft(p) = e
    BY <1>1, UploadOf DEF UploadSteps
<1>3. PICK page : page = pages[p]
    OBVIOUS
<1>4. page \in PageRecord /\ page.copy.known \in Nat
    BY <1>3, PageFacts
<1>5. PICK row : row = shelf[e]
    OBVIOUS
<1>6. row \in RowRecord /\ ShelfHolds(e)
    BY <1>5, ShapeOf DEF DraftsInv
<1>7. WorldGoes
    BY <1>1, WorldSame
<1>8. PICK g : g = IF row = NoRow THEN UploadThrows(p) ELSE [page EXCEPT !.copy = row, !.step = IF row.known # 0 THEN "probe" ELSE "mark"]
    OBVIOUS
<1>9. pages' = [pages EXCEPT ![p] = g]
    BY <1>2, <1>3, <1>5, <1>8 DEF LoadRow, Goes
<1>10. CASE row = NoRow
    <2>1. g = Refreshed(page, shelf)
        BY <1>3, <1>8, <1>10 DEF UploadThrows
    <2>2. Rested(g, pages[p])
        BY <1>3, <1>4, <2>1, RefreshedIs
    <2>3. QED
        BY <1>1, <1>7, <1>9, <2>2, OverStep
<1>11. CASE row # NoRow
    <2>1. PICK s \in {"probe", "mark"} : s = IF row.known # 0 THEN "probe" ELSE "mark"
        OBVIOUS
    <2>20. s \in PageSteps
        BY DEF PageSteps, UploadSteps
    <2>2. g = [page EXCEPT !.copy = row, !.step = s]
        BY <1>8, <1>11, <2>1
    <2>21. g \in PageRecord
        BY <1>4, <1>6, <2>2, <2>20 DEF PageRecord
    <2>3. /\ g \in PageRecord /\ SendingKept(g, page) /\ g.step = s /\ g.copy = row
          /\ g.work = page.work /\ g.draft = page.draft /\ g.grant = page.grant /\ g.posting = page.posting
        BY <1>4, <2>2, <2>21 DEF PageRecord, SendingKept
    <2>4. g.copy.known <= uploads'[e].generation /\ g.grant <= uploads'[e].generation
        BY <1>1, <1>2, <1>3, <1>5, <1>6, <2>3, KnowsOf DEF ShelfHolds
    <2>5. pages[p].step \in UploadSteps /\ g.step \in UploadSteps /\ g.step \notin {"load", "save", "ready"}
        BY <1>1, <2>1, <2>3 DEF UploadSteps
    <2>6. shelf'[e] # NoRow
        BY <1>1, <1>5, <1>11
    <2>7. SendingKept(g, pages[p]) /\ g.work = pages[p].work /\ g.draft = {e} /\ g.posting = pages[p].posting
        BY <1>2, <1>3, <2>3
    <2>8. QED
        BY <1>1, <1>2, <1>7, <1>9, <2>3, <2>4, <2>5, <2>6, <2>7, UploadStep
<1>12. QED
    BY <1>10, <1>11

\* The object of the draft is verified.
LEMMA WorldReady ==
    ASSUME DraftsInv, NEW e \in Drafts, NEW k, Completes(e, k), uploads' = [uploads EXCEPT ![e].state = "ready"],
           UNCHANGED <<shelf, composer, outgoing, removed>>
    PROVE  WorldGoes /\ uploads'[e].state = "ready" /\ uploads'[e].generation = uploads[e].generation
<1>1. PICK u : u = [uploads[e] EXCEPT !.state = "ready"]
    OBVIOUS
<1>2. uploads[e] \in UploadRecord /\ uploads[e].generation \in Nat
    BY ShapeOf
<1>3. u \in UploadRecord /\ u.state = "ready" /\ u.generation = uploads[e].generation
    BY <1>1, <1>2, UploadSet
<1>4. uploads[e].state \in {"ready", "uploading"}
    BY DEF Completes
<1>5. uploads' = [uploads EXCEPT ![e] = u]
    BY <1>1
<1>6. UploadGoes(uploads[e], u)
    BY <1>2, <1>3, <1>4 DEF UploadGoes
<1>7. WorldGoes /\ uploads'[e] = u
    BY <1>3, <1>4, <1>5, <1>6, WorldUpload
<1>8. QED
    BY <1>3, <1>7

\* An upload goes on without a new grant or row.
LEMMA UploadOn ==
    ASSUME DraftsInv, WorldGoes, NEW p \in Pages, NEW s \in UploadSteps \ {"load", "save"},
           pages' = [pages EXCEPT ![p] = [pages[p] EXCEPT !.step = s]], UNCHANGED <<outgoing, used, written, repeated>>,
           NEW e \in Drafts, pages[p].draft = {e}, pages[p].step \in UploadSteps \ {"load"},
           s = "ready" => Uploaded(e)'
    PROVE  DraftsInv'
<1>1. PICK page : page = pages[p]
    OBVIOUS
<1>2. PICK g : g = [page EXCEPT !.step = s]
    OBVIOUS
<1>3. page \in PageRecord /\ page.grant \in Nat /\ page.copy.known \in Nat
    BY <1>1, PageFacts
<1>4. s \in PageSteps
    BY DEF PageSteps
<1>5. g \in PageRecord /\ SendingKept(g, page) /\ TaskKept(g, page) /\ g.step = s
    BY <1>2, <1>3, <1>4, StepIs
<1>6. uploads[e].generation \in Nat /\ uploads'[e].generation \in Nat /\ uploads[e].generation <= uploads'[e].generation
    BY ShapeOf DEF WorldGoes, UploadGoes, UploadRecord
<1>7. page.copy.known <= uploads[e].generation /\ page.grant <= uploads[e].generation /\ (shelf[e] # NoRow \/ Once(e))
    BY <1>1, KnowsOf
<1>8. g.copy.known <= uploads'[e].generation /\ g.grant <= uploads'[e].generation
    BY <1>3, <1>5, <1>6, <1>7 DEF TaskKept
<1>9. shelf'[e] # NoRow \/ Once(e)'
    BY <1>7 DEF WorldGoes
<1>10. SendingKept(g, pages[p]) /\ g.work = pages[p].work /\ g.draft = {e} /\ g.posting = pages[p].posting
    BY <1>1, <1>5 DEF TaskKept
<1>11. pages' = [pages EXCEPT ![p] = g]
    BY <1>1, <1>2
<1>12. QED
    BY <1>5, <1>8, <1>9, <1>10, <1>11, UploadStep

LEMMA ProbeStep == ASSUME DraftsInv, NEW p \in Pages, Probe(p) PROVE DraftsInv'
<1>1. pages[p].step = "probe" /\ UNCHANGED <<composer, shelf, outgoing, written, used, removed, repeated>>
    BY DEF Probe, AtStep
<1>2. PICK e \in Drafts : pages[p].draft = {e} /\ CurrentDraft(p) = e
    BY <1>1, UploadOf DEF UploadSteps
<1>3. "mark" \in UploadSteps \ {"load", "save"} /\ pages[p].step \in UploadSteps \ {"load"}
    BY <1>1 DEF UploadSteps
<1>4. CASE Completes(e, pages[p].copy.known) /\ MarkReady(e) /\ Goes(p, [pages[p] EXCEPT !.step = "ready", !.grant = uploads[e].generation])
    <2>1. uploads' = [uploads EXCEPT ![e].state = "ready"] /\ UNCHANGED <<shelf, composer, outgoing, removed>>
        BY <1>1, <1>4 DEF MarkReady
    <2>2. PICK k : k = pages[p].copy.known
        OBVIOUS
    <2>3. WorldGoes /\ uploads'[e].state = "ready" /\ uploads'[e].generation = uploads[e].generation
        BY <1>4, <2>1, <2>2, WorldReady
    <2>4. PICK page : page = pages[p]
        OBVIOUS
    <2>5. page \in PageRecord
        BY <2>4, PageFacts
    <2>20. PICK s \in PageSteps : s = "ready"
        BY DEF PageSteps, UploadSteps
    <2>6. PICK n \in Nat : n = uploads[e].generation
        BY ShapeOf
    <2>7. PICK g : g = [page EXCEPT !.step = s, !.grant = n]
        OBVIOUS
    <2>21. g \in PageRecord
        BY <2>5, <2>6, <2>7, <2>20 DEF PageRecord
    <2>8. /\ g \in PageRecord /\ SendingKept(g, page) /\ g.step = s /\ g.copy = page.copy
          /\ g.work = page.work /\ g.draft = page.draft /\ g.grant = n /\ g.posting = page.posting
        BY <2>5, <2>7, <2>21 DEF PageRecord, SendingKept
    <2>9. pages' = [pages EXCEPT ![p] = g]
        BY <1>4, <2>4, <2>6, <2>7, <2>20 DEF Goes
    <2>10. Uploaded(e)' /\ (shelf'[e] # NoRow \/ Once(e)')
        BY <1>2, <1>3, <2>3, KnowsOf DEF Uploaded, WorldGoes
    <2>11. g.copy.known <= uploads'[e].generation /\ g.grant <= uploads'[e].generation
        BY <1>2, <2>3, <2>4, <2>6, <2>8, KnowsOf
    <2>12. SendingKept(g, pages[p]) /\ g.work = pages[p].work /\ g.draft = {e} /\ g.posting = pages[p].posting /\ g.step \in UploadSteps
        BY <1>2, <2>4, <2>8, <2>20 DEF UploadSteps
    <2>13. QED
        BY <1>1, <1>2, <1>3, <2>3, <2>8, <2>9, <2>10, <2>11, <2>12, <2>20, UploadStep
<1>5. CASE Goes(p, [pages[p] EXCEPT !.step = "mark"]) /\ UNCHANGED uploads
    <2>1. WorldGoes
        BY <1>1, <1>5, WorldSame
    <2>2. PICK s \in UploadSteps \ {"load", "save"} : s = "mark"
        BY <1>3
    <2>3. QED
        BY <1>1, <1>2, <1>3, <1>5, <2>1, <2>2, UploadOn DEF Goes
<1>6. QED
    BY <1>2, <1>4, <1>5 DEF Probe

LEMMA MarkUploadingStep == ASSUME DraftsInv, NEW p \in Pages, MarkUploading(p) PROVE DraftsInv'
<1>1. pages[p].step = "mark" /\ UNCHANGED <<composer, uploads, outgoing, written, used, removed, repeated>>
    BY DEF MarkUploading, AtStep
<1>2. PICK e \in Drafts : pages[p].draft = {e} /\ CurrentDraft(p) = e
    BY <1>1, UploadOf DEF UploadSteps
<1>3. PICK row : row = [pages[p].copy EXCEPT !.state = "uploading"]
    OBVIOUS
<1>4. PICK c \in RowRecord : c = pages[p].copy
    BY PageFacts
<1>5. row \in RowRecord /\ row.state = "uploading" /\ row.known = c.known /\ row # NoRow
    BY <1>3, <1>4, RowSet DEF RowStates
<1>6. row.known <= uploads[e].generation
    BY <1>2, <1>4, <1>5, KnowsOf
<1>7. shelf' = [shelf EXCEPT ![e] = row]
    BY <1>2, <1>3 DEF MarkUploading, SaveDraft
<1>8. WorldGoes /\ shelf'[e] = row
    BY <1>1, <1>5, <1>6, <1>7, WorldShelf
<1>9. PICK s \in UploadSteps \ {"load", "save"} : s = "grant"
    BY DEF UploadSteps
<1>10. pages' = [pages EXCEPT ![p] = [pages[p] EXCEPT !.step = s]] /\ pages[p].step \in UploadSteps \ {"load"}
    BY <1>1, <1>9 DEF MarkUploading, Goes, UploadSteps
<1>11. QED
    BY <1>1, <1>2, <1>8, <1>9, <1>10, UploadOn

LEMMA SaveGrantStep == ASSUME DraftsInv, NEW p \in Pages, SaveGrant(p) PROVE DraftsInv'
<1>1. pages[p].step = "save" /\ UNCHANGED <<composer, uploads, outgoing, written, used, removed, repeated>>
    BY DEF SaveGrant, AtStep
<1>2. PICK e \in Drafts : pages[p].draft = {e} /\ CurrentDraft(p) = e
    BY <1>1, UploadOf DEF UploadSteps
<1>3. PICK n \in Nat : n = pages[p].grant
    BY PageFacts
<1>4. PICK row : row = [state |-> "uploading", known |-> n]
    OBVIOUS
<1>5. row \in RowRecord /\ row.state = "uploading" /\ row.known = n /\ row # NoRow
    BY <1>4, RowOf DEF RowStates
<1>6. row.known <= uploads[e].generation
    BY <1>2, <1>3, <1>5, KnowsOf
<1>7. shelf' = [shelf EXCEPT ![e] = row]
    BY <1>2, <1>3, <1>4 DEF SaveGrant, SaveDraft
<1>8. WorldGoes /\ shelf'[e] = row
    BY <1>1, <1>5, <1>6, <1>7, WorldShelf
<1>9. PICK s \in UploadSteps \ {"load", "save"} : s = pages[p].then
    BY PageFacts DEF UploadSteps, PageRecord
<1>10. pages' = [pages EXCEPT ![p] = [pages[p] EXCEPT !.step = s]] /\ pages[p].step \in UploadSteps \ {"load"}
    BY <1>1, <1>9 DEF SaveGrant, Goes, UploadSteps
<1>11. s = "ready" => Uploaded(e)'
    BY <1>1, <1>2, <1>9, KnowsOf DEF Uploaded
<1>12. QED
    BY <1>1, <1>2, <1>8, <1>9, <1>10, <1>11, UploadOn

LEMMA PutCiphertextStep == ASSUME DraftsInv, NEW p \in Pages, PutCiphertext(p) PROVE DraftsInv'
<1>1. pages[p].step = "put" /\ UNCHANGED <<composer, shelf, outgoing, written, used, removed, repeated>>
    BY DEF PutCiphertext, AtStep
<1>2. PICK e \in Drafts : pages[p].draft = {e} /\ CurrentDraft(p) = e
    BY <1>1, UploadOf DEF UploadSteps
<1>3. PICK u : u = [uploads[e] EXCEPT !.bytes = TRUE]
    OBVIOUS
<1>4. uploads[e] \in UploadRecord /\ uploads[e].generation \in Nat
    BY ShapeOf
<1>5. u \in UploadRecord /\ u.state = uploads[e].state /\ u.generation = uploads[e].generation
    BY <1>3, <1>4, UploadBytes
<1>6. UploadGoes(uploads[e], u)
    BY <1>4, <1>5 DEF UploadGoes
<1>7. uploads' = uploads \/ uploads' = [uploads EXCEPT ![e] = u]
    BY <1>2, <1>3 DEF PutCiphertext
<1>8. WorldGoes
    <2>1. CASE uploads' = uploads
        BY <1>1, <2>1, WorldSame
    <2>2. CASE uploads' = [uploads EXCEPT ![e] = u]
        BY <1>1, <1>5, <1>6, <2>2, WorldUpload
    <2>3. QED
        BY <1>7, <2>1, <2>2
<1>9. PICK s \in UploadSteps \ {"load", "save", "ready"} : Goes(p, [pages[p] EXCEPT !.step = s])
    BY DEF PutCiphertext, UploadSteps
<1>10. pages' = [pages EXCEPT ![p] = [pages[p] EXCEPT !.step = s]] /\ pages[p].step \in UploadSteps \ {"load"}
    BY <1>1, <1>9 DEF Goes, UploadSteps
<1>11. QED
    BY <1>1, <1>2, <1>8, <1>9, <1>10, UploadOn

LEMMA CompleteMediaUploadStep == ASSUME DraftsInv, NEW p \in Pages, CompleteMediaUpload(p) PROVE DraftsInv'
<1>1. pages[p].step = "complete" /\ UNCHANGED <<composer, shelf, outgoing, written, used, removed, repeated>>
    BY DEF CompleteMediaUpload, AtStep
<1>2. PICK e \in Drafts : pages[p].draft = {e} /\ CurrentDraft(p) = e
    BY <1>1, UploadOf DEF UploadSteps
<1>3. PICK k : k = pages[p].grant
    OBVIOUS
<1>4. pages[p].step \in UploadSteps \ {"load"}
    BY <1>1 DEF UploadSteps
<1>5. CASE Completes(e, k) /\ uploads' = [uploads EXCEPT ![e].state = "ready"]
    <2>1. WorldGoes /\ uploads'[e].state = "ready"
        BY <1>1, <1>5, WorldReady
    <2>2. PICK s \in UploadSteps \ {"load", "save"} : Goes(p, [pages[p] EXCEPT !.step = s])
        BY DEF CompleteMediaUpload, UploadSteps
    <2>3. pages' = [pages EXCEPT ![p] = [pages[p] EXCEPT !.step = s]]
        BY <2>2 DEF Goes
    <2>4. Uploaded(e)'
        BY <2>1 DEF Uploaded
    <2>5. QED
        BY <1>1, <1>2, <1>4, <2>1, <2>3, <2>4, UploadOn
<1>6. CASE uploads' = uploads /\ Goes(p, [pages[p] EXCEPT !.step = "fail"])
    <2>1. WorldGoes
        BY <1>1, <1>6, WorldSame
    <2>2. PICK s \in UploadSteps \ {"load", "save", "ready"} : s = "fail"
        BY DEF UploadSteps
    <2>3. pages' = [pages EXCEPT ![p] = [pages[p] EXCEPT !.step = s]]
        BY <1>6, <2>2 DEF Goes
    <2>4. QED
        BY <1>1, <1>2, <1>4, <2>1, <2>2, <2>3, UploadOn
<1>7. QED
    BY <1>2, <1>3, <1>5, <1>6 DEF CompleteMediaUpload, MarkReady

\* The server answers a request for a grant.
LEMMA WorldGranted ==
    ASSUME DraftsInv, NEW e \in Drafts, NEW k \in Nat, NEW u \in Granted(e, k), uploads' = [uploads EXCEPT ![e] = u],
           UNCHANGED <<shelf, composer, outgoing, removed>>, shelf[e] # NoRow \/ Once(e)
    PROVE  WorldGoes /\ uploads'[e] = u /\ u \in UploadRecord
<1>1. uploads[e] \in UploadRecord /\ uploads[e].generation \in Nat /\ ShelfHolds(e)
    BY ShapeOf DEF DraftsInv
<1>2. PICK one \in Nat : one = 1
    OBVIOUS
<1>3. u \in UploadRecord /\ UploadGoes(uploads[e], u)
    <2>1. CASE u = uploads[e]
        BY <1>1, <2>1, GoesSame
    <2>2. CASE uploads[e].state = "absent" /\ u = [uploads[e] EXCEPT !.state = "uploading", !.generation = one]
        <3>1. u \in UploadRecord
            BY <1>1, <2>2 DEF UploadRecord
        <3>2. u.state = "uploading" /\ u.generation = 1
            BY <1>1, <1>2, <2>2, <3>1 DEF UploadRecord
        <3>3. uploads[e].generation = 0
            BY <1>1, <2>2 DEF ShelfHolds
        <3>4. QED
            BY <2>2, <3>1, <3>2, <3>3 DEF UploadGoes
    <2>3. CASE uploads[e].state = "uploading" /\ u = [uploads[e] EXCEPT !.generation = @ + 1]
        <3>1. PICK n \in Nat : n = uploads[e].generation + 1
            BY <1>1
        <3>2. u = [uploads[e] EXCEPT !.generation = n]
            BY <2>3, <3>1
        <3>3. u \in UploadRecord
            BY <1>1, <3>2 DEF UploadRecord
        <3>4. u.state = "uploading" /\ u.generation = n
            BY <1>1, <2>3, <3>2, <3>3 DEF UploadRecord
        <3>5. QED
            BY <1>1, <2>3, <3>1, <3>3, <3>4 DEF UploadGoes
    <2>4. QED
        BY <1>2, <2>1, <2>2, <2>3 DEF Granted
<1>4. QED
    BY <1>3, WorldUpload

LEMMA RequestGrantStep == ASSUME DraftsInv, NEW p \in Pages, RequestGrant(p) PROVE DraftsInv'
<1>1. pages[p].step = "grant" /\ UNCHANGED <<composer, shelf, outgoing, written, used, removed, repeated>>
    BY DEF RequestGrant, AtStep
<1>2. PICK e \in Drafts : pages[p].draft = {e} /\ CurrentDraft(p) = e
    BY <1>1, UploadOf DEF UploadSteps
<1>3. pages[p].step \in UploadSteps \ {"load"} /\ (shelf[e] # NoRow \/ Once(e))
    BY <1>1, <1>2, KnowsOf DEF UploadSteps
<1>4. PICK k \in Nat : k = pages[p].copy.known
    BY PageFacts
<1>5. PICK s \in UploadSteps \ {"load", "save", "ready"} : s = "fail"
    BY DEF UploadSteps
<1>6. CASE Goes(p, [pages[p] EXCEPT !.step = "fail"]) /\ UNCHANGED uploads
    <2>1. WorldGoes
        BY <1>1, <1>6, WorldSame
    <2>2. pages' = [pages EXCEPT ![p] = [pages[p] EXCEPT !.step = s]]
        BY <1>5, <1>6 DEF Goes
    <2>3. QED
        BY <1>1, <1>2, <1>3, <2>1, <2>2, UploadOn
<1>7. ASSUME NEW u \in Granted(e, k), uploads' = [uploads EXCEPT ![e] = u], Goes(p, [pages[p] EXCEPT !.step = "fail"])
      PROVE  DraftsInv'
    <2>1. WorldGoes
        BY <1>1, <1>3, <1>7, WorldGranted
    <2>2. pages' = [pages EXCEPT ![p] = [pages[p] EXCEPT !.step = s]]
        BY <1>5, <1>7 DEF Goes
    <2>3. QED
        BY <1>1, <1>2, <1>3, <2>1, <2>2, UploadOn
<1>8. ASSUME NEW u \in Granted(e, k), uploads' = [uploads EXCEPT ![e] = u],
             Goes(p, [pages[p] EXCEPT !.step = "save", !.grant = u.generation,
                                      !.then = CASE u.state = "uploading" -> "put"
                                                 [] u.state = "ready" -> "ready"
                                                 [] OTHER -> "fail"])
      PROVE  DraftsInv'
    <2>1. WorldGoes /\ uploads'[e] = u /\ u \in UploadRecord
        BY <1>1, <1>3, <1>8, WorldGranted
    <2>2. PICK n \in Nat : n = u.generation
        BY <2>1 DEF UploadRecord
    <2>3. PICK t \in {"put", "ready", "fail"} : /\ t = CASE u.state = "uploading" -> "put"
                                                         [] u.state = "ready" -> "ready"
                                                         [] OTHER -> "fail"
                                                /\ t = "ready" => u.state = "ready"
        OBVIOUS
    <2>4. PICK page : page = pages[p]
        OBVIOUS
    <2>5. page \in PageRecord
        BY <2>4, PageFacts
    <2>6. PICK w \in PageSteps : w = "save"
        BY DEF PageSteps, UploadSteps
    <2>7. PICK g : g = [page EXCEPT !.step = w, !.grant = n, !.then = t]
        OBVIOUS
    <2>8. g \in PageRecord
        BY <2>5, <2>6, <2>7 DEF PageRecord
    <2>9. /\ SendingKept(g, page) /\ g.step = w /\ g.copy = page.copy
          /\ g.work = page.work /\ g.draft = page.draft /\ g.grant = n /\ g.posting = page.posting /\ g.then = t
        BY <2>5, <2>7, <2>8 DEF PageRecord, SendingKept
    <2>10. pages' = [pages EXCEPT ![p] = g]
        BY <1>8, <2>2, <2>3, <2>4, <2>6, <2>7 DEF Goes
    <2>11. shelf'[e] # NoRow \/ Once(e)'
        BY <1>3, <2>1 DEF WorldGoes
    <2>12. g.copy.known <= uploads'[e].generation /\ g.grant <= uploads'[e].generation
        <3>1. page.copy.known <= uploads[e].generation /\ page.copy.known \in Nat
            BY <1>2, <2>4, KnowsOf, PageFacts
        <3>2. uploads[e].generation <= uploads'[e].generation /\ uploads[e].generation \in Nat /\ uploads'[e].generation \in Nat
            BY <2>1, <2>2, ShapeOf DEF WorldGoes, UploadGoes
        <3>3. QED
            BY <2>1, <2>2, <2>9, <3>1, <3>2
    <2>13. t = "ready" => Uploaded(e)'
        BY <2>1, <2>3 DEF Uploaded
    <2>14. SendingKept(g, pages[p]) /\ g.work = pages[p].work /\ g.draft = {e} /\ g.posting = pages[p].posting /\ g.step \in UploadSteps
        BY <1>2, <2>4, <2>6, <2>9 DEF UploadSteps
    <2>15. QED
        BY <1>1, <1>2, <1>3, <2>1, <2>6, <2>8, <2>9, <2>10, <2>11, <2>12, <2>13, <2>14, UploadStep
<1>9. QED
    <2>1. PICK granted : granted = {u \in Granted(e, k) : u.generation <= MaxGrants}
        OBVIOUS
    <2>2. \/ \E u \in granted : /\ uploads' = [uploads EXCEPT ![e] = u]
                                /\ Goes(p, [pages[p] EXCEPT !.step = "save", !.grant = u.generation,
                                              !.then = CASE u.state = "uploading" -> "put"
                                                         [] u.state = "ready" -> "ready"
                                                         [] OTHER -> "fail"])
          \/ Goes(p, [pages[p] EXCEPT !.step = "fail"]) /\ UNCHANGED uploads
          \/ Goes(p, [pages[p] EXCEPT !.step = "fail"]) /\ \E u \in granted : uploads' = [uploads EXCEPT ![e] = u]
        BY <1>2, <1>4, <2>1 DEF RequestGrant
    <2>3. granted \subseteq Granted(e, k)
        BY <2>1
    <2>4. QED
        BY <1>6, <1>7, <1>8, <2>2, <2>3

LEMMA MarkFailedStep == ASSUME DraftsInv, NEW p \in Pages, MarkFailed(p) PROVE DraftsInv'
<1>1. pages[p].step = "fail" /\ UNCHANGED <<composer, uploads, outgoing, written, used, removed, repeated>>
    BY DEF MarkFailed, AtStep
<1>2. PICK e \in Drafts : pages[p].draft = {e} /\ CurrentDraft(p) = e
    BY <1>1, UploadOf DEF UploadSteps
<1>3. PICK c : c = IF shelf[e] # NoRow THEN shelf[e] ELSE pages[p].copy
    OBVIOUS
<1>4. c \in RowRecord /\ c.known <= uploads[e].generation
    <2>1. shelf[e] \in RowRecord /\ pages[p].copy \in RowRecord
        BY ShapeOf, PageFacts
    <2>2. shelf[e].known <= uploads[e].generation /\ pages[p].copy.known <= uploads[e].generation
        BY <1>2, KnowsOf DEF DraftsInv, ShelfHolds
    <2>3. QED
        BY <1>3, <2>1, <2>2
<1>5. PICK row : row = [c EXCEPT !.state = "failed"]
    OBVIOUS
<1>6. row \in RowRecord /\ row.state = "failed" /\ row.known = c.known /\ row # NoRow
    BY <1>4, <1>5, RowSet DEF RowStates
<1>7. shelf' = [shelf EXCEPT ![e] = row]
    BY <1>2, <1>3, <1>5 DEF MarkFailed, SaveDraft
<1>8. WorldGoes
    BY <1>1, <1>4, <1>6, <1>7, WorldShelf
<1>9. PICK rows : rows = shelf'
    OBVIOUS
<1>10. PICK page \in PageRecord : page = pages[p]
    BY PageFacts
<1>11. PICK g : g = Refreshed(page, rows)
    OBVIOUS
<1>12. pages' = [pages EXCEPT ![p] = g]
    BY <1>9, <1>10, <1>11 DEF MarkFailed, Goes
<1>13. Rested(g, pages[p])
    BY <1>10, <1>11, RefreshedIs
<1>14. QED
    BY <1>1, <1>8, <1>12, <1>13, OverStep

LEMMA MarkDraftReadyStep == ASSUME DraftsInv, NEW p \in Pages, MarkDraftReady(p) PROVE DraftsInv'
<1>1. pages[p].step = "ready" /\ UNCHANGED <<composer, uploads, outgoing, written, removed, repeated>>
    BY DEF MarkDraftReady, AtStep
<1>2. PICK e \in Drafts : pages[p].draft = {e} /\ CurrentDraft(p) = e
    BY <1>1, UploadOf DEF UploadSteps
<1>3. PICK n \in Nat : n = pages[p].grant
    BY PageFacts
<1>4. PICK row : row = [state |-> "ready", known |-> n]
    OBVIOUS
<1>5. row \in RowRecord /\ row.state = "ready" /\ row.known = n /\ row # NoRow
    BY <1>4, RowOf DEF RowStates
<1>6. row.known <= uploads[e].generation /\ Uploaded(e)
    BY <1>1, <1>2, <1>3, <1>5, KnowsOf
<1>7. shelf' = [shelf EXCEPT ![e] = row]
    BY <1>2, <1>3, <1>4 DEF MarkDraftReady, SaveDraft
<1>8. WorldGoes
    BY <1>1, <1>5, <1>6, <1>7, WorldShelf
<1>9. PICK page \in PageRecord : page = pages[p]
    BY PageFacts
<1>10. PICK left \in SUBSET Drafts : left = page.left \ page.draft
    BY PageFacts, <1>9
<1>11. page.work \in {"send", "retry", "voice"} /\ PageKeys(p) /\ TaskHolds(p)
    BY <1>1, <1>9 DEF DraftsInv, KeysHold, TaskHolds, UploadSteps
<1>12. composer = "chat" => PageTexts(p)
    BY DEF DraftsInv, TextsHold
<1>13. used \in Nat
    BY ShapeOf
<1>14. \/ left # {} /\ Goes(p, StartUpload(page, page.work, left)) /\ UNCHANGED used
       \/ left = {} /\ page.work = "retry" /\ Goes(p, Refreshed(page, shelf')) /\ UNCHANGED used
       \/ /\ left = {} /\ page.work = "send"
          /\ Goes(p, [Between(page) EXCEPT !.step = "post", !.work = "send", !.body = TRUE, !.posting = page.key])
          /\ UNCHANGED used
       \/ /\ left = {} /\ page.work = "voice" /\ used < MaxKeys
          /\ Goes(p, [Between(page) EXCEPT !.step = "post", !.work = "voice", !.draft = page.draft, !.posting = used + 1])
          /\ used' = used + 1
    BY <1>9, <1>10 DEF MarkDraftReady
<1>15. pages[p].step # "discard" /\ repeated \subseteq repeated'
    BY <1>1
<1>16. CASE left # {} /\ Goes(p, StartUpload(page, page.work, left)) /\ UNCHANGED used
    <2>1. PICK work \in {"send", "retry", "voice"} : work = page.work
        BY <1>11
    <2>2. PICK g : g = StartUpload(page, work, left)
        OBVIOUS
    <2>3. /\ g \in PageRecord /\ SendingKept(g, page) /\ g.step = "load" /\ g.work = work /\ g.left = left
          /\ (\E d \in left : g.draft = {d}) /\ g.copy = NoRow /\ g.grant = 0 /\ g.posting = 0
        BY <1>16, <2>2, StartUploadIs
    <2>4. PICK d \in Drafts : g.draft = {d}
        BY <1>10, <2>3
    <2>5. pages' = [pages EXCEPT ![p] = g]
        BY <1>9, <1>16, <2>1, <2>2 DEF Goes
    <2>6. g.work = "send" => g.key # 0
        BY <1>9, <1>11, <2>1, <2>3 DEF PageKeys, SendingKept
    <2>7. composer = "chat" /\ g.work = "send" => (g.text # 0 \/ g.for # {})
        BY <1>9, <1>12, <2>1, <2>3 DEF PageTexts, SendingKept
    <2>8. g.text = pages[p].text /\ g.key = pages[p].key /\ g.for = pages[p].for
        BY <1>9, <2>3 DEF SendingKept
    <2>10. used' \in Nat /\ used <= used' /\ UNCHANGED <<outgoing, written>>
        BY <1>1, <1>13, <1>16
    <2>11. g.work \in {"send", "retry", "voice"} /\ ~ (g.key # pages[p].key)
        BY <2>3, <2>8
    <2>9. QED
        BY <1>8, <1>15, <2>3, <2>4, <2>5, <2>6, <2>7, <2>8, <2>10, <2>11, StartStep
<1>17. CASE left = {} /\ page.work = "retry" /\ Goes(p, Refreshed(page, shelf')) /\ UNCHANGED used
    <2>1. PICK rows : rows = shelf'
        OBVIOUS
    <2>2. PICK g : g = Refreshed(page, rows)
        OBVIOUS
    <2>3. pages' = [pages EXCEPT ![p] = g]
        BY <1>17, <2>1, <2>2 DEF Goes
    <2>4. Rested(g, pages[p])
        BY <1>9, <2>2, RefreshedIs
    <2>5. QED
        BY <1>1, <1>8, <1>15, <1>17, <2>3, <2>4, OverStep
<1>18. PICK b : b = Between(page)
    OBVIOUS
<1>19. b \in PageRecord /\ SendingKept(b, page) /\ TaskOver(b)
    BY <1>18, BetweenIs
<1>20. CASE /\ left = {} /\ page.work = "send"
            /\ Goes(p, [Between(page) EXCEPT !.step = "post", !.work = "send", !.body = TRUE, !.posting = page.key])
            /\ UNCHANGED used
    <2>1. PICK s \in PageSteps : s = "post"
        BY DEF PageSteps
    <2>2. PICK k \in Nat : k = page.key
        BY <1>9, PageFacts
    <2>3. PICK yes \in BOOLEAN : yes = TRUE
        OBVIOUS
    <2>4. PICK g : g = [b EXCEPT !.step = s, !.work = "send", !.body = yes, !.posting = k]
        OBVIOUS
    <2>5. pages' = [pages EXCEPT ![p] = g]
        BY <1>18, <1>20, <2>1, <2>2, <2>3, <2>4 DEF Goes
    <2>6. g \in PageRecord
        BY <1>19, <2>4 DEF PageRecord
    <2>7. /\ g.step = "post" /\ g.work = "send" /\ g.posting = k /\ SendingKept(g, b)
          /\ g.copy = b.copy /\ g.grant = b.grant
        BY <1>19, <2>1, <2>4, <2>6 DEF PageRecord, SendingKept
    <2>8. g.text = pages[p].text /\ g.key = pages[p].key /\ g.for = pages[p].for /\ g.posting = g.key
        BY <1>9, <1>19, <2>2, <2>7 DEF SendingKept
    <2>9. g.key # 0 /\ (composer = "chat" => g.text # 0 \/ g.for # {})
        BY <1>9, <1>11, <1>12, <1>20, <2>8 DEF PageKeys, PageTexts
    <2>10. g.copy.known = 0 /\ g.grant = 0
        BY <1>19, <2>7, NewPageIs DEF TaskOver
    <2>11. used' \in Nat /\ used <= used' /\ UNCHANGED <<outgoing, written>>
        BY <1>1, <1>13, <1>20
    <2>12. g.posting # 0 /\ g.work # "voice" /\ ~ (g.key # pages[p].key) /\ g.work \in {"send", "voice"}
        BY <2>7, <2>8, <2>9
    <2>13. QED
        BY <1>8, <1>15, <2>5, <2>6, <2>7, <2>8, <2>9, <2>10, <2>11, <2>12, StartPost
<1>21. CASE /\ left = {} /\ page.work = "voice"
            /\ Goes(p, [Between(page) EXCEPT !.step = "post", !.work = "voice", !.draft = page.draft, !.posting = used + 1])
            /\ used' = used + 1
    <2>1. PICK s \in PageSteps : s = "post"
        BY DEF PageSteps
    <2>2. PICK k \in Nat : k = used + 1
        BY <1>13
    <2>3. PICK drafts \in SUBSET Drafts : drafts = page.draft
        BY <1>9, PageFacts
    <2>4. PICK g : g = [b EXCEPT !.step = s, !.work = "voice", !.draft = drafts, !.posting = k]
        OBVIOUS
    <2>5. pages' = [pages EXCEPT ![p] = g]
        BY <1>18, <1>21, <2>1, <2>2, <2>3, <2>4 DEF Goes
    <2>6. g \in PageRecord
        BY <1>19, <2>4 DEF PageRecord
    <2>7. /\ g.step = "post" /\ g.work = "voice" /\ g.posting = k /\ SendingKept(g, b) /\ g.draft = drafts
          /\ g.copy = b.copy /\ g.grant = b.grant
        BY <1>19, <2>1, <2>4, <2>6 DEF PageRecord, SendingKept
    <2>8. g.text = pages[p].text /\ g.key = pages[p].key /\ g.for = pages[p].for /\ g.draft = {e}
        BY <1>2, <1>9, <1>19, <2>3, <2>7 DEF SendingKept
    <2>9. NewKey(g.posting) /\ g.posting # 0 /\ used' \in Nat /\ used <= used'
        BY <1>13, <1>21, <2>2, <2>7 DEF NewKey
    <2>10. g.copy.known = 0 /\ g.grant = 0
        BY <1>19, <2>7, NewPageIs DEF TaskOver
    <2>11. QED
        BY <1>1, <1>8, <1>15, <2>5, <2>6, <2>7, <2>8, <2>9, <2>10, StartPost
<1>22. QED
    BY <1>14, <1>16, <1>17, <1>20, <1>21

-----------------------------------------------------------------------------
(* What the member does.                                                    *)

LEMMA RestingIs ==
    ASSUME DraftsInv, NEW p \in Pages, NEW page, page = pages[p], page.step = "idle"
    PROVE  /\ page \in PageRecord /\ page.work = "none" /\ TaskOver(page) /\ PageKeys(p)
           /\ page.step # "discard" /\ (composer = "chat" => PageTexts(p))
BY PageFacts DEF DraftsInv, TaskHolds, KeysHold, TextsHold

LEMMA WriteTextStep == ASSUME DraftsInv, NEW p \in Pages, WriteText(p) PROVE DraftsInv'
<1>1. /\ pages[p].step = "idle" /\ written' = written + 1
      /\ UNCHANGED <<composer, shelf, uploads, outgoing, used, removed, repeated>>
    BY DEF WriteText, Resting
<1>2. PICK page : page = pages[p]
    OBVIOUS
<1>3. page \in PageRecord /\ page.work = "none" /\ TaskOver(page) /\ (composer = "chat" => PageTexts(p)) /\ page.text \in Nat
    BY <1>1, <1>2, RestingIs, PageFacts
<1>4. PICK f : f = Forget(page)
    OBVIOUS
<1>5. f \in PageRecord /\ TaskKept(f, page) /\ f.key = 0 /\ f.step = page.step /\ f.left = page.left
    BY <1>3, <1>4, ForgetIs
<1>6. PICK n \in Nat : n = written + 1
    BY ShapeOf
<1>7. PICK g : g = [f EXCEPT !.text = n]
    OBVIOUS
<1>8. pages' = [pages EXCEPT ![p] = g]
    BY <1>2, <1>4, <1>6, <1>7 DEF WriteText, Goes
<1>9. g \in PageRecord
    BY <1>5, <1>7 DEF PageRecord
<1>10. TaskKept(g, f) /\ g.text = n /\ g.key = 0 /\ g.step = f.step /\ g.left = f.left
    BY <1>5, <1>7, <1>9 DEF PageRecord, TaskKept
<1>11. g.step = "idle" /\ g.work = "none" /\ TaskOver(g)
    BY <1>1, <1>2, <1>3, <1>5, <1>10 DEF TaskKept, TaskOver
<1>12. WorldGoes
    BY <1>1, WorldSame
<1>13. written \in Nat /\ written' \in Nat /\ written < written' /\ written <= written' /\ g.text = written'
    BY <1>1, <1>6, <1>10, ShapeOf
<1>14. composer = "chat" => g.text # pages[p].text
    BY <1>2, <1>3, <1>13 DEF PageTexts
<1>15. QED
    BY <1>1, <1>8, <1>9, <1>10, <1>11, <1>12, <1>13, <1>14, RestStep

\* A draft is prepared.
LEMMA WorldPrepared ==
    ASSUME DraftsInv, NEW d \in Drafts, shelf' = [shelf EXCEPT ![d].state = "prepared"], shelf[d] = NoRow,
           UNCHANGED <<composer, uploads, outgoing, removed>>
    PROVE  WorldGoes
<1>1. PICK row : row = [shelf[d] EXCEPT !.state = "prepared"]
    OBVIOUS
<1>2. shelf[d] \in RowRecord /\ shelf[d].known = 0 /\ uploads[d].generation \in Nat
    BY ShapeOf, NewPageIs
<1>3. row \in RowRecord /\ row.state = "prepared" /\ row.known = 0 /\ row # NoRow
    BY <1>1, <1>2, RowSet DEF RowStates
<1>4. shelf' = [shelf EXCEPT ![d] = row] /\ row.known <= uploads[d].generation
    BY <1>1, <1>2, <1>3
<1>5. QED
    BY <1>3, <1>4, WorldShelf

LEMMA ListStep ==
    ASSUME DraftsInv, WorldGoes, NEW p \in Pages, NEW page, page = pages[p], page.step = "idle", NEW rows,
           pages' = [pages EXCEPT ![p] = List(page, rows)], UNCHANGED <<outgoing, written, used, repeated>>
    PROVE  DraftsInv'
<1>1. page \in PageRecord /\ page.work = "none" /\ TaskOver(page)
    BY RestingIs
<1>2. PICK g : g = List(page, rows)
    OBVIOUS
<1>3. g \in PageRecord /\ SendingKept(g, page) /\ TaskKept(g, page) /\ g.step = page.step /\ g.left = page.left
    BY <1>1, <1>2, ListIs
<1>4. g.step = "idle" /\ g.work = "none" /\ TaskOver(g)
    BY <1>1, <1>3 DEF TaskKept, TaskOver
<1>5. g.text = pages[p].text /\ g.key = pages[p].key /\ g.for = pages[p].for /\ pages[p].step # "discard"
    BY <1>3 DEF SendingKept
<1>6. written' \in Nat /\ written <= written' /\ repeated \subseteq repeated' /\ pages' = [pages EXCEPT ![p] = g]
    BY <1>2, ShapeOf
<1>7. QED
    BY <1>3, <1>4, <1>5, <1>6, RestStep

LEMMA PrepareFilesStep == ASSUME DraftsInv, NEW p \in Pages, NEW d \in Drafts, PrepareFiles(p, d) PROVE DraftsInv'
<1>1. /\ pages[p].step = "idle" /\ shelf' = [shelf EXCEPT ![d].state = "prepared"] /\ shelf[d] = NoRow
      /\ UNCHANGED <<composer, uploads, outgoing, written, used, removed, repeated>>
    BY DEF PrepareFiles, Resting
<1>2. WorldGoes
    BY <1>1, WorldPrepared
<1>3. PICK rows : rows = shelf'
    OBVIOUS
<1>4. PICK page : page = pages[p]
    OBVIOUS
<1>5. pages' = [pages EXCEPT ![p] = List(page, rows)]
    BY <1>3, <1>4 DEF PrepareFiles, Goes
<1>6. QED
    BY <1>1, <1>2, <1>4, <1>5, ListStep

\* A task for one draft starts.
LEMMA StartOne ==
    ASSUME DraftsInv, WorldGoes, NEW p \in Pages, pages[p].step = "idle", NEW d \in Drafts, NEW work \in {"retry", "voice"},
           pages' = [pages EXCEPT ![p] = StartUpload(pages[p], work, {d})], UNCHANGED <<outgoing, written, used, repeated>>
    PROVE  DraftsInv'
<1>1. PICK page \in PageRecord : page = pages[p]
    BY PageFacts
<1>2. PICK drafts \in SUBSET Drafts : drafts = {d}
    OBVIOUS
<1>3. PICK g : g = StartUpload(page, work, drafts)
    OBVIOUS
<1>4. drafts # {} /\ work \in {"send", "retry", "voice"}
    BY <1>2
<1>5. /\ g \in PageRecord /\ SendingKept(g, page) /\ g.step = "load" /\ g.work = work
      /\ (\E e \in drafts : g.draft = {e}) /\ g.copy = NoRow /\ g.grant = 0 /\ g.posting = 0
    BY <1>3, <1>4, StartUploadIs
<1>6. g.draft = {d}
    BY <1>2, <1>5
<1>7. pages' = [pages EXCEPT ![p] = g]
    BY <1>1, <1>2, <1>3
<1>8. used' \in Nat /\ used <= used' /\ UNCHANGED <<outgoing, written>> /\ repeated \subseteq repeated'
    BY ShapeOf
<1>9. /\ g.text = pages[p].text /\ g.key = pages[p].key /\ g.for = pages[p].for /\ g.work # "send" /\ pages[p].step # "discard"
      /\ g.work \in {"send", "retry", "voice"} /\ ~ (g.key # pages[p].key)
    BY <1>1, <1>5 DEF SendingKept
<1>10. QED
    BY <1>5, <1>6, <1>7, <1>8, <1>9, StartStep

LEMMA SendVoiceStep == ASSUME DraftsInv, NEW p \in Pages, NEW d \in Drafts, SendVoice(p, d) PROVE DraftsInv'
<1>1. /\ pages[p].step = "idle" /\ shelf' = [shelf EXCEPT ![d].state = "prepared"] /\ shelf[d] = NoRow
      /\ UNCHANGED <<composer, uploads, outgoing, written, used, removed, repeated>>
    BY DEF SendVoice, Resting
<1>2. WorldGoes
    BY <1>1, WorldPrepared
<1>3. CASE pages' = [pages EXCEPT ![p] = List(@, shelf')]
    <2>1. PICK rows : rows = shelf'
        OBVIOUS
    <2>2. PICK page : page = pages[p]
        OBVIOUS
    <2>3. pages' = [pages EXCEPT ![p] = List(page, rows)]
        BY <1>3, <2>1, <2>2
    <2>4. QED
        BY <1>1, <1>2, <2>2, <2>3, ListStep
<1>4. CASE pages' = [pages EXCEPT ![p] = StartUpload(pages[p], "voice", {d})]
    <2>1. PICK work \in {"retry", "voice"} : work = "voice"
        OBVIOUS
    <2>2. pages' = [pages EXCEPT ![p] = StartUpload(pages[p], work, {d})]
        BY <1>4, <2>1
    <2>3. QED
        BY <1>1, <1>2, <2>2, StartOne
<1>5. QED
    BY <1>3, <1>4 DEF SendVoice

LEMMA RetryDraftStep == ASSUME DraftsInv, NEW p \in Pages, NEW d \in Drafts, RetryDraft(p, d) PROVE DraftsInv'
<1>1. /\ pages[p].step = "idle" /\ UNCHANGED <<composer, shelf, uploads, outgoing, written, used, removed, repeated>>
    BY DEF RetryDraft, Resting
<1>2. WorldGoes
    BY <1>1, WorldSame
<1>3. PICK work \in {"retry", "voice"} : work = "retry"
    OBVIOUS
<1>4. pages' = [pages EXCEPT ![p] = StartUpload(pages[p], work, {d})]
    BY <1>3 DEF RetryDraft, Goes
<1>5. QED
    BY <1>1, <1>2, <1>4, StartOne

LEMMA RemoveDraftStep == ASSUME DraftsInv, NEW p \in Pages, NEW d \in Drafts, RemoveDraft(p, d) PROVE DraftsInv'
<1>1. /\ pages[p].step = "idle" /\ UNCHANGED <<composer, shelf, outgoing, written, used, removed, repeated>>
    BY DEF RemoveDraft, Resting
<1>2. PICK page : page = pages[p]
    OBVIOUS
<1>3. page \in PageRecord /\ page.work = "none" /\ TaskOver(page) /\ PageKeys(p) /\ (composer = "chat" => PageTexts(p))
    BY <1>1, <1>2, RestingIs
<1>4. PICK u : u = [uploads[d] EXCEPT !.state = "gone"]
    OBVIOUS
<1>5. uploads[d] \in UploadRecord /\ uploads[d].generation \in Nat
    BY ShapeOf
<1>6. u \in UploadRecord /\ u.state = "gone" /\ u.generation = uploads[d].generation
    BY <1>4, <1>5, UploadSet
<1>7. uploads' = uploads \/ (uploads' = [uploads EXCEPT ![d] = u] /\ uploads[d].state \in {"uploading", "ready"})
    BY <1>4 DEF RemoveDraft
<1>8. WorldGoes
    <2>1. CASE uploads' = uploads
        BY <1>1, <2>1, WorldSame
    <2>2. CASE uploads' = [uploads EXCEPT ![d] = u] /\ uploads[d].state \in {"uploading", "ready"}
        <3>1. UploadGoes(uploads[d], u)
            BY <1>5, <1>6, <2>2 DEF UploadGoes
        <3>2. QED
            BY <1>1, <1>6, <2>2, <3>1, WorldUpload
    <2>3. QED
        BY <1>7, <2>1, <2>2
<1>9. PICK drafts \in SUBSET Drafts : drafts = {d}
    OBVIOUS
<1>10. PICK s \in PageSteps : s = "remove"
    BY DEF PageSteps
<1>11. PICK g : g = [page EXCEPT !.step = s, !.draft = drafts]
    OBVIOUS
<1>12. pages' = [pages EXCEPT ![p] = g]
    BY <1>2, <1>9, <1>10, <1>11 DEF RemoveDraft, Goes
<1>13. g \in PageRecord
    BY <1>3, <1>11 DEF PageRecord
<1>14. /\ SendingKept(g, page) /\ g.step = "remove" /\ g.draft = {d} /\ g.work = "none" /\ g.posting = 0
       /\ g.copy.known = 0 /\ g.grant = 0
    BY <1>3, <1>9, <1>10, <1>11, <1>13, NewPageIs DEF PageRecord, SendingKept, TaskOver
<1>15. g.step \notin UploadSteps \cup PostSteps /\ g.step \notin {"idle", "answered", "discard", "ready", "save"}
    BY <1>14 DEF UploadSteps, PostSteps
<1>16. KeysFollow(p, g)
    BY <1>2, <1>14, <1>15 DEF KeysFollow, SendingKept
<1>17. TextsFollow(p, g, {})
    BY <1>1, <1>2, <1>14 DEF TextsFollow, SendingKept
<1>18. pages'[p] = g /\ uploads'[d].generation \in Nat
    BY <1>8, <1>12, ShapeOf DEF WorldGoes, UploadRecord
<1>19. TaskHolds(p)'
    BY <1>14, <1>15, <1>18 DEF TaskHolds
<1>20. used' \in Nat /\ used <= used' /\ written' \in Nat /\ written <= written' /\ repeated \subseteq repeated'
    BY <1>1, ShapeOf
<1>21. QED
    BY <1>1, <1>8, <1>12, <1>13, <1>16, <1>17, <1>19, <1>20, QuietStep

LEMMA DeleteRowStep == ASSUME DraftsInv, NEW p \in Pages, DeleteRow(p) PROVE DraftsInv'
<1>1. pages[p].step = "remove" /\ UNCHANGED <<composer, uploads, outgoing, written, used, repeated>>
    BY DEF DeleteRow
<1>2. PICK page \in PageRecord : page = pages[p]
    BY PageFacts
<1>3. PICK rows : rows = shelf'
    OBVIOUS
<1>4. PICK d \in pages[p].draft : /\ shelf' = [shelf EXCEPT ![d] = NoRow] /\ removed' = removed \cup {d}
                                  /\ Goes(p, Refreshed(page, rows))
    BY <1>2, <1>3 DEF DeleteRow
<1>5. d \in Drafts
    BY PageFacts
<1>6. Once(d)'
    BY <1>4 DEF Once
<1>7. PICK row \in RowRecord : row = NoRow
    BY NewPageIs
<1>8. shelf' = [shelf EXCEPT ![d] = row] /\ row.known <= uploads[d].generation /\ row.state # "ready" /\ removed \subseteq removed'
    BY <1>4, <1>5, <1>7, NewPageIs, ShapeOf
<1>9. WorldGoes
    BY <1>1, <1>5, <1>6, <1>8, WorldShelf
<1>10. PICK g : g = Refreshed(page, rows)
    OBVIOUS
<1>11. pages' = [pages EXCEPT ![p] = g]
    BY <1>4, <1>10 DEF Goes
<1>12. Rested(g, pages[p])
    BY <1>2, <1>10, RefreshedIs
<1>13. QED
    BY <1>1, <1>9, <1>11, <1>12, OverStep

LEMMA ReloadStep == ASSUME DraftsInv, NEW p \in Pages, Reload(p) PROVE DraftsInv'
<1>1. UNCHANGED <<composer, shelf, uploads, outgoing, written, used, removed, repeated>>
    BY DEF Reload
<1>2. WorldGoes
    BY <1>1, WorldSame
<1>3. PICK page \in PageRecord : page = NewPage
    BY NewPageIs
<1>4. PICK g : g = List(page, shelf)
    OBVIOUS
<1>5. g \in PageRecord /\ SendingKept(g, page) /\ TaskKept(g, page) /\ g.step = page.step /\ g.left = page.left
    BY <1>3, <1>4, ListIs
<1>6. g.step = "idle" /\ g.work = "none" /\ TaskOver(g) /\ g.key = 0 /\ g.text = 0
    BY <1>3, <1>5, NewPageIs DEF SendingKept, TaskKept, TaskOver
<1>7. written' \in Nat /\ written <= written' /\ repeated \subseteq repeated' /\ pages' = [pages EXCEPT ![p] = g]
    BY <1>1, <1>3, <1>4, ShapeOf DEF Reload, Goes
<1>8. QED
    BY <1>1, <1>2, <1>5, <1>6, <1>7, RestStep

LEMMA SendFromStep == ASSUME DraftsInv, NEW p \in Pages, SendFrom(p) PROVE DraftsInv'
<1>1. PICK page : page = pages[p]
    OBVIOUS
<1>2. PICK same \in BOOLEAN : same = (composer = "chat" /\ SamePending(page))
    OBVIOUS
<1>3. PICK next : next = IF same THEN page ELSE [page EXCEPT !.key = used + 1, !.for = page.listed, !.body = FALSE]
    OBVIOUS
<1>4. /\ page.step = "idle" /\ (page.text # 0 \/ page.listed # {}) /\ used' = (IF same THEN used ELSE used + 1)
      /\ repeated' = repeated \cup Overtaken(page)
      /\ UNCHANGED <<composer, shelf, uploads, outgoing, written, removed>>
      /\ Goes(p, IF next.body \/ next.for = {} THEN [next EXCEPT !.step = "post", !.work = "send", !.body = TRUE, !.posting = next.key]
                 ELSE StartUpload(next, "send", next.for))
    BY <1>1, <1>2, <1>3 DEF SendFrom, Resting
<1>5. page \in PageRecord /\ page.work = "none" /\ TaskOver(page) /\ PageKeys(p) /\ (composer = "chat" => PageTexts(p))
    BY <1>1, <1>4, RestingIs
<1>6. page.key \in Nat /\ page.listed \subseteq Drafts /\ page.for \subseteq Drafts /\ used \in Nat
    BY <1>1, PageFacts, ShapeOf
<1>7. WorldGoes
    BY <1>4, WorldSame
<1>8. /\ next \in PageRecord /\ next.text = page.text /\ TaskOver(next) /\ next.key \in Nat /\ next.key # 0
      /\ next.for = page.listed /\ next.for \subseteq Drafts
      /\ (IF same THEN next.key = page.key /\ next.for = page.for ELSE next.key = used + 1)
    <2>1. CASE same
        <3>1. next = page /\ page.key # 0 /\ page.for = page.listed
            BY <1>2, <1>3, <2>1 DEF SamePending
        <3>2. QED
            BY <1>5, <1>6, <2>1, <3>1
    <2>2. CASE ~ same
        <3>1. PICK k \in Nat : k = used + 1
            BY <1>6
        <3>2. PICK drafts \in SUBSET Drafts : drafts = page.listed
            BY <1>6
        <3>3. PICK no \in BOOLEAN : no = FALSE
            OBVIOUS
        <3>4. next = [page EXCEPT !.key = k, !.for = drafts, !.body = no]
            BY <1>3, <2>2, <3>1, <3>2, <3>3
        <3>5. next \in PageRecord
            BY <1>5, <3>4 DEF PageRecord
        <3>6. next.text = page.text /\ TaskOver(next) /\ next.key = k /\ next.for = drafts
            BY <1>5, <3>4, <3>5 DEF PageRecord, TaskOver
        <3>7. QED
            BY <1>6, <2>2, <3>1, <3>2, <3>5, <3>6
    <2>3. QED
        BY <2>1, <2>2
<1>9. used' \in Nat /\ used <= used' /\ (~ same => NewKey(next.key)) /\ UNCHANGED <<outgoing, written>> /\ repeated \subseteq repeated'
    BY <1>4, <1>6, <1>8 DEF NewKey
<1>10. next.text # 0 \/ next.for # {}
    BY <1>4, <1>8
<1>11. ASSUME composer = "chat", page.text # 0, page.key # 0, next.key # page.key
       PROVE  page.text \in repeated' \/ \A m \in outgoing : m.key # page.key
    <2>1. ~ same
        BY <1>8, <1>11
    <2>2. page.for # page.listed
        BY <1>2, <1>11, <2>1 DEF SamePending
    <2>3. CASE SentWith(page.key) # {}
        BY <1>4, <1>11, <2>2, <2>3 DEF Overtaken
    <2>4. CASE SentWith(page.key) = {}
        <3>1. \A m \in outgoing : m.key = page.key => m.state = "sent"
            BY <1>1, <1>4, <1>5, <1>11 DEF PageTexts
        <3>2. QED
            BY <2>4, <3>1 DEF SentWith
    <2>5. QED
        BY <2>3, <2>4
<1>12. pages[p].step # "discard"
    BY <1>1, <1>4
<1>13. CASE next.body \/ next.for = {}
    <2>1. PICK s \in PageSteps : s = "post"
        BY DEF PageSteps
    <2>2. PICK k \in Nat : k = next.key
        BY <1>8
    <2>3. PICK yes \in BOOLEAN : yes = TRUE
        OBVIOUS
    <2>4. PICK g : g = [next EXCEPT !.step = s, !.work = "send", !.body = yes, !.posting = k]
        OBVIOUS
    <2>5. pages' = [pages EXCEPT ![p] = g]
        BY <1>4, <1>13, <2>1, <2>2, <2>3, <2>4 DEF Goes
    <2>6. g \in PageRecord
        BY <1>8, <2>4 DEF PageRecord
    <2>7. /\ g.step = "post" /\ g.work = "send" /\ g.posting = k /\ SendingKept(g, next)
          /\ g.copy = next.copy /\ g.grant = next.grant
        BY <1>8, <2>1, <2>4, <2>6 DEF PageRecord, SendingKept
    <2>8. g.text = pages[p].text /\ g.key = next.key /\ g.for = next.for /\ g.posting = g.key /\ g.posting # 0 /\ g.key # 0
        BY <1>1, <1>8, <2>2, <2>7 DEF SendingKept
    <2>9. g.text # 0 \/ g.for # {}
        BY <1>1, <1>8, <1>10, <2>8
    <2>10. g.copy.known = 0 /\ g.grant = 0 /\ g.work # "voice" /\ g.work \in {"send", "voice"}
        BY <1>8, <2>7, NewPageIs DEF TaskOver
    <2>11. g.key = 0 \/ NewKey(g.key) \/ (g.key = pages[p].key /\ g.for = pages[p].for)
        BY <1>1, <1>8, <1>9, <2>8
    <2>12. composer = "chat" /\ g.text # 0 /\ pages[p].key # 0 /\ g.key # pages[p].key
               => g.text \in repeated' \/ \A m \in outgoing : m.key # pages[p].key
        BY <1>1, <1>11, <2>8
    <2>13. QED
        BY <1>7, <1>9, <1>12, <2>5, <2>6, <2>7, <2>8, <2>9, <2>10, <2>11, <2>12, StartPost
<1>14. CASE ~ (next.body \/ next.for = {})
    <2>1. PICK drafts \in SUBSET Drafts : drafts = next.for
        BY <1>8
    <2>2. PICK work \in {"send", "retry", "voice"} : work = "send"
        OBVIOUS
    <2>3. PICK g : g = StartUpload(next, work, drafts)
        OBVIOUS
    <2>4. /\ g \in PageRecord /\ SendingKept(g, next) /\ g.step = "load" /\ g.work = work
          /\ (\E d \in drafts : g.draft = {d}) /\ g.copy = NoRow /\ g.grant = 0 /\ g.posting = 0
        BY <1>8, <1>14, <2>1, <2>3, StartUploadIs
    <2>5. PICK d \in Drafts : g.draft = {d}
        BY <2>1, <2>4
    <2>6. pages' = [pages EXCEPT ![p] = g]
        BY <1>4, <1>14, <2>1, <2>2, <2>3 DEF Goes
    <2>7. g.text = pages[p].text /\ g.key = next.key /\ g.for = next.for /\ g.key # 0 /\ g.work \in {"send", "retry", "voice"}
        BY <1>1, <1>8, <2>4 DEF SendingKept
    <2>8. g.text # 0 \/ g.for # {}
        BY <1>1, <1>8, <1>10, <2>7
    <2>9. g.key = 0 \/ NewKey(g.key) \/ (g.key = pages[p].key /\ g.for = pages[p].for)
        BY <1>1, <1>8, <1>9, <2>7
    <2>10. composer = "chat" /\ g.text # 0 /\ pages[p].key # 0 /\ g.key # pages[p].key
               => g.text \in repeated' \/ \A m \in outgoing : m.key # pages[p].key
        BY <1>1, <1>11, <2>7
    <2>11. QED
        BY <1>7, <1>9, <1>12, <2>4, <2>5, <2>6, <2>7, <2>8, <2>9, <2>10, StartStep
<1>15. QED
    BY <1>13, <1>14

-----------------------------------------------------------------------------
(* The request.                                                             *)

\* What a page asks for is a sending.
LEMMA RequestRecord ==
    ASSUME DraftsInv, NEW p \in Pages, pages[p].step \in PostSteps, NEW state \in {"sent", "queued"}, NEW r, r = Request(pages[p], state)
    PROVE  /\ r \in SendingRecord /\ r.key = pages[p].posting /\ r.drafts = Attached(pages[p]) /\ r.state = state
           /\ Attached(pages[p]) \in SUBSET Drafts
<1>1. PICK page : page = pages[p]
    OBVIOUS
<1>2. page \in PageRecord /\ page.text \in Nat /\ page.posting \in Nat /\ page.for \subseteq Drafts /\ page.draft \subseteq Drafts
    BY <1>1, PageFacts
<1>3. PICK t \in Nat : t = IF page.work = "voice" THEN 0 ELSE page.text
    BY <1>2
<1>4. PICK drafts \in SUBSET Drafts : drafts = Attached(page)
    BY <1>2 DEF Attached
<1>5. PICK role \in {"attachment", "voice"} : role = IF page.work = "voice" THEN "voice" ELSE "attachment"
    OBVIOUS
<1>6. PICK k \in Nat : k = page.posting
    BY <1>2
<1>7. r = [key |-> k, text |-> t, drafts |-> drafts, role |-> role, state |-> state]
    BY <1>1, <1>3, <1>4, <1>5, <1>6 DEF Request
<1>8. r \in SendingRecord /\ r.key = k /\ r.drafts = drafts /\ r.state = state
    BY <1>7 DEF SendingRecord
<1>9. QED
    BY <1>1, <1>4, <1>6, <1>8

\* The server has executed the request, or executes it now.
Asked(p, new) ==
    /\ new = IF Executed(pages[p]) THEN {} ELSE {Request(pages[p], "sent")}
    /\ uploads' = [d \in Drafts |-> IF ~ Executed(pages[p]) /\ d \in Attached(pages[p])
                                    THEN [uploads[d] EXCEPT !.state = "bound"] ELSE uploads[d]]

LEMMA ExecutesAsked ==
    ASSUME NEW p \in Pages, Executes(pages[p])
    PROVE  \E new : Asked(p, new) /\ outgoing' = outgoing \cup new
<1>1. PICK new : new = IF Executed(pages[p]) THEN {} ELSE {Request(pages[p], "sent")}
    OBVIOUS
<1>2. Asked(p, new) /\ outgoing' = outgoing \cup new
    BY <1>1 DEF Executes, Asked
<1>3. QED
    BY <1>2

LEMMA AskedWorld ==
    ASSUME DraftsInv, NEW p \in Pages, pages[p].step \in PostSteps, Acceptable(pages[p]), NEW new, Asked(p, new),
           NEW more, more \subseteq {Request(pages[p], "queued")}, outgoing' = outgoing \cup new \cup more,
           UNCHANGED <<shelf, composer, removed>>
    PROVE  /\ WorldGoes /\ Requested(p, new \cup more) /\ new \cup more \subseteq SendingRecord
           /\ \A d \in Attached(pages[p]) : Once(d)'
           /\ \E m \in outgoing' : m.key = pages[p].posting /\ m.state = "sent"
<1>1. PICK a : a = Request(pages[p], "sent")
    OBVIOUS
<1>2. PICK b : b = Request(pages[p], "queued")
    OBVIOUS
<1>3. a \in SendingRecord /\ a.key = pages[p].posting /\ a.drafts = Attached(pages[p]) /\ a.state = "sent"
    BY <1>1, RequestRecord
<1>4. b \in SendingRecord /\ b.state = "queued"
    BY <1>2, RequestRecord
<1>5. PICK bind \in SUBSET Drafts : bind = IF Executed(pages[p]) THEN {} ELSE Attached(pages[p])
    BY <1>1, RequestRecord
<1>6. uploads' = [d \in Drafts |-> IF d \in bind THEN [uploads[d] EXCEPT !.state = "bound"] ELSE uploads[d]]
    BY <1>5 DEF Asked
<1>7. Bindable(bind)
    BY <1>5 DEF Acceptable, Bindable
<1>8. \A d \in Drafts : Once(d) => Once(d)'
    BY OnceStays
<1>9. \A k \in Nat : SentWith(k) # {} => SentWith(k)' # {}
    BY SentStays
<1>10. WorldGoes /\ \A d \in bind : uploads[d].state = "ready" /\ uploads'[d].state = "bound"
    BY <1>6, <1>7, <1>8, <1>9, WorldBind
<1>11. new \subseteq {a} /\ (new = {} \/ (a \in new /\ bind = Attached(pages[p]) /\ SentWith(pages[p].posting) = {}))
    BY <1>1, <1>5 DEF Asked, Executed
<1>12. Requested(p, new \cup more)
    <2>1. ASSUME NEW r \in new \cup more
          PROVE  /\ r \in {Request(pages[p], "sent"), Request(pages[p], "queued")}
                 /\ r.state = "sent" => /\ SentWith(pages[p].posting) = {}
                                        /\ \A d \in r.drafts : uploads[d].state = "ready" /\ uploads'[d].state = "bound"
        <3>1. CASE r \in new
            BY <1>1, <1>3, <1>10, <1>11, <3>1
        <3>2. CASE r \in more
            BY <1>2, <1>4, <3>2
        <3>3. QED
            BY <3>1, <3>2
    <2>2. QED
        BY <2>1 DEF Requested
<1>13. new \cup more \subseteq SendingRecord
    BY <1>2, <1>3, <1>4, <1>11
<1>14. PICK m \in outgoing' : m.key = pages[p].posting /\ m.state = "sent" /\ m.drafts = Attached(pages[p])
    <2>1. CASE Executed(pages[p])
        <3>1. PICK x \in outgoing : x.key = pages[p].posting /\ x.state = "sent"
            BY <2>1 DEF Executed, SentWith
        <3>2. x.drafts = Attached(pages[p])
            BY <3>1 DEF DraftsInv, KeysHold, PageKeys
        <3>3. QED
            BY <3>1, <3>2
    <2>2. CASE ~ Executed(pages[p])
        <3>1. a \in outgoing'
            BY <1>1, <2>2 DEF Asked
        <3>2. QED
            BY <1>3, <3>1
    <2>3. QED
        BY <2>1, <2>2
<1>15. \A d \in Attached(pages[p]) : Once(d)'
    BY <1>14 DEF Once
<1>16. QED
    BY <1>10, <1>12, <1>13, <1>14, <1>15

\* The sending is queued and nothing is executed.
LEMMA QueuedWorld ==
    ASSUME DraftsInv, NEW p \in Pages, pages[p].step \in PostSteps, Queue(pages[p]), UNCHANGED <<shelf, composer, uploads, removed>>
    PROVE  /\ WorldGoes /\ (\A d \in Attached(pages[p]) : Once(d)')
           /\ \E new : /\ outgoing' = outgoing \cup new /\ new \subseteq SendingRecord /\ Requested(p, new)
                       /\ \A r \in new : r.state = "queued"
<1>1. PICK b : b = Request(pages[p], "queued")
    OBVIOUS
<1>2. b \in SendingRecord /\ b.state = "queued" /\ b.drafts = Attached(pages[p])
    BY <1>1, RequestRecord
<1>3. outgoing' = outgoing \cup {b}
    BY <1>1 DEF Queue
<1>4. WorldGoes
    BY <1>3, WorldSame
<1>5. PICK new : new = {b}
    OBVIOUS
<1>6. Requested(p, new)
    BY <1>1, <1>2, <1>5 DEF Requested
<1>7. \A d \in Attached(pages[p]) : Once(d)'
    BY <1>2, <1>3 DEF Once
<1>8. QED
    BY <1>2, <1>3, <1>4, <1>5, <1>6, <1>7

\* The page goes on to discard what was attached.
LEMMA DiscardOn ==
    ASSUME DraftsInv, WorldGoes, NEW p \in Pages, pages[p].step \in PostSteps \ {"discard"}, NEW new, Requested(p, new),
           new \subseteq SendingRecord, outgoing' = outgoing \cup new, UNCHANGED <<used, written>>, repeated \subseteq repeated',
           pages' = [pages EXCEPT ![p] = StartDiscard(pages[p], Attached(pages[p]))],
           \A d \in Attached(pages[p]) : Once(d)'
    PROVE  DraftsInv'
<1>1. PICK page \in PageRecord : page = pages[p]
    BY PageFacts
<1>2. PICK drafts \in SUBSET Drafts : drafts = Attached(page)
    BY <1>1, PageFacts DEF Attached
<1>3. PICK g : g = StartDiscard(page, drafts)
    OBVIOUS
<1>4. g \in PageRecord /\ SendingKept(g, page) /\ TaskKept(g, page) /\ g.step = "discard" /\ g.left = drafts
    BY <1>3, StartDiscardIs
<1>5. PageMovesTo(p, g, new)
    BY <1>1, <1>2, <1>3, <1>4, ShapeOf DEF PageMovesTo
<1>6. SendingKept(g, pages[p]) /\ TaskKept(g, pages[p]) /\ g.step \in PostSteps /\ \A d \in g.left : Once(d)'
    BY <1>1, <1>2, <1>4 DEF PostSteps
<1>7. QED
    BY <1>4, <1>5, <1>6, PostOn

LEMMA PostAnsweredStep == ASSUME DraftsInv, NEW p \in Pages, PostAnswered(p) PROVE DraftsInv'
<1>1. /\ pages[p].step = "post" /\ Acceptable(pages[p]) /\ Executes(pages[p])
      /\ UNCHANGED <<composer, shelf, written, used, removed, repeated>>
    BY DEF PostAnswered, AtStep
<1>2. pages[p].step \in PostSteps \ {"discard"}
    BY <1>1 DEF PostSteps
<1>3. PICK none : none = {}
    OBVIOUS
<1>4. PICK new : Asked(p, new) /\ outgoing' = outgoing \cup new
    BY <1>1, ExecutesAsked
<1>5. outgoing' = outgoing \cup new \cup none /\ none \subseteq {Request(pages[p], "queued")} /\ new \cup none = new
    BY <1>3, <1>4
<1>6. /\ WorldGoes /\ Requested(p, new \cup none) /\ new \cup none \subseteq SendingRecord /\ (\A d \in Attached(pages[p]) : Once(d)')
      /\ \E m \in outgoing' : m.key = pages[p].posting /\ m.state = "sent"
    BY <1>1, <1>2, <1>4, <1>5, AskedWorld
<1>7. Requested(p, new) /\ new \subseteq SendingRecord
    BY <1>5, <1>6
<1>8. CASE composer # "chat"
    BY <1>1, <1>2, <1>4, <1>6, <1>7, <1>8, DiscardOn DEF PostAnswered, Goes
<1>9. CASE composer = "chat"
    <2>1. PICK page \in PageRecord : page = pages[p]
        BY PageFacts
    <2>2. PICK s \in PageSteps : s = "answered"
        BY DEF PageSteps
    <2>3. PICK g : g = [page EXCEPT !.step = s]
        OBVIOUS
    <2>4. g \in PageRecord /\ SendingKept(g, page) /\ TaskKept(g, page) /\ g.step = "answered"
        BY <2>2, <2>3, StepIs
    <2>5. pages' = [pages EXCEPT ![p] = g]
        BY <1>9, <2>1, <2>2, <2>3 DEF PostAnswered, Goes
    <2>6. PageMovesTo(p, g, new)
        BY <1>1, <1>4, <1>7, <2>4, <2>5, ShapeOf DEF PageMovesTo
    <2>7. SentWith(g.posting)' # {}
        <3>1. g.posting = pages[p].posting
            BY <2>1, <2>4 DEF TaskKept
        <3>2. QED
            BY <1>6, <3>1 DEF SentWith
    <2>8. \A r \in new : r.state # "queued"
        <3>1. PICK a : a = Request(pages[p], "sent")
            OBVIOUS
        <3>2. a.state = "sent" /\ new \subseteq {a}
            BY <1>4, <3>1, RequestIs DEF Asked
        <3>3. QED
            BY <3>2
    <2>9. SendingKept(g, pages[p]) /\ TaskKept(g, pages[p]) /\ g.step \in PostSteps
        BY <2>1, <2>4 DEF PostSteps
    <2>10. QED
        BY <1>1, <1>2, <1>6, <1>7, <2>4, <2>6, <2>7, <2>8, <2>9, PostOn
<1>10. QED
    BY <1>8, <1>9

LEMMA PostRefusedStep == ASSUME DraftsInv, NEW p \in Pages, PostRefused(p) PROVE DraftsInv'
<1>1. /\ pages[p].step = "post" /\ ~ Acceptable(pages[p])
      /\ UNCHANGED <<composer, shelf, uploads, outgoing, written, used, removed, repeated>>
    BY DEF PostRefused, AtStep
<1>2. PICK page \in PageRecord : page = pages[p]
    BY PageFacts
<1>3. WorldGoes
    BY <1>1, WorldSame
<1>4. PICK base : base = IF page.work = "voice" THEN page ELSE Forget(page)
    OBVIOUS
<1>5. PICK f : f = Forget(page)
    OBVIOUS
<1>6. f \in PageRecord /\ f.key = 0 /\ f.text = page.text
    BY <1>5, ForgetIs
<1>7. base \in PageRecord /\ base.text = page.text /\ (base = page \/ (base.key = 0 /\ page.work # "voice"))
    BY <1>4, <1>5, <1>6
<1>8. PICK g : g = Rest(base)
    OBVIOUS
<1>9. Rested(g, base)
    BY <1>7, <1>8, RestIs
<1>10. pages' = [pages EXCEPT ![p] = g]
    BY <1>2, <1>4, <1>8 DEF PostRefused, Goes
<1>11. CASE base = page
    BY <1>1, <1>2, <1>3, <1>9, <1>10, <1>11, OverStep
<1>12. CASE base.key = 0 /\ page.work # "voice"
    <2>1. g \in PageRecord /\ g.text = pages[p].text /\ g.key = 0 /\ g.step = "idle" /\ g.work = "none" /\ TaskOver(g)
        BY <1>2, <1>7, <1>9, <1>12 DEF Rested
    <2>2. ASSUME composer = "chat" PROVE \A m \in outgoing : m.key # pages[p].key
        <3>1. PageTexts(p) /\ PageKeys(p) /\ TaskHolds(p)
            BY <2>2 DEF DraftsInv, TextsHold, KeysHold
        <3>2. pages[p].work = "send" /\ pages[p].posting # 0
            BY <1>1, <1>2, <1>12, <3>1 DEF TaskHolds, PageKeys, PostSteps
        <3>3. pages[p].posting = pages[p].key
            BY <3>1, <3>2 DEF PageKeys
        <3>4. \A m \in outgoing : m.key = pages[p].key => m.state = "sent"
            BY <1>1, <3>1 DEF PageTexts
        <3>5. SentWith(pages[p].posting) = {}
            BY <1>1 DEF Acceptable, Executed
        <3>6. QED
            BY <3>3, <3>4, <3>5 DEF SentWith
    <2>3. written' \in Nat /\ written <= written' /\ repeated \subseteq repeated' /\ UNCHANGED <<outgoing, used>>
        BY <1>1, ShapeOf
    <2>4. QED
        BY <1>3, <1>10, <2>1, <2>2, <2>3, RestStep
<1>13. QED
    BY <1>7, <1>11, <1>12

\* A page that has asked is at rest, and keeps the sending.
LEMMA KeptStep ==
    ASSUME DraftsInv, WorldGoes, NEW p \in Pages, pages[p].step \in PostSteps \ {"discard"}, NEW new, Requested(p, new),
           new \subseteq SendingRecord, outgoing' = outgoing \cup new, UNCHANGED <<used, written>>, repeated \subseteq repeated',
           pages' = [pages EXCEPT ![p] = Rest(pages[p])], composer = "chat" => \A r \in new : r.state # "queued"
    PROVE  DraftsInv'
<1>1. PICK page \in PageRecord : page = pages[p]
    BY PageFacts
<1>2. PICK g : g = Rest(page)
    OBVIOUS
<1>3. Rested(g, page)
    BY <1>2, RestIs
<1>4. g \in PageRecord /\ g.text = pages[p].text /\ g.step = "idle" /\ g.work = "none" /\ TaskOver(g)
    BY <1>1, <1>3 DEF Rested
<1>5. g.key = 0 \/ (g.key = pages[p].key /\ g.for = pages[p].for)
    BY <1>1, <1>3 DEF Rested
<1>6. composer = "chat" => g.key = pages[p].key
    BY <1>1, <1>3 DEF Rested
<1>7. PageMovesTo(p, g, new)
    BY <1>1, <1>2, <1>4, ShapeOf DEF PageMovesTo
<1>8. QED
    BY <1>4, <1>5, <1>6, <1>7, RestAsk

LEMMA PostFailsStep == ASSUME DraftsInv, NEW p \in Pages, PostFails(p) PROVE DraftsInv'
<1>1. /\ pages[p].step = "post" /\ pages' = [pages EXCEPT ![p] = Rest(pages[p])]
      /\ UNCHANGED <<composer, shelf, written, used, removed, repeated>>
    BY DEF PostFails, AtStep, Goes
<1>2. pages[p].step \in PostSteps \ {"discard"} /\ pages[p].step \in PostSteps
    BY <1>1 DEF PostSteps
<1>3. PICK none : none = {}
    OBVIOUS
<1>4. CASE Acceptable(pages[p]) /\ Executes(pages[p])
    <2>1. PICK new : Asked(p, new) /\ outgoing' = outgoing \cup new
        BY <1>4, ExecutesAsked
    <2>2. outgoing' = outgoing \cup new \cup none /\ none \subseteq {Request(pages[p], "queued")} /\ new \cup none = new
        BY <1>3, <2>1
    <2>3. WorldGoes /\ Requested(p, new \cup none) /\ new \cup none \subseteq SendingRecord
        BY <1>1, <1>2, <1>4, <2>1, <2>2, AskedWorld
    <2>4. Requested(p, new) /\ new \subseteq SendingRecord
        BY <2>2, <2>3
    <2>5. \A r \in new : r.state # "queued"
        <3>1. PICK a : a = Request(pages[p], "sent")
            OBVIOUS
        <3>2. a.state = "sent" /\ new \subseteq {a}
            BY <2>1, <3>1, RequestIs DEF Asked
        <3>3. QED
            BY <3>2
    <2>6. QED
        BY <1>1, <1>2, <2>1, <2>3, <2>4, <2>5, KeptStep
<1>5. CASE UNCHANGED <<uploads, outgoing>>
    <2>1. WorldGoes
        BY <1>1, <1>5, WorldSame
    <2>2. Requested(p, none) /\ none \subseteq SendingRecord /\ outgoing' = outgoing \cup none /\ \A r \in none : r.state # "queued"
        BY <1>3, <1>5 DEF Requested
    <2>3. QED
        BY <1>1, <1>2, <2>1, <2>2, KeptStep
<1>6. QED
    BY <1>4, <1>5 DEF PostFails

LEMMA PostLostStep == ASSUME DraftsInv, NEW p \in Pages, PostLost(p) PROVE DraftsInv'
<1>1. /\ pages[p].step = "post" /\ Queue(pages[p])
      /\ pages' = [pages EXCEPT ![p] = IF composer = "chat" THEN StartDiscard(pages[p], Attached(pages[p])) ELSE Rest(pages[p])]
      /\ UNCHANGED <<composer, shelf, uploads, written, used, removed, repeated>>
    BY DEF PostLost, AtStep, Goes, Queued
<1>2. pages[p].step \in PostSteps \ {"discard"} /\ pages[p].step \in PostSteps
    BY <1>1 DEF PostSteps
<1>3. WorldGoes /\ \A d \in Attached(pages[p]) : Once(d)'
    BY <1>1, <1>2, QueuedWorld
<1>4. PICK new : outgoing' = outgoing \cup new /\ new \subseteq SendingRecord /\ Requested(p, new)
    BY <1>1, <1>2, QueuedWorld
<1>5. CASE composer = "chat"
    BY <1>1, <1>2, <1>3, <1>4, <1>5, DiscardOn
<1>6. CASE composer # "chat"
    BY <1>1, <1>2, <1>3, <1>4, <1>6, KeptStep
<1>7. QED
    BY <1>5, <1>6

LEMMA PostAnswerLostStep == ASSUME DraftsInv, NEW p \in Pages, PostAnswerLost(p) PROVE DraftsInv'
<1>1. /\ pages[p].step = "post" /\ Acceptable(pages[p])
      /\ pages' = [pages EXCEPT ![p] = IF composer = "chat" THEN StartDiscard(pages[p], Attached(pages[p])) ELSE Rest(pages[p])]
      /\ UNCHANGED <<composer, shelf, written, used, removed, repeated>>
    BY DEF PostAnswerLost, AtStep, Goes, Queued
<1>2. pages[p].step \in PostSteps \ {"discard"} /\ pages[p].step \in PostSteps
    BY <1>1 DEF PostSteps
<1>3. PICK more : more = {Request(pages[p], "queued")}
    OBVIOUS
<1>4. PICK new : Asked(p, new) /\ outgoing' = outgoing \cup new \cup more
    <2>1. PICK new : new = IF Executed(pages[p]) THEN {} ELSE {Request(pages[p], "sent")}
        OBVIOUS
    <2>2. Asked(p, new) /\ outgoing' = outgoing \cup new \cup more
        BY <1>3, <2>1 DEF PostAnswerLost, Asked
    <2>3. QED
        BY <2>2
<1>5. WorldGoes /\ Requested(p, new \cup more) /\ new \cup more \subseteq SendingRecord /\ \A d \in Attached(pages[p]) : Once(d)'
    BY <1>1, <1>2, <1>3, <1>4, AskedWorld
<1>6. PICK both : both = new \cup more
    OBVIOUS
<1>7. Requested(p, both) /\ both \subseteq SendingRecord /\ outgoing' = outgoing \cup both
    BY <1>4, <1>5, <1>6
<1>8. CASE composer = "chat"
    BY <1>1, <1>2, <1>5, <1>7, <1>8, DiscardOn
<1>9. CASE composer # "chat"
    BY <1>1, <1>2, <1>5, <1>7, <1>9, KeptStep
<1>10. QED
    BY <1>8, <1>9

LEMMA PostOfflineStep == ASSUME DraftsInv, NEW p \in Pages, PostOffline(p) PROVE DraftsInv'
<1>1. /\ pages[p].step = "post" /\ Queue(pages[p])
      /\ UNCHANGED <<composer, shelf, uploads, written, used, removed, repeated>>
    BY DEF PostOffline, AtStep
<1>2. pages[p].step \in PostSteps \ {"discard"} /\ pages[p].step \in PostSteps
    BY <1>1 DEF PostSteps
<1>3. WorldGoes
    BY <1>1, <1>2, QueuedWorld
<1>4. PICK new : outgoing' = outgoing \cup new /\ new \subseteq SendingRecord /\ Requested(p, new)
    BY <1>1, <1>2, QueuedWorld
<1>5. CASE composer # "chat"
    BY <1>1, <1>2, <1>3, <1>4, <1>5, KeptStep DEF PostOffline, Goes
<1>6. CASE composer = "chat"
    <2>1. PICK page \in PageRecord : page = pages[p]
        BY PageFacts
    <2>2. PICK f : f = Forget(page)
        OBVIOUS
    <2>3. f \in PageRecord /\ f.key = 0 /\ f.text = page.text
        BY <2>2, ForgetIs
    <2>4. PICK b : b = Rest(f)
        OBVIOUS
    <2>5. Rested(b, f)
        BY <2>3, <2>4, RestIs
    <2>6. PICK z \in Nat : z = 0
        OBVIOUS
    <2>7. PICK g : g = [b EXCEPT !.text = z]
        OBVIOUS
    <2>8. pages' = [pages EXCEPT ![p] = g]
        BY <1>6, <2>1, <2>2, <2>4, <2>6, <2>7 DEF PostOffline, Goes
    <2>9. b \in PageRecord /\ b.key = 0 /\ b.step = "idle" /\ b.work = "none" /\ TaskOver(b)
        BY <1>6, <2>3, <2>5 DEF Rested
    <2>10. g \in PageRecord
        BY <2>7, <2>9 DEF PageRecord
    <2>11. g.text = 0 /\ g.key = 0 /\ g.step = "idle" /\ g.work = "none" /\ TaskOver(g)
        BY <2>6, <2>7, <2>9, <2>10 DEF PageRecord, TaskOver
    <2>12. PageMovesTo(p, g, new)
        BY <1>1, <1>4, <2>8, <2>10, ShapeOf DEF PageMovesTo
    <2>13. QED
        BY <1>1, <1>3, <1>4, <2>11, <2>12, RestAsk
<1>7. QED
    BY <1>5, <1>6

LEMMA ShowMessageStep == ASSUME DraftsInv, NEW p \in Pages, ShowMessage(p) PROVE DraftsInv'
<1>1. /\ pages[p].step = "answered" /\ UNCHANGED <<composer, shelf, uploads, written, used, removed>>
      /\ repeated \subseteq repeated'
    BY DEF ShowMessage, AtStep
<1>2. pages[p].step \in PostSteps \ {"discard"} /\ pages[p].step \in PostSteps /\ pages[p].step \notin UploadSteps
    BY <1>1 DEF PostSteps, UploadSteps
<1>3. PICK none : none = {}
    OBVIOUS
<1>4. PICK x \in outgoing : x.key = pages[p].posting /\ x.drafts = Attached(pages[p])
    <2>1. PICK x \in outgoing : x.key = pages[p].posting
        BY <1>1 DEF DraftsInv, TaskHolds, SentWith
    <2>2. x.drafts = Attached(pages[p])
        BY <1>2, <2>1 DEF DraftsInv, KeysHold, PageKeys
    <2>3. QED
        BY <2>1, <2>2
<1>5. CASE pages' = [pages EXCEPT ![p] = StartDiscard(pages[p], Attached(pages[p]))] /\ UNCHANGED outgoing
    <2>1. WorldGoes
        BY <1>1, <1>5, WorldSame
    <2>2. \A d \in Attached(pages[p]) : Once(d)'
        BY <1>4, <1>5 DEF Once
    <2>3. Requested(p, none) /\ none \subseteq SendingRecord /\ outgoing' = outgoing \cup none
        BY <1>3, <1>5 DEF Requested
    <2>4. QED
        BY <1>1, <1>2, <1>5, <2>1, <2>2, <2>3, DiscardOn
<1>6. CASE pages' = [pages EXCEPT ![p] = StartDiscard(pages[p], Attached(pages[p]))] /\ Queue(pages[p])
    <2>1. WorldGoes /\ \A d \in Attached(pages[p]) : Once(d)'
        BY <1>1, <1>2, <1>6, QueuedWorld
    <2>2. PICK new : outgoing' = outgoing \cup new /\ new \subseteq SendingRecord /\ Requested(p, new)
        BY <1>1, <1>2, <1>6, QueuedWorld
    <2>3. QED
        BY <1>1, <1>2, <1>6, <2>1, <2>2, DiscardOn
<1>7. CASE pages' = [pages EXCEPT ![p] = Rest(pages[p])] /\ UNCHANGED outgoing
    <2>1. WorldGoes
        BY <1>1, <1>7, WorldSame
    <2>2. Requested(p, none) /\ none \subseteq SendingRecord /\ outgoing' = outgoing \cup none /\ \A r \in none : r.state # "queued"
        BY <1>3, <1>7 DEF Requested
    <2>3. QED
        BY <1>1, <1>2, <1>7, <2>1, <2>2, KeptStep
<1>8. CASE /\ pages' = [pages EXCEPT ![p] = Rest(Forget(pages[p]))] /\ UNCHANGED outgoing
           /\ repeated' = repeated \cup ({pages[p].text} \ {0})
    <2>1. WorldGoes
        BY <1>1, <1>8, WorldSame
    <2>2. PICK page \in PageRecord : page = pages[p]
        BY PageFacts
    <2>3. PICK f : f = Forget(page)
        OBVIOUS
    <2>4. f \in PageRecord /\ f.key = 0 /\ f.text = page.text
        BY <2>3, ForgetIs
    <2>5. PICK g : g = Rest(f)
        OBVIOUS
    <2>6. Rested(g, f)
        BY <2>4, <2>5, RestIs
    <2>7. g \in PageRecord /\ g.text = pages[p].text /\ g.key = 0 /\ g.step = "idle" /\ g.work = "none" /\ TaskOver(g)
        BY <2>2, <2>4, <2>6 DEF Rested
    <2>8. g.text # 0 => g.text \in repeated'
        BY <1>8, <2>7
    <2>9. pages' = [pages EXCEPT ![p] = g]
        BY <1>8, <2>2, <2>3, <2>5
    <2>10. written' \in Nat /\ written <= written' /\ UNCHANGED <<outgoing, used>>
        BY <1>1, <1>8, ShapeOf
    <2>11. QED
        BY <1>1, <2>1, <2>7, <2>8, <2>9, <2>10, RestStep
<1>9. QED
    BY <1>5, <1>6, <1>7, <1>8 DEF ShowMessage, Goes

LEMMA DiscardDraftStep == ASSUME DraftsInv, NEW p \in Pages, DiscardDraft(p) PROVE DraftsInv'
<1>1. pages[p].step = "discard" /\ UNCHANGED <<composer, uploads, outgoing, written, used, removed, repeated>>
    BY DEF DiscardDraft, AtStep
<1>2. pages[p].step \in PostSteps
    BY <1>1 DEF PostSteps
<1>3. PICK page \in PageRecord : page = pages[p]
    BY PageFacts
<1>4. page.left \subseteq Drafts /\ page.work \in {"send", "voice"} /\ \A d \in page.left : Once(d)
    BY <1>1, <1>2, <1>3, PageFacts DEF DraftsInv, TaskHolds
<1>5. written' \in Nat /\ written <= written' /\ repeated \subseteq repeated' /\ UNCHANGED <<outgoing, used>>
    BY <1>1, ShapeOf
<1>6. ASSUME NEW d \in page.left, shelf' = [shelf EXCEPT ![d] = NoRow], Goes(p, [page EXCEPT !.left = @ \ {d}]) PROVE DraftsInv'
    <2>1. \A e \in Drafts : Once(e)' <=> Once(e)
        BY <1>1 DEF Once
    <2>2. PICK row \in RowRecord : row = NoRow
        BY NewPageIs
    <2>3. d \in Drafts /\ shelf' = [shelf EXCEPT ![d] = row] /\ row.known <= uploads[d].generation /\ row.state # "ready" /\ Once(d)'
        BY <1>4, <1>6, <2>1, <2>2, NewPageIs, ShapeOf
    <2>4. WorldGoes
        BY <1>1, <2>3, WorldShelf
    <2>5. PICK drafts \in SUBSET Drafts : drafts = page.left \ {d}
        BY <1>4
    <2>6. PICK g : g = [page EXCEPT !.left = drafts]
        OBVIOUS
    <2>7. g \in PageRecord
        BY <2>6 DEF PageRecord
    <2>8. SendingKept(g, page) /\ TaskKept(g, page) /\ g.step = page.step /\ g.left = drafts
        BY <2>6, <2>7 DEF PageRecord, SendingKept, TaskKept
    <2>9. pages' = [pages EXCEPT ![p] = g]
        BY <1>6, <1>3, <2>5, <2>6 DEF Goes
    <2>10. PICK none : none = {}
        OBVIOUS
    <2>11. PageMovesTo(p, g, none) /\ Requested(p, none)
        BY <1>1, <2>7, <2>9, <2>10, ShapeOf DEF PageMovesTo, Requested
    <2>12. \A e \in g.left : Once(e)'
        BY <1>4, <2>1, <2>5, <2>8
    <2>13. SendingKept(g, pages[p]) /\ TaskKept(g, pages[p]) /\ g.step = "discard" /\ g.step \in PostSteps
        BY <1>1, <1>2, <1>3, <2>8
    <2>14. \A r \in none : r.state = "queued" => g.step = "discard"
        BY <2>10
    <2>15. QED
        BY <1>1, <1>2, <2>4, <2>11, <2>12, <2>13, <2>14, PostOn
<1>7. ASSUME UNCHANGED shelf PROVE WorldGoes
    BY <1>1, <1>7, WorldSame
<1>8. CASE UNCHANGED shelf /\ page.work = "voice" /\ Goes(p, Refreshed(page, shelf))
    <2>1. PICK g : g = Refreshed(page, shelf)
        OBVIOUS
    <2>2. Rested(g, pages[p])
        BY <1>3, <2>1, RefreshedIs
    <2>3. pages' = [pages EXCEPT ![p] = g] /\ pages[p].work # "send"
        BY <1>3, <1>8, <2>1 DEF Goes
    <2>4. QED
        BY <1>1, <1>7, <1>8, <2>2, <2>3, OverStep
<1>9. PICK f : f = Forget(page)
    OBVIOUS
<1>10. f \in PageRecord /\ f.key = 0 /\ f.for = {}
    BY <1>9, ForgetIs
<1>11. PICK z \in Nat : z = 0
    OBVIOUS
<1>12. CASE UNCHANGED shelf /\ composer = "chat" /\ Goes(p, [Refreshed(Forget(page), shelf) EXCEPT !.text = 0])
    <2>1. PICK b : b = Refreshed(f, shelf)
        OBVIOUS
    <2>2. Rested(b, f)
        BY <1>10, <2>1, RefreshedIs
    <2>3. b \in PageRecord /\ b.key = 0 /\ b.step = "idle" /\ b.work = "none" /\ TaskOver(b)
        BY <1>10, <1>12, <2>2 DEF Rested
    <2>4. PICK g : g = [b EXCEPT !.text = z]
        OBVIOUS
    <2>5. g \in PageRecord
        BY <2>3, <2>4 DEF PageRecord
    <2>6. g.text = 0 /\ g.key = 0 /\ g.step = "idle" /\ g.work = "none" /\ TaskOver(g)
        BY <1>11, <2>3, <2>4, <2>5 DEF PageRecord, TaskOver
    <2>7. pages' = [pages EXCEPT ![p] = g]
        BY <1>9, <1>11, <1>12, <2>1, <2>4 DEF Goes
    <2>8. QED
        BY <1>5, <1>7, <1>12, <2>5, <2>6, <2>7, RestStep
<1>13. CASE UNCHANGED shelf /\ composer # "chat" /\ Goes(p, [Rest(Forget(page)) EXCEPT !.text = 0, !.listed = {}, !.failed = {}])
    <2>1. PICK b : b = Rest(f)
        OBVIOUS
    <2>2. Rested(b, f)
        BY <1>10, <2>1, RestIs
    <2>3. b \in PageRecord /\ b.key = 0 /\ b.step = "idle" /\ b.work = "none" /\ TaskOver(b)
        BY <1>10, <1>13, <2>2 DEF Rested
    <2>4. PICK g : g = [b EXCEPT !.text = z, !.listed = {}, !.failed = {}]
        OBVIOUS
    <2>5. g \in PageRecord
        BY <2>3, <2>4 DEF PageRecord
    <2>6. g.text = 0 /\ g.key = 0 /\ g.step = "idle" /\ g.work = "none" /\ TaskOver(g)
        BY <1>11, <2>3, <2>4, <2>5 DEF PageRecord, TaskOver
    <2>7. pages' = [pages EXCEPT ![p] = g]
        BY <1>9, <1>11, <1>13, <2>1, <2>4 DEF Goes
    <2>8. QED
        BY <1>5, <1>7, <1>13, <2>5, <2>6, <2>7, RestStep
<1>14. QED
    <2>1. \/ \E d \in page.left : shelf' = [shelf EXCEPT ![d] = NoRow] /\ Goes(p, [page EXCEPT !.left = @ \ {d}])
          \/ UNCHANGED shelf /\ Goes(p, CASE page.work = "voice" -> Refreshed(page, shelf)
                           [] composer = "chat" -> [Refreshed(Forget(page), shelf) EXCEPT !.text = 0]
                           [] OTHER -> [Rest(Forget(page)) EXCEPT !.text = 0, !.listed = {}, !.failed = {}])
        BY <1>3 DEF DiscardDraft
    <2>2. PICK one : one = Refreshed(page, shelf)
        OBVIOUS
    <2>3. PICK two : two = [Refreshed(Forget(page), shelf) EXCEPT !.text = 0]
        OBVIOUS
    <2>4. PICK three : three = [Rest(Forget(page)) EXCEPT !.text = 0, !.listed = {}, !.failed = {}]
        OBVIOUS
    <2>5. PICK next : next = CASE page.work = "voice" -> one [] composer = "chat" -> two [] OTHER -> three
        OBVIOUS
    <2>6. \/ next = one /\ page.work = "voice"
          \/ next = two /\ composer = "chat"
          \/ next = three /\ composer # "chat" /\ page.work # "voice"
          \/ page.work = "voice" /\ composer = "chat"
        BY <2>5
    <2>7. ASSUME UNCHANGED shelf, Goes(p, next), ~ (page.work = "voice" /\ composer = "chat") PROVE DraftsInv'
        BY <1>8, <1>12, <1>13, <2>2, <2>3, <2>4, <2>6, <2>7
    <2>8. ASSUME UNCHANGED shelf, Goes(p, next), page.work = "voice", composer = "chat" PROVE DraftsInv'
        <3>1. next = one \/ next = two
            BY <2>5, <2>8
        <3>2. QED
            BY <1>8, <1>12, <2>2, <2>3, <2>8, <3>1
    <2>9. QED
        BY <1>6, <2>1, <2>2, <2>3, <2>4, <2>5, <2>7, <2>8

-----------------------------------------------------------------------------
(* What happens around the pages.                                           *)

\* The pages do nothing, and every sending is one there was, or was queued.
LEMMA OthersStep ==
    ASSUME DraftsInv, WorldGoes, UNCHANGED <<pages, used, written, repeated>>, outgoing' \subseteq SendingRecord,
           \A n \in outgoing' : \E o \in outgoing : /\ o.key = n.key /\ o.text = n.text /\ o.drafts = n.drafts
                                                    /\ n = o \/ o.state = "queued",
           \A n, o \in outgoing' : n.key = o.key /\ n.state = "sent" /\ o.state = "sent" => n = o,
           BoundHolds'
    PROVE  DraftsInv'
<1>1. UNCHANGED composer /\ pages \in [Pages -> PageRecord] /\ used \in Nat /\ written \in Nat /\ composer \in {"chat", "relationship"}
    BY ShapeOf DEF WorldGoes
<1>2. DraftsShape'
    BY <1>1 DEF DraftsShape, WorldGoes
<1>3. \A d \in Drafts : ShelfHolds(d)'
    BY ShelfHoldsNext
<1>4. \A p \in Pages : TaskHolds(p)'
    BY TaskStays
<1>5. \A p \in Pages : OwnKeys(p)' = OwnKeys(p)
    BY DEF OwnKeys
<1>6. KeysHold'
    <2>1. MessageKeys'
        <3>1. \A n \in outgoing' : n.key \in 1 .. used'
            BY DEF DraftsInv, KeysHold, MessageKeys
        <3>2. ASSUME NEW n \in outgoing', NEW o \in outgoing', n.key = o.key PROVE n.drafts = o.drafts
            <4>1. PICK m \in outgoing : m.key = n.key /\ m.drafts = n.drafts
                OBVIOUS
            <4>2. PICK l \in outgoing : l.key = o.key /\ l.drafts = o.drafts
                OBVIOUS
            <4>3. QED
                BY <3>2, <4>1, <4>2 DEF DraftsInv, KeysHold, MessageKeys
        <3>3. QED
            BY <3>1, <3>2 DEF MessageKeys
    <2>2. ASSUME NEW p \in Pages PROVE PageKeys(p)'
        <3>1. PageKeys(p) /\ OwnKeys(p)' = OwnKeys(p)
            BY <1>5 DEF DraftsInv, KeysHold
        <3>2. QED
            BY <3>1 DEF PageKeys
    <2>3. QED
        BY <1>5, <2>1, <2>2 DEF DraftsInv, KeysHold
<1>7. TextsHold'
    <2> SUFFICES ASSUME composer = "chat"
                 PROVE  /\ MessageTexts' /\ \A p \in Pages : PageTexts(p)'
                        /\ \A p, q \in Pages : p # q /\ pages'[p].text # 0 => pages'[p].text # pages'[q].text
        BY <1>1 DEF TextsHold
    <2>1. /\ MessageTexts /\ (\A p \in Pages : PageTexts(p))
          /\ \A p, q \in Pages : p # q /\ pages[p].text # 0 => pages[p].text # pages[q].text
        BY DEF DraftsInv, TextsHold
    <2>2. MessageTexts'
        <3>1. \A n \in outgoing' : n.text <= written' /\ (n.drafts = {} => n.text # 0)
            BY <2>1 DEF MessageTexts
        <3>2. ASSUME NEW n \in outgoing', NEW o \in outgoing', n.drafts = {}, o.drafts = {}, n.text = o.text
              PROVE  n.text \in repeated' \/ n.key = o.key
            <4>1. PICK m \in outgoing : m.key = n.key /\ m.drafts = n.drafts /\ m.text = n.text
                OBVIOUS
            <4>2. PICK l \in outgoing : l.key = o.key /\ l.drafts = o.drafts /\ l.text = o.text
                OBVIOUS
            <4>3. QED
                BY <2>1, <3>2, <4>1, <4>2 DEF MessageTexts
        <3>3. QED
            BY <3>1, <3>2 DEF MessageTexts
    <2>3. ASSUME NEW p \in Pages PROVE PageTexts(p)'
        <3>1. ASSUME NEW n \in outgoing', n.key = pages[p].key, ~ (pages[p].step = "discard" /\ pages[p].work = "send")
              PROVE  n.state = "sent"
            <4>1. PICK m \in outgoing : m.key = n.key /\ (n = m \/ m.state = "queued")
                OBVIOUS
            <4>2. m.state = "sent"
                BY <2>1, <3>1, <4>1 DEF PageTexts
            <4>3. QED
                BY <4>1, <4>2
        <3>2. ASSUME NEW n \in outgoing', n.drafts = {}, n.text = pages[p].text PROVE n.text \in repeated \/ n.key = pages[p].key
            <4>1. PICK m \in outgoing : m.key = n.key /\ m.drafts = n.drafts /\ m.text = n.text
                OBVIOUS
            <4>2. QED
                BY <2>1, <3>2, <4>1 DEF PageTexts
        <3>3. pages[p].text <= written /\ (pages[p].work = "send" => pages[p].text # 0 \/ pages[p].for # {})
            BY <2>1 DEF PageTexts
        <3>4. QED
            BY <3>1, <3>2, <3>3 DEF PageTexts
    <2>4. QED
        BY <2>1, <2>2, <2>3
<1>8. QED
    BY <1>2, <1>3, <1>4, <1>6, <1>7 DEF DraftsInv

\* No sending is new.
LEMMA FewerStep ==
    ASSUME DraftsInv, WorldGoes, UNCHANGED <<pages, used, written, repeated>>, outgoing' \subseteq outgoing
    PROVE  DraftsInv'
<1>1. outgoing \subseteq SendingRecord /\ \A m \in outgoing : m.drafts \subseteq Drafts
    BY ShapeOf DEF SendingRecord
<1>2. ASSUME NEW m \in outgoing', m.state = "sent", NEW d \in m.drafts PROVE uploads'[d].state = "bound"
    <2>1. m \in outgoing /\ d \in Drafts
        BY <1>1, <1>2
    <2>2. uploads[d].state = "bound"
        BY <1>2, <2>1 DEF DraftsInv, BoundHolds
    <2>3. QED
        BY <2>1, <2>2 DEF WorldGoes, UploadGoes
<1>3. BoundHolds'
    BY <1>2 DEF DraftsInv, BoundHolds
<1>4. \A n, o \in outgoing' : n.key = o.key /\ n.state = "sent" /\ o.state = "sent" => n = o
    BY DEF DraftsInv, KeysHold, MessageKeys
<1>5. QED
    BY <1>1, <1>3, <1>4, OthersStep

LEMMA UploadExpiresStep == ASSUME DraftsInv, NEW d \in Drafts, UploadExpires(d) PROVE DraftsInv'
<1>1. /\ uploads[d].state \in {"uploading", "ready"} /\ uploads' = [uploads EXCEPT ![d].state = "gone"]
      /\ UNCHANGED <<composer, shelf, pages, outgoing, written, used, removed, repeated>>
    BY DEF UploadExpires
<1>2. PICK u : u = [uploads[d] EXCEPT !.state = "gone"]
    OBVIOUS
<1>3. uploads[d] \in UploadRecord /\ uploads[d].generation \in Nat
    BY ShapeOf
<1>4. u \in UploadRecord /\ u.state = "gone" /\ u.generation = uploads[d].generation
    BY <1>2, <1>3, UploadSet
<1>5. uploads' = [uploads EXCEPT ![d] = u] /\ UploadGoes(uploads[d], u)
    BY <1>1, <1>2, <1>3, <1>4 DEF UploadGoes
<1>6. WorldGoes
    BY <1>1, <1>4, <1>5, WorldUpload
<1>7. QED
    BY <1>1, <1>6, FewerStep

LEMMA ChangeContextStep == ASSUME DraftsInv, ChangeContext PROVE DraftsInv'
<1>1. PICK queued : queued = {m \in outgoing : m.state = "queued"}
    OBVIOUS
<1>2. PICK discarded : discarded = UNION {m.drafts : m \in queued}
    OBVIOUS
<1>3. /\ shelf' = [d \in Drafts |-> NoRow] /\ outgoing' = outgoing \ queued /\ removed' = removed \cup Kept(shelf) \cup discarded
      /\ UNCHANGED <<composer, uploads, pages, written, used, repeated>>
    BY <1>1, <1>2 DEF ChangeContext
<1>4. ASSUME NEW d, Once(d) PROVE Once(d)'
    <2>1. CASE d \in removed
        BY <1>3, <2>1 DEF Once
    <2>2. ASSUME NEW m \in outgoing, d \in m.drafts PROVE Once(d)'
        <3>1. CASE m \in queued
            BY <1>2, <1>3, <2>2, <3>1 DEF Once
        <3>2. CASE m \notin queued
            BY <1>3, <2>2, <3>2 DEF Once
        <3>3. QED
            BY <3>1, <3>2
    <2>3. QED
        BY <1>4, <2>1, <2>2 DEF Once
<1>5. \A k : SentWith(k) # {} => SentWith(k)' # {}
    BY <1>1, <1>3 DEF SentWith
<1>6. \A d \in Drafts : shelf[d] # NoRow => Once(d)'
    BY <1>3 DEF Kept, Once
<1>7. \A d \in Drafts : shelf'[d] = NoRow /\ NoRow.state # "ready" /\ NoRow.known <= uploads'[d].generation
    BY <1>3, NewPageIs, ShapeOf
<1>8. \A d \in Drafts : UploadGoes(uploads[d], uploads'[d]) /\ uploads'[d] = uploads[d]
    BY <1>3, ShapeOf, GoesSame
<1>9. shelf' \in [Drafts -> RowRecord] /\ uploads' \in [Drafts -> UploadRecord] /\ composer' = composer
    BY <1>3, NewPageIs, ShapeOf
<1>10. WorldGoes
    BY <1>4, <1>5, <1>6, <1>7, <1>8, <1>9 DEF WorldGoes
<1>11. QED
    BY <1>3, <1>10, FewerStep

LEMMA ReplayQueuedStep == ASSUME DraftsInv, NEW m \in outgoing, ReplayQueued(m) PROVE DraftsInv'
<1> DEFINE accepted == /\ Bindable(m.drafts)
                       /\ composer = "relationship" \/ \A d \in m.drafts : d \in recordings <=> m.role = "voice"
<1>1. accepted => Bindable(m.drafts)
    OBVIOUS
<1>2. /\ m.state = "queued"
      /\ outgoing' = CASE SentWith(m.key) # {} -> outgoing \ {m}
                       [] OTHER -> (outgoing \ {m}) \cup {[m EXCEPT !.state = IF accepted THEN "sent" ELSE "refused"]}
      /\ uploads' = [d \in Drafts |-> IF SentWith(m.key) = {} /\ accepted /\ d \in m.drafts
                                           THEN [uploads[d] EXCEPT !.state = "bound"] ELSE uploads[d]]
      /\ UNCHANGED <<composer, shelf, pages, written, used, removed, repeated>>
    BY DEF ReplayQueued
<1> HIDE DEF accepted
<1>3. m \in SendingRecord /\ outgoing \subseteq SendingRecord
    BY ShapeOf
<1>4. m.drafts \subseteq Drafts
    BY <1>3 DEF SendingRecord
<1>5. CASE SentWith(m.key) # {}
    <2>1. outgoing' = outgoing \ {m} /\ outgoing' \subseteq outgoing
        BY <1>2, <1>5
    <2>2. uploads' = uploads
        <3>1. uploads' = [d \in Drafts |-> uploads[d]]
            BY <1>2, <1>5
        <3>2. QED
            BY <3>1, ShapeOf
    <2>3. PICK o \in outgoing : o.key = m.key /\ o.state = "sent"
        BY <1>5 DEF SentWith
    <2>4. o \in outgoing' /\ o.drafts = m.drafts
        BY <1>2, <2>1, <2>3 DEF DraftsInv, KeysHold, MessageKeys
    <2>5. \A d : Once(d) => Once(d)'
        BY <1>2, <2>1, <2>4 DEF Once
    <2>6. \A k : SentWith(k) # {} => SentWith(k)' # {}
        BY <1>2, <2>1 DEF SentWith
    <2>7. PICK none \in SUBSET Drafts : none = {}
        OBVIOUS
    <2>8. uploads' = [d \in Drafts |-> IF d \in none THEN [uploads[d] EXCEPT !.state = "bound"] ELSE uploads[d]] /\ Bindable(none)
        BY <1>2, <1>5, <2>7 DEF Bindable
    <2>9. WorldGoes
        BY <1>2, <2>5, <2>6, <2>8, WorldBind
    <2>10. QED
        BY <1>2, <2>1, <2>9, FewerStep
<1>6. CASE SentWith(m.key) = {}
    <2>1. PICK s \in {"sent", "refused"} : s = IF accepted THEN "sent" ELSE "refused"
        OBVIOUS
    <2>2. PICK x : x = [m EXCEPT !.state = s]
        OBVIOUS
    <2>3. x \in SendingRecord
        BY <1>3, <2>2 DEF SendingRecord
    <2>4. x.key = m.key /\ x.text = m.text /\ x.drafts = m.drafts /\ x.state = s
        BY <1>3, <2>2, <2>3 DEF SendingRecord
    <2>5. outgoing' = (outgoing \ {m}) \cup {x}
        BY <1>2, <1>6, <2>1, <2>2
    <2>6. PICK bind \in SUBSET Drafts : bind = {d \in m.drafts : accepted}
        BY <1>4
    <2>7. uploads' = [d \in Drafts |-> IF d \in bind THEN [uploads[d] EXCEPT !.state = "bound"] ELSE uploads[d]] /\ Bindable(bind)
        <3>1. \A d : (SentWith(m.key) = {} /\ accepted /\ d \in m.drafts) <=> d \in bind
            BY <1>6, <2>6
        <3>2. Bindable(bind)
            BY <1>1, <3>1 DEF Bindable
        <3>3. QED
            BY <1>2, <3>1, <3>2
    <2>8. \A d : Once(d) => Once(d)'
        BY <1>2, <2>4, <2>5 DEF Once
    <2>9. \A k : SentWith(k) # {} => SentWith(k)' # {}
        BY <1>2, <2>5 DEF SentWith
    <2>10. WorldGoes /\ \A d \in bind : uploads[d].state = "ready" /\ uploads'[d].state = "bound"
        BY <1>2, <2>7, <2>8, <2>9, WorldBind
    <2>11. \A n \in outgoing' : \E o \in outgoing : /\ o.key = n.key /\ o.text = n.text /\ o.drafts = n.drafts
                                                    /\ n = o \/ o.state = "queued"
        BY <1>2, <2>4, <2>5
    <2>12. \A n, o \in outgoing' : n.key = o.key /\ n.state = "sent" /\ o.state = "sent" => n = o
        <3>1. \A o \in outgoing : o.state = "sent" => o.key # x.key
            BY <1>6, <2>4 DEF SentWith
        <3>2. QED
            BY <2>5, <3>1 DEF DraftsInv, KeysHold, MessageKeys
    <2>13. x.state = "sent" => x.drafts = bind
        BY <2>1, <2>4, <2>6
    <2>14. \A n \in outgoing : n.drafts \subseteq Drafts
        BY <1>3 DEF SendingRecord
    <2>15. ASSUME NEW n \in outgoing, n.state = "sent", NEW d \in n.drafts
           PROVE  uploads[d].state = "bound" /\ uploads'[d].state = "bound"
        <3>1. d \in Drafts /\ uploads[d].state = "bound"
            BY <2>14, <2>15 DEF DraftsInv, BoundHolds
        <3>2. QED
            BY <2>10, <3>1 DEF WorldGoes, UploadGoes
    <2>16. BoundHolds'
        <3>1. \A n \in outgoing' : n.state = "sent" => \A d \in n.drafts : uploads'[d].state = "bound"
            BY <2>5, <2>10, <2>13, <2>15
        <3>2. ASSUME NEW n \in outgoing, n.state = "sent", x.state = "sent" PROVE n.drafts \cap x.drafts = {}
            <4>1. SUFFICES ASSUME NEW d \in n.drafts, d \in x.drafts PROVE FALSE
                OBVIOUS
            <4>2. uploads[d].state = "bound" /\ uploads[d].state = "ready"
                BY <2>10, <2>13, <2>15, <3>2, <4>1
            <4>3. QED
                BY <4>2
        <3>3. ASSUME NEW n \in outgoing', NEW o \in outgoing', n.state = "sent", o.state = "sent", n # o
              PROVE  n.drafts \cap o.drafts = {}
            <4>1. \A a, b \in outgoing : a.state = "sent" /\ b.state = "sent" /\ a # b => a.drafts \cap b.drafts = {}
                BY DEF DraftsInv, BoundHolds
            <4>2. CASE n = x
                BY <2>5, <3>2, <3>3, <4>2
            <4>3. CASE o = x
                BY <2>5, <3>2, <3>3, <4>3
            <4>4. CASE n # x /\ o # x
                BY <2>5, <3>3, <4>1, <4>4
            <4>5. QED
                BY <4>2, <4>3, <4>4
        <3>4. QED
            BY <3>1, <3>3 DEF BoundHolds
    <2>17. outgoing' \subseteq SendingRecord /\ UNCHANGED <<pages, used, written, repeated>>
        BY <1>2, <1>3, <2>3, <2>5
    <2>18. QED
        BY <2>10, <2>11, <2>12, <2>16, <2>17, OthersStep
<1>7. QED
    BY <1>5, <1>6

LEMMA DraftsStep == DraftsInv /\ [DraftNext]_draftVars => DraftsInv'
<1> SUFFICES ASSUME DraftsInv, [DraftNext]_draftVars PROVE DraftsInv'
    OBVIOUS
<1>1. CASE UNCHANGED draftVars
    <2>1. UNCHANGED <<composer, shelf, uploads, pages, outgoing, written, used, removed, repeated>>
        BY <1>1 DEF draftVars
    <2>2. WorldGoes
        BY <2>1, WorldSame
    <2>3. QED
        BY <2>1, <2>2, FewerStep
<1>2. ASSUME NEW p \in Pages, DraftUpload(p) PROVE DraftsInv'
    BY <1>2, LoadRowStep, ProbeStep, MarkUploadingStep, RequestGrantStep, SaveGrantStep, PutCiphertextStep,
       CompleteMediaUploadStep, MarkDraftReadyStep, MarkFailedStep DEF DraftUpload
<1>3. ASSUME NEW p \in Pages, DraftPost(p) PROVE DraftsInv'
    BY <1>3, PostAnsweredStep, PostRefusedStep, PostFailsStep, PostLostStep, PostAnswerLostStep, PostOfflineStep,
       ShowMessageStep, DiscardDraftStep DEF DraftPost
<1>4. ASSUME NEW p \in Pages, WriteText(p) \/ SendFrom(p) \/ DeleteRow(p) \/ Reload(p) PROVE DraftsInv'
    BY <1>4, WriteTextStep, SendFromStep, DeleteRowStep, ReloadStep
<1>5. ASSUME NEW p \in Pages, NEW d \in Drafts, PrepareFiles(p, d) \/ SendVoice(p, d) \/ RetryDraft(p, d) \/ RemoveDraft(p, d)
      PROVE  DraftsInv'
    BY <1>5, PrepareFilesStep, SendVoiceStep, RetryDraftStep, RemoveDraftStep
<1>6. QED
    BY <1>1, <1>2, <1>3, <1>4, <1>5, ReplayQueuedStep, UploadExpiresStep, ChangeContextStep DEF DraftNext

\* A draft leaves the device only with a sending that has it or because it was removed, and a
\* message of the chat is sent once, unless its sending was forgotten or changed after the
\* server had executed it; no object is in two of them (uploadMediaDraft, send).
THEOREM DraftsLeaveOnlyWhenSent == DraftSpec => []DraftsAccounted
<1>1. DraftInit => DraftsInv
    BY DraftsInvInit
<1>2. DraftsInv /\ [DraftNext]_draftVars => DraftsInv'
    BY DraftsStep
<1>3. DraftsInv => DraftsAccounted
    BY DraftsInvAccounted
<1>4. QED
    BY <1>1, <1>2, <1>3, PTL DEF DraftSpec

=============================================================================
