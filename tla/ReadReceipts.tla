---------------------------- MODULE ReadReceipts ----------------------------
(***************************************************************************)
(* What a panel tells the server of the messages it has: delivered up to   *)
(* one, read up to another.  The panels of a device share the row of its   *)
(* database that remembers what is still to be told.                       *)
(*                                                                         *)
(* One page holds all messages, and every message is one change.  Edits    *)
(* are in ClientFeed, the receipts of the server in Messaging.             *)
(***************************************************************************)
EXTENDS Naturals, Sequences, FiniteSets, FiniteSetsExt

CONSTANTS
    Panels,        \* panels of the member on one device
    MaxThread,   \* bound: messages of the conversation
    MaxAbsences,   \* bound: times a panel is looked at or left
    MaxLosses      \* bound: requests and answers that are lost

ASSUME ReceiptsAssumption == IsFiniteSet(Panels) /\ {MaxThread, MaxAbsences, MaxLosses} \subseteq Nat

VARIABLES
    thread,    \* who sent each message
    receipt,   \* the member's receipts on the server
    saved,     \* conversationSync, shared by the panels
    panels,
    lookedAt,  \* messages that were on a panel while it was looked at
    jumped,    \* messages the cursor of a panel passed over when an own one was answered
    looks, losses

receiptVars == <<thread, receipt, saved, panels, lookedAt, jumped, looks, losses>>

Positions == 1 .. MaxThread
ReceiptRow == [delivered : 0 .. MaxThread, read : 0 .. MaxThread]
NothingTold == [delivered |-> 0, read |-> 0]
ClosedPanel == [step |-> "closed", watched |-> FALSE, shown |-> {}, cursor |-> 0, from |-> 0, top |-> 0,
                fetched |-> 0, summary |-> NothingTold, previous |-> NothingTold, telling |-> NothingTold]
PanelState ==
    [step : {"closed", "opening", "opened", "rest", "pulled", "checked", "paged", "settled", "deliver", "read"},
     watched : BOOLEAN, shown : SUBSET Positions, cursor : 0 .. MaxThread, from : 0 .. MaxThread,
     top : 0 .. MaxThread, fetched : 0 .. MaxThread, summary : ReceiptRow, previous : ReceiptRow,
     telling : ReceiptRow]

ReceiptsTypeOK ==
    /\ thread \in Seq({"own", "partner"}) /\ Len(thread) <= MaxThread
    /\ receipt \in ReceiptRow /\ saved \in ReceiptRow
    /\ panels \in [Panels -> PanelState]
    /\ lookedAt \subseteq Positions /\ jumped \subseteq Positions
    /\ looks \in 0 .. MaxAbsences /\ losses \in 0 .. MaxLosses

ReceiptsInit ==
    /\ thread = <<"partner">> /\ receipt = NothingTold
    /\ saved = NothingTold
    /\ panels = [p \in Panels |-> ClosedPanel]
    /\ lookedAt = {} /\ jumped = {} /\ looks = 0 /\ losses = 0

Greatest(S) == IF S = {} THEN 0 ELSE Max(S)
Furthest(m, n) == Greatest({m, n})
Loses == losses < MaxLosses /\ losses' = losses + 1

\* The panel turns to s; what it shows is seen while it is looked at.
Becomes(p, s) ==
    /\ panels' = [panels EXCEPT ![p] = s]
    /\ lookedAt' = IF s.watched THEN lookedAt \cup s.shown ELSE lookedAt

Steps(p, step) == Becomes(p, [panels[p] EXCEPT !.step = step])

\* Nothing is kept from one pass to the next but what is shown and the cursor.
Rests(p) ==
    Becomes(p, [ClosedPanel EXCEPT !.step = "rest", !.watched = panels[p].watched, !.shown = panels[p].shown,
                                   !.cursor = panels[p].cursor])

-----------------------------------------------------------------------------
(* Positions, and whether the panel is looked at.                            *)

PartnerSends ==
    /\ Len(thread) < MaxThread
    /\ thread' = Append(thread, "partner")
    /\ UNCHANGED <<receipt, saved, panels, lookedAt, jumped, looks, losses>>

\* An own message, once answered, moves the cursor past everything before it; the first load
\* sets the cursor anew.
OwnSend(p) ==
    LET n == Len(thread) + 1
    IN  /\ panels[p].step # "closed" /\ panels[p].watched /\ Len(thread) < MaxThread
        /\ thread' = Append(thread, "own")
        /\ Becomes(p, [panels[p] EXCEPT !.shown = @ \cup {n}, !.cursor = n])
        /\ jumped' = IF panels[p].step \in {"opening", "opened"} THEN jumped
                     ELSE jumped \cup ((panels[p].cursor + 1 .. n - 1) \ panels[p].shown)
        /\ UNCHANGED <<receipt, saved, looks, losses>>

\* visibilityState, and whether Talk is the place that is open.
Look(p) ==
    /\ looks < MaxAbsences /\ looks' = looks + 1
    /\ Becomes(p, [panels[p] EXCEPT !.watched = ~ @])
    /\ UNCHANGED <<thread, receipt, saved, jumped, losses>>

-----------------------------------------------------------------------------
(* The first load.                                                          *)

\* refreshConversation
Summarised(s) == [s EXCEPT !.summary = receipt]

OpenPanel(p) ==
    /\ panels[p].step = "closed"
    /\ Becomes(p, [Summarised(panels[p]) EXCEPT !.step = "opening", !.from = Len(thread)])
    /\ UNCHANGED <<thread, receipt, saved, jumped, looks, losses>>

LoadNewest(p) ==
    /\ panels[p].step = "opening"
    /\ Becomes(p, [panels[p] EXCEPT !.step = "opened", !.fetched = Len(thread)])
    /\ UNCHANGED <<thread, receipt, saved, jumped, looks, losses>>

\* The row starts over from what the server has on record.
CommitInitial(p) ==
    LET s == panels[p]
    IN  /\ s.step = "opened"
        /\ saved' = s.summary
        /\ Becomes(p, [s EXCEPT !.step = "settled", !.shown = 1 .. s.fetched, !.top = s.fetched,
                                !.cursor = s.from, !.from = 0, !.fetched = 0])
        /\ UNCHANGED <<thread, receipt, jumped, looks, losses>>

-----------------------------------------------------------------------------
(* syncChanges                                                              *)

\* getConversationSync, after the page is read and before the transaction that writes the row.
ReadSync(s) == [s EXCEPT !.previous = saved]

PullChanges(p) ==
    LET s == [panels[p] EXCEPT !.top = Greatest(panels[p].shown)]
    IN  /\ s.step = "rest"
        /\ Becomes(p, IF Len(thread) > s.cursor
                      THEN [ReadSync(s) EXCEPT !.step = "pulled", !.from = s.cursor, !.fetched = Len(thread)]
                      ELSE [s EXCEPT !.step = "checked"])
        /\ UNCHANGED <<thread, receipt, saved, jumped, looks, losses>>

\* commitMessagesAndSync: the row is written back as it was read.
CommitPulled(p) ==
    LET s == panels[p]
    IN  /\ s.step = "pulled"
        /\ saved' = s.previous
        /\ Becomes(p, [s EXCEPT !.step = "checked", !.shown = @ \cup (s.from + 1 .. s.fetched),
                                !.top = Furthest(@, s.fetched), !.cursor = s.fetched,
                                !.from = 0, !.fetched = 0, !.previous = NothingTold])
        /\ UNCHANGED <<thread, receipt, jumped, looks, losses>>

\* The conversation is read again; messages newer than the newest known are paged in.
CheckNewest(p) ==
    LET s == Summarised(panels[p])
    IN  /\ s.step = "checked"
        /\ Becomes(p, IF Len(thread) > s.top THEN [ReadSync(s) EXCEPT !.step = "paged", !.fetched = Len(thread)]
                      ELSE [s EXCEPT !.step = "settled"])
        /\ UNCHANGED <<thread, receipt, saved, jumped, looks, losses>>

CommitPage(p) ==
    LET s == panels[p]
    IN  /\ s.step = "paged"
        /\ saved' = s.previous
        /\ Becomes(p, [Summarised(s) EXCEPT !.step = "settled", !.shown = @ \cup (s.top + 1 .. s.fetched),
                                            !.top = s.fetched, !.fetched = 0, !.previous = NothingTold])
        /\ UNCHANGED <<thread, receipt, jumped, looks, losses>>

-----------------------------------------------------------------------------
(* acknowledge                                                              *)

\* Mutation: opening the panel is reading, wherever the member is.
ReadThrough_Always(s) == s.top

ReadThrough(s) == IF s.watched THEN s.top ELSE 0

\* advancePendingReceipts, one transaction; nothing is thread while offline.
Acknowledge(p) ==
    LET s == panels[p]
        row == [delivered |-> Furthest(saved.delivered, s.top), read |-> Furthest(saved.read, ReadThrough(s))]
    IN  /\ s.step = "settled"
        /\ saved' = IF s.top > 0 THEN row ELSE saved
        /\ \/ /\ s.top > 0 /\ UNCHANGED losses
              /\ Becomes(p, [s EXCEPT !.step = "deliver", !.telling = row, !.top = 0])
           \/ /\ s.top = 0 /\ UNCHANGED losses
              /\ Rests(p)
           \/ Loses /\ Rests(p)
        /\ UNCHANGED <<thread, receipt, jumped, looks>>

\* The server's own rules (Messaging).
Tells(type, through) ==
    receipt' = [delivered |-> Furthest(receipt.delivered, through),
                read |-> IF type = "read" THEN Furthest(receipt.read, through) ELSE receipt.read]

\* Only what goes past the server's record is posted.
PostReceipt(type, through, known) ==
    \/ through <= known /\ UNCHANGED receipt
    \/ through > known /\ Tells(type, through)

\* A post that is lost, before or after it took effect, ends it.
ReceiptLost(p) ==
    LET s == panels[p]
    IN  /\ s.step \in {"deliver", "read"} /\ Loses
        /\ \/ UNCHANGED receipt
           \/ s.step = "deliver" /\ PostReceipt("delivered", s.telling.delivered, s.summary.delivered)
           \/ s.step = "read" /\ PostReceipt("read", s.telling.read, s.summary.read)
        /\ Rests(p)
        /\ UNCHANGED <<thread, saved, jumped, looks>>

PostDelivered(p) ==
    /\ panels[p].step = "deliver"
    /\ PostReceipt("delivered", panels[p].telling.delivered, panels[p].summary.delivered)
    /\ Steps(p, "read")
    /\ UNCHANGED <<thread, saved, jumped, looks, losses>>

PostRead(p) ==
    /\ panels[p].step = "read"
    /\ PostReceipt("read", panels[p].telling.read, panels[p].summary.read)
    /\ Rests(p)
    /\ UNCHANGED <<thread, saved, jumped, looks, losses>>

ReceiptsNext ==
    \/ PartnerSends
    \/ \E p \in Panels :
        \/ OwnSend(p) \/ Look(p) \/ OpenPanel(p) \/ LoadNewest(p) \/ CommitInitial(p)
        \/ PullChanges(p) \/ CommitPulled(p) \/ CheckNewest(p) \/ CommitPage(p)
        \/ Acknowledge(p) \/ PostDelivered(p) \/ PostRead(p) \/ ReceiptLost(p)

ReceiptsSpec == ReceiptsInit /\ [][ReceiptsNext]_receiptVars

-----------------------------------------------------------------------------
(* Properties.                                                              *)

FromPartner(n) == {i \in 1 .. n : thread[i] = "partner"}

\* A receipt, on the server or still to be told, claims nothing the device does not have, and
\* as read nothing that was not on a panel someone looked at, whichever panel tells it and
\* however late: except the messages an own one made a panel's cursor jump over, which are
\* acknowledged although no panel has shown them.
ReceiptsAccounted ==
    LET had == UNION {panels[p].shown : p \in Panels}
    IN  /\ receipt.read <= receipt.delivered /\ receipt.delivered <= Len(thread)
        /\ \A row \in {receipt, saved} :
               /\ FromPartner(row.delivered) \subseteq had \cup jumped
               /\ FromPartner(row.read) \subseteq lookedAt \cup jumped

=============================================================================
