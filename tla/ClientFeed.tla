----------------------------- MODULE ClientFeed -----------------------------
(***************************************************************************)
(* How one client keeps the conversation on its screen current: the        *)
(* realtime socket, the SyncCoordinator and the synchronizer of the        *)
(* messaging panel.                                                        *)
(*                                                                         *)
(* The server numbers the changes of the conversation; frames only hint at *)
(* them.  Every await is a step of its own.  A pull reads the changes      *)
(* after the panel's cursor, commits them, and then reads the messages     *)
(* newer than the newest it knows.  The coordinator's passes and the       *)
(* panel's own poll pull concurrently.                                     *)
(*                                                                         *)
(* One page holds all changes, and the limit of eight passes, after which  *)
(* the coordinator starts over, is left out.                               *)
(***************************************************************************)
EXTENDS Naturals, Sequences

CONSTANTS
    MaxChanges,   \* bound: changes the server commits
    MaxMishaps    \* bound: losses of the network or the socket, failed passes, anti-entropy passes

ASSUME ChangesAssumption == MaxChanges \in Nat /\ MaxMishaps \in Nat

VARIABLES
    feed,      \* the conversation's changes on the server: new messages, and edits of old ones
    socket,    \* the realtime connection
    loaded,    \* the latest change the hub read for a control.ready it has not sent yet, or 0
    frames,    \* message.changed frames on their way to this client
    online,    \* navigator.onLine
    sync,      \* the SyncCoordinator
    pulls,     \* syncChanges under way, for the coordinator and for the poll
    view,      \* changes the panel shows
    cursor,    \* changeCursorRef
    posted,    \* the change of an own message whose answer is awaited, or 0
    skipped,   \* changes the cursor passed over when an own message was answered
    mishaps

feedVars == <<feed, socket, loaded, frames, online, sync, pulls, view, cursor, posted, skipped, mishaps>>

Changes  == 1 .. MaxChanges
Pullers  == {"pass", "poll"}
Pull     == [step : {"none", "pulling", "fetched", "paging", "paged"}, from : 0 .. MaxChanges,
             upto : 0 .. MaxChanges]

FeedTypeOK ==
    /\ feed \in Seq({"message", "edit"}) /\ Len(feed) <= MaxChanges
    /\ socket \in {"closed", "connecting", "loaded", "ready"} /\ loaded \in 0 .. MaxChanges
    /\ frames \subseteq Changes /\ view \subseteq Changes /\ skipped \subseteq Changes
    /\ online \in BOOLEAN
    /\ sync \in [status : {"idle", "syncing", "live", "offline"}, dirty : BOOLEAN, hinted : 0 .. MaxChanges,
                 target : 0 .. MaxChanges, running : BOOLEAN, replaying : BOOLEAN, rerun : BOOLEAN, retry : BOOLEAN]
    /\ pulls \in [Pullers -> Pull]
    /\ cursor \in 0 .. MaxChanges /\ posted \in 0 .. MaxChanges
    /\ mishaps \in 0 .. MaxMishaps

NoPull == [step |-> "none", from |-> 0, upto |-> 0]

\* The panel has loaded an empty conversation (loadInitial).
FeedInit ==
    /\ feed = <<>> /\ frames = {} /\ view = {} /\ skipped = {}
    /\ socket = "closed" /\ loaded = 0 /\ online = TRUE
    /\ sync = [status |-> "idle", dirty |-> FALSE, hinted |-> 0, target |-> 0, running |-> FALSE,
               replaying |-> FALSE, rerun |-> FALSE, retry |-> FALSE]
    /\ pulls = [p \in Pullers |-> NoPull]
    /\ cursor = 0 /\ posted = 0 /\ mishaps = 0

Mishap == mishaps < MaxMishaps /\ mishaps' = mishaps + 1

Larger(m, n) == IF m < n THEN n ELSE m

-----------------------------------------------------------------------------
(* The server and the network.                                              *)

\* The outbox hints at the change on every connected socket; a frame that never arrives
\* is lost.
Commit(kind) ==
    /\ Len(feed) < MaxChanges
    /\ feed' = Append(feed, kind)
    /\ frames' = IF socket = "ready" THEN frames \cup {Len(feed) + 1} ELSE frames

PartnerChanges ==
    /\ \E kind \in {"message", "edit"} : Commit(kind)
    /\ UNCHANGED <<socket, loaded, online, sync, pulls, view, cursor, posted, skipped, mishaps>>

-----------------------------------------------------------------------------
(* SyncCoordinator.                                                         *)

MarkDirty(s, n) == [s EXCEPT !.dirty = TRUE, !.hinted = Larger(@, n)]

BeginPass(s) ==
    [s EXCEPT !.status = "syncing", !.dirty = FALSE, !.target = s.hinted, !.running = TRUE, !.replaying = FALSE]

\* A request during a run asks for another one after it.
RequestSync(s) ==
    /\ sync' = IF ~ online THEN [s EXCEPT !.status = "offline"]
               ELSE IF s.running THEN [s EXCEPT !.rerun = TRUE] ELSE BeginPass(s)
    /\ pulls' = IF online /\ ~ s.running THEN [pulls EXCEPT !["pass"] = [NoPull EXCEPT !.step = "pulling"]] ELSE pulls

\* The end of a run, and the run that was asked for meanwhile.
EndRun(s) ==
    LET ended == [s EXCEPT !.running = FALSE, !.replaying = FALSE, !.rerun = FALSE, !.target = 0]
    IN  IF s.rerun /\ online
        THEN /\ sync' = BeginPass(ended)
             /\ pulls' = [pulls EXCEPT !["pass"] = [NoPull EXCEPT !.step = "pulling"]]
        ELSE /\ sync' = IF s.rerun THEN [ended EXCEPT !.status = "offline"] ELSE ended
             /\ pulls' = [pulls EXCEPT !["pass"] = NoPull]

\* Another pass when something came in during this one, or the hints are ahead.
EndReconcile ==
    /\ sync.running /\ pulls["pass"].step = "paged"
    /\ IF sync.dirty \/ (sync.target > 0 /\ cursor < sync.target)
       THEN /\ sync' = BeginPass(sync)
            /\ pulls' = [pulls EXCEPT !["pass"] = [NoPull EXCEPT !.step = "pulling"]]
       ELSE /\ sync' = [sync EXCEPT !.replaying = TRUE]
            /\ pulls' = [pulls EXCEPT !["pass"] = NoPull]
    /\ UNCHANGED <<feed, socket, loaded, frames, online, view, cursor, posted, skipped, mishaps>>

\* Mutation: what came in during the replay waits for the next request.
CleanPass_Always(s) == TRUE

CleanPass(s) == ~ s.dirty

EndReplays ==
    /\ sync.replaying
    /\ IF CleanPass(sync)
       THEN EndRun([sync EXCEPT !.status = "live"])
       ELSE /\ sync' = BeginPass(sync)
            /\ pulls' = [pulls EXCEPT !["pass"] = [NoPull EXCEPT !.step = "pulling"]]
    /\ UNCHANGED <<feed, socket, loaded, frames, online, view, cursor, posted, skipped, mishaps>>

\* A reconciler or a replayer throws: the run ends and a timer is set.
RunFails ==
    /\ sync.running /\ Mishap
    /\ EndRun([sync EXCEPT !.retry = TRUE])
    /\ UNCHANGED <<feed, socket, loaded, frames, online, view, cursor, posted, skipped>>

RetryTimer ==
    /\ sync.retry
    /\ RequestSync([sync EXCEPT !.retry = FALSE])
    /\ UNCHANGED <<feed, socket, loaded, frames, online, view, cursor, posted, skipped, mishaps>>

-----------------------------------------------------------------------------
(* RealtimeClient.                                                          *)

Connect ==
    /\ socket = "closed" /\ online
    /\ socket' = "connecting"
    /\ UNCHANGED <<feed, loaded, frames, online, sync, pulls, view, cursor, posted, skipped, mishaps>>

\* The hub reads the latest change, then adds the connection to its indexes: a change
\* published in between is hinted at by neither.
LoadScope ==
    /\ socket = "connecting"
    /\ socket' = "loaded" /\ loaded' = Len(feed)
    /\ UNCHANGED <<feed, frames, online, sync, pulls, view, cursor, posted, skipped, mishaps>>

ReadyFrame ==
    /\ socket = "loaded"
    /\ socket' = "ready" /\ loaded' = 0
    /\ RequestSync(MarkDirty(sync, loaded))
    /\ UNCHANGED <<feed, frames, online, view, cursor, posted, skipped, mishaps>>

\* The hub's listener loses its connection and what was published meanwhile, and asks
\* every client to synchronise when it is back.
ListenerReset ==
    /\ socket = "ready" /\ Mishap
    /\ frames' = {}
    /\ RequestSync(MarkDirty(sync, 0))
    /\ UNCHANGED <<feed, socket, loaded, online, view, cursor, posted, skipped>>

ChangedFrame(n) ==
    /\ n \in frames
    /\ frames' = frames \ {n}
    /\ RequestSync(MarkDirty(sync, n))
    /\ UNCHANGED <<feed, socket, loaded, online, view, cursor, posted, skipped, mishaps>>

\* The frames of a connection that is gone are ignored.
CloseSocket ==
    /\ socket # "closed" /\ Mishap
    /\ socket' = "closed" /\ frames' = {} /\ loaded' = 0
    /\ sync' = [sync EXCEPT !.status = "offline"]
    /\ UNCHANGED <<feed, online, pulls, view, cursor, posted, skipped>>

GoOffline ==
    /\ online /\ Mishap
    /\ online' = FALSE
    /\ sync' = [sync EXCEPT !.status = "offline"]
    /\ UNCHANGED <<feed, socket, loaded, frames, pulls, view, cursor, posted, skipped>>

GoOnline ==
    /\ ~ online
    /\ online' = TRUE
    /\ socket' = IF socket = "closed" THEN "connecting" ELSE socket
    /\ LET s == MarkDirty(sync, 0)
       IN  /\ sync' = IF s.running THEN [s EXCEPT !.rerun = TRUE] ELSE BeginPass(s)
           /\ pulls' = IF s.running THEN pulls ELSE [pulls EXCEPT !["pass"] = [NoPull EXCEPT !.step = "pulling"]]
    /\ UNCHANGED <<feed, loaded, frames, view, cursor, posted, skipped, mishaps>>

\* Once a minute, and when the page comes to the front.
AntiEntropy ==
    /\ online /\ Mishap
    /\ RequestSync(MarkDirty(sync, 0))
    /\ UNCHANGED <<feed, socket, loaded, frames, online, view, cursor, posted, skipped>>

-----------------------------------------------------------------------------
(* MessagingPanel.                                                          *)

\* Without the coordinator's help the panel polls.
PollChanges ==
    /\ online /\ sync.status \notin {"live", "syncing"} /\ pulls["poll"].step = "none"
    /\ pulls' = [pulls EXCEPT !["poll"] = [NoPull EXCEPT !.step = "pulling"]]
    /\ UNCHANGED <<feed, socket, loaded, frames, online, sync, view, cursor, posted, skipped, mishaps>>

FetchChanges(p) ==
    /\ pulls[p].step = "pulling"
    /\ pulls' = [pulls EXCEPT ![p] = [step |-> "fetched", from |-> cursor, upto |-> Larger(cursor, Len(feed))]]
    /\ UNCHANGED <<feed, socket, loaded, frames, online, sync, view, cursor, posted, skipped, mishaps>>

\* The cursor is set to the last change of the page, wherever it has been put meanwhile.
CommitChanges(p) ==
    /\ pulls[p].step = "fetched"
    /\ view' = view \cup (pulls[p].from + 1 .. pulls[p].upto)
    /\ cursor' = IF pulls[p].from < pulls[p].upto THEN pulls[p].upto ELSE cursor
    /\ pulls' = [pulls EXCEPT ![p] = [NoPull EXCEPT !.step = "paging"]]
    /\ UNCHANGED <<feed, socket, loaded, frames, online, sync, posted, skipped, mishaps>>

\* Messages newer than the newest known are read without the cursor.
NewerMessages == {n \in 1 .. Len(feed) : feed[n] = "message" /\ \A m \in view : feed[m] = "message" => m < n}

PageHistory(p) ==
    /\ pulls[p].step = "paging"
    /\ view' = view \cup NewerMessages
    /\ pulls' = [pulls EXCEPT ![p] = IF p = "poll" THEN NoPull ELSE [@ EXCEPT !.step = "paged"]]
    /\ UNCHANGED <<feed, socket, loaded, frames, online, sync, cursor, posted, skipped, mishaps>>

PollFails ==
    /\ pulls["poll"].step # "none"
    /\ pulls' = [pulls EXCEPT !["poll"] = NoPull]
    /\ UNCHANGED <<feed, socket, loaded, frames, online, sync, view, cursor, posted, skipped, mishaps>>

SendMessage ==
    /\ online /\ posted = 0
    /\ Commit("message")
    /\ posted' = Len(feed) + 1
    /\ UNCHANGED <<socket, loaded, online, sync, pulls, view, cursor, skipped, mishaps>>

\* The answer is shown and the cursor moved to the own message, past whatever changes
\* the partner committed since the last pull.
MessageAnswered ==
    /\ posted # 0
    /\ view' = view \cup {posted}
    /\ cursor' = Larger(cursor, posted)
    /\ skipped' = skipped \cup ((cursor + 1 .. posted) \ view')
    /\ posted' = 0
    /\ UNCHANGED <<feed, socket, loaded, frames, online, sync, pulls, mishaps>>

\* Without an answer the message is queued for replay, and comes back in the feed.
AnswerLost ==
    /\ posted # 0
    /\ posted' = 0
    /\ UNCHANGED <<feed, socket, loaded, frames, online, sync, pulls, view, cursor, skipped, mishaps>>

-----------------------------------------------------------------------------

FeedNext ==
    \/ PartnerChanges \/ SendMessage \/ MessageAnswered \/ AnswerLost
    \/ \E n \in Changes : ChangedFrame(n)
    \/ Connect \/ LoadScope \/ ReadyFrame \/ ListenerReset \/ CloseSocket \/ GoOffline \/ GoOnline \/ AntiEntropy
    \/ EndReconcile \/ EndReplays \/ RunFails \/ RetryTimer \/ PollChanges \/ PollFails
    \/ \E p \in Pullers : FetchChanges(p) \/ CommitChanges(p) \/ PageHistory(p)

FeedSpec == FeedInit /\ [][FeedNext]_feedVars

-----------------------------------------------------------------------------
(* Properties.                                                              *)

\* A client that shows itself live shows every change it has ever been told of, by a
\* frame or on connecting, however frames, passes, polls and own messages overlapped;
\* but for those an own message moved the cursor past (SyncCoordinator, syncChanges).
LiveIsCurrent ==
    sync.status = "live" => 1 .. sync.hinted \subseteq view \cup skipped

=============================================================================
