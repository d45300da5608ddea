----------------------------- MODULE MediaDrafts -----------------------------
(***************************************************************************)
(* What a member attaches: drafts kept in the browser's database, their    *)
(* upload, and the message or the relationship item they are sent with.    *)
(* The pages of one account share the drafts and keep a list of their own; *)
(* every await of an upload and of a sending is a step.                    *)
(*                                                                         *)
(* A request's answer may be an error, and a request may be lost before or *)
(* after the server has executed it.  What the server does with an upload  *)
(* is kept to what its answers depend on (MediaObjects has the rest); the  *)
(* key it answers a repeated create by is the draft.                       *)
(***************************************************************************)
EXTENDS Naturals, FiniteSets

CONSTANTS
    Pages,        \* pages of the account
    Writers,      \* bound: pages a text is written on
    Drafts,       \* files and recordings the member will attach
    MaxGrants,    \* bound: upload generations
    MaxTexts,     \* bound: texts written
    MaxKeys,      \* bound: idempotency keys of sendings
    MaxSetbacks   \* bound: reloads, expiries and requests that go wrong

ASSUME DraftsAssumption ==
    {MaxGrants, MaxTexts, MaxKeys, MaxSetbacks} \subseteq Nat

VARIABLES
    recordings, \* the drafts that are recordings for the chat
    composer,   \* "chat" or "relationship": the composer the drafts belong to
    shelf,      \* uploadDrafts
    uploads,    \* the media objects of the drafts on the server
    pages,      \* what each page shows and does
    outgoing,   \* sendings the server has executed or the device has queued
    written,    \* texts written
    used,       \* idempotency keys used
    removed,    \* drafts the member has removed, or a change of the content context has
    repeated,   \* texts whose sending was forgotten or changed although it had been executed
    setbacks

draftVars == <<recordings, composer, shelf, uploads, pages, outgoing, written, used, removed, repeated, setbacks>>

NoRow == [state |-> "none", known |-> 0]
DraftRow == [state : {"none", "prepared", "uploading", "ready", "failed"}, known : 0 .. MaxGrants]
Upload == [state : {"absent", "uploading", "ready", "bound", "gone"}, generation : 0 .. MaxGrants, bytes : BOOLEAN]
UploadSteps == {"load", "probe", "mark", "grant", "save", "put", "complete", "ready", "fail"}
Page == [listed : SUBSET Drafts, failed : SUBSET Drafts, text : 0 .. MaxTexts, key : 0 .. MaxKeys, for : SUBSET Drafts, body : BOOLEAN,
         step : UploadSteps \cup {"idle", "post", "answered", "discard", "remove"},
         work : {"none", "send", "retry", "voice"}, left : SUBSET Drafts, draft : SUBSET Drafts,
         copy : DraftRow, grant : 0 .. MaxGrants, then : {"put", "ready", "fail"}, posting : 0 .. MaxKeys]
Sending == [key : 1 .. MaxKeys, text : 0 .. MaxTexts, drafts : SUBSET Drafts, role : {"attachment", "voice"},
            state : {"queued", "sent", "refused"}]

DraftTypeOK ==
    /\ composer \in {"chat", "relationship"} /\ recordings \subseteq Drafts
    /\ shelf \in [Drafts -> DraftRow] /\ uploads \in [Drafts -> Upload] /\ pages \in [Pages -> Page]
    /\ outgoing \subseteq Sending
    /\ written \in 0 .. MaxTexts /\ used \in 0 .. MaxKeys /\ setbacks \in 0 .. MaxSetbacks
    /\ removed \subseteq Drafts /\ repeated \subseteq 1 .. MaxTexts

NewPage == [listed |-> {}, failed |-> {}, text |-> 0, key |-> 0, for |-> {}, body |-> FALSE, step |-> "idle", work |-> "none",
            left |-> {}, draft |-> {}, copy |-> NoRow, grant |-> 0,
            then |-> "put", posting |-> 0]

DraftInit ==
    /\ composer \in {"chat", "relationship"} /\ recordings = {}
    /\ shelf = [d \in Drafts |-> NoRow]
    /\ uploads = [d \in Drafts |-> [state |-> "absent", generation |-> 0, bytes |-> FALSE]]
    /\ pages = [p \in Pages |-> NewPage]
    /\ outgoing = {} /\ removed = {} /\ repeated = {}
    /\ written = 0 /\ used = 0 /\ setbacks = 0

Setback == setbacks < MaxSetbacks /\ setbacks' = setbacks + 1
Kept(rows) == {d \in Drafts : rows[d] # NoRow}
SentWith(key) == {m \in outgoing : m.key = key /\ m.state = "sent"}

Resting(p) == pages[p].step = "idle"
Forget(page) == [page EXCEPT !.key = 0, !.for = {}, !.body = FALSE]
Between(page) == [page EXCEPT !.left = {}, !.draft = {}, !.copy = NoRow, !.grant = 0, !.then = "put", !.posting = 0]
\* The end of a task.  Only the chat keeps a sending for another attempt.
Rest(page) == [Between(IF composer = "chat" THEN page ELSE Forget(page)) EXCEPT !.step = "idle", !.work = "none"]
List(page, rows) == [page EXCEPT !.listed = Kept(rows), !.failed = {d \in Drafts : rows[d].state = "failed"}]
Refreshed(page, rows) == List(Rest(page), rows)
Goes(p, page) == pages' = [pages EXCEPT ![p] = page]

\* A task takes the drafts one after the other.
StartUpload(page, work, drafts) ==
    LET d == CHOOSE x \in drafts : TRUE
    IN  [Between(page) EXCEPT !.step = "load", !.work = work, !.left = drafts, !.draft = {d}]

StartDiscard(page, drafts) == [page EXCEPT !.step = "discard", !.left = drafts]

SaveDraft(d, row) == shelf' = [shelf EXCEPT ![d] = row]

-----------------------------------------------------------------------------
(* The member.                                                              *)

WriteText(p) ==
    /\ Resting(p) /\ p \in Writers /\ written < MaxTexts
    /\ written' = written + 1
    /\ Goes(p, [Forget(pages[p]) EXCEPT !.text = written + 1])
    /\ UNCHANGED <<recordings, composer, shelf, uploads, outgoing, used, removed, repeated, setbacks>>

\* prepareMediaDraft encrypts the file and saves it.
PrepareFiles(p, d) ==
    /\ Resting(p) /\ shelf[d] = NoRow /\ uploads[d].state = "absent" /\ d \notin removed
    /\ shelf' = [shelf EXCEPT ![d].state = "prepared"]
    /\ Goes(p, List(pages[p], shelf'))
    /\ UNCHANGED <<recordings, composer, uploads, outgoing, written, used, removed, repeated, setbacks>>

\* A recording for the chat is sent on its own, or saved for later when the device is offline.
SendVoice(p, d) ==
    /\ Resting(p) /\ shelf[d] = NoRow /\ uploads[d].state = "absent" /\ d \notin removed
    /\ composer = "chat" /\ p \in Writers /\ recordings' = recordings \cup {d}
    /\ shelf' = [shelf EXCEPT ![d].state = "prepared"]
    /\ pages' \in {[pages EXCEPT ![p] = List(@, shelf')],
                   [pages EXCEPT ![p] = StartUpload(pages[p], "voice", {d})]}
    /\ UNCHANGED <<composer, uploads, outgoing, written, used, removed, repeated, setbacks>>

RetryDraft(p, d) ==
    /\ Resting(p) /\ d \in pages[p].failed
    /\ Goes(p, StartUpload(pages[p], "retry", {d}))
    /\ UNCHANGED <<recordings, composer, shelf, uploads, outgoing, written, used, removed, repeated, setbacks>>

\* discardMediaDraft: the object first, whose deletion may fail unnoticed, then the row.
RemoveDraft(p, d) ==
    /\ Resting(p) /\ d \in pages[p].listed
    /\ Goes(p, [pages[p] EXCEPT !.step = "remove", !.draft = {d}])
    /\ uploads' \in {uploads,
                     IF uploads[d].state \in {"uploading", "ready"} /\ shelf[d] # NoRow
                     THEN [uploads EXCEPT ![d].state = "gone"] ELSE uploads}
    /\ UNCHANGED <<recordings, composer, shelf, outgoing, written, used, removed, repeated, setbacks>>

DeleteRow(p) ==
    /\ pages[p].step = "remove"
    /\ \E d \in pages[p].draft :
           /\ shelf' = [shelf EXCEPT ![d] = NoRow]
           /\ removed' = removed \cup {d}
           /\ Goes(p, Refreshed(pages[p], shelf'))
    /\ UNCHANGED <<recordings, composer, uploads, outgoing, written, used, repeated, setbacks>>

\* Mutation: every attempt to send has a key of its own.
SamePending_Never(page) == FALSE

\* The sending whose answer was an error is repeated, if nothing in it has changed.
SamePending(page) == page.key # 0 /\ page.for = page.listed

\* A sending that is changed is another one, whether or not it has been executed.
Overtaken(page) ==
    IF page.key # 0 /\ page.for # page.listed /\ SentWith(page.key) # {} THEN {page.text} \ {0} ELSE {}

\* The relationship composer keeps no sending; it takes a key when the uploads are done,
\* and so does a recording.
SendFrom(p) ==
    LET page == pages[p]
        same == composer = "chat" /\ SamePending(page)
        next == IF same THEN page ELSE [page EXCEPT !.key = used + 1, !.for = page.listed, !.body = FALSE]
    IN  /\ Resting(p) /\ (page.text # 0 \/ page.listed # {})
        /\ same \/ used < MaxKeys
        /\ used' = IF same THEN used ELSE used + 1
        /\ Goes(p, IF next.body \/ next.for = {} THEN [next EXCEPT !.step = "post", !.work = "send", !.body = TRUE, !.posting = next.key]
                   ELSE StartUpload(next, "send", next.for))
        /\ repeated' = repeated \cup Overtaken(page)
        /\ UNCHANGED <<recordings, composer, shelf, uploads, outgoing, written, removed, setbacks>>

-----------------------------------------------------------------------------
(* uploadMediaDraft.                                                        *)

CurrentDraft(p) == CHOOSE d \in pages[p].draft : TRUE

AtStep(p, step) == pages[p].step = step

\* The error ends the task; a pending sending is kept.
UploadThrows(p) == Refreshed(pages[p], shelf)

LoadRow(p) ==
    /\ AtStep(p, "load")
    /\ LET row == shelf[CurrentDraft(p)]
       IN  Goes(p, IF row = NoRow THEN UploadThrows(p)
                   ELSE [pages[p] EXCEPT !.copy = row, !.step = IF row.known # 0 THEN "probe" ELSE "mark"])
    /\ UNCHANGED <<recordings, composer, shelf, uploads, outgoing, written, used, removed, repeated, setbacks>>

\* POST /media/{id}/complete: ready already, or verified now.
Completes(d, generation) ==
    \/ uploads[d].state = "ready"
    \/ uploads[d].state = "uploading" /\ uploads[d].generation = generation /\ uploads[d].bytes

MarkReady(d) == uploads' = [uploads EXCEPT ![d].state = "ready"]

Probe(p) ==
    /\ AtStep(p, "probe")
    /\ LET d == CurrentDraft(p)
       IN  \/ /\ Completes(d, pages[p].copy.known) /\ MarkReady(d)
              /\ Goes(p, [pages[p] EXCEPT !.step = "ready", !.grant = uploads[d].generation])
              /\ UNCHANGED setbacks
           \/ /\ ~ Completes(d, pages[p].copy.known)
              /\ Goes(p, [pages[p] EXCEPT !.step = "mark"]) /\ UNCHANGED <<uploads, setbacks>>
           \/ /\ Setback
              /\ Goes(p, [pages[p] EXCEPT !.step = "mark"]) /\ UNCHANGED uploads
    /\ UNCHANGED <<recordings, composer, shelf, outgoing, written, used, removed, repeated>>

MarkUploading(p) ==
    /\ AtStep(p, "mark")
    /\ SaveDraft(CurrentDraft(p), [pages[p].copy EXCEPT !.state = "uploading"])
    /\ Goes(p, [pages[p] EXCEPT !.step = "grant"])
    /\ UNCHANGED <<recordings, composer, uploads, outgoing, written, used, removed, repeated, setbacks>>

\* A draft the server does not know is created, under the key of the draft; a known one
\* gets another generation.  There is no URL for an object past uploading.
Granted(d, known) ==
    IF known = 0
    THEN IF uploads[d].state = "absent" THEN {[uploads[d] EXCEPT !.state = "uploading", !.generation = 1]}
         ELSE {uploads[d]}
    ELSE IF uploads[d].state = "uploading" /\ uploads[d].generation = known
         THEN {[uploads[d] EXCEPT !.generation = @ + 1]} ELSE {}

RequestGrant(p) ==
    /\ AtStep(p, "grant")
    /\ LET d == CurrentDraft(p)
           granted == {u \in Granted(d, pages[p].copy.known) : u.generation <= MaxGrants}
       IN  \/ \E u \in granted :
                  /\ uploads' = [uploads EXCEPT ![d] = u]
                  /\ Goes(p, [pages[p] EXCEPT !.step = "save", !.grant = u.generation,
                                              !.then = CASE u.state = "uploading" -> "put"
                                                         [] u.state = "ready" -> "ready"
                                                         [] OTHER -> "fail"])
                  /\ UNCHANGED setbacks
           \/ /\ granted = {}
              /\ Goes(p, [pages[p] EXCEPT !.step = "fail"]) /\ UNCHANGED <<uploads, setbacks>>
           \/ /\ Setback
              /\ uploads' \in {uploads} \cup {[uploads EXCEPT ![d] = u] : u \in granted}
              /\ Goes(p, [pages[p] EXCEPT !.step = "fail"])
    /\ UNCHANGED <<recordings, composer, shelf, outgoing, written, used, removed, repeated>>

SaveGrant(p) ==
    /\ AtStep(p, "save")
    /\ SaveDraft(CurrentDraft(p), [state |-> "uploading", known |-> pages[p].grant])
    /\ Goes(p, [pages[p] EXCEPT !.step = pages[p].then])
    /\ UNCHANGED <<recordings, composer, uploads, outgoing, written, used, removed, repeated, setbacks>>

PutCiphertext(p) ==
    /\ AtStep(p, "put")
    /\ \/ /\ uploads' = [uploads EXCEPT ![CurrentDraft(p)].bytes = TRUE]
          /\ Goes(p, [pages[p] EXCEPT !.step = "complete"])
          /\ UNCHANGED setbacks
       \/ /\ Setback
          /\ uploads' \in {uploads, [uploads EXCEPT ![CurrentDraft(p)].bytes = TRUE]}
          /\ Goes(p, [pages[p] EXCEPT !.step = "fail"])
    /\ UNCHANGED <<recordings, composer, shelf, outgoing, written, used, removed, repeated>>

CompleteMediaUpload(p) ==
    /\ AtStep(p, "complete")
    /\ LET d == CurrentDraft(p)
           done == Completes(d, pages[p].grant)
       IN  \/ /\ done /\ MarkReady(d) /\ Goes(p, [pages[p] EXCEPT !.step = "ready"]) /\ UNCHANGED setbacks
           \/ /\ ~ done /\ Goes(p, [pages[p] EXCEPT !.step = "fail"]) /\ UNCHANGED <<uploads, setbacks>>
           \/ /\ Setback
              /\ uploads' \in {uploads, IF done THEN [uploads EXCEPT ![d].state = "ready"] ELSE uploads}
              /\ Goes(p, [pages[p] EXCEPT !.step = "fail"])
    /\ UNCHANGED <<recordings, composer, shelf, outgoing, written, used, removed, repeated>>

\* markReady; then the next draft, or what the uploads were for.  The draft is written
\* back even if it has been removed meanwhile.
MarkDraftReady(p) ==
    LET page == pages[p]
        left == page.left \ page.draft
    IN  /\ AtStep(p, "ready")
        /\ SaveDraft(CurrentDraft(p), [state |-> "ready", known |-> page.grant])
        /\ \/ /\ left # {} /\ Goes(p, StartUpload(page, page.work, left)) /\ UNCHANGED used
           \/ /\ left = {} /\ page.work = "retry"
              /\ Goes(p, Refreshed(page, shelf')) /\ UNCHANGED used
           \/ /\ left = {} /\ page.work = "send"
              /\ Goes(p, [Between(page) EXCEPT !.step = "post", !.work = "send", !.body = TRUE, !.posting = page.key])
              /\ UNCHANGED used
           \/ /\ left = {} /\ page.work = "voice" /\ used < MaxKeys
              /\ Goes(p, [Between(page) EXCEPT !.step = "post", !.work = "voice", !.draft = page.draft, !.posting = used + 1])
              /\ used' = used + 1
        /\ UNCHANGED <<recordings, composer, uploads, outgoing, written, removed, repeated, setbacks>>

\* The row of another page is kept but for its state; without one the own copy is saved.
MarkFailed(p) ==
    /\ AtStep(p, "fail")
    /\ LET d == CurrentDraft(p)
           newest == IF shelf[d] # NoRow THEN shelf[d] ELSE pages[p].copy
       IN  /\ SaveDraft(d, [newest EXCEPT !.state = "failed"])
           /\ Goes(p, Refreshed(pages[p], shelf'))
    /\ UNCHANGED <<recordings, composer, uploads, outgoing, written, used, removed, repeated, setbacks>>

-----------------------------------------------------------------------------
(* The message or the item.                                                 *)

Attached(page) == IF page.work = "voice" THEN page.draft ELSE page.for

\* mediaRoleAllowed: a recording is no attachment, nor the other way round; a letter keeps its role.
RoleAllowed(page) ==
    \/ composer = "relationship"
    \/ \A d \in Attached(page) : d \in recordings <=> page.work = "voice"

Bindable(drafts) == \A d \in drafts : uploads[d].state = "ready"

Request(page, state) ==
    [key |-> page.posting, text |-> IF page.work = "voice" THEN 0 ELSE page.text, drafts |-> Attached(page),
     role |-> IF page.work = "voice" THEN "voice" ELSE "attachment", state |-> state]

Executed(page) == SentWith(page.posting) # {}
Acceptable(page) == Executed(page) \/ (RoleAllowed(page) /\ Bindable(Attached(page)))

\* The server executes a key once.
Executes(page) ==
    /\ outgoing' = IF Executed(page) THEN outgoing ELSE outgoing \cup {Request(page, "sent")}
    /\ uploads' = [d \in Drafts |-> IF ~ Executed(page) /\ d \in Attached(page)
                                    THEN [uploads[d] EXCEPT !.state = "bound"] ELSE uploads[d]]

PostAnswered(p) ==
    /\ AtStep(p, "post") /\ Acceptable(pages[p])
    /\ Executes(pages[p])
    /\ Goes(p, IF composer = "chat" THEN [pages[p] EXCEPT !.step = "answered"]
               ELSE StartDiscard(pages[p], Attached(pages[p])))
    /\ UNCHANGED <<recordings, composer, shelf, written, used, removed, repeated, setbacks>>

\* A refusal drops the pending sending; the drafts stay.
PostRefused(p) ==
    /\ AtStep(p, "post") /\ ~ Acceptable(pages[p])
    /\ Goes(p, IF pages[p].work = "voice" THEN Rest(pages[p]) ELSE Rest(Forget(pages[p])))
    /\ UNCHANGED <<recordings, composer, shelf, uploads, outgoing, written, used, removed, repeated, setbacks>>

\* A status of 500 or more, or 429: executed or not, the pending sending is kept.
PostFails(p) ==
    /\ AtStep(p, "post") /\ Setback
    /\ \/ Acceptable(pages[p]) /\ Executes(pages[p])
       \/ UNCHANGED <<uploads, outgoing>>
    /\ Goes(p, Rest(pages[p]))
    /\ UNCHANGED <<recordings, composer, shelf, written, used, removed, repeated>>

Queue(page) == outgoing' = outgoing \cup {Request(page, "queued")}

\* The chat gives the drafts up with the queued sending; the relationship composer keeps
\* them and the form.
Queued(page) == IF composer = "chat" THEN StartDiscard(page, Attached(page)) ELSE Rest(page)

PostLost(p) ==
    /\ AtStep(p, "post") /\ Setback
    /\ Queue(pages[p])
    /\ Goes(p, Queued(pages[p]))
    /\ UNCHANGED <<recordings, composer, shelf, uploads, written, used, removed, repeated>>

\* The request is executed and its answer is lost.
PostAnswerLost(p) ==
    /\ AtStep(p, "post") /\ Acceptable(pages[p]) /\ Setback
    /\ LET page == pages[p]
       IN  /\ outgoing' = (IF Executed(page) THEN outgoing ELSE outgoing \cup {Request(page, "sent")})
                              \cup {Request(page, "queued")}
           /\ uploads' = [d \in Drafts |-> IF ~ Executed(page) /\ d \in Attached(page)
                                           THEN [uploads[d] EXCEPT !.state = "bound"] ELSE uploads[d]]
           /\ Goes(p, Queued(page))
    /\ UNCHANGED <<recordings, composer, shelf, written, used, removed, repeated>>

\* Offline the sending is queued and its drafts are left where they are.
PostOffline(p) ==
    /\ AtStep(p, "post") /\ pages[p].work = "send" /\ Setback
    /\ composer = "relationship" => Attached(pages[p]) = {}
    /\ Queue(pages[p])
    /\ Goes(p, IF composer = "chat" THEN [Rest(Forget(pages[p])) EXCEPT !.text = 0] ELSE Rest(pages[p]))
    /\ UNCHANGED <<recordings, composer, shelf, uploads, written, used, removed, repeated>>

\* refreshMessage.  A refusal forgets a sending that has been executed.
ShowMessage(p) ==
    LET page == pages[p]
    IN  /\ AtStep(p, "answered")
        /\ \/ /\ Goes(p, StartDiscard(page, Attached(page)))
              /\ UNCHANGED <<outgoing, repeated, setbacks>>
           \/ /\ Setback /\ Queue(page)
              /\ Goes(p, StartDiscard(page, Attached(page)))
              /\ UNCHANGED repeated
           \/ /\ Setback /\ Goes(p, Rest(page))
              /\ UNCHANGED <<outgoing, repeated>>
           \/ /\ Setback /\ page.work = "send"
              /\ Goes(p, Rest(Forget(page)))
              /\ repeated' = repeated \cup ({page.text} \ {0})
              /\ UNCHANGED outgoing
        /\ UNCHANGED <<recordings, composer, shelf, uploads, written, used, removed>>

DiscardDraft(p) ==
    LET page == pages[p]
    IN  /\ AtStep(p, "discard")
        /\ \/ \E d \in page.left :
                  /\ shelf' = [shelf EXCEPT ![d] = NoRow]
                  /\ Goes(p, [page EXCEPT !.left = @ \ {d}])
           \/ /\ page.left = {} /\ UNCHANGED shelf
              /\ Goes(p, CASE page.work = "voice" -> Refreshed(page, shelf)
                           [] composer = "chat" -> [Refreshed(Forget(page), shelf) EXCEPT !.text = 0]
                           [] OTHER -> [Rest(Forget(page)) EXCEPT !.text = 0, !.listed = {}, !.failed = {}])
        /\ UNCHANGED <<recordings, composer, uploads, outgoing, written, used, removed, repeated, setbacks>>

-----------------------------------------------------------------------------
(* Around them.                                                             *)

\* The replay of a queued sending: the server knows the key, accepts it or refuses it.
ReplayQueued(m) ==
    /\ m \in outgoing /\ m.state = "queued"
    /\ LET accepted == /\ Bindable(m.drafts)
                       /\ composer = "relationship" \/ \A d \in m.drafts : d \in recordings <=> m.role = "voice"
           rest == outgoing \ {m}
       IN  /\ outgoing' = CASE SentWith(m.key) # {} -> rest
                            [] OTHER -> rest \cup {[m EXCEPT !.state = IF accepted THEN "sent" ELSE "refused"]}
           /\ uploads' = [d \in Drafts |-> IF SentWith(m.key) = {} /\ accepted /\ d \in m.drafts
                                           THEN [uploads[d] EXCEPT !.state = "bound"] ELSE uploads[d]]
    /\ UNCHANGED <<recordings, composer, shelf, pages, written, used, removed, repeated, setbacks>>

UploadExpires(d) ==
    /\ uploads[d].state \in {"uploading", "ready"} /\ Setback
    /\ uploads' = [uploads EXCEPT ![d].state = "gone"]
    /\ UNCHANGED <<recordings, composer, shelf, pages, outgoing, written, used, removed, repeated>>

Reload(p) ==
    /\ pages[p] # NewPage /\ Setback
    /\ Goes(p, List(NewPage, shelf))
    /\ UNCHANGED <<recordings, composer, shelf, uploads, outgoing, written, used, removed, repeated>>

\* Encryption has become required: what is queued and every draft go.
ChangeContext ==
    LET queued == {m \in outgoing : m.state = "queued"}
    IN  /\ (Kept(shelf) # {} \/ queued # {}) /\ Setback
        /\ shelf' = [d \in Drafts |-> NoRow]
        /\ outgoing' = outgoing \ queued
        /\ removed' = removed \cup Kept(shelf) \cup (UNION {m.drafts : m \in queued})
        /\ UNCHANGED <<recordings, composer, uploads, pages, written, used, repeated>>

DraftUpload(p) ==
    \/ LoadRow(p) \/ Probe(p) \/ MarkUploading(p) \/ RequestGrant(p) \/ SaveGrant(p) \/ PutCiphertext(p)
    \/ CompleteMediaUpload(p) \/ MarkDraftReady(p) \/ MarkFailed(p)

DraftPost(p) ==
    \/ PostAnswered(p) \/ PostRefused(p) \/ PostFails(p) \/ PostLost(p) \/ PostAnswerLost(p) \/ PostOffline(p)
    \/ ShowMessage(p) \/ DiscardDraft(p)

DraftNext ==
    \/ \E p \in Pages : \/ WriteText(p) \/ SendFrom(p) \/ DeleteRow(p) \/ Reload(p) \/ DraftUpload(p) \/ DraftPost(p)
                        \/ \E d \in Drafts : \/ PrepareFiles(p, d) \/ SendVoice(p, d) \/ RetryDraft(p, d)
                                             \/ RemoveDraft(p, d)
    \/ \E m \in outgoing : ReplayQueued(m)
    \/ \E d \in Drafts : UploadExpires(d)
    \/ ChangeContext

DraftSpec == DraftInit /\ [][DraftNext]_draftVars

-----------------------------------------------------------------------------
(* Properties.                                                              *)

\* A draft leaves the device only with a sending that has it or because it was removed;
\* a draft that is ready was uploaded, and none is ahead of the server.  A message of the
\* chat is sent once, however its requests, uploads and answers went wrong, unless its
\* sending was forgotten or changed although it had been executed; and no object is in two of them (uploadMediaDraft, send).
DraftsAccounted ==
    /\ \A d \in Drafts :
           /\ shelf[d].state = "ready" => uploads[d].state \in {"ready", "bound", "gone"}
           /\ shelf[d].known <= uploads[d].generation
           /\ (uploads[d].state \notin {"absent", "gone"} /\ shelf[d] = NoRow)
                  => d \in removed \/ \E m \in outgoing : d \in m.drafts
    /\ \A m \in outgoing, n \in outgoing :
           (m.state = "sent" /\ n.state = "sent" /\ m # n)
               => /\ m.drafts \cap n.drafts = {}
                  /\ (composer = "chat" /\ m.text = n.text /\ m.drafts = n.drafts) => m.text \in repeated

=============================================================================
