---------------------------- MODULE MediaObjects ----------------------------
(***************************************************************************)
(* The media of a living partnership: the upload of an encrypted object,   *)
(* its binding to a message or a relationship item, its expiry while it is *)
(* unbound, and its deletion by the worker.                                *)
(*                                                                         *)
(* A handler of the API that locks the row is one step.  The worker loads  *)
(* the row without a lock and writes it later, and the store is outside    *)
(* every transaction.  Time is abstracted to whether upload_expires_at has *)
(* passed.  The limit of a job's attempts is left out; what dissolving the *)
(* partnership erases is DeletionManifests' concern.                       *)
(***************************************************************************)
EXTENDS Naturals

CONSTANTS
    Media,          \* ids of media objects
    MaxUploads,     \* bound: upload generations of an object
    MaxRollBacks    \* bound: transactions of the worker that are rolled back

ASSUME UploadsAssumption == MaxUploads \in Nat \ {0} /\ MaxRollBacks \in Nat

VARIABLES
    media,       \* media_objects rows
    jobs,        \* pending or claimed scheduled actions of the media
    executions,  \* jobs whose transaction is under way, with what it has read
    checks,      \* uploads whose object the API has verified and not yet recorded
    objects,     \* objects in the store
    keyed,       \* media with a protected content key
    puts,        \* objects with an upload URL that is still valid
    writable,    \* send_media is permitted
    expired,     \* media whose expiry began after upload_expires_at had passed
    kept,        \* bound media whose container has not been deleted
    strays,      \* objects uploaded after a worker had deleted them
    rollBacks

mediaVars == <<media, jobs, executions, checks, objects, keyed, puts, writable, expired, kept, strays, rollBacks>>

States == {"absent", "uploading", "ready_unbound", "bound", "deletion_pending", "deleted"}
Places == {"none", "message", "item"}
Row    == [state : States, place : Places, upload : 0 .. MaxUploads, deletion : 0 .. 2, past : BOOLEAN]
Job    == [media : Media, type : {"expire", "delete"}, generation : 1 .. MaxUploads + 1]

MediaTypeOK ==
    /\ media \in [Media -> Row]
    /\ jobs \subseteq Job
    /\ executions \subseteq [job : Job, step : {"loaded", "erased"}]
    /\ checks \subseteq [media : Media, generation : 1 .. MaxUploads]
    /\ objects \subseteq Media /\ puts \subseteq Media /\ keyed \subseteq Media /\ expired \subseteq Media
    /\ kept \subseteq Media /\ strays \subseteq objects
    /\ writable \in BOOLEAN
    /\ rollBacks \in 0 .. MaxRollBacks

MediaInit ==
    /\ media = [m \in Media |-> [state |-> "absent", place |-> "none", upload |-> 0, deletion |-> 0, past |-> FALSE]]
    /\ jobs = {} /\ executions = {} /\ checks = {}
    /\ objects = {} /\ keyed = {} /\ puts = {} /\ expired = {} /\ kept = {} /\ strays = {}
    /\ writable = TRUE /\ rollBacks = 0

Unbound  == {"uploading", "ready_unbound"}
Deletes(x)  == x.job.type = "delete"
\* The transaction that has marked or is deleting the row keeps it locked.
Locked(m) == \E x \in executions : x.job.media = m /\ x.step = "erased"
ExpiryJob(m, generation) == [media |-> m, type |-> "expire", generation |-> generation]
DeleteJob(m, generation) == [media |-> m, type |-> "delete", generation |-> generation]

-----------------------------------------------------------------------------
(* The API.                                                                 *)

ChangeSendMedia ==
    /\ writable' = ~ writable
    /\ UNCHANGED <<media, jobs, executions, checks, objects, keyed, puts, expired, kept, strays, rollBacks>>

CreateUpload(m) ==
    /\ writable /\ media[m].state = "absent"
    /\ media' = [media EXCEPT ![m] = [state |-> "uploading", place |-> "none", upload |-> 1,
                                           deletion |-> 1, past |-> FALSE]]
    /\ jobs' = jobs \cup {ExpiryJob(m, 1)}
    /\ puts' = puts \cup {m}
    /\ keyed' \in {keyed, keyed \cup {m}}
    /\ UNCHANGED <<executions, checks, objects, writable, expired, kept, strays, rollBacks>>

\* Whether the old URL has expired is not asked.
RefreshUpload(m) ==
    /\ writable /\ media[m].state = "uploading" /\ ~ Locked(m)
    /\ media[m].upload < MaxUploads
    /\ media' = [media EXCEPT ![m].upload = @ + 1, ![m].past = FALSE]
    /\ jobs' = jobs \cup {ExpiryJob(m, media[m].upload + 1)}
    /\ puts' = puts \cup {m}
    /\ UNCHANGED <<executions, checks, objects, keyed, writable, expired, kept, strays, rollBacks>>

\* The row is read and the object verified before the transaction.
VerifyObject(m) ==
    /\ media[m].state = "uploading" /\ m \in objects
    /\ checks' = checks \cup {[media |-> m, generation |-> media[m].upload]}
    /\ UNCHANGED <<media, jobs, executions, objects, keyed, puts, writable, expired, kept, strays, rollBacks>>

\* markMediaReady gives the object another term; the job of its upload finds that out.
CompleteUpload(c) ==
    /\ c \in checks /\ ~ Locked(c.media)
    /\ checks' = checks \ {c}
    /\ media' = IF writable /\ media[c.media].state = "uploading" /\ media[c.media].upload = c.generation
                THEN [media EXCEPT ![c.media].state = "ready_unbound", ![c.media].past = FALSE]
                ELSE media
    /\ UNCHANGED <<jobs, executions, objects, keyed, puts, writable, expired, kept, strays, rollBacks>>

\* A message is sent or a relationship item written; the deadline is not compared.
BindMedia(m, place) ==
    /\ writable /\ media[m].state = "ready_unbound" /\ ~ Locked(m)
    /\ media' = [media EXCEPT ![m].state = "bound", ![m].place = place, ![m].past = FALSE]
    /\ kept' = kept \cup {m}
    /\ UNCHANGED <<jobs, executions, checks, objects, keyed, puts, writable, expired, strays, rollBacks>>

BindToMessage(m) == BindMedia(m, "message")
BindToItem(m)    == BindMedia(m, "item")

MarkDeletionPending(m) ==
    /\ ~ Locked(m)
    /\ media' = [media EXCEPT ![m].state = "deletion_pending", ![m].deletion = @ + 1]
    /\ jobs' = jobs \cup {DeleteJob(m, media[m].deletion + 1)}
    /\ UNCHANGED <<executions, checks, objects, keyed, puts, writable, expired, strays, rollBacks>>

\* Deleting the content key clears it in the media row, which the trigger of the schema
\* refuses where encryption is required: the transaction of keyed media never commits.
KeyDeletable(m) == m \notin keyed

DeleteUnbound(m) == media[m].state \in Unbound /\ KeyDeletable(m) /\ MarkDeletionPending(m) /\ UNCHANGED kept

\* Mutation: media that are being deleted already are marked again.
DeleteContainer_Again(m) == m \in kept /\ MarkDeletionPending(m) /\ UNCHANGED kept

\* The message is deleted, or the item deleted or edited to another reference.
DeleteContainer(m) == media[m].state = "bound" /\ MarkDeletionPending(m) /\ kept' = kept \ {m}

\* A message takes the keys of its media with it, an item leaves them.
DeleteMessageMedia(m) == media[m].place = "message" /\ KeyDeletable(m) /\ DeleteContainer(m)
RevokeItemMedia(m)    == media[m].place = "item" /\ DeleteContainer(m)

-----------------------------------------------------------------------------
(* The device, the store and the clock.                                     *)

\* The URL works until it expires, whatever has become of the row.
PutObject(m) ==
    /\ m \in puts
    /\ objects' = objects \cup {m}
    /\ strays' = IF media[m].state \in {"deletion_pending", "deleted"} \/ Locked(m) THEN strays \cup {m} ELSE strays
    /\ UNCHANGED <<media, jobs, executions, checks, keyed, puts, writable, expired, kept, rollBacks>>

PutExpires(m) ==
    /\ m \in puts
    /\ puts' = puts \ {m}
    /\ UNCHANGED <<media, jobs, executions, checks, objects, keyed, writable, expired, kept, strays, rollBacks>>

DeadlinePasses(m) ==
    /\ media[m].state \in Unbound /\ ~ media[m].past
    /\ media' = [media EXCEPT ![m].past = TRUE]
    /\ UNCHANGED <<jobs, executions, checks, objects, keyed, puts, writable, expired, kept, strays, rollBacks>>

-----------------------------------------------------------------------------
(* The worker: the job's generation is compared and the row loaded, without  *)
(* a lock.  One worker executes a job at a time.                             *)

Idle(j)  == j \in jobs /\ \A x \in executions : x.job # j
Stale(j) ==
    \/ j.type = "expire" /\ (media[j.media].state \notin Unbound \/ media[j.media].upload # j.generation)
    \/ j.type = "delete" /\ (media[j.media].state # "deletion_pending" \/ media[j.media].deletion # j.generation)

DropStale(j) ==
    /\ Idle(j) /\ Stale(j)
    /\ jobs' = jobs \ {j}
    /\ UNCHANGED <<media, executions, checks, objects, keyed, puts, writable, expired, kept, strays, rollBacks>>

\* Mutation: the deadline that completing the upload has moved is not compared again.
Expires_Unchecked(j) == ~ Stale(j)

\* Before its deadline the job is rescheduled, which leaves it as it is.
Expires(j) == ~ Stale(j) /\ media[j.media].past

LoadForExpiry(j) ==
    /\ Idle(j) /\ j.type = "expire" /\ Expires(j)
    /\ executions' = executions \cup {[job |-> j, step |-> "loaded"]}
    /\ expired' = IF media[j.media].past THEN expired \cup {j.media} ELSE expired
    /\ UNCHANGED <<media, jobs, checks, objects, keyed, puts, writable, kept, strays, rollBacks>>

LoadForDeletion(j) ==
    /\ Idle(j) /\ j.type = "delete" /\ ~ Stale(j)
    /\ executions' = executions \cup {[job |-> j, step |-> "loaded"]}
    /\ UNCHANGED <<media, jobs, checks, objects, keyed, puts, writable, expired, kept, strays, rollBacks>>

\* markMediaDeletionPending admits whatever state the row has been given since it was
\* loaded, bound included, but a row that is being deleted.
Marks(x) == Deletes(x) \/ media[x.job.media].state \in Unbound \cup {"bound"}

AbandonExpiry(x) ==
    /\ x \in executions /\ x.step = "loaded" /\ ~ Locked(x.job.media) /\ ~ Marks(x)
    /\ executions' = executions \ {x} /\ jobs' = jobs \ {x.job}
    /\ UNCHANGED <<media, checks, objects, keyed, puts, writable, expired, kept, strays, rollBacks>>

\* The object is deleted before the commit.
EraseMedia(x) ==
    /\ x \in executions /\ x.step = "loaded" /\ ~ Locked(x.job.media) /\ Marks(x)
    /\ executions' = (executions \ {x}) \cup {[x EXCEPT !.step = "erased"]}
    /\ objects' = objects \ {x.job.media} /\ strays' = strays \ {x.job.media}
    /\ UNCHANGED <<media, jobs, checks, keyed, puts, writable, expired, kept, rollBacks>>

CommitErasure(x) ==
    /\ x \in executions /\ x.step = "erased"
    /\ executions' = executions \ {x} /\ jobs' = jobs \ {x.job}
    /\ media' = [media EXCEPT ![x.job.media].state = "deleted"]
    /\ UNCHANGED <<checks, objects, keyed, puts, writable, expired, kept, strays, rollBacks>>

\* The store fails, the worker dies or the commit does: the job is tried again.
RollBackErasure(x) ==
    /\ x \in executions /\ rollBacks < MaxRollBacks
    /\ rollBacks' = rollBacks + 1
    /\ executions' = executions \ {x}
    /\ UNCHANGED <<media, jobs, checks, objects, keyed, puts, writable, expired, kept, strays>>

-----------------------------------------------------------------------------

MediaNext ==
    \/ ChangeSendMedia
    \/ \E m \in Media : CreateUpload(m) \/ RefreshUpload(m) \/ VerifyObject(m) \/ BindToMessage(m) \/ BindToItem(m)
                        \/ DeleteUnbound(m) \/ DeleteMessageMedia(m) \/ RevokeItemMedia(m)
                        \/ PutObject(m) \/ PutExpires(m) \/ DeadlinePasses(m)
    \/ \E c \in checks : CompleteUpload(c)
    \/ \E j \in jobs : DropStale(j) \/ LoadForExpiry(j) \/ LoadForDeletion(j)
    \/ \E x \in executions : EraseMedia(x) \/ AbandonExpiry(x) \/ CommitErasure(x) \/ RollBackErasure(x)

MediaSpec == MediaInit /\ [][MediaNext]_mediaVars

-----------------------------------------------------------------------------
(* Properties.                                                              *)

\* What a message or an item shows can be read: bound or ready media keep their row and
\* their object until the container is deleted, unless the expiry of an overdue upload
\* was overtaken by the binding (bindMediaObject, createMediaUploadExpireScheduledHandler).
\* And nothing is forgotten: unbound media have a job of their upload's generation,
\* deleted ones of their deletion's, and an object without a row was uploaded late.
MediaAccounted ==
    \A m \in Media :
        /\ m \in kept \/ media[m].state = "ready_unbound" =>
               m \in expired \/ (m \in objects /\ media[m].state \in {"bound", "ready_unbound"})
        /\ media[m].state \in Unbound => ExpiryJob(m, media[m].upload) \in jobs
        /\ media[m].state = "deletion_pending" => DeleteJob(m, media[m].deletion) \in jobs
        /\ m \in objects /\ media[m].state \in {"absent", "deleted"} => m \in strays

=============================================================================
