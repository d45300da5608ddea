----------------------------- MODULE PartsProofs -----------------------------
(* Theorems about the parts of the content layer, each for any of its         *)
(* constants: the media, the feed of a client, what makes up a call: its row, *)
(* the camera, the ownership of the media and the signalling; and accounts:   *)
(* their keys, their names and addresses, and who is signed in.               *)
EXTENDS MediaObjects, ClientFeed, Calls, CallCamera, MediaOwnership, CallSignaling,
        Idempotency, AccountRegistry, AccountAccess,
        NaturalsInduction, WellFoundedInduction, FiniteSetTheorems, TLAPS

-----------------------------------------------------------------------------
(* MediaObjects.                                                             *)

StateOf(m) == media[m].state

\* A row counts its uploads from the first, is marked for deletion once, and exists before
\* anything is uploaded to it or expires.
RowShape(m) ==
    /\ StateOf(m) # "absent" => media[m].upload \in 1 .. MaxUploads
    /\ StateOf(m) \in Unbound \cup {"bound"} => media[m].deletion = 1
    /\ m \in puts \cup expired => StateOf(m) # "absent"
    /\ m \in kept => StateOf(m) \in {"bound", "deleted"}

\* What the worker has loaded is being deleted, or its expiry is on record; while it holds
\* the row, an object of it was uploaded late.
ExecutionsKnown(m) ==
    /\ \A x \in executions :
           x.job.media = m => IF Deletes(x) THEN StateOf(m) \in {"deletion_pending", "deleted"} ELSE m \in expired
    /\ Locked(m) /\ m \in objects => m \in strays

\* What the API has verified is in the store still.
ChecksHold(m) ==
    \A c \in checks : c.media = m =>
        /\ StateOf(m) # "absent"
        /\ StateOf(m) = "uploading" => m \in objects \cup expired

\* The parts of MediaAccounted about one medium.
ShownReadable(m) ==
    m \in kept \/ StateOf(m) = "ready_unbound" =>
        m \in expired \/ (m \in objects /\ StateOf(m) \in {"bound", "ready_unbound"})
ExpiryArmed(m)   == StateOf(m) \in Unbound => ExpiryJob(m, media[m].upload) \in jobs
DeletionPosted(m) == StateOf(m) = "deletion_pending" => DeleteJob(m, media[m].deletion) \in jobs
StrayOnly(m)     == m \in objects /\ StateOf(m) \in {"absent", "deleted"} => m \in strays

MediumAccounted(m) ==
    /\ RowShape(m) /\ ExecutionsKnown(m) /\ ChecksHold(m)
    /\ ShownReadable(m) /\ ExpiryArmed(m) /\ DeletionPosted(m) /\ StrayOnly(m)

MediaInv == MediaTypeOK /\ \A m \in Media : MediumAccounted(m)

LEMMA MediaInvAccounted == MediaInv => MediaAccounted
BY DEF MediaInv, MediumAccounted, ShownReadable, ExpiryArmed, DeletionPosted, StrayOnly, StateOf, MediaAccounted

LEMMA MediaInvInit == MediaInit => MediaInv
<1> SUFFICES ASSUME MediaInit PROVE MediaInv
    OBVIOUS
<1>1. MediaTypeOK
    BY UploadsAssumption DEF MediaInit, MediaTypeOK, Row, States, Places
<1>2. ASSUME NEW m \in Media PROVE MediumAccounted(m)
    BY DEF MediaInit, MediumAccounted, RowShape, ExecutionsKnown, ChecksHold, ShownReadable, ExpiryArmed,
           DeletionPosted, StrayOnly, StateOf, Unbound, Locked
<1>3. QED
    BY <1>1, <1>2 DEF MediaInv

-----------------------------------------------------------------------------
(* A step about one medium leaves the others as they are.                    *)

Untouched(m) ==
    /\ media'[m] = media[m]
    /\ m \in puts' => m \in puts
    /\ m \in kept' => m \in kept
    /\ m \in objects' <=> m \in objects
    /\ m \in expired <=> m \in expired'
    /\ m \in strays => m \in strays'
    /\ \A j \in jobs : j.media = m => j \in jobs'
    /\ \A x \in executions' : x.job.media = m => x \in executions
    /\ \A c \in checks' : c.media = m => c \in checks

LEMMA MediaRow ==
    ASSUME MediaInv, NEW m \in Media
    PROVE  media[m] \in Row /\ media \in [Media -> Row] /\ MediumAccounted(m)
BY DEF MediaInv, MediaTypeOK

LEMMA UntouchedAccounted ==
    ASSUME MediaInv, NEW m \in Media, Untouched(m)
    PROVE  MediumAccounted(m)'
<1>1. MediumAccounted(m)
    BY MediaRow
<1>2. StateOf(m)' = StateOf(m)
    BY DEF StateOf, Untouched
<1>3. RowShape(m)'
    BY <1>1, <1>2 DEF MediumAccounted, RowShape, Untouched
<1>4. ExecutionsKnown(m)'
    BY <1>1, <1>2 DEF MediumAccounted, ExecutionsKnown, Untouched, Locked
<1>5. ChecksHold(m)'
    BY <1>1, <1>2 DEF MediumAccounted, ChecksHold, Untouched
<1>6. ShownReadable(m)' /\ StrayOnly(m)'
    BY <1>1, <1>2 DEF MediumAccounted, ShownReadable, StrayOnly, Untouched
<1>7. ExpiryArmed(m)' /\ DeletionPosted(m)'
    BY <1>1, <1>2 DEF MediumAccounted, ExpiryArmed, DeletionPosted, Untouched, ExpiryJob, DeleteJob
<1>8. QED
    BY <1>3, <1>4, <1>5, <1>6, <1>7 DEF MediumAccounted

LEMMA OneMedium ==
    ASSUME MediaInv, MediaTypeOK', NEW m, MediumAccounted(m)',
           \A n \in Media : n # m => Untouched(n)
    PROVE  MediaInv'
<1>1. ASSUME NEW n \in Media PROVE MediumAccounted(n)'
    <2>1. CASE n = m
        BY <2>1
    <2>2. CASE n # m
        BY <2>2, UntouchedAccounted
    <2>3. QED
        BY <2>1, <2>2
<1>2. QED
    BY <1>1 DEF MediaInv

LEMMA NoMedium ==
    ASSUME MediaInv, MediaTypeOK', \A n \in Media : Untouched(n)
    PROVE  MediaInv'
BY UntouchedAccounted DEF MediaInv

\* A row is written, and nothing else but what belongs to its medium.
Writes(m, row) == row \in Row /\ media' = [media EXCEPT ![m] = row]

LEMMA RowWritten ==
    ASSUME MediaInv, NEW m \in Media, NEW row, Writes(m, row)
    PROVE  /\ media' \in [Media -> Row] /\ media'[m] = row /\ StateOf(m)' = row.state
           /\ \A n \in Media : n # m => media'[n] = media[n]
BY MediaRow DEF Writes, StateOf

-----------------------------------------------------------------------------
(* The API.                                                                  *)

LEMMA PermissionChanged ==
    ASSUME MediaInv, ChangeSendMedia
    PROVE  MediaInv'
<1>1. MediaTypeOK'
    BY DEF ChangeSendMedia, MediaInv, MediaTypeOK
<1>2. \A n \in Media : Untouched(n)
    BY DEF ChangeSendMedia, Untouched
<1>3. QED
    BY <1>1, <1>2, NoMedium

LEMMA UploadCreated ==
    ASSUME MediaInv, NEW m \in Media, CreateUpload(m)
    PROVE  MediaInv'
<1> DEFINE row == [state |-> "uploading", place |-> "none", upload |-> 1, deletion |-> 1, past |-> FALSE]
<1>1. Writes(m, row)
    BY UploadsAssumption DEF CreateUpload, Writes, Row, States, Places
<1>2. /\ media' \in [Media -> Row] /\ media'[m] = row /\ StateOf(m)' = "uploading"
      /\ \A n \in Media : n # m => media'[n] = media[n]
    BY <1>1, RowWritten
<1>3. ExpiryJob(m, 1) \in Job
    BY UploadsAssumption DEF ExpiryJob, Job
<1>4. MediaTypeOK'
    BY <1>2, <1>3 DEF CreateUpload, MediaInv, MediaTypeOK
<1>5. \A n \in Media : n # m => Untouched(n)
    BY <1>2 DEF CreateUpload, Untouched
<1>6. MediumAccounted(m) /\ StateOf(m) = "absent"
    BY MediaRow DEF CreateUpload, StateOf
<1>7. RowShape(m)'
    BY <1>2, <1>6, UploadsAssumption DEF MediumAccounted, RowShape, CreateUpload
<1>8. ExecutionsKnown(m)' /\ ChecksHold(m)'
    BY <1>2, <1>6 DEF MediumAccounted, ExecutionsKnown, ChecksHold, CreateUpload, Locked
<1>9. ShownReadable(m)' /\ StrayOnly(m)' /\ DeletionPosted(m)' /\ ExpiryArmed(m)'
    BY <1>2, <1>6 DEF MediumAccounted, RowShape, ShownReadable, StrayOnly, DeletionPosted, ExpiryArmed, CreateUpload, StateOf
<1>10. QED
    BY <1>4, <1>5, <1>7, <1>8, <1>9, OneMedium DEF MediumAccounted

LEMMA UploadRefreshed ==
    ASSUME MediaInv, NEW m \in Media, RefreshUpload(m)
    PROVE  MediaInv'
<1> DEFINE row == [media[m] EXCEPT !.upload = @ + 1, !.past = FALSE]
<1>1. MediumAccounted(m) /\ media[m] \in Row /\ StateOf(m) = "uploading"
    BY MediaRow DEF RefreshUpload, StateOf
<1>2. media[m].upload \in 1 .. MaxUploads /\ media[m].upload + 1 \in 1 .. MaxUploads
    BY <1>1, UploadsAssumption DEF MediumAccounted, RowShape, RefreshUpload
<1>3. /\ row \in Row /\ row.state = "uploading" /\ row.upload = media[m].upload + 1
      /\ row.deletion = media[m].deletion
    <2>1. row = [state |-> media[m].state, place |-> media[m].place, upload |-> media[m].upload + 1,
                 deletion |-> media[m].deletion, past |-> FALSE]
        <3> DEFINE counted == [media[m] EXCEPT !.upload = media[m].upload + 1]
        <3>1. counted = [state |-> media[m].state, place |-> media[m].place, upload |-> media[m].upload + 1,
                         deletion |-> media[m].deletion, past |-> media[m].past]
            BY <1>1 DEF Row
        <3>2. row = [counted EXCEPT !.past = FALSE]
            BY Zenon
        <3> HIDE DEF counted, row
        <3>3. QED
            BY <3>1, <3>2
    <2> HIDE DEF row
    <2>2. QED
        BY <1>1, <1>2, <2>1 DEF Row, StateOf
<1>4. Writes(m, row)
    BY <1>3 DEF RefreshUpload, Writes
<1> HIDE DEF row
<1>5. /\ media' \in [Media -> Row] /\ media'[m] = row /\ StateOf(m)' = "uploading"
      /\ \A n \in Media : n # m => media'[n] = media[n]
    BY <1>3, <1>4, RowWritten
<1>6. ExpiryJob(m, media[m].upload + 1) \in Job
    BY <1>2, UploadsAssumption DEF ExpiryJob, Job
<1>7. MediaTypeOK'
    BY <1>5, <1>6 DEF RefreshUpload, MediaInv, MediaTypeOK
<1>8. \A n \in Media : n # m => Untouched(n)
    BY <1>5 DEF RefreshUpload, Untouched
<1>9. RowShape(m)'
    BY <1>1, <1>2, <1>3, <1>5 DEF MediumAccounted, RowShape, RefreshUpload, Unbound
<1>10. ExecutionsKnown(m)' /\ ChecksHold(m)'
    BY <1>1, <1>5 DEF MediumAccounted, ExecutionsKnown, ChecksHold, RefreshUpload, Locked
<1>11. ShownReadable(m)' /\ StrayOnly(m)' /\ DeletionPosted(m)'
    BY <1>1, <1>5 DEF MediumAccounted, ShownReadable, StrayOnly, DeletionPosted, RefreshUpload
<1>12. ExpiryArmed(m)'
    BY <1>3, <1>5 DEF ExpiryArmed, RefreshUpload
<1>13. QED
    BY <1>7, <1>8, <1>9, <1>10, <1>11, <1>12, OneMedium DEF MediumAccounted

LEMMA ObjectVerified ==
    ASSUME MediaInv, NEW m \in Media, VerifyObject(m)
    PROVE  MediaInv'
<1>1. MediumAccounted(m) /\ StateOf(m) = "uploading"
    BY MediaRow DEF VerifyObject, StateOf
<1>2. media[m].upload \in 1 .. MaxUploads
    BY <1>1 DEF MediumAccounted, RowShape
<1>3. MediaTypeOK'
    BY <1>2 DEF VerifyObject, MediaInv, MediaTypeOK
<1>4. \A n \in Media : n # m => Untouched(n)
    BY DEF VerifyObject, Untouched
<1>5. ChecksHold(m)'
    BY <1>1 DEF VerifyObject, MediumAccounted, ChecksHold, StateOf
<1>6. (RowShape(m) /\ ExecutionsKnown(m) /\ ShownReadable(m) /\ ExpiryArmed(m) /\ DeletionPosted(m) /\ StrayOnly(m))'
    BY <1>1 DEF VerifyObject, MediumAccounted, RowShape, ExecutionsKnown, ShownReadable, ExpiryArmed, DeletionPosted,
                StrayOnly, StateOf, Locked
<1>7. QED
    BY <1>3, <1>4, <1>5, <1>6, OneMedium DEF MediumAccounted

LEMMA UploadCompleted ==
    ASSUME MediaInv, NEW c \in checks, CompleteUpload(c)
    PROVE  MediaInv'
<1> DEFINE m == c.media
           row == [media[m] EXCEPT !.state = "ready_unbound", !.past = FALSE]
<1>1. m \in Media /\ checks' \subseteq checks
    BY DEF MediaInv, MediaTypeOK, CompleteUpload
<1>2. MediumAccounted(m) /\ media[m] \in Row
    BY <1>1, MediaRow
<1>3. CASE writable /\ media[m].state = "uploading" /\ media[m].upload = c.generation
    <2>1. /\ row \in Row /\ row.state = "ready_unbound" /\ row.upload = media[m].upload
          /\ row.deletion = media[m].deletion
        BY <1>2 DEF Row, States
    <2>2. Writes(m, row)
        BY <1>3, <2>1 DEF CompleteUpload, Writes
    <2> HIDE DEF row
    <2>3. /\ media' \in [Media -> Row] /\ media'[m] = row /\ StateOf(m)' = "ready_unbound"
          /\ \A n \in Media : n # m => media'[n] = media[n]
        BY <1>1, <2>1, <2>2, RowWritten
    <2>4. MediaTypeOK'
        BY <2>3 DEF CompleteUpload, MediaInv, MediaTypeOK
    <2>5. \A n \in Media : n # m => Untouched(n)
        BY <2>3 DEF CompleteUpload, Untouched
    <2>6. RowShape(m)'
        BY <1>2, <1>3, <2>1, <2>3 DEF MediumAccounted, RowShape, CompleteUpload, Unbound, StateOf
    <2>7. ExecutionsKnown(m)' /\ ChecksHold(m)'
        BY <1>1, <1>2, <1>3, <2>3 DEF MediumAccounted, ExecutionsKnown, ChecksHold, CompleteUpload, Locked, StateOf
    <2>8. ShownReadable(m)'
        BY <1>2, <1>3, <2>3 DEF MediumAccounted, RowShape, ChecksHold, ShownReadable, CompleteUpload, StateOf
    <2>9. ExpiryArmed(m)' /\ StrayOnly(m)' /\ DeletionPosted(m)'
        BY <1>2, <1>3, <2>1, <2>3 DEF MediumAccounted, ExpiryArmed, StrayOnly, DeletionPosted, CompleteUpload, StateOf, Unbound
    <2>10. QED
        BY <2>4, <2>5, <2>6, <2>7, <2>8, <2>9, OneMedium DEF MediumAccounted
<1>4. CASE ~ (writable /\ media[m].state = "uploading" /\ media[m].upload = c.generation)
    <2>1. media' = media
        BY <1>4 DEF CompleteUpload
    <2>2. MediaTypeOK'
        BY <2>1 DEF CompleteUpload, MediaInv, MediaTypeOK
    <2>3. \A n \in Media : Untouched(n)
        BY <2>1, <1>1 DEF CompleteUpload, Untouched
    <2>4. QED
        BY <2>2, <2>3, NoMedium
<1>5. QED
    BY <1>3, <1>4

LEMMA MediaBound ==
    ASSUME MediaInv, NEW m \in Media, NEW place \in Places, BindMedia(m, place)
    PROVE  MediaInv'
<1> DEFINE row == [media[m] EXCEPT !.state = "bound", !.place = place, !.past = FALSE]
<1>1. MediumAccounted(m) /\ media[m] \in Row /\ StateOf(m) = "ready_unbound" /\ media[m].state = "ready_unbound"
    BY MediaRow DEF BindMedia, StateOf
<1>2. row \in Row /\ row.state = "bound" /\ row.upload = media[m].upload /\ row.deletion = media[m].deletion
    BY <1>1 DEF Row, States
<1>3. Writes(m, row)
    BY <1>2 DEF BindMedia, Writes
<1> HIDE DEF row
<1>4. /\ media' \in [Media -> Row] /\ media'[m] = row /\ StateOf(m)' = "bound"
      /\ \A n \in Media : n # m => media'[n] = media[n]
    BY <1>2, <1>3, RowWritten
<1>5. MediaTypeOK'
    BY <1>4 DEF BindMedia, MediaInv, MediaTypeOK
<1>6. \A n \in Media : n # m => Untouched(n)
    BY <1>4 DEF BindMedia, Untouched
<1>7. RowShape(m)'
    BY <1>1, <1>2, <1>4 DEF MediumAccounted, RowShape, BindMedia, Unbound
<1>8. ExecutionsKnown(m)' /\ ChecksHold(m)'
    BY <1>1, <1>4 DEF MediumAccounted, ExecutionsKnown, ChecksHold, BindMedia, Locked
<1>9. (ShownReadable(m) /\ ExpiryArmed(m) /\ StrayOnly(m) /\ DeletionPosted(m))'
    BY <1>1, <1>4 DEF MediumAccounted, ShownReadable, ExpiryArmed, StrayOnly, DeletionPosted, BindMedia, Unbound
<1>10. QED
    BY <1>5, <1>6, <1>7, <1>8, <1>9, OneMedium DEF MediumAccounted

\* Whoever deletes unbound media, or the container of bound ones, posts the job of it.
LEMMA DeletionMarked ==
    ASSUME MediaInv, NEW m \in Media, MarkDeletionPending(m),
           \/ StateOf(m) \in Unbound /\ kept' = kept
           \/ StateOf(m) = "bound" /\ kept' = kept \ {m}
    PROVE  MediaInv'
<1> DEFINE row == [media[m] EXCEPT !.state = "deletion_pending", !.deletion = @ + 1]
<1>1. MediumAccounted(m) /\ media[m] \in Row
    BY MediaRow
<1>2. media[m].deletion = 1 /\ m \notin kept' /\ media[m].state # "absent" /\ kept' \subseteq kept
    BY <1>1 DEF MediumAccounted, RowShape, Unbound, StateOf
<1>3. row \in Row /\ row.state = "deletion_pending" /\ row.upload = media[m].upload /\ row.deletion = 2
    <2>1. row = [state |-> "deletion_pending", place |-> media[m].place, upload |-> media[m].upload,
                 deletion |-> media[m].deletion + 1, past |-> media[m].past]
        <3> DEFINE marked == [media[m] EXCEPT !.state = "deletion_pending"]
        <3>1. marked = [state |-> "deletion_pending", place |-> media[m].place, upload |-> media[m].upload,
                        deletion |-> media[m].deletion, past |-> media[m].past]
            BY <1>1 DEF Row
        <3>2. row = [marked EXCEPT !.deletion = media[m].deletion + 1]
            BY Zenon
        <3> HIDE DEF marked, row
        <3>3. QED
            BY <3>1, <3>2
    <2> HIDE DEF row
    <2>2. QED
        BY <1>1, <1>2, <2>1 DEF Row, States
<1>4. Writes(m, row)
    BY <1>3 DEF MarkDeletionPending, Writes
<1> HIDE DEF row
<1>5. /\ media' \in [Media -> Row] /\ media'[m] = row /\ StateOf(m)' = "deletion_pending"
      /\ \A n \in Media : n # m => media'[n] = media[n]
    BY <1>3, <1>4, RowWritten
<1>6. DeleteJob(m, 2) \in Job /\ jobs' = jobs \cup {DeleteJob(m, 2)}
    BY <1>2, UploadsAssumption DEF DeleteJob, Job, MarkDeletionPending
<1>7. MediaTypeOK'
    BY <1>2, <1>5, <1>6 DEF MarkDeletionPending, MediaInv, MediaTypeOK
<1>8. \A n \in Media : n # m => Untouched(n)
    BY <1>2, <1>5 DEF MarkDeletionPending, Untouched
<1>9. RowShape(m)'
    BY <1>1, <1>2, <1>3, <1>5 DEF MediumAccounted, RowShape, MarkDeletionPending, Unbound, StateOf
<1>10. ExecutionsKnown(m)' /\ ChecksHold(m)'
    BY <1>1, <1>2, <1>5 DEF MediumAccounted, ExecutionsKnown, ChecksHold, MarkDeletionPending, Locked, StateOf
<1>11. (ShownReadable(m) /\ ExpiryArmed(m) /\ StrayOnly(m) /\ DeletionPosted(m))'
    BY <1>2, <1>3, <1>5, <1>6 DEF ShownReadable, ExpiryArmed, StrayOnly, DeletionPosted, Unbound
<1>12. QED
    BY <1>7, <1>8, <1>9, <1>10, <1>11, OneMedium DEF MediumAccounted

LEMMA DeletionRequested ==
    ASSUME MediaInv, NEW m \in Media, DeleteUnbound(m) \/ DeleteMessageMedia(m) \/ RevokeItemMedia(m)
    PROVE  MediaInv'
BY DeletionMarked DEF DeleteUnbound, DeleteMessageMedia, RevokeItemMedia, DeleteContainer, StateOf

-----------------------------------------------------------------------------
(* The device, the store and the clock.                                      *)

LEMMA ObjectPut ==
    ASSUME MediaInv, NEW m \in Media, PutObject(m)
    PROVE  MediaInv'
<1>1. MediumAccounted(m) /\ m \in puts
    BY MediaRow DEF PutObject
<1>2. MediaTypeOK'
    BY DEF PutObject, MediaInv, MediaTypeOK
<1>3. \A n \in Media : n # m => Untouched(n)
    BY DEF PutObject, Untouched
<1>4. StrayOnly(m)' /\ ExecutionsKnown(m)'
    BY <1>1 DEF PutObject, MediumAccounted, RowShape, StrayOnly, ExecutionsKnown, Locked, StateOf
<1>5. RowShape(m)' /\ ChecksHold(m)' /\ ShownReadable(m)' /\ ExpiryArmed(m)' /\ DeletionPosted(m)'
    BY <1>1 DEF PutObject, MediumAccounted, RowShape, ChecksHold, ShownReadable, ExpiryArmed, DeletionPosted, StateOf
<1>6. QED
    BY <1>2, <1>3, <1>4, <1>5, OneMedium DEF MediumAccounted

LEMMA PutExpired ==
    ASSUME MediaInv, NEW m \in Media, PutExpires(m)
    PROVE  MediaInv'
<1>1. MediaTypeOK'
    BY DEF PutExpires, MediaInv, MediaTypeOK
<1>2. \A n \in Media : Untouched(n)
    BY DEF PutExpires, Untouched
<1>3. QED
    BY <1>1, <1>2, NoMedium

LEMMA DeadlinePassed ==
    ASSUME MediaInv, NEW m \in Media, DeadlinePasses(m)
    PROVE  MediaInv'
<1> DEFINE row == [media[m] EXCEPT !.past = TRUE]
<1>1. MediumAccounted(m) /\ media[m] \in Row
    BY MediaRow
<1>2. /\ row \in Row /\ row.state = media[m].state /\ row.upload = media[m].upload
      /\ row.deletion = media[m].deletion
    BY <1>1 DEF Row
<1>3. Writes(m, row)
    BY <1>2 DEF DeadlinePasses, Writes
<1> HIDE DEF row
<1>4. /\ media' \in [Media -> Row] /\ media'[m] = row /\ StateOf(m)' = StateOf(m)
      /\ \A n \in Media : n # m => media'[n] = media[n]
    BY <1>2, <1>3, RowWritten DEF StateOf
<1>5. MediaTypeOK'
    BY <1>4 DEF DeadlinePasses, MediaInv, MediaTypeOK
<1>6. \A n \in Media : n # m => Untouched(n)
    BY <1>4 DEF DeadlinePasses, Untouched
<1>7. RowShape(m)' /\ ExpiryArmed(m)' /\ DeletionPosted(m)'
    BY <1>1, <1>2, <1>4 DEF MediumAccounted, RowShape, ExpiryArmed, DeletionPosted, DeadlinePasses
<1>8. ExecutionsKnown(m)' /\ ChecksHold(m)' /\ ShownReadable(m)' /\ StrayOnly(m)'
    BY <1>1, <1>4 DEF MediumAccounted, ExecutionsKnown, ChecksHold, ShownReadable, StrayOnly, DeadlinePasses, Locked
<1>9. QED
    BY <1>5, <1>6, <1>7, <1>8, OneMedium DEF MediumAccounted

-----------------------------------------------------------------------------
(* The worker.                                                               *)

LEMMA MediaJobs ==
    ASSUME MediaInv
    PROVE  /\ \A j \in jobs : j \in Job /\ j.media \in Media
           /\ \A x \in executions : x.job \in Job /\ x.job.media \in Media /\ x \in [job : Job, step : {"loaded", "erased"}]
BY DEF MediaInv, MediaTypeOK, Job

\* A job is removed that its medium does not need.
LEMMA JobDropped ==
    ASSUME MediaInv, MediaTypeOK', NEW j \in Job, jobs' = jobs \ {j},
           executions' \subseteq executions, UNCHANGED <<media, checks, objects, keyed, puts, writable, expired, kept, strays>>,
           StateOf(j.media) \in Unbound => j # ExpiryJob(j.media, media[j.media].upload),
           StateOf(j.media) = "deletion_pending" => j # DeleteJob(j.media, media[j.media].deletion)
    PROVE  MediaInv'
<1> DEFINE m == j.media
<1>1. m \in Media /\ MediumAccounted(m)
    BY MediaRow DEF Job
<1>2. \A n \in Media : n # m => Untouched(n)
    BY DEF Untouched
<1>3. ExpiryArmed(m)' /\ DeletionPosted(m)'
    BY <1>1 DEF MediumAccounted, ExpiryArmed, DeletionPosted, StateOf
<1>4. RowShape(m)' /\ ChecksHold(m)' /\ ShownReadable(m)' /\ StrayOnly(m)' /\ ExecutionsKnown(m)'
    BY <1>1 DEF MediumAccounted, RowShape, ChecksHold, ShownReadable, StrayOnly, ExecutionsKnown, Locked, StateOf
<1>5. QED
    BY <1>2, <1>3, <1>4, OneMedium DEF MediumAccounted

LEMMA StaleDropped ==
    ASSUME MediaInv, NEW j \in jobs, DropStale(j)
    PROVE  MediaInv'
<1>1. j \in Job
    BY MediaJobs
<1>2. MediaTypeOK'
    BY DEF DropStale, MediaInv, MediaTypeOK
<1>3. /\ StateOf(j.media) \in Unbound => j # ExpiryJob(j.media, media[j.media].upload)
      /\ StateOf(j.media) = "deletion_pending" => j # DeleteJob(j.media, media[j.media].deletion)
    BY DEF DropStale, Stale, ExpiryJob, DeleteJob, StateOf, Unbound
<1>4. QED
    BY <1>1, <1>2, <1>3, JobDropped DEF DropStale

LEMMA ExpiryAbandoned ==
    ASSUME MediaInv, NEW x \in executions, AbandonExpiry(x)
    PROVE  MediaInv'
<1>1. x.job \in Job
    BY MediaJobs
<1>2. MediaTypeOK'
    BY DEF AbandonExpiry, MediaInv, MediaTypeOK
<1>3. /\ StateOf(x.job.media) \in Unbound => x.job # ExpiryJob(x.job.media, media[x.job.media].upload)
      /\ StateOf(x.job.media) = "deletion_pending" => x.job # DeleteJob(x.job.media, media[x.job.media].deletion)
    BY DEF AbandonExpiry, Marks, Deletes, DeleteJob, StateOf
<1>4. executions' \subseteq executions
    BY DEF AbandonExpiry
<1>5. QED
    BY <1>1, <1>2, <1>3, <1>4, JobDropped DEF AbandonExpiry

LEMMA JobLoaded ==
    ASSUME MediaInv, NEW j \in jobs, LoadForExpiry(j) \/ LoadForDeletion(j)
    PROVE  MediaInv'
<1> DEFINE m == j.media
           x == [job |-> j, step |-> "loaded"]
<1>1. j \in Job /\ m \in Media /\ MediumAccounted(m)
    BY MediaJobs, MediaRow
<1>2. executions' = executions \cup {x} /\ x.job = j /\ x.step = "loaded"
    BY DEF LoadForExpiry, LoadForDeletion
<1>3. UNCHANGED <<media, jobs, checks, objects, keyed, puts, writable, kept, strays, rollBacks>>
    BY DEF LoadForExpiry, LoadForDeletion
<1>4. expired \subseteq expired' /\ expired' \subseteq expired \cup {m}
    BY DEF LoadForExpiry, LoadForDeletion
<1>5. IF Deletes(x) THEN StateOf(m) = "deletion_pending" ELSE m \in expired'
    BY DEF LoadForExpiry, LoadForDeletion, Expires, Stale, Deletes, StateOf
<1>6. MediaTypeOK'
    BY <1>1, <1>2, <1>3, <1>4 DEF MediaInv, MediaTypeOK
<1> HIDE DEF x
<1>7. \A n \in Media : n # m => Untouched(n)
    BY <1>2, <1>3, <1>4 DEF Untouched
<1>8. ExecutionsKnown(m)'
    <2>1. Locked(m)' => Locked(m)
        BY <1>2 DEF Locked
    <2>2. \A y \in executions' :
             y.job.media = m => IF Deletes(y) THEN StateOf(m) \in {"deletion_pending", "deleted"} ELSE m \in expired'
        BY <1>1, <1>2, <1>4, <1>5 DEF MediumAccounted, ExecutionsKnown
    <2>3. QED
        BY <1>1, <1>3, <2>1, <2>2 DEF MediumAccounted, ExecutionsKnown, StateOf, Deletes
<1>9. StateOf(m) # "absent"
    BY DEF LoadForExpiry, LoadForDeletion, Expires, Stale, StateOf, Unbound
<1>10. (RowShape(m) /\ ChecksHold(m) /\ ShownReadable(m) /\ StrayOnly(m) /\ ExpiryArmed(m) /\ DeletionPosted(m))'
    BY <1>1, <1>3, <1>4, <1>9 DEF MediumAccounted, RowShape, ChecksHold, ShownReadable, StrayOnly, ExpiryArmed,
                            DeletionPosted, StateOf
<1>11. QED
    BY <1>6, <1>7, <1>8, <1>10, OneMedium DEF MediumAccounted

\* Once the object is erased only a late upload can bring another; what the erasure takes
\* from is being deleted or its expiry is on record.
LEMMA ObjectErased ==
    ASSUME MediaInv, NEW x \in executions, EraseMedia(x)
    PROVE  MediaInv'
<1> DEFINE m == x.job.media
           y == [x EXCEPT !.step = "erased"]
<1>1. x.job \in Job /\ m \in Media /\ MediumAccounted(m) /\ x \in [job : Job, step : {"loaded", "erased"}]
    BY MediaJobs, MediaRow
<1>2. y \in [job : Job, step : {"loaded", "erased"}] /\ y.job = x.job
    BY <1>1
<1>3. executions' = (executions \ {x}) \cup {y}
    BY DEF EraseMedia
<1>4. MediaTypeOK'
    BY <1>2, <1>3 DEF EraseMedia, MediaInv, MediaTypeOK
<1> HIDE DEF y
<1>5. \A n \in Media : n # m => Untouched(n)
    BY <1>2, <1>3 DEF EraseMedia, Untouched
<1>6. m \notin objects' /\ media' = media /\ expired' = expired /\ kept' = kept
    BY DEF EraseMedia
<1>7. StateOf(m) \in {"deletion_pending", "deleted"} \/ m \in expired
    BY <1>1 DEF MediumAccounted, ExecutionsKnown
<1>8. ExecutionsKnown(m)'
    BY <1>1, <1>2, <1>3, <1>6 DEF MediumAccounted, ExecutionsKnown, Deletes, StateOf
<1>9. ChecksHold(m)' /\ ShownReadable(m)' /\ StrayOnly(m)'
    BY <1>1, <1>6, <1>7 DEF EraseMedia, MediumAccounted, RowShape, ChecksHold, ShownReadable, StrayOnly, StateOf
<1>10. RowShape(m)' /\ ExpiryArmed(m)' /\ DeletionPosted(m)'
    BY <1>1 DEF EraseMedia, MediumAccounted, RowShape, ExpiryArmed, DeletionPosted, StateOf
<1>11. QED
    BY <1>4, <1>5, <1>8, <1>9, <1>10, OneMedium DEF MediumAccounted

LEMMA ErasureCommitted ==
    ASSUME MediaInv, NEW x \in executions, CommitErasure(x)
    PROVE  MediaInv'
<1> DEFINE m == x.job.media
           row == [media[m] EXCEPT !.state = "deleted"]
<1>1. x.job \in Job /\ m \in Media /\ MediumAccounted(m) /\ media[m] \in Row
    BY MediaJobs, MediaRow
<1>2. row \in Row /\ row.state = "deleted" /\ row.upload = media[m].upload
    BY <1>1 DEF Row, States
<1>3. Writes(m, row)
    BY <1>2 DEF CommitErasure, Writes
<1> HIDE DEF row
<1>4. /\ media' \in [Media -> Row] /\ media'[m] = row /\ StateOf(m)' = "deleted"
      /\ \A n \in Media : n # m => media'[n] = media[n]
    BY <1>1, <1>2, <1>3, RowWritten
<1>5. MediaTypeOK'
    BY <1>4 DEF CommitErasure, MediaInv, MediaTypeOK
<1>6. \A n \in Media : n # m => Untouched(n)
    BY <1>4 DEF CommitErasure, Untouched
<1>7. Locked(m)
    BY DEF CommitErasure, Locked
<1>8. StateOf(m) \in {"deletion_pending", "deleted"} \/ m \in expired
    BY <1>1 DEF MediumAccounted, ExecutionsKnown
<1>9. StateOf(m) # "absent"
    BY <1>1, <1>8 DEF MediumAccounted, RowShape
<1>10. RowShape(m)'
    BY <1>1, <1>2, <1>4, <1>9 DEF CommitErasure, MediumAccounted, RowShape, Unbound
<1>11. ExecutionsKnown(m)' /\ ChecksHold(m)'
    BY <1>1, <1>4, <1>7 DEF CommitErasure, MediumAccounted, ExecutionsKnown, ChecksHold, Locked
<1>12. ShownReadable(m)' /\ StrayOnly(m)' /\ ExpiryArmed(m)' /\ DeletionPosted(m)'
    BY <1>1, <1>4, <1>7, <1>8 DEF CommitErasure, MediumAccounted, RowShape, ExecutionsKnown, ShownReadable, StrayOnly,
                                  ExpiryArmed, DeletionPosted, Unbound
<1>13. QED
    BY <1>5, <1>6, <1>10, <1>11, <1>12, OneMedium DEF MediumAccounted

LEMMA ErasureRolledBack ==
    ASSUME MediaInv, NEW x \in executions, RollBackErasure(x)
    PROVE  MediaInv'
<1>1. MediaTypeOK'
    BY UploadsAssumption DEF RollBackErasure, MediaInv, MediaTypeOK
<1>2. \A n \in Media : Untouched(n)
    BY DEF RollBackErasure, Untouched
<1>3. QED
    BY <1>1, <1>2, NoMedium

-----------------------------------------------------------------------------

LEMMA MediaStep == MediaInv /\ [MediaNext]_mediaVars => MediaInv'
<1> SUFFICES ASSUME MediaInv, [MediaNext]_mediaVars
             PROVE  MediaInv'
    OBVIOUS
<1>1. CASE ChangeSendMedia
    BY <1>1, PermissionChanged
<1>2. ASSUME NEW m \in Media, CreateUpload(m) \/ RefreshUpload(m) \/ VerifyObject(m)
      PROVE  MediaInv'
    BY <1>2, UploadCreated, UploadRefreshed, ObjectVerified
<1>3. ASSUME NEW m \in Media, BindToMessage(m) \/ BindToItem(m)
      PROVE  MediaInv'
    BY <1>3, MediaBound DEF BindToMessage, BindToItem, Places
<1>4. ASSUME NEW m \in Media, DeleteUnbound(m) \/ DeleteMessageMedia(m) \/ RevokeItemMedia(m)
      PROVE  MediaInv'
    BY <1>4, DeletionRequested
<1>5. ASSUME NEW m \in Media, PutObject(m) \/ PutExpires(m) \/ DeadlinePasses(m)
      PROVE  MediaInv'
    BY <1>5, ObjectPut, PutExpired, DeadlinePassed
<1>6. ASSUME NEW c \in checks, CompleteUpload(c)
      PROVE  MediaInv'
    BY <1>6, UploadCompleted
<1>7. ASSUME NEW j \in jobs, DropStale(j) \/ LoadForExpiry(j) \/ LoadForDeletion(j)
      PROVE  MediaInv'
    BY <1>7, StaleDropped, JobLoaded
<1>8. ASSUME NEW x \in executions, EraseMedia(x) \/ AbandonExpiry(x) \/ CommitErasure(x) \/ RollBackErasure(x)
      PROVE  MediaInv'
    BY <1>8, ObjectErased, ExpiryAbandoned, ErasureCommitted, ErasureRolledBack
<1>9. CASE UNCHANGED mediaVars
    <2>1. MediaTypeOK'
        BY <1>9 DEF mediaVars, MediaInv, MediaTypeOK
    <2>2. \A n \in Media : Untouched(n)
        BY <1>9 DEF mediaVars, Untouched
    <2>3. QED
        BY <2>1, <2>2, NoMedium
<1>10. QED
    BY <1>1, <1>2, <1>3, <1>4, <1>5, <1>6, <1>7, <1>8, <1>9 DEF MediaNext

-----------------------------------------------------------------------------
(* ClientFeed.                                                               *)

SyncRow == [status : {"idle", "syncing", "live", "offline"}, dirty : BOOLEAN, hinted : 0 .. MaxChanges,
            target : 0 .. MaxChanges, running : BOOLEAN, replaying : BOOLEAN, rerun : BOOLEAN, retry : BOOLEAN]

Covered(n) == 1 .. n \subseteq view \cup skipped

\* Everything up to the cursor is shown or was passed over, and so is what a fetched page follows.
CursorCovered ==
    /\ Covered(cursor)
    /\ \A p \in Pullers : pulls[p].step = "fetched" => Covered(pulls[p].from)

\* What a run without news aims at is what it was told of, and once it replays, it is shown.
RunCovered(s) ==
    /\ s.running /\ ~ s.dirty => s.target = s.hinted
    /\ s.replaying => s.running /\ (~ s.dirty => Covered(s.hinted))
    /\ s.status = "live" => ~ s.running /\ Covered(s.hinted)

FeedInv == FeedTypeOK /\ CursorCovered /\ RunCovered(sync)

LEMMA FeedInvLive == FeedInv => LiveIsCurrent
BY DEF FeedInv, RunCovered, Covered, LiveIsCurrent

LEMMA FeedInvInit == FeedInit => FeedInv
<1> SUFFICES ASSUME FeedInit PROVE FeedInv
    OBVIOUS
<1>1. FeedTypeOK
    BY ChangesAssumption DEF FeedInit, FeedTypeOK, Pull, NoPull
<1>2. CursorCovered /\ RunCovered(sync)
    BY DEF FeedInit, CursorCovered, RunCovered, Covered, NoPull
<1>3. QED
    BY <1>1, <1>2 DEF FeedInv

-----------------------------------------------------------------------------
(* The coordinator's operations on its own row.                              *)

LEMMA LargerBound ==
    ASSUME NEW m \in 0 .. MaxChanges, NEW n \in 0 .. MaxChanges
    PROVE  Larger(m, n) \in 0 .. MaxChanges /\ Larger(m, n) >= m /\ Larger(m, n) >= n
BY ChangesAssumption DEF Larger

LEMMA Marked ==
    ASSUME NEW s \in SyncRow, NEW n \in 0 .. MaxChanges
    PROVE  /\ MarkDirty(s, n) \in SyncRow /\ MarkDirty(s, n).dirty
           /\ MarkDirty(s, n).running = s.running /\ MarkDirty(s, n).replaying = s.replaying
           /\ MarkDirty(s, n).status = s.status
<1> DEFINE dirtied == [s EXCEPT !.dirty = TRUE]
           m == Larger(s.hinted, n)
<1>1. dirtied \in SyncRow /\ dirtied.dirty /\ dirtied.running = s.running /\ dirtied.replaying = s.replaying
      /\ dirtied.status = s.status
    BY DEF SyncRow
<1>2. m \in 0 .. MaxChanges
    BY LargerBound DEF SyncRow
<1>3. MarkDirty(s, n) = [dirtied EXCEPT !.hinted = m]
    BY Zenon DEF MarkDirty
<1> HIDE DEF dirtied, m
<1>4. QED
    BY <1>1, <1>2, <1>3 DEF SyncRow

LEMMA Begun ==
    ASSUME NEW s \in SyncRow
    PROVE  /\ BeginPass(s) \in SyncRow /\ BeginPass(s).status = "syncing" /\ BeginPass(s).target = s.hinted
           /\ BeginPass(s).hinted = s.hinted /\ ~ BeginPass(s).dirty /\ BeginPass(s).running
           /\ ~ BeginPass(s).replaying
BY DEF BeginPass, SyncRow

LEMMA BegunCovered ==
    ASSUME NEW s \in SyncRow
    PROVE  BeginPass(s) \in SyncRow /\ RunCovered(BeginPass(s))'
BY Begun DEF RunCovered

\* A row that may still have to be told of a change it does not show.
RunAims(s) ==
    /\ s.running /\ ~ s.dirty => s.target = s.hinted
    /\ s.replaying => s.running /\ (~ s.dirty => Covered(s.hinted))
    /\ s.status = "live" => ~ s.running

\* No pull is given a page.
PullsKept ==
    /\ pulls' \in [Pullers -> Pull]
    /\ \A p \in Pullers : pulls'[p].step = "fetched" => pulls'[p] = pulls[p]

SyncKept == sync' \in SyncRow /\ RunCovered(sync)'

LEMMA PullStarted ==
    ASSUME FeedInv, NEW p \in Pullers,
           \/ pulls' = [pulls EXCEPT ![p] = [NoPull EXCEPT !.step = "pulling"]]
           \/ pulls' = [pulls EXCEPT ![p] = NoPull]
           \/ pulls' = pulls
    PROVE  PullsKept
<1> DEFINE pulling == [NoPull EXCEPT !.step = "pulling"]
<1>1. pulling \in Pull /\ pulling.step = "pulling" /\ NoPull \in Pull /\ NoPull.step = "none"
    BY ChangesAssumption DEF NoPull, Pull
<1>2. pulls \in [Pullers -> Pull]
    BY DEF FeedInv, FeedTypeOK
<1> HIDE DEF pulling
<1>3. CASE pulls' = [pulls EXCEPT ![p] = pulling]
    BY <1>1, <1>2, <1>3 DEF PullsKept
<1>4. CASE pulls' = [pulls EXCEPT ![p] = NoPull]
    BY <1>1, <1>2, <1>4 DEF PullsKept
<1>5. CASE pulls' = pulls
    BY <1>2, <1>5 DEF PullsKept
<1>6. QED
    BY <1>3, <1>4, <1>5 DEF pulling

LEMMA SyncRequested ==
    ASSUME FeedInv, NEW s \in SyncRow, RunAims(s), RequestSync(s), view' = view, skipped' = skipped
    PROVE  SyncKept /\ PullsKept
<1>1. PullsKept
    BY PullStarted DEF RequestSync, Pullers
<1>2. CASE ~ online
    <2>1. sync' = [s EXCEPT !.status = "offline"]
        BY <1>2 DEF RequestSync
    <2>2. QED
        BY <1>1, <2>1 DEF SyncKept, SyncRow, RunCovered, RunAims, Covered
<1>3. CASE online /\ s.running
    <2>1. sync' = [s EXCEPT !.rerun = TRUE]
        BY <1>3 DEF RequestSync
    <2>2. QED
        BY <1>1, <1>3, <2>1 DEF SyncKept, SyncRow, RunCovered, RunAims, Covered
<1>4. CASE online /\ ~ s.running
    <2>1. sync' = BeginPass(s)
        BY <1>4 DEF RequestSync
    <2>2. QED
        BY <1>1, <2>1, BegunCovered DEF SyncKept, RunCovered, Covered
<1>5. QED
    BY <1>2, <1>3, <1>4

LEMMA RunEnded ==
    ASSUME FeedInv, NEW s \in SyncRow, EndRun(s), s.status = "live" => Covered(s.hinted),
           view' = view, skipped' = skipped
    PROVE  SyncKept /\ PullsKept
<1> DEFINE over == [s EXCEPT !.running = FALSE, !.replaying = FALSE, !.rerun = FALSE, !.target = 0]
<1>1. /\ over \in SyncRow /\ over.hinted = s.hinted /\ over.status = s.status
      /\ ~ over.running /\ ~ over.replaying
    <2>1. 0 \in 0 .. MaxChanges
        BY ChangesAssumption
    <2>2. QED
        BY <2>1 DEF SyncRow
<1>2. PullsKept
    BY PullStarted DEF EndRun, Pullers
<1>3. \/ sync' = BeginPass(over)
      \/ sync' = [over EXCEPT !.status = "offline"]
      \/ sync' = over
    BY DEF EndRun
<1> HIDE DEF over
<1>4. CASE sync' = BeginPass(over)
    BY <1>1, <1>2, <1>4, BegunCovered DEF SyncKept, RunCovered, Covered
<1>5. CASE sync' = [over EXCEPT !.status = "offline"]
    BY <1>1, <1>2, <1>5 DEF SyncKept, SyncRow, RunCovered
<1>6. CASE sync' = over
    BY <1>1, <1>2, <1>6 DEF SyncKept, RunCovered, Covered
<1>7. QED
    BY <1>3, <1>4, <1>5, <1>6

-----------------------------------------------------------------------------
(* Steps.                                                                    *)

OthersTyped ==
    /\ feed' \in Seq({"message", "edit"}) /\ Len(feed') <= MaxChanges
    /\ socket' \in {"closed", "connecting", "loaded", "ready"} /\ loaded' \in 0 .. MaxChanges
    /\ frames' \subseteq Changes /\ online' \in BOOLEAN
    /\ posted' \in 0 .. MaxChanges /\ mishaps' \in 0 .. MaxMishaps

LEMMA FeedTypes ==
    ASSUME FeedInv
    PROVE  /\ sync \in SyncRow /\ RunCovered(sync) /\ RunAims(sync) /\ CursorCovered
           /\ feed \in Seq({"message", "edit"}) /\ Len(feed) \in 0 .. MaxChanges
           /\ pulls \in [Pullers -> Pull] /\ cursor \in 0 .. MaxChanges /\ posted \in 0 .. MaxChanges
           /\ loaded \in 0 .. MaxChanges /\ view \subseteq Changes /\ skipped \subseteq Changes
           /\ mishaps \in 0 .. MaxMishaps
BY ChangesAssumption DEF FeedInv, FeedTypeOK, SyncRow, RunCovered, RunAims

\* The screen does not change.
LEMMA ScreenKept ==
    ASSUME FeedInv, OthersTyped, SyncKept, PullsKept, UNCHANGED <<view, cursor, skipped>>
    PROVE  FeedInv'
<1>1. FeedTypeOK'
    BY DEF FeedInv, FeedTypeOK, OthersTyped, SyncKept, PullsKept, SyncRow
<1>2. CursorCovered'
    BY DEF FeedInv, CursorCovered, Covered, PullsKept
<1>3. QED
    BY <1>1, <1>2 DEF FeedInv, SyncKept

\* More is shown or passed over, and the coordinator does nothing.
LEMMA ScreenGrows ==
    ASSUME FeedInv, OthersTyped, sync' = sync, pulls' \in [Pullers -> Pull],
           view \subseteq view', skipped \subseteq skipped', view' \subseteq Changes, skipped' \subseteq Changes,
           cursor' \in 0 .. MaxChanges, CursorCovered'
    PROVE  FeedInv'
<1>1. FeedTypeOK'
    BY FeedTypes DEF FeedInv, FeedTypeOK, OthersTyped
<1>2. RunCovered(sync)'
    BY DEF FeedInv, RunCovered, Covered
<1>3. QED
    BY <1>1, <1>2 DEF FeedInv

LEMMA OthersKept ==
    ASSUME FeedInv, UNCHANGED <<feed, socket, loaded, frames, online, posted>>, mishaps' = mishaps \/ Mishap
    PROVE  OthersTyped
BY ChangesAssumption DEF FeedInv, FeedTypeOK, OthersTyped, Mishap

LEMMA SyncSame ==
    ASSUME FeedInv, sync' = sync, view' = view, skipped' = skipped
    PROVE  SyncKept
BY FeedTypes DEF SyncKept, RunCovered, Covered

LEMMA CommitTyped ==
    ASSUME FeedInv, NEW kind \in {"message", "edit"}, Commit(kind)
    PROVE  /\ feed' \in Seq({"message", "edit"}) /\ Len(feed') <= MaxChanges
           /\ frames' \subseteq Changes /\ Len(feed) + 1 \in Changes
<1>1. feed \in Seq({"message", "edit"}) /\ Len(feed) \in 0 .. MaxChanges /\ Len(feed) < MaxChanges
    BY FeedTypes DEF Commit
<1>2. feed' = Append(feed, kind) /\ Len(feed') = Len(feed) + 1 /\ feed' \in Seq({"message", "edit"})
    BY <1>1 DEF Commit
<1>3. Len(feed) + 1 \in Changes
    BY <1>1, ChangesAssumption DEF Changes
<1>4. QED
    BY <1>1, <1>2, <1>3, ChangesAssumption DEF Commit, FeedInv, FeedTypeOK

LEMMA ServerSteps ==
    ASSUME FeedInv, PartnerChanges \/ SendMessage
    PROVE  FeedInv'
<1>1. PICK kind \in {"message", "edit"} : Commit(kind)
    BY DEF PartnerChanges, SendMessage
<1>2. /\ feed' \in Seq({"message", "edit"}) /\ Len(feed') <= MaxChanges
      /\ frames' \subseteq Changes /\ Len(feed) + 1 \in Changes
    BY <1>1, CommitTyped
<1>3. OthersTyped
    BY <1>2, ChangesAssumption, SMTT(20) DEF PartnerChanges, SendMessage, OthersTyped, FeedInv, FeedTypeOK, Changes
<1>4. SyncKept /\ PullsKept
    BY SyncSame, PullStarted DEF PartnerChanges, SendMessage, Pullers
<1>5. QED
    BY <1>3, <1>4, ScreenKept DEF PartnerChanges, SendMessage

\* What the cursor passes over is counted as skipped.
LEMMA AnswerStep ==
    ASSUME FeedInv, MessageAnswered
    PROVE  FeedInv'
<1>1. posted \in 1 .. MaxChanges /\ cursor \in 0 .. MaxChanges
    BY FeedTypes DEF MessageAnswered
<1>2. view' = view \cup {posted} /\ skipped' = skipped \cup ((cursor + 1 .. posted) \ view')
    BY DEF MessageAnswered
<1>3. view' \subseteq Changes /\ skipped' \subseteq Changes
    BY <1>1, <1>2, FeedTypes, ChangesAssumption DEF Changes
<1>4. cursor' = Larger(cursor, posted) /\ cursor' \in 0 .. MaxChanges
    BY <1>1, LargerBound DEF MessageAnswered
<1>5. OthersTyped
    BY ChangesAssumption DEF MessageAnswered, OthersTyped, FeedInv, FeedTypeOK
<1>6. CursorCovered'
    <2>1. Covered(cursor)
        BY FeedTypes DEF CursorCovered
    <2>2. ASSUME NEW n \in 1 .. cursor' PROVE n \in view' \cup skipped'
        <3>1. n \in 1 .. cursor \/ n \in cursor + 1 .. posted
            BY <1>1, <1>4 DEF Larger
        <3>2. QED
            BY <1>2, <2>1, <3>1 DEF Covered
    <2>3. \A p \in Pullers : pulls[p].step = "fetched" => Covered(pulls[p].from)'
        BY <1>2, FeedTypes DEF CursorCovered, Covered, MessageAnswered
    <2>4. QED
        BY <2>2, <2>3 DEF CursorCovered, Covered, MessageAnswered
<1>7. pulls' = pulls /\ sync' = sync /\ pulls' \in [Pullers -> Pull]
    BY FeedTypes DEF MessageAnswered
<1>8. QED
    BY <1>2, <1>3, <1>4, <1>5, <1>6, <1>7, ScreenGrows

LEMMA LostAnswerStep ==
    ASSUME FeedInv, AnswerLost
    PROVE  FeedInv'
<1>1. OthersTyped
    BY ChangesAssumption DEF AnswerLost, OthersTyped, FeedInv, FeedTypeOK
<1>2. SyncKept /\ PullsKept
    BY SyncSame, PullStarted DEF AnswerLost, Pullers
<1>3. QED
    BY <1>1, <1>2, ScreenKept DEF AnswerLost

LEMMA MarkedAims ==
    ASSUME FeedInv, NEW n \in 0 .. MaxChanges
    PROVE  MarkDirty(sync, n) \in SyncRow /\ RunAims(MarkDirty(sync, n))
BY FeedTypes, Marked DEF RunAims

\* Every hint and every new connection marks the row and asks for a run.
LEMMA HintSteps ==
    ASSUME FeedInv, ReadyFrame \/ ListenerReset \/ AntiEntropy \/ (\E n \in Changes : ChangedFrame(n))
    PROVE  FeedInv'
<1>1. PICK n \in 0 .. MaxChanges : RequestSync(MarkDirty(sync, n))
    BY FeedTypes, ChangesAssumption DEF ReadyFrame, ListenerReset, AntiEntropy, ChangedFrame, Changes
<1>2. UNCHANGED <<view, cursor, skipped>>
    BY DEF ReadyFrame, ListenerReset, AntiEntropy, ChangedFrame
<1>3. SyncKept /\ PullsKept
    BY <1>1, <1>2, MarkedAims, SyncRequested
<1>4. OthersTyped
    BY ChangesAssumption DEF ReadyFrame, ListenerReset, AntiEntropy, ChangedFrame, Mishap, OthersTyped, FeedInv, FeedTypeOK
<1>5. QED
    BY <1>2, <1>3, <1>4, ScreenKept

LEMMA RetryStep ==
    ASSUME FeedInv, RetryTimer
    PROVE  FeedInv'
<1> DEFINE s == [sync EXCEPT !.retry = FALSE]
<1>1. s \in SyncRow /\ RunAims(s)
    BY FeedTypes DEF SyncRow, RunAims
<1> HIDE DEF s
<1>2. RequestSync(s) /\ UNCHANGED <<view, cursor, skipped>>
    BY DEF RetryTimer, s
<1>3. SyncKept /\ PullsKept
    BY <1>1, <1>2, SyncRequested
<1>4. OthersTyped
    BY OthersKept DEF RetryTimer
<1>5. QED
    BY <1>2, <1>3, <1>4, ScreenKept

LEMMA SocketSteps ==
    ASSUME FeedInv, Connect \/ LoadScope
    PROVE  FeedInv'
<1>1. OthersTyped
    BY FeedTypes, ChangesAssumption DEF Connect, LoadScope, OthersTyped, FeedInv, FeedTypeOK
<1>2. SyncKept /\ PullsKept
    BY SyncSame, PullStarted DEF Connect, LoadScope, Pullers
<1>3. QED
    BY <1>1, <1>2, ScreenKept DEF Connect, LoadScope

LEMMA OfflineSteps ==
    ASSUME FeedInv, CloseSocket \/ GoOffline
    PROVE  FeedInv'
<1>1. sync' = [sync EXCEPT !.status = "offline"] /\ UNCHANGED <<view, cursor, skipped, pulls>>
    BY DEF CloseSocket, GoOffline
<1>2. SyncKept /\ PullsKept
    BY <1>1, FeedTypes, PullStarted DEF SyncKept, SyncRow, RunCovered, Covered, Pullers
<1>3. OthersTyped
    <2>1. mishaps' \in 0 .. MaxMishaps /\ 0 \in 0 .. MaxChanges
        BY FeedTypes, ChangesAssumption DEF CloseSocket, GoOffline, Mishap
    <2>2. CASE CloseSocket
        BY <2>1, <2>2 DEF CloseSocket, OthersTyped, FeedInv, FeedTypeOK
    <2>3. CASE GoOffline
        BY <2>1, <2>3 DEF GoOffline, OthersTyped, FeedInv, FeedTypeOK
    <2>4. QED
        BY <2>2, <2>3
<1>4. QED
    BY <1>1, <1>2, <1>3, ScreenKept

LEMMA OnlineStep ==
    ASSUME FeedInv, GoOnline
    PROVE  FeedInv'
<1> DEFINE s == MarkDirty(sync, 0)
<1>1. s \in SyncRow /\ RunAims(s) /\ s.dirty
    BY MarkedAims, Marked, FeedTypes, ChangesAssumption
<1>2. UNCHANGED <<view, cursor, skipped>>
    BY DEF GoOnline
<1>3. PullsKept
    BY PullStarted DEF GoOnline, Pullers
<1>4. sync' = IF s.running THEN [s EXCEPT !.rerun = TRUE] ELSE BeginPass(s)
    BY DEF GoOnline
<1> HIDE DEF s
<1>5. OthersTyped
    BY DEF GoOnline, OthersTyped, FeedInv, FeedTypeOK
<1>6. SyncKept
    <2>1. ASSUME s.running PROVE SyncKept
        <3>1. sync' = [s EXCEPT !.rerun = TRUE]
            BY <1>4, <2>1
        <3>2. QED
            BY <1>1, <1>2, <2>1, <3>1 DEF SyncKept, SyncRow, RunCovered, RunAims, Covered
    <2>2. ASSUME ~ s.running PROVE SyncKept
        BY <1>1, <1>2, <1>4, <2>2, BegunCovered DEF SyncKept, RunCovered, Covered
    <2>3. QED
        BY <2>1, <2>2
<1>7. QED
    BY <1>2, <1>3, <1>5, <1>6, ScreenKept

\* A pass without news has reached what it aimed at, and that is all it was told of.
LEMMA ReconcileStep ==
    ASSUME FeedInv, EndReconcile
    PROVE  FeedInv'
<1>1. OthersTyped /\ PullsKept /\ UNCHANGED <<view, cursor, skipped>>
    BY OthersKept, PullStarted DEF EndReconcile, Pullers
<1>2. CASE sync.dirty \/ (sync.target > 0 /\ cursor < sync.target)
    <2>1. sync' = BeginPass(sync)
        BY <1>2 DEF EndReconcile
    <2>2. SyncKept
        BY <2>1, <1>1, FeedTypes, BegunCovered DEF SyncKept, RunCovered, Covered
    <2>3. QED
        BY <1>1, <2>2, ScreenKept
<1>3. CASE ~ (sync.dirty \/ (sync.target > 0 /\ cursor < sync.target))
    <2>1. sync' = [sync EXCEPT !.replaying = TRUE] /\ sync.running /\ ~ sync.dirty
        BY <1>3 DEF EndReconcile
    <2>2. sync.target = sync.hinted /\ sync.hinted \in 0 .. MaxChanges /\ cursor \in 0 .. MaxChanges
        BY <2>1, FeedTypes DEF RunCovered, SyncRow
    <2>3. Covered(sync.hinted)
        BY <1>3, <2>2, FeedTypes DEF CursorCovered, Covered
    <2>4. SyncKept
        BY <1>1, <2>1, <2>3, FeedTypes DEF SyncKept, SyncRow, RunCovered, Covered
    <2>5. QED
        BY <1>1, <2>4, ScreenKept
<1>4. QED
    BY <1>2, <1>3

LEMMA ReplaysStep ==
    ASSUME FeedInv, EndReplays
    PROVE  FeedInv'
<1>1. UNCHANGED <<view, cursor, skipped>> /\ OthersTyped
    BY OthersKept DEF EndReplays
<1>2. CASE CleanPass(sync)
    <2> DEFINE s == [sync EXCEPT !.status = "live"]
    <2>1. s \in SyncRow /\ Covered(s.hinted)
        BY <1>2, FeedTypes DEF EndReplays, CleanPass, SyncRow, RunCovered
    <2> HIDE DEF s
    <2>2. EndRun(s)
        BY <1>2 DEF EndReplays, s
    <2>3. SyncKept /\ PullsKept
        BY <1>1, <2>1, <2>2, RunEnded
    <2>4. QED
        BY <1>1, <2>3, ScreenKept
<1>3. CASE ~ CleanPass(sync)
    <2>1. sync' = BeginPass(sync)
        BY <1>3 DEF EndReplays
    <2>2. SyncKept
        BY <1>1, <2>1, FeedTypes, BegunCovered DEF SyncKept, RunCovered, Covered
    <2>3. PullsKept
        BY <1>3, PullStarted DEF EndReplays, Pullers
    <2>4. QED
        BY <1>1, <2>2, <2>3, ScreenKept
<1>4. QED
    BY <1>2, <1>3

LEMMA FailureStep ==
    ASSUME FeedInv, RunFails
    PROVE  FeedInv'
<1> DEFINE s == [sync EXCEPT !.retry = TRUE]
<1>1. s \in SyncRow /\ s.status # "live"
    BY FeedTypes DEF RunFails, SyncRow, RunCovered
<1> HIDE DEF s
<1>2. EndRun(s) /\ UNCHANGED <<view, cursor, skipped>> /\ OthersTyped
    BY OthersKept DEF RunFails, s
<1>3. SyncKept /\ PullsKept
    BY <1>1, <1>2, RunEnded
<1>4. QED
    BY <1>2, <1>3, ScreenKept

LEMMA PollSteps ==
    ASSUME FeedInv, PollChanges \/ PollFails
    PROVE  FeedInv'
<1>1. OthersTyped /\ SyncKept /\ UNCHANGED <<view, cursor, skipped>>
    BY OthersKept, SyncSame DEF PollChanges, PollFails
<1>2. PullsKept
    BY PullStarted DEF PollChanges, PollFails, Pullers
<1>3. QED
    BY <1>1, <1>2, ScreenKept

\* A page begins where everything before it is shown or was passed over.
LEMMA FetchStep ==
    ASSUME FeedInv, NEW p \in Pullers, FetchChanges(p)
    PROVE  FeedInv'
<1> DEFINE page == [step |-> "fetched", from |-> cursor, upto |-> Larger(cursor, Len(feed))]
<1>1. page \in Pull /\ page.from = cursor
    BY FeedTypes, LargerBound DEF Pull
<1>2. pulls' = [pulls EXCEPT ![p] = page]
    BY DEF FetchChanges
<1> HIDE DEF page
<1>3. pulls' \in [Pullers -> Pull]
    BY <1>1, <1>2, FeedTypes
<1>4. UNCHANGED <<view, cursor, skipped, sync>> /\ OthersTyped
    BY OthersKept DEF FetchChanges
<1>5. CursorCovered'
    BY <1>1, <1>2, <1>4, FeedTypes DEF CursorCovered, Covered
<1>6. QED
    BY <1>3, <1>4, <1>5, FeedTypes, ScreenGrows

LEMMA CommitStep ==
    ASSUME FeedInv, NEW p \in Pullers, CommitChanges(p)
    PROVE  FeedInv'
<1> DEFINE from == pulls[p].from
           upto == pulls[p].upto
           page == [NoPull EXCEPT !.step = "paging"]
<1>1. from \in 0 .. MaxChanges /\ upto \in 0 .. MaxChanges /\ Covered(from)
    BY FeedTypes DEF CommitChanges, Pull, CursorCovered
<1>2. page \in Pull /\ page.step = "paging"
    BY ChangesAssumption DEF NoPull, Pull
<1>3. pulls' = [pulls EXCEPT ![p] = page] /\ view' = view \cup (from + 1 .. upto)
      /\ cursor' = IF from < upto THEN upto ELSE cursor
    BY DEF CommitChanges
<1> HIDE DEF from, upto, page
<1>4. /\ pulls' \in [Pullers -> Pull]
      /\ \A r \in Pullers : pulls'[r].step = "fetched" => pulls'[r] = pulls[r]
    BY <1>2, <1>3, FeedTypes
<1>5. skipped' = skipped /\ sync' = sync /\ OthersTyped
    BY OthersKept DEF CommitChanges
<1>6. view' \subseteq Changes /\ cursor' \in 0 .. MaxChanges
    BY <1>1, <1>3, FeedTypes, ChangesAssumption DEF Changes
<1>7. Covered(cursor)'
    <2>1. CASE from < upto
        <3>1. ASSUME NEW n \in 1 .. upto PROVE n \in view' \cup skipped'
            <4>1. n \in 1 .. from \/ n \in from + 1 .. upto
                BY <1>1
            <4>2. QED
                BY <1>1, <1>3, <1>5, <4>1 DEF Covered
        <3>2. QED
            BY <1>3, <2>1, <3>1 DEF Covered
    <2>2. CASE ~ (from < upto)
        BY <1>3, <1>5, <2>2, FeedTypes DEF CursorCovered, Covered
    <2>3. QED
        BY <2>1, <2>2
<1>8. CursorCovered'
    BY <1>3, <1>4, <1>5, <1>7, FeedTypes DEF CursorCovered, Covered
<1>9. QED
    BY <1>3, <1>4, <1>5, <1>6, <1>8, FeedTypes, ScreenGrows

LEMMA HistoryStep ==
    ASSUME FeedInv, NEW p \in Pullers, PageHistory(p)
    PROVE  FeedInv'
<1> DEFINE read == IF p = "poll" THEN NoPull ELSE [pulls[p] EXCEPT !.step = "paged"]
<1>1. pulls[p] \in Pull /\ NoPull \in Pull /\ NoPull.step = "none"
    BY FeedTypes, ChangesAssumption DEF NoPull, Pull
<1>2. read \in Pull /\ read.step # "fetched"
    BY <1>1 DEF Pull
<1>3. pulls' = [pulls EXCEPT ![p] = read]
    BY FeedTypes DEF PageHistory
<1> HIDE DEF read
<1>4. /\ pulls' \in [Pullers -> Pull]
      /\ \A r \in Pullers : pulls'[r].step = "fetched" => pulls'[r] = pulls[r]
    BY <1>2, <1>3, FeedTypes
<1>5. NewerMessages \subseteq Changes
    BY FeedTypes, ChangesAssumption DEF NewerMessages, Changes
<1>6. view' = view \cup NewerMessages /\ skipped' = skipped /\ cursor' = cursor /\ sync' = sync /\ OthersTyped
    BY OthersKept DEF PageHistory
<1>7. CursorCovered'
    BY <1>4, <1>6, FeedTypes DEF CursorCovered, Covered
<1>8. QED
    BY <1>4, <1>5, <1>6, <1>7, FeedTypes, ScreenGrows

LEMMA FeedStep == FeedInv /\ [FeedNext]_feedVars => FeedInv'
<1> SUFFICES ASSUME FeedInv, [FeedNext]_feedVars
             PROVE  FeedInv'
    OBVIOUS
<1>1. CASE PartnerChanges \/ SendMessage
    BY <1>1, ServerSteps
<1>2. CASE MessageAnswered \/ AnswerLost
    BY <1>2, AnswerStep, LostAnswerStep
<1>3. CASE ReadyFrame \/ ListenerReset \/ AntiEntropy \/ (\E n \in Changes : ChangedFrame(n))
    BY <1>3, HintSteps
<1>4. CASE Connect \/ LoadScope \/ CloseSocket \/ GoOffline \/ GoOnline
    BY <1>4, SocketSteps, OfflineSteps, OnlineStep
<1>5. CASE EndReconcile \/ EndReplays \/ RunFails \/ RetryTimer
    BY <1>5, ReconcileStep, ReplaysStep, FailureStep, RetryStep
<1>6. CASE PollChanges \/ PollFails
    BY <1>6, PollSteps
<1>7. ASSUME NEW p \in Pullers, FetchChanges(p) \/ CommitChanges(p) \/ PageHistory(p)
      PROVE  FeedInv'
    BY <1>7, FetchStep, CommitStep, HistoryStep
<1>8. CASE UNCHANGED feedVars
    <2>1. OthersTyped
        BY <1>8, OthersKept DEF feedVars
    <2>2. SyncKept /\ PullsKept
        BY <1>8, SyncSame, PullStarted DEF feedVars, Pullers
    <2>3. QED
        BY <1>8, <2>1, <2>2, ScreenKept DEF feedVars
<1>9. QED
    BY <1>1, <1>2, <1>3, <1>4, <1>5, <1>6, <1>7, <1>8 DEF FeedNext

-----------------------------------------------------------------------------
(* Calls: what holds of every call, besides CallsAccounted.                  *)

\* Every transition of a call gives it a version and a generation of its own, so
\* a timeout of an earlier phase never matches a later one.
VersionOfPhase(row) ==
    /\ row.generation = row.version
    /\ row.status = "none" => row.version = 0
    /\ row.status = "ringing" => row.version = 1
    /\ row.status = "accepted" => row.version = 2
    /\ row.status = "connected" => row.version = 3
    /\ row.status = "ended" => row.version \in 2 .. 4

VersionsFollowPhase == \A c \in CallIds : VersionOfPhase(calls[c])

UnderWay(row) == row.status \in Phases

\* The parts of CallsAccounted about one call.
Announced(c) == \A v \in 1 .. calls[c].version : [call |-> c, version |-> v] \in notices
Armed(c) == UnderWay(calls[c]) => [call |-> c, state |-> calls[c].status, generation |-> calls[c].generation] \in timeouts
EndpointsHold(c) == UnderWay(calls[c]) => \A r \in Roles : calls[c].endpoint[r] \in revoked => calls[c].endpoint[r] \in outlived
BothUp(c) == calls[c].status = "connected" => calls[c].up = Roles
CallAccounted(c) == VersionOfPhase(calls[c]) /\ Announced(c) /\ Armed(c) /\ EndpointsHold(c) /\ BothUp(c)

NoneWhileForbidden == policy # "open" => \A c \in CallIds : ~ UnderWay(calls[c])

CallsInv == CallsTypeOK /\ NoneWhileForbidden /\ \A c \in CallIds : CallAccounted(c)

LEMMA CallsInvAccounted == CallsInv => CallsAccounted
BY DEF CallsInv, NoneWhileForbidden, CallAccounted, Announced, Armed, EndpointsHold, BothUp, UnderWay,
       CallsAccounted, LoadCurrentCall

LEMMA CallsInvInit == CallsInit => CallsInv
<1> SUFFICES ASSUME CallsInit PROVE CallsInv
    OBVIOUS
<1>1. CallsTypeOK
    BY DEF CallsInit, CallsTypeOK, CallRow
<1>2. \A c \in CallIds : CallAccounted(c) /\ ~ UnderWay(calls[c])
    BY DEF CallsInit, CallAccounted, VersionOfPhase, Announced, Armed, EndpointsHold, BothUp, UnderWay, Phases
<1>3. QED
    BY <1>1, <1>2 DEF CallsInv, NoneWhileForbidden

-----------------------------------------------------------------------------
(* What a step makes of one call.                                            *)

NoticesKept == notices \subseteq notices' /\ notices' \subseteq [call : CallIds, version : Versions]

\* The call keeps its phase; its timeout is not the one that is removed, and no
\* session of its endpoints is revoked without being recorded.
Stays(c) ==
    /\ calls'[c] \in CallRow
    /\ calls'[c].status = calls[c].status /\ calls'[c].version = calls[c].version
    /\ calls'[c].generation = calls[c].generation /\ calls'[c].endpoint = calls[c].endpoint
    /\ calls[c].status = "connected" => calls[c].up \subseteq calls'[c].up
    /\ UnderWay(calls[c]) =>
         /\ [call |-> c, state |-> calls[c].status, generation |-> calls[c].generation] \in timeouts'
         /\ \A r \in Roles : calls[c].endpoint[r] \in revoked' =>
                calls[c].endpoint[r] \in revoked \/ calls[c].endpoint[r] \in outlived'
    /\ outlived \subseteq outlived'

\* The call moves to another phase or is over.
MovesOn(c, status) ==
    /\ UnderWay(calls[c])
    /\ calls'[c] \in CallRow
    /\ calls'[c].status = status
    /\ calls'[c].version = calls[c].version + 1 /\ calls'[c].generation = calls[c].generation + 1
    /\ [call |-> c, version |-> calls'[c].version] \in notices'

Terminates(c) == MovesOn(c, "ended")

\* What the step of a phase owes the phase it begins.
Begins(c) ==
    /\ [call |-> c, state |-> calls'[c].status, generation |-> calls'[c].generation] \in timeouts'
    /\ \A r \in Roles : calls'[c].endpoint[r] \in revoked' => calls'[c].endpoint[r] \in outlived'

StartsRinging(c) ==
    /\ calls[c].status = "none" /\ calls'[c] \in CallRow
    /\ calls'[c].status = "ringing" /\ calls'[c].version = 1 /\ calls'[c].generation = 1
    /\ [call |-> c, version |-> 1] \in notices'
    /\ Begins(c)

BecomesAccepted(c)  == calls[c].status = "ringing" /\ MovesOn(c, "accepted") /\ Begins(c)
BecomesConnected(c) == calls[c].status = "accepted" /\ MovesOn(c, "connected") /\ Begins(c) /\ calls'[c].up = Roles

LEMMA RowType ==
    ASSUME CallsInv, NEW c \in CallIds
    PROVE  calls[c] \in CallRow /\ calls \in [CallIds -> CallRow] /\ CallAccounted(c)
BY DEF CallsInv, CallsTypeOK

LEMMA MovedRow ==
    ASSUME NEW row \in CallRow, row.version \in 0 .. 3, row.generation \in 0 .. 3,
           NEW status \in Phases \cup {"none", "ended"}
    PROVE  /\ Moves(row, status) \in CallRow
           /\ Moves(row, status).status = status
           /\ Moves(row, status).version = row.version + 1
           /\ Moves(row, status).generation = row.generation + 1
           /\ Moves(row, status).endpoint = row.endpoint
           /\ Moves(row, status).up = row.up
<1> DEFINE moved == [status |-> status, caller |-> row.caller, version |-> row.version + 1,
                     generation |-> row.generation + 1, endpoint |-> row.endpoint, up |-> row.up]
<1>1. Moves(row, status) = moved
    <2> DEFINE named == [row EXCEPT !.status = status]
               later == [named EXCEPT !.version = row.version + 1]
    <2>1. /\ named = [status |-> status, caller |-> row.caller, version |-> row.version,
                      generation |-> row.generation, endpoint |-> row.endpoint, up |-> row.up]
        BY DEF CallRow
    <2>2. later = [status |-> status, caller |-> row.caller, version |-> row.version + 1,
                   generation |-> row.generation, endpoint |-> row.endpoint, up |-> row.up]
        <3> HIDE DEF named
        <3> QED BY <2>1
    <2>3. [later EXCEPT !.generation = row.generation + 1] = moved
        <3> HIDE DEF later
        <3> QED BY <2>2
    <2>4. Moves(row, status) = [later EXCEPT !.generation = row.generation + 1]
        BY Zenon DEF Moves
    <2>5. QED
        <3> HIDE DEF later, moved
        <3> QED BY <2>3, <2>4
<1>2. row.version + 1 \in 0 .. 4 /\ row.generation + 1 \in 0 .. 4
    OBVIOUS
<1>3. moved \in CallRow
    BY <1>2 DEF CallRow
<1>4. QED
    BY <1>1, <1>3

LEMMA StayAccounted ==
    ASSUME CallsInv, NoticesKept, NEW c \in CallIds, Stays(c)
    PROVE  CallAccounted(c)'
<1>1. CallAccounted(c)
    BY RowType
<1>2. VersionOfPhase(calls'[c])
    BY <1>1 DEF CallAccounted, VersionOfPhase, Stays
<1>3. Announced(c)'
    BY <1>1 DEF CallAccounted, Announced, Stays, NoticesKept
<1>4. Armed(c)' /\ EndpointsHold(c)'
    BY <1>1 DEF CallAccounted, Armed, EndpointsHold, Stays, UnderWay
<1>5. BothUp(c)'
    BY <1>1 DEF CallAccounted, BothUp, Stays, CallRow
<1>6. QED
    BY <1>2, <1>3, <1>4, <1>5 DEF CallAccounted

LEMMA MoveVersions ==
    ASSUME CallsInv, NoticesKept, NEW c \in CallIds, NEW status, MovesOn(c, status)
    PROVE  /\ calls'[c].generation = calls'[c].version
           /\ calls[c].status = "ringing" => calls'[c].version = 2
           /\ calls[c].status = "accepted" => calls'[c].version = 3
           /\ calls'[c].version \in 2 .. 4
           /\ Announced(c)'
<1>1. CallAccounted(c) /\ calls[c] \in CallRow
    BY RowType
<1>2. calls[c].version \in 1 .. 3 /\ calls[c].generation = calls[c].version
    BY <1>1 DEF CallAccounted, VersionOfPhase, MovesOn, UnderWay, Phases
<1>3. \A v \in 1 .. calls[c].version : [call |-> c, version |-> v] \in notices'
    BY <1>1 DEF CallAccounted, Announced, NoticesKept
<1>4. Announced(c)'
    <2>1. calls'[c].version = calls[c].version + 1
        BY DEF MovesOn
    <2>2. \A v \in 1 .. calls'[c].version : v \in 1 .. calls[c].version \/ v = calls'[c].version
        BY <1>2, <2>1
    <2>3. QED
        BY <1>3, <2>2 DEF Announced, MovesOn
<1>5. QED
    BY <1>1, <1>2, <1>4 DEF MovesOn, CallAccounted, VersionOfPhase

LEMMA EndAccounted ==
    ASSUME CallsInv, NoticesKept, NEW c \in CallIds, Terminates(c)
    PROVE  CallAccounted(c)' /\ ~ UnderWay(calls'[c])
<1>1. MovesOn(c, "ended")
    BY DEF Terminates
<1>2. /\ calls'[c].generation = calls'[c].version
      /\ calls'[c].version \in 2 .. 4
      /\ Announced(c)'
    BY <1>1, MoveVersions
<1>3. QED
    BY <1>1, <1>2 DEF MovesOn, CallAccounted, VersionOfPhase, Armed, EndpointsHold, BothUp, UnderWay, Phases

LEMMA RingAccounted ==
    ASSUME CallsInv, NoticesKept, NEW c \in CallIds, StartsRinging(c)
    PROVE  CallAccounted(c)'
BY DEF StartsRinging, Begins, CallAccounted, VersionOfPhase, Announced, Armed, EndpointsHold, BothUp, UnderWay

LEMMA AcceptAccounted ==
    ASSUME CallsInv, NoticesKept, NEW c \in CallIds, BecomesAccepted(c)
    PROVE  CallAccounted(c)'
<1>1. MovesOn(c, "accepted") /\ calls[c].status = "ringing" /\ Begins(c)
    BY DEF BecomesAccepted
<1>2. /\ calls'[c].generation = calls'[c].version
      /\ calls'[c].version = 2
      /\ Announced(c)'
    BY <1>1, MoveVersions
<1>3. QED
    BY <1>1, <1>2 DEF MovesOn, Begins, CallAccounted, VersionOfPhase, Armed, EndpointsHold, BothUp, UnderWay

LEMMA ConnectAccounted ==
    ASSUME CallsInv, NoticesKept, NEW c \in CallIds, BecomesConnected(c)
    PROVE  CallAccounted(c)'
<1>1. MovesOn(c, "connected") /\ calls[c].status = "accepted" /\ Begins(c) /\ calls'[c].up = Roles
    BY DEF BecomesConnected
<1>2. /\ calls'[c].generation = calls'[c].version
      /\ calls'[c].version = 3
      /\ Announced(c)'
    BY <1>1, MoveVersions
<1>3. QED
    BY <1>1, <1>2 DEF MovesOn, Begins, CallAccounted, VersionOfPhase, Armed, EndpointsHold, BothUp, UnderWay

\* The tables besides calls keep their types, and so do the rows.
TablesTyped ==
    /\ calls' \in [CallIds -> CallRow]
    /\ timeouts' \subseteq [call : CallIds, state : Phases, generation : Versions]
    /\ NoticesKept
    /\ requests' \subseteq [op : Ends \cup {"create", "accept", "connected"}, by : Sessions,
                            call : CallIds, version : 0 .. 4]
    /\ revoked' \subseteq Sessions /\ outlived' \subseteq Sessions
    /\ policy' \in {"open", "deleting", "dissolved"}

\* A step that leaves every call where it is or moves it on.
LEMMA AccountedStep ==
    ASSUME CallsInv, TablesTyped,
           \A c \in CallIds : Stays(c) \/ Terminates(c) \/ StartsRinging(c) \/ BecomesAccepted(c) \/ BecomesConnected(c),
           NoneWhileForbidden'
    PROVE  CallsInv'
<1>1. CallsTypeOK'
    BY DEF TablesTyped, CallsTypeOK, NoticesKept
<1>2. NoticesKept
    BY DEF TablesTyped
<1>3. ASSUME NEW c \in CallIds PROVE CallAccounted(c)'
    BY <1>2, StayAccounted, EndAccounted, RingAccounted, AcceptAccounted, ConnectAccounted
<1>4. QED
    BY <1>1, <1>3 DEF CallsInv

-----------------------------------------------------------------------------
(* Steps from outside: they end the calls of a set C.                        *)

\* What the live calls that are not ended keep.
OthersKeep(C) ==
    /\ \A c \in CallIds \ C :
           UnderWay(calls[c]) =>
             /\ [call |-> c, state |-> calls[c].status, generation |-> calls[c].generation] \in timeouts'
             /\ \A r \in Roles : calls[c].endpoint[r] \in revoked' =>
                    calls[c].endpoint[r] \in revoked \/ calls[c].endpoint[r] \in outlived'
    /\ outlived \subseteq outlived'

LEMMA EndingCalls ==
    ASSUME CallsInv, NEW C, C \subseteq LoadCurrentCall,
           calls' = TerminalizeCalls(C), QueueChanged(C), OthersKeep(C)
    PROVE  /\ calls' \in [CallIds -> CallRow] /\ NoticesKept
           /\ \A c \in CallIds : IF c \in C THEN Terminates(c) ELSE calls'[c] = calls[c] /\ Stays(c)
           /\ \A c \in CallIds : UnderWay(calls'[c]) => UnderWay(calls[c])
<1>1. \A c \in CallIds : calls'[c] = IF c \in C THEN Moves(calls[c], "ended") ELSE calls[c]
    BY DEF TerminalizeCalls
<1>2. ASSUME NEW c \in C
      PROVE  /\ c \in CallIds /\ calls'[c] \in CallRow /\ UnderWay(calls[c])
             /\ calls'[c].status = "ended" /\ calls'[c].version \in Versions
             /\ calls'[c].version = calls[c].version + 1
             /\ calls'[c].generation = calls[c].generation + 1
    <2>1. c \in CallIds /\ UnderWay(calls[c])
        BY DEF LoadCurrentCall, UnderWay
    <2>2. calls[c] \in CallRow /\ VersionOfPhase(calls[c])
        BY <2>1, RowType DEF CallAccounted
    <2>3. calls[c].version \in 1 .. 3 /\ calls[c].generation \in 1 .. 3
        BY <2>1, <2>2 DEF VersionOfPhase, UnderWay, Phases
    <2>4. calls'[c] = Moves(calls[c], "ended")
        BY <1>1, <2>1
    <2>5. /\ calls'[c].status = "ended" /\ calls'[c].version = calls[c].version + 1
          /\ calls'[c].generation = calls[c].generation + 1
          /\ calls'[c] \in CallRow
        BY <2>2, <2>3, <2>4, MovedRow
    <2>6. QED
        BY <2>1, <2>3, <2>5 DEF Versions
<1>3. ASSUME NEW c \in CallIds, c \notin C PROVE calls'[c] = calls[c] /\ calls[c] \in CallRow
    <2>1. calls[c] \in CallRow
        BY RowType
    <2>2. QED
        BY <1>1, <1>3, <2>1
<1>4. NoticesKept
    BY <1>2 DEF QueueChanged, NoticesKept, CallsInv, CallsTypeOK
<1>5. calls' \in [CallIds -> CallRow]
    <2>1. \A c \in CallIds : calls'[c] \in CallRow
        BY <1>2, <1>3
    <2>2. QED
        BY <2>1 DEF TerminalizeCalls
<1>6. ASSUME NEW c \in C PROVE Terminates(c)
    <2>1. [call |-> c, version |-> calls'[c].version] \in notices'
        BY DEF QueueChanged
    <2>2. QED
        BY <1>2, <2>1 DEF Terminates, MovesOn
<1>7. ASSUME NEW c \in CallIds, c \notin C PROVE Stays(c)
    BY <1>3, <1>7 DEF Stays, OthersKeep, CallRow
<1>8. QED
    BY <1>2, <1>3, <1>4, <1>5, <1>6, <1>7 DEF UnderWay, Phases

\* ... and the policy may have changed only if it ended them all.
LEMMA EndingStep ==
    ASSUME CallsInv, NEW C, C \subseteq LoadCurrentCall,
           calls' = TerminalizeCalls(C), QueueChanged(C), OthersKeep(C),
           timeouts' \subseteq timeouts, requests' = requests,
           revoked' \subseteq Sessions, outlived' \subseteq Sessions,
           policy' \in {"open", "deleting", "dissolved"},
           policy' \in {policy, "open"} \/ C = LoadCurrentCall
    PROVE  CallsInv'
<1>1. /\ calls' \in [CallIds -> CallRow] /\ NoticesKept
      /\ \A c \in CallIds : IF c \in C THEN Terminates(c) ELSE calls'[c] = calls[c] /\ Stays(c)
      /\ \A c \in CallIds : UnderWay(calls'[c]) => UnderWay(calls[c])
    BY EndingCalls
<1>2. TablesTyped
    BY <1>1 DEF TablesTyped, CallsInv, CallsTypeOK
<1>3. NoneWhileForbidden'
    <2>1. CASE policy' \in {policy, "open"}
        BY <1>1, <2>1 DEF CallsInv, NoneWhileForbidden
    <2>2. CASE C = LoadCurrentCall
        <3>1. ASSUME NEW c \in CallIds PROVE ~ UnderWay(calls'[c])
            <4>1. CASE c \in C
                BY <1>1, <4>1 DEF Terminates, MovesOn, UnderWay, Phases
            <4>2. CASE c \notin C
                BY <1>1, <2>2, <4>2 DEF LoadCurrentCall, UnderWay
            <4>3. QED
                BY <4>1, <4>2
        <3>2. QED
            BY <3>1 DEF NoneWhileForbidden
    <2>3. QED
        BY <2>1, <2>2
<1>4. QED
    BY <1>1, <1>2, <1>3, AccountedStep

LEMMA KeptByRest ==
    ASSUME CallsInv, NEW C, timeouts' = timeouts, outlived \subseteq outlived',
           \A c \in LoadCurrentCall \ C : \A r \in Roles : calls[c].endpoint[r] \in revoked' =>
                    calls[c].endpoint[r] \in revoked \/ calls[c].endpoint[r] \in outlived'
    PROVE  OthersKeep(C)
<1>1. ASSUME NEW c \in CallIds \ C, UnderWay(calls[c])
      PROVE  [call |-> c, state |-> calls[c].status, generation |-> calls[c].generation] \in timeouts'
    BY <1>1, RowType DEF CallAccounted, Armed
<1>2. \A c \in CallIds \ C : UnderWay(calls[c]) => c \in LoadCurrentCall \ C
    BY DEF UnderWay, LoadCurrentCall
<1>3. QED
    BY <1>1, <1>2 DEF OthersKeep

LEMMA SessionRevoked ==
    ASSUME CallsInv, NEW s \in Sessions, revoked' = revoked \cup {s},
           Terminalize(CallsByEndpointSession(s)), UNCHANGED <<policy, outlived>>
    PROVE  CallsInv'
<1> DEFINE C == CallsByEndpointSession(s)
<1>1. C \subseteq LoadCurrentCall
    BY DEF CallsByEndpointSession
<1>2. \A c \in LoadCurrentCall \ C : \A r \in Roles : calls[c].endpoint[r] # s
    BY DEF CallsByEndpointSession
<1>3. OthersKeep(C)
    BY <1>2, KeptByRest DEF Terminalize
<1>4. /\ calls' = TerminalizeCalls(C) /\ QueueChanged(C) /\ timeouts' = timeouts /\ requests' = requests
      /\ policy' = policy /\ outlived' = outlived
    BY DEF Terminalize
<1>5. revoked' \subseteq Sessions /\ outlived \subseteq Sessions /\ policy \in {"open", "deleting", "dissolved"}
    BY DEF CallsInv, CallsTypeOK
<1> HIDE DEF C
<1>6. QED
    BY <1>1, <1>3, <1>4, <1>5, EndingStep

LEMMA LogoutAccounted ==
    ASSUME CallsInv, NEW s \in Sessions, Logout(s) \/ RevokeDevice(s)
    PROVE  CallsInv'
<1>1. CallsByEndpointDevice(s) = CallsByEndpointSession(s)
    BY DEF CallsByEndpointDevice, CallsByEndpointSession
<1>2. revoked' = revoked \cup {s} /\ Terminalize(CallsByEndpointSession(s)) /\ UNCHANGED <<policy, outlived>>
    BY <1>1 DEF Logout, RevokeDevice
<1>3. QED
    BY <1>2, SessionRevoked

LEMMA RevokeOthersAccounted ==
    ASSUME CallsInv, NEW account, account \subseteq Sessions, NEW own, RevokeOthers(account, own)
    PROVE  CallsInv'
<1>1. \A c \in CallIds : calls'[c] = calls[c]
    BY DEF RevokeOthers
<1>2. TablesTyped
    BY DEF RevokeOthers, TablesTyped, NoticesKept, CallsInv, CallsTypeOK
<1>3. ASSUME NEW c \in CallIds PROVE Stays(c)
    <2>1. UnderWay(calls[c]) =>
             \A r \in Roles : calls[c].endpoint[r] \in revoked' =>
                 calls[c].endpoint[r] \in revoked \/ calls[c].endpoint[r] \in outlived'
        BY DEF RevokeOthers, CallsByEndpointSession, LoadCurrentCall, UnderWay
    <2>2. QED
        BY <2>1, RowType DEF RevokeOthers, Stays, CallAccounted, Armed, CallRow
<1>4. NoneWhileForbidden'
    BY DEF RevokeOthers, NoneWhileForbidden, CallsInv
<1>5. QED
    BY <1>2, <1>3, <1>4, AccountedStep

LEMMA AccountsOfSessions == Alice \subseteq Sessions /\ Bob \subseteq Sessions
BY DEF Sessions

LEMMA PasswordAccounted ==
    ASSUME CallsInv, NEW a \in {Alice, Bob}, CompletePasswordRecovery(a) \/ CompleteEmailChange(a)
    PROVE  CallsInv'
<1>1. a \subseteq Sessions
    BY AccountsOfSessions
<1>2. \E own : RevokeOthers(a, own)
    BY DEF CompletePasswordRecovery, CompleteEmailChange
<1>3. QED
    BY <1>1, <1>2, RevokeOthersAccounted

\* All the calls of the partnership end with it, or with the right to it.
LEMMA AllEnded ==
    ASSUME CallsInv, Terminalize(CurrentCallForPartnership), policy' \in {"deleting", "dissolved"},
           revoked' \subseteq Sessions, outlived' = outlived
    PROVE  CallsInv'
<1>1. /\ calls' = TerminalizeCalls(LoadCurrentCall) /\ QueueChanged(LoadCurrentCall)
      /\ timeouts' = timeouts /\ requests' = requests
    BY DEF Terminalize, CurrentCallForPartnership
<1>2. OthersKeep(LoadCurrentCall)
    BY <1>1, KeptByRest
<1>3. outlived \subseteq Sessions
    BY DEF CallsInv, CallsTypeOK
<1>4. QED
    BY <1>1, <1>2, <1>3, EndingStep

LEMMA DeletionAccounted ==
    ASSUME CallsInv, NEW a \in {Alice, Bob}, RequestDeletion(a)
    PROVE  CallsInv'
<1>1. revoked' \subseteq Sessions
    BY AccountsOfSessions DEF RequestDeletion, CallsInv, CallsTypeOK
<1>2. QED
    BY <1>1, AllEnded DEF RequestDeletion

LEMMA DissolutionAccounted ==
    ASSUME CallsInv, DissolvePartnership
    PROVE  CallsInv'
<1>1. revoked' \subseteq Sessions
    BY DEF DissolvePartnership, CallsInv, CallsTypeOK
<1>2. QED
    BY <1>1, AllEnded DEF DissolvePartnership

LEMMA RecoverAccounted ==
    ASSUME CallsInv, Recover
    PROVE  CallsInv'
<1>1. TablesTyped
    BY DEF Recover, TablesTyped, NoticesKept, CallsInv, CallsTypeOK
<1>2. \A c \in CallIds : Stays(c)
    BY RowType DEF Recover, Stays, CallAccounted, Armed, CallRow
<1>3. NoneWhileForbidden'
    BY DEF Recover, NoneWhileForbidden
<1>4. QED
    BY <1>1, <1>2, <1>3, AccountedStep

\* A timeout that does not apply is not the one that guards a live call.
LEMMA TimeOutAccounted ==
    ASSUME CallsInv, NEW t \in timeouts, TimeOut(t)
    PROVE  CallsInv'
<1> DEFINE C == IF TimeoutApplies(t) THEN {t.call} ELSE {}
<1>1. t \in [call : CallIds, state : Phases, generation : Versions]
    BY DEF CallsInv, CallsTypeOK
<1>2. C \subseteq LoadCurrentCall
    BY <1>1 DEF TimeoutApplies, LoadCurrentCall
<1>3. ASSUME NEW c \in CallIds \ C, UnderWay(calls[c])
      PROVE  [call |-> c, state |-> calls[c].status, generation |-> calls[c].generation] \in timeouts'
    <2>1. [call |-> c, state |-> calls[c].status, generation |-> calls[c].generation] \in timeouts
        BY <1>3, RowType DEF CallAccounted, Armed
    <2>2. [call |-> c, state |-> calls[c].status, generation |-> calls[c].generation] # t
        BY DEF TimeoutApplies
    <2>3. QED
        BY <2>1, <2>2 DEF TimeOut
<1>4. OthersKeep(C)
    BY <1>3 DEF OthersKeep, TimeOut
<1>5. /\ calls' = TerminalizeCalls(C) /\ QueueChanged(C) /\ timeouts' \subseteq timeouts
      /\ requests' = requests /\ revoked' = revoked /\ outlived' = outlived /\ policy' = policy
    BY DEF TimeOut
<1>6. revoked \subseteq Sessions /\ outlived \subseteq Sessions /\ policy \in {"open", "deleting", "dissolved"}
    BY DEF CallsInv, CallsTypeOK
<1> HIDE DEF C
<1>7. QED
    BY <1>2, <1>4, <1>5, <1>6, EndingStep

-----------------------------------------------------------------------------
(* Requests.                                                                 *)

RequestTypes == [op : Ends \cup {"create", "accept", "connected"}, by : Sessions,
                 call : CallIds, version : 0 .. 4]

LEMMA RequestsOnly ==
    ASSUME CallsInv, requests' \subseteq RequestTypes,
           UNCHANGED <<calls, timeouts, notices, revoked, policy, outlived>>
    PROVE  CallsInv'
<1>1. TablesTyped
    BY DEF TablesTyped, NoticesKept, CallsInv, CallsTypeOK, RequestTypes
<1>2. \A c \in CallIds : Stays(c)
    BY RowType DEF Stays, CallAccounted, Armed, CallRow
<1>3. NoneWhileForbidden'
    BY DEF NoneWhileForbidden, CallsInv
<1>4. QED
    BY <1>1, <1>2, <1>3, AccountedStep

LEMMA IssueAccounted ==
    ASSUME CallsInv, NEW op \in Ends \cup {"create", "accept", "connected"}, NEW s \in Sessions,
           NEW c \in CallIds, Issue(op, s, c)
    PROVE  CallsInv'
<1>1. calls[c].version \in 0 .. 4
    BY RowType DEF CallRow
<1>2. requests' \subseteq RequestTypes
    BY <1>1 DEF Issue, CallsInv, CallsTypeOK, RequestTypes
<1>3. QED
    BY <1>2, RequestsOnly DEF Issue

LEMMA AbandonAccounted ==
    ASSUME CallsInv, NEW q \in requests, Abandon(q)
    PROVE  CallsInv'
<1>1. requests' \subseteq RequestTypes
    BY DEF Abandon, CallsInv, CallsTypeOK, RequestTypes
<1>2. QED
    BY <1>1, RequestsOnly DEF Abandon

LEMMA Served ==
    ASSUME CallsInv, NEW q, NEW op, Serve(q, op)
    PROVE  /\ q.call \in CallIds /\ q.by \in Sessions
           /\ Permits(op, q.by, q.call)
           /\ requests' \subseteq RequestTypes
           /\ revoked' = revoked /\ policy' = policy /\ revoked' \subseteq Sessions
           /\ policy' \in {"open", "deleting", "dissolved"}
           /\ outlived \subseteq outlived' /\ outlived' \subseteq Sessions
           /\ q.by \in revoked' => q.by \in outlived'
<1>1. q \in RequestTypes /\ requests' \subseteq RequestTypes
    BY DEF Serve, CallsInv, CallsTypeOK, RequestTypes
<1>2. q.call \in CallIds /\ q.by \in Sessions
    BY <1>1 DEF RequestTypes
<1>3. QED
    BY <1>1, <1>2 DEF Serve, CallsInv, CallsTypeOK

\* A request writes the row of one call, announces it and schedules its deadline;
\* or it ends the call.
LEMMA CallWritten ==
    ASSUME CallsInv, NEW q, NEW op, Serve(q, op), NEW row \in CallRow,
           calls' = [calls EXCEPT ![q.call] = row],
           timeouts \subseteq timeouts',
           timeouts' \subseteq [call : CallIds, state : Phases, generation : Versions],
           notices \subseteq notices',
           notices' \subseteq [call : CallIds, version : Versions],
           policy = "open" \/ (UnderWay(row) => UnderWay(calls[q.call])),
           \/ Stays(q.call) \/ Terminates(q.call) \/ StartsRinging(q.call)
           \/ BecomesAccepted(q.call) \/ BecomesConnected(q.call)
    PROVE  CallsInv'
<1>1. /\ q.call \in CallIds
      /\ requests' \subseteq RequestTypes
      /\ revoked' = revoked /\ policy' = policy /\ revoked' \subseteq Sessions
      /\ policy' \in {"open", "deleting", "dissolved"}
      /\ outlived \subseteq outlived' /\ outlived' \subseteq Sessions
    BY Served
<1>2. calls \in [CallIds -> CallRow]
    BY RowType, <1>1
<1>3. TablesTyped
    BY <1>1, <1>2 DEF TablesTyped, NoticesKept, RequestTypes
<1>4. ASSUME NEW c \in CallIds, c # q.call PROVE Stays(c)
    <2>1. calls'[c] = calls[c] /\ calls[c] \in CallRow
        BY <1>2, <1>4
    <2>2. QED
        BY <2>1, <1>1, RowType DEF Stays, CallAccounted, Armed, CallRow
<1>5. NoneWhileForbidden'
    <2>1. \A c \in CallIds : c # q.call => calls'[c] = calls[c]
        BY <1>2
    <2>2. calls'[q.call] = row
        BY <1>1, <1>2
    <2>3. QED
        BY <1>1, <2>1, <2>2 DEF NoneWhileForbidden, CallsInv
<1>6. QED
    BY <1>3, <1>4, <1>5, AccountedStep

LEMMA CreateAccounted ==
    ASSUME CallsInv, NEW q \in requests, Create(q)
    PROVE  CallsInv'
<1> DEFINE c == q.call
           row == [status |-> "ringing", caller |-> AccountOf(q.by), version |-> 1, generation |-> 1,
                   endpoint |-> [r \in Roles |-> IF r = "caller" THEN q.by ELSE NoSession], up |-> {}]
<1>1. Serve(q, "create")
    BY DEF Create
<1>2. /\ c \in CallIds /\ q.by \in Sessions
      /\ Permits("create", q.by, c)
      /\ revoked' = revoked /\ revoked \subseteq Sessions
      /\ q.by \in revoked' => q.by \in outlived'
    BY <1>1, Served
<1>3. policy = "open" /\ calls[c].status = "none"
    BY <1>2 DEF Permits, FreshCall
<1>4. row \in CallRow
    BY <1>2 DEF CallRow, AccountOf, Phases, Roles
<1>5. calls' = [calls EXCEPT ![c] = row] /\ calls'[c] = row
    BY <1>2, RowType DEF Create, InsertCallSession
<1>6. /\ timeouts' = timeouts \cup {[call |-> c, state |-> "ringing", generation |-> 1]}
      /\ notices' = notices \cup {[call |-> c, version |-> 1]}
    BY <1>5 DEF Create, ScheduleDeadline, QueueChanged
<1>7. \A r \in Roles : row.endpoint[r] \in revoked' => row.endpoint[r] \in outlived'
    BY <1>2, CallsAssumption DEF Sessions
<1>8. StartsRinging(c)
    BY <1>3, <1>4, <1>5, <1>6, <1>7 DEF StartsRinging, Begins
<1>9. /\ timeouts \subseteq timeouts' /\ notices \subseteq notices'
      /\ timeouts' \subseteq [call : CallIds, state : Phases, generation : Versions]
      /\ notices' \subseteq [call : CallIds, version : Versions]
    BY <1>2, <1>6 DEF CallsInv, CallsTypeOK, Phases, Versions
<1> HIDE DEF row
<1>10. QED
    BY <1>1, <1>3, <1>4, <1>5, <1>8, <1>9, CallWritten

LEMMA AnswerAccounted ==
    ASSUME CallsInv, NEW q \in requests, Accept(q)
    PROVE  CallsInv'
<1> DEFINE c == q.call
           row == [Moves(calls[c], "accepted") EXCEPT !.endpoint["callee"] = q.by]
           before == Moves(calls[c], "accepted")
<1>1. Serve(q, "accept")
    BY DEF Accept
<1>2. /\ c \in CallIds /\ q.by \in Sessions
      /\ Permits("accept", q.by, c)
      /\ revoked' = revoked
      /\ outlived \subseteq outlived'
      /\ q.by \in revoked' => q.by \in outlived'
    BY <1>1, Served
<1>3. policy = "open" /\ calls[c].status = "ringing"
    BY <1>2 DEF Permits, Rings
<1>4. calls[c] \in CallRow /\ calls[c].version = 1 /\ calls[c].generation = 1
    BY <1>2, <1>3, RowType DEF CallAccounted, VersionOfPhase
<1>5. /\ before \in CallRow /\ before.status = "accepted" /\ before.version = 2 /\ before.generation = 2
      /\ before.endpoint = calls[c].endpoint
    BY <1>4, MovedRow DEF Phases
<1>6. /\ row \in CallRow /\ row.status = "accepted" /\ row.version = 2 /\ row.generation = 2
      /\ \A r \in Roles : row.endpoint[r] = IF r = "callee" THEN q.by ELSE calls[c].endpoint[r]
    <2> HIDE DEF before
    <2>1. row = [before EXCEPT !.endpoint["callee"] = q.by]
        BY DEF before
    <2>2. QED
        BY <1>2, <1>5, <2>1 DEF CallRow, Roles
<1> HIDE DEF row
<1>7. calls' = [calls EXCEPT ![c] = row] /\ calls'[c] = row
    BY <1>2, RowType DEF Accept, AcceptCall, row
<1>8. /\ timeouts' = timeouts \cup {[call |-> c, state |-> "accepted", generation |-> 2]}
      /\ notices' = notices \cup {[call |-> c, version |-> 2]}
    BY <1>6, <1>7 DEF Accept, ScheduleDeadline, QueueChanged
<1>9. \A r \in Roles : row.endpoint[r] \in revoked' => row.endpoint[r] \in outlived'
    <2>1. \A r \in Roles : calls[c].endpoint[r] \in revoked => calls[c].endpoint[r] \in outlived
        BY <1>2, <1>3, RowType DEF CallAccounted, EndpointsHold, UnderWay, Phases
    <2>2. QED
        BY <1>2, <1>6, <2>1
<1>10. BecomesAccepted(c)
    BY <1>3, <1>4, <1>6, <1>7, <1>8, <1>9 DEF BecomesAccepted, MovesOn, Begins, UnderWay, Phases
<1>11. /\ timeouts \subseteq timeouts' /\ notices \subseteq notices'
       /\ timeouts' \subseteq [call : CallIds, state : Phases, generation : Versions]
       /\ notices' \subseteq [call : CallIds, version : Versions]
    BY <1>2, <1>8 DEF CallsInv, CallsTypeOK, Phases, Versions
<1>12. QED
    BY <1>1, <1>3, <1>6, <1>7, <1>10, <1>11, CallWritten

LEMMA TerminalAccounted ==
    ASSUME CallsInv, NEW q \in requests, NEW action \in Ends, TerminalMutation(q, action)
    PROVE  CallsInv'
<1> DEFINE c == q.call
           row == Moves(calls[c], "ended")
<1>1. Serve(q, action)
    BY DEF TerminalMutation
<1>2. c \in CallIds /\ Permits(action, q.by, c)
    BY <1>1, Served
<1>3. UnderWay(calls[c])
    BY <1>2 DEF Permits, Rings, HoldsEndpoint, UnderWay, Phases, Ends
<1>4. calls[c] \in CallRow /\ calls[c].version \in 1 .. 3 /\ calls[c].generation = calls[c].version
    BY <1>2, <1>3, RowType DEF CallAccounted, VersionOfPhase, UnderWay, Phases
<1>5. /\ row \in CallRow /\ row.status = "ended"
      /\ row.version = calls[c].version + 1 /\ row.generation = calls[c].generation + 1
    BY <1>4, MovedRow
<1> HIDE DEF row
<1>6. calls' = [calls EXCEPT ![c] = row] /\ calls'[c] = row
    BY <1>2, RowType DEF TerminalMutation, TerminalizeCall, row
<1>7. timeouts' = timeouts /\ notices' = notices \cup {[call |-> c, version |-> row.version]}
    BY <1>6 DEF TerminalMutation, QueueChanged
<1>8. Terminates(c)
    BY <1>3, <1>5, <1>6, <1>7 DEF Terminates, MovesOn
<1>9. /\ timeouts \subseteq timeouts' /\ notices \subseteq notices'
      /\ timeouts' \subseteq [call : CallIds, state : Phases, generation : Versions]
      /\ notices' \subseteq [call : CallIds, version : Versions]
    BY <1>2, <1>4, <1>5, <1>7 DEF CallsInv, CallsTypeOK, Versions
<1>10. ~ UnderWay(row)
    BY <1>5 DEF UnderWay, Phases
<1>11. QED
    BY <1>1, <1>5, <1>6, <1>8, <1>9, <1>10, CallWritten

LEMMA ConnectedAccounted ==
    ASSUME CallsInv, NEW q \in requests, EndpointConnected(q)
    PROVE  CallsInv'
<1> DEFINE c == q.call
           marked == [calls[c] EXCEPT !.up = @ \cup {RoleIn(q.by, c)}]
           moved == Moves(marked, "connected")
           row == IF marked.status = "accepted" /\ marked.up = Roles THEN moved ELSE marked
<1>1. Serve(q, "connected")
    BY DEF EndpointConnected
<1>2. /\ c \in CallIds /\ q.by \in Sessions
      /\ Permits("connected", q.by, c)
      /\ revoked' = revoked
      /\ outlived \subseteq outlived'
    BY <1>1, Served
<1>3. calls[c].status \in {"accepted", "connected"}
    BY <1>2 DEF Permits, HoldsEndpoint, Ends
<1>4. calls[c] \in CallRow /\ CallAccounted(c)
    BY <1>2, RowType
<1>5. RoleIn(q.by, c) \in Roles
    BY DEF RoleIn, Roles
<1>6. /\ marked \in CallRow /\ marked.status = calls[c].status /\ marked.version = calls[c].version
      /\ marked.generation = calls[c].generation /\ marked.endpoint = calls[c].endpoint
      /\ calls[c].up \subseteq marked.up
    BY <1>4, <1>5 DEF CallRow
<1>7. calls' = [calls EXCEPT ![c] = row] /\ calls'[c] = row
    BY <1>2, RowType DEF EndpointConnected, RecordEndpointConnected
<1> HIDE DEF marked, moved
<1>8. CASE marked.status = "accepted" /\ marked.up = Roles
    <2>1. calls[c].status = "accepted" /\ calls[c].version = 2 /\ calls[c].generation = 2
        BY <1>4, <1>6, <1>8 DEF CallAccounted, VersionOfPhase
    <2>2. /\ moved \in CallRow /\ moved.status = "connected" /\ moved.version = 3 /\ moved.generation = 3
          /\ moved.endpoint = calls[c].endpoint /\ moved.up = Roles
        BY <1>6, <1>8, <2>1, MovedRow DEF moved, Phases
    <2>3. calls'[c] = moved /\ calls' = [calls EXCEPT ![c] = moved]
        BY <1>7, <1>8
    <2>4. /\ timeouts' = timeouts \cup {[call |-> c, state |-> "connected", generation |-> 3]}
          /\ notices' = notices \cup {[call |-> c, version |-> 3]}
        BY <2>1, <2>2, <2>3 DEF EndpointConnected, ScheduleDeadline, QueueChanged
    <2>5. \A r \in Roles : moved.endpoint[r] \in revoked' => moved.endpoint[r] \in outlived'
        BY <1>2, <1>4, <2>1, <2>2 DEF CallAccounted, EndpointsHold, UnderWay, Phases
    <2>6. BecomesConnected(c)
        BY <2>1, <2>2, <2>3, <2>4, <2>5 DEF BecomesConnected, MovesOn, Begins, UnderWay, Phases
    <2>7. /\ timeouts \subseteq timeouts' /\ notices \subseteq notices'
          /\ timeouts' \subseteq [call : CallIds, state : Phases, generation : Versions]
          /\ notices' \subseteq [call : CallIds, version : Versions]
        BY <1>2, <2>4 DEF CallsInv, CallsTypeOK, Phases, Versions
    <2>8. UnderWay(calls[c])
        BY <2>1 DEF UnderWay, Phases
    <2>9. QED
        BY <1>1, <2>2, <2>3, <2>6, <2>7, <2>8, CallWritten
<1>9. CASE ~ (marked.status = "accepted" /\ marked.up = Roles)
    <2>1. calls'[c] = marked /\ calls' = [calls EXCEPT ![c] = marked]
        BY <1>7, <1>9
    <2>2. timeouts' = timeouts /\ notices' = notices
        BY <1>6, <2>1 DEF EndpointConnected
    <2>3. Stays(c)
        BY <1>2, <1>4, <1>6, <2>1, <2>2 DEF Stays, CallAccounted, Armed
    <2>4. /\ timeouts' \subseteq [call : CallIds, state : Phases, generation : Versions]
          /\ notices' \subseteq [call : CallIds, version : Versions]
        BY <2>2 DEF CallsInv, CallsTypeOK
    <2>5. UnderWay(marked) => UnderWay(calls[c])
        BY <1>6 DEF UnderWay
    <2>6. QED
        BY <1>1, <1>6, <2>1, <2>2, <2>3, <2>4, <2>5, CallWritten
<1>10. QED
    BY <1>8, <1>9

-----------------------------------------------------------------------------

LEMMA CallsStep == CallsInv /\ [CallsNext]_callVars => CallsInv'
<1> SUFFICES ASSUME CallsInv, [CallsNext]_callVars
             PROVE  CallsInv'
    OBVIOUS
<1>1. ASSUME NEW op \in Ends \cup {"create", "accept", "connected"}, NEW s \in Sessions, NEW c \in CallIds,
             Issue(op, s, c)
      PROVE  CallsInv'
    BY <1>1, IssueAccounted
<1>2. ASSUME NEW q \in requests,
             Abandon(q) \/ Create(q) \/ Accept(q) \/ Reject(q) \/ Cancel(q) \/ End(q) \/ Fail(q)
             \/ EndpointConnected(q)
      PROVE  CallsInv'
    <2>1. CASE Abandon(q)
        BY <2>1, AbandonAccounted
    <2>2. CASE Create(q)
        BY <2>2, CreateAccounted
    <2>3. CASE Accept(q)
        BY <2>3, AnswerAccounted
    <2>4. CASE Reject(q) \/ Cancel(q) \/ End(q) \/ Fail(q)
        <3>1. \E action \in Ends : TerminalMutation(q, action)
            BY <2>4 DEF Reject, Cancel, End, Fail, Ends
        <3>2. QED
            BY <3>1, TerminalAccounted
    <2>5. CASE EndpointConnected(q)
        BY <2>5, ConnectedAccounted
    <2>6. QED
        BY <1>2, <2>1, <2>2, <2>3, <2>4, <2>5
<1>3. ASSUME NEW s \in Sessions, Logout(s) \/ RevokeDevice(s)
      PROVE  CallsInv'
    BY <1>3, LogoutAccounted
<1>4. ASSUME NEW a \in {Alice, Bob}, CompletePasswordRecovery(a) \/ CompleteEmailChange(a) \/ RequestDeletion(a)
      PROVE  CallsInv'
    BY <1>4, PasswordAccounted, DeletionAccounted
<1>5. ASSUME Recover \/ DissolvePartnership
      PROVE  CallsInv'
    BY <1>5, RecoverAccounted, DissolutionAccounted
<1>6. ASSUME NEW t \in timeouts, TimeOut(t)
      PROVE  CallsInv'
    BY <1>6, TimeOutAccounted
<1>7. CASE UNCHANGED callVars
    <2>1. requests' \subseteq RequestTypes
        BY <1>7 DEF callVars, CallsInv, CallsTypeOK, RequestTypes
    <2>2. QED
        BY <1>7, <2>1, RequestsOnly DEF callVars
<1>8. QED
    BY <1>1, <1>2, <1>3, <1>4, <1>5, <1>6, <1>7 DEF CallsNext

\* The module's own specification keeps what a call needs (CallingService): the timeout that will
\* end it, the announcement of each of its versions, and sessions for its endpoints.
THEOREM CallsAlwaysAccounted == CallsSpec => []CallsAccounted
<1>1. CallsInit => CallsInv
    BY CallsInvInit
<1>2. CallsInv /\ [CallsNext]_callVars => CallsInv'
    BY CallsStep
<1>3. CallsInv => CallsAccounted
    BY CallsInvAccounted
<1>4. QED
    BY <1>1, <1>2, <1>3, PTL DEF CallsSpec

-----------------------------------------------------------------------------
(* CallCamera: what holds in every state, besides CameraMatchesState.       *)

InChain == {chain[i] : i \in 1 .. Len(chain)}

ClosesTrack(r)  == r.by \in {"disable", "switch", "stop"}
CarriesTrack(r) == r.by \in {"enable", "withdraw"}

\* A replacement names the track it is about; whoever carries a track is still at work on it,
\* and a track that is being closed is neither the controller's nor anyone's any more.
EntryInOrder(r) ==
    /\ IF r.by = "enable" THEN r.track = r.generation ELSE r.track = 0
    /\ r.generation <= camera.generation
    /\ CarriesTrack(r) => Worker(r.generation) \in enabling
    /\ r.by = "withdraw" => r.generation < camera.generation
    /\ ClosesTrack(r) => /\ camera.stream = 0
                         /\ \A e \in enabling : e.generation # r.generation

\* An enable has a generation of its own, and a track of it once the camera is open.
WorkerInOrder(e) ==
    /\ e.generation \in 1 .. camera.generation /\ e.generation # camera.stream
    /\ camera.stopped => e.generation < camera.generation
    /\ e.step \in {"confirming", "replacing"} <=> e.generation \in live

OneWorker == \A e, f \in enabling : e.generation = f.generation => e = f

\* No track is carried twice, and an enable that a later disable waits behind was overtaken.
InOrder(q, r) ==
    /\ CarriesTrack(q) /\ CarriesTrack(r) => q.generation # r.generation
    /\ q.by = "enable" /\ ClosesTrack(r) => q.generation < camera.generation
ChainInOrder == \A i, j \in 1 .. Len(chain) : i < j => InOrder(chain[i], chain[j])

\* An open track is the controller's, an enable's, or about to be closed.
LiveAccounted ==
    /\ camera.stream # 0 => camera.stream \in live
    /\ camera.stream <= camera.generation
    /\ camera.stopped => camera.stream = 0
    /\ \A g \in live : \/ g = camera.stream /\ g # 0
                       \/ \E e \in enabling : e.generation = g
                       \/ g # 0 /\ \E r \in InChain : ClosesTrack(r) /\ r.generation = g

\* The state will be set when the chain is worked off.
Settling ==
    \/ ~ camera.stopped /\ \E r \in InChain : r.by \in {"disable", "switch"}
    \/ \E r \in InChain : r.by = "stop"

StateAccounted ==
    /\ camera.state \in {"acquiring", "switching"} =>
           Settling \/ \E e \in enabling : e.generation = camera.generation
    /\ camera.state = "on" /\ camera.stream = 0 => Settling

\* What is sent is the controller's track or none, or will be withdrawn; it is the controller's
\* unless an overtaken enable took its place.
SendingAccounted ==
    /\ sending \in {0, camera.stream} \/ \E r \in InChain : r.by # "enable"
    /\ camera.stream # 0 /\ ~ cleared =>
           /\ sending = camera.stream
           /\ \A r \in InChain : r.by = "withdraw" => r.generation < camera.stream

CameraInv ==
    /\ CameraTypeOK
    /\ \A r \in InChain : EntryInOrder(r)
    /\ \A e \in enabling : WorkerInOrder(e)
    /\ OneWorker /\ ChainInOrder /\ LiveAccounted /\ StateAccounted /\ SendingAccounted

LEMMA CameraInvInit == CameraInit => CameraInv
<1> SUFFICES ASSUME CameraInit PROVE CameraInv
    OBVIOUS
<1>1. CameraTypeOK
    <2>1. 0 \in Tracks /\ FALSE \in BOOLEAN
        BY OperationsAssumption DEF Tracks
    <2>2. chain \in Seq(Replacing)
        BY DEF CameraInit
    <2>3. QED
        BY <2>1, <2>2 DEF CameraInit, CameraTypeOK
<1>2. InChain = {}
    BY DEF CameraInit, InChain
<1>3. OneWorker /\ ChainInOrder /\ LiveAccounted /\ StateAccounted /\ SendingAccounted
    BY DEF CameraInit, OneWorker, ChainInOrder, LiveAccounted, StateAccounted, SendingAccounted
<1>4. QED
    BY <1>1, <1>2, <1>3 DEF CameraInit, CameraInv

LEMMA CameraInvMatches == CameraInv => CameraMatchesState
<1> SUFFICES ASSUME CameraInv, enabling = {}, chain = <<>> PROVE CameraMatchesState
    BY DEF CameraMatchesState, Quiet
<1>1. InChain = {}
    BY DEF InChain
<1>2. ~ Settling
    BY <1>1 DEF Settling
<1>3. camera.state \notin {"acquiring", "switching"} /\ (camera.state = "on" => camera.stream # 0)
    BY <1>2 DEF CameraInv, StateAccounted
<1>4. live = {camera.stream} \ {0}
    BY <1>1 DEF CameraInv, LiveAccounted
<1>5. sending \in {0, camera.stream} /\ (sending = camera.stream \/ cleared)
    BY <1>1 DEF CameraInv, SendingAccounted
<1>6. QED
    BY <1>3, <1>4, <1>5 DEF CameraMatchesState

-----------------------------------------------------------------------------
(* How the chain changes.                                                   *)

\* What a step does to the chain: r waits at its end; its head is resolved; both.
EntryQueued(r) ==
    /\ chain' \in Seq(Replacing) /\ Len(chain') = Len(chain) + 1 /\ chain'[Len(chain) + 1] = r
    /\ \A i \in 1 .. Len(chain) : chain'[i] = chain[i]
    /\ InChain' = InChain \cup {r}
EntryWorked(r) ==
    /\ chain' \in Seq(Replacing) /\ Len(chain) = Len(chain') + 1 /\ chain[1] = r
    /\ \A i \in 1 .. Len(chain') : chain'[i] = chain[i + 1]
    /\ r \in InChain /\ InChain' \subseteq InChain /\ InChain \subseteq InChain' \cup {r}
EntryTurned(r, s) ==
    /\ chain' \in Seq(Replacing) /\ Len(chain) = Len(chain') /\ chain[1] = r /\ Len(chain) > 0
    /\ \A i \in 1 .. Len(chain) - 1 : chain'[i] = chain[i + 1]
    /\ chain'[Len(chain)] = s
    /\ r \in InChain /\ InChain' \subseteq InChain \cup {s} /\ InChain \subseteq InChain' \cup {r} /\ s \in InChain'

LEMMA ChainTyped ==
    ASSUME NEW s \in Seq(Replacing)
    PROVE  /\ Len(s) \in Nat
           /\ \A i \in 1 .. Len(s) : s[i] \in Replacing /\ s[i].generation \in Nat
<1>1. \A r \in Replacing : r.generation \in Nat
    BY OperationsAssumption DEF Replacing, Tracks
<1>2. QED
    BY <1>1

LEMMA AppendQueues ==
    ASSUME chain \in Seq(Replacing), NEW r \in Replacing, chain' = Append(chain, r)
    PROVE  EntryQueued(r)
<1>1. /\ chain' \in Seq(Replacing) /\ Len(chain') = Len(chain) + 1 /\ chain'[Len(chain) + 1] = r
      /\ \A i \in 1 .. Len(chain) : chain'[i] = chain[i]
    OBVIOUS
<1>2. InChain' = InChain \cup {r}
    <2>1. ASSUME NEW i \in 1 .. Len(chain') PROVE chain'[i] \in InChain \cup {r}
        <3>1. CASE i = Len(chain) + 1
            BY <1>1, <3>1
        <3>2. CASE i # Len(chain) + 1
            <4>1. i \in 1 .. Len(chain)
                BY <1>1, <3>2
            <4>2. QED
                BY <1>1, <4>1 DEF InChain
        <3>3. QED
            BY <3>1, <3>2
    <2>2. ASSUME NEW i \in 1 .. Len(chain) PROVE chain[i] \in InChain'
        BY <1>1 DEF InChain
    <2>3. r \in InChain'
        BY <1>1 DEF InChain
    <2>4. QED
        BY <2>1, <2>2, <2>3 DEF InChain
<1>3. QED
    BY <1>1, <1>2 DEF EntryQueued

LEMMA TailWorks ==
    ASSUME chain \in Seq(Replacing), chain # <<>>, chain' = Tail(chain)
    PROVE  EntryWorked(Head1)
<1>1. /\ chain' \in Seq(Replacing) /\ Len(chain) = Len(chain') + 1 /\ Len(chain') \in Nat
      /\ \A i \in 1 .. Len(chain') : chain'[i] = chain[i + 1]
    OBVIOUS
<1>2. Head1 \in InChain
    <2>1. 1 \in 1 .. Len(chain)
        BY <1>1
    <2>2. QED
        BY <2>1 DEF InChain, Head1
<1>3. InChain' \subseteq InChain
    <2>1. ASSUME NEW i \in 1 .. Len(chain') PROVE chain'[i] \in InChain
        <3>1. i + 1 \in 1 .. Len(chain)
            BY <1>1
        <3>2. QED
            BY <1>1, <3>1 DEF InChain
    <2>2. QED
        BY <2>1 DEF InChain
<1>4. ASSUME NEW i \in 1 .. Len(chain) PROVE chain[i] \in InChain' \cup {Head1}
    <2>1. CASE i = 1
        BY <2>1 DEF Head1
    <2>2. CASE i # 1
        <3>1. i - 1 \in 1 .. Len(chain') /\ (i - 1) + 1 = i
            BY <1>1, <2>2
        <3>2. chain'[i - 1] = chain[i]
            BY <1>1, <3>1
        <3>3. QED
            BY <3>1, <3>2 DEF InChain
    <2>3. QED
        BY <2>1, <2>2
<1>5. InChain \subseteq InChain' \cup {Head1}
    BY <1>4 DEF InChain
<1>6. QED
    BY <1>1, <1>2, <1>3, <1>5 DEF EntryWorked, Head1

LEMMA BeforeLast == \A k, m \in Nat : k >= 1 /\ k <= m /\ k # m => k \in 1 .. m - 1
OBVIOUS

LEMMA AppendTailTurns ==
    ASSUME chain \in Seq(Replacing), chain # <<>>, NEW s \in Replacing, chain' = Append(Tail(chain), s)
    PROVE  EntryTurned(Head1, s)
<1>1. /\ chain' \in Seq(Replacing) /\ Len(chain) = Len(chain') /\ Len(chain) > 0 /\ Len(chain) \in Nat
      /\ \A i \in 1 .. Len(chain) - 1 : chain'[i] = chain[i + 1]
      /\ chain'[Len(chain)] = s
    OBVIOUS
<1>2. Head1 \in InChain /\ s \in InChain'
    <2>1. 1 \in 1 .. Len(chain) /\ Len(chain) \in 1 .. Len(chain')
        BY <1>1
    <2>2. QED
        BY <1>1, <2>1 DEF InChain, Head1
<1>3. ASSUME NEW i \in 1 .. Len(chain') PROVE chain'[i] \in InChain \cup {s}
    <2>1. CASE i = Len(chain)
        BY <1>1, <2>1
    <2>2. CASE i # Len(chain)
        <3>2. i \in Nat /\ i >= 1 /\ i <= Len(chain)
            BY <1>1
        <3>1. i \in 1 .. Len(chain) - 1
            BY <1>1, <2>2, <3>2, BeforeLast
        <3>3. i + 1 \in 1 .. Len(chain)
            BY <1>1, <3>1
        <3>4. QED
            BY <1>1, <3>1, <3>3 DEF InChain
    <2>3. QED
        BY <2>1, <2>2
<1>4. ASSUME NEW i \in 1 .. Len(chain) PROVE chain[i] \in InChain' \cup {Head1}
    <2>1. CASE i = 1
        BY <2>1 DEF Head1
    <2>2. CASE i # 1
        <3>1. i - 1 \in 1 .. Len(chain) - 1 /\ i - 1 \in 1 .. Len(chain') /\ chain'[i - 1] = chain[i]
            BY <1>1, <2>2
        <3>2. QED
            BY <3>1 DEF InChain
    <2>3. QED
        BY <2>1, <2>2
<1>5. InChain' \subseteq InChain \cup {s} /\ InChain \subseteq InChain' \cup {Head1}
    BY <1>3, <1>4 DEF InChain
<1>6. QED
    BY <1>1, <1>2, <1>5 DEF EntryTurned, Head1

\* The order of the chain is kept, whatever becomes of its head.
Follows(r) == \A q \in InChain :
    /\ CarriesTrack(q) /\ CarriesTrack(r) => q.generation # r.generation
    /\ q.by = "enable" /\ ClosesTrack(r) => q.generation < camera'.generation
GenerationGrows == camera.generation \in Nat /\ camera'.generation \in Nat /\ camera.generation <= camera'.generation

LEMMA OrderQueued ==
    ASSUME CameraTypeOK, ChainInOrder, GenerationGrows, NEW r \in Replacing, EntryQueued(r), Follows(r)
    PROVE  ChainInOrder'
<1> SUFFICES ASSUME NEW i \in 1 .. Len(chain'), NEW j \in 1 .. Len(chain'), i < j
             PROVE  InOrder(chain[i], chain[j])'
    BY DEF ChainInOrder
<1>0. Len(chain) \in Nat
    BY DEF CameraTypeOK
<1>1. i \in 1 .. Len(chain) /\ chain'[i] = chain[i] /\ chain[i] \in InChain /\ chain[i].generation \in Nat
    <2>1. i \in 1 .. Len(chain)
        BY <1>0 DEF EntryQueued
    <2>2. QED
        BY <2>1, ChainTyped DEF EntryQueued, InChain, CameraTypeOK
<1>2. CASE j = Len(chain) + 1
    BY <1>1, <1>2 DEF EntryQueued, Follows, InOrder, CarriesTrack, ClosesTrack
<1>3. CASE j # Len(chain) + 1
    <2>1. j \in 1 .. Len(chain) /\ chain'[j] = chain[j]
        BY <1>0, <1>3 DEF EntryQueued
    <2>2. InOrder(chain[i], chain[j])
        BY <1>1, <2>1, i < j DEF ChainInOrder, EntryQueued
    <2>3. QED
        BY <1>1, <2>1, <2>2, GenerationGrows DEF InOrder, GenerationGrows, CarriesTrack, ClosesTrack
<1>4. QED
    BY <1>2, <1>3

LEMMA OrderWorked ==
    ASSUME CameraTypeOK, ChainInOrder, GenerationGrows, NEW r, EntryWorked(r)
    PROVE  /\ ChainInOrder'
           /\ \A q \in InChain' : InOrder(r, q)
<1>0. Len(chain) \in Nat /\ Len(chain') \in Nat /\ Len(chain) = Len(chain') + 1
    BY DEF CameraTypeOK, EntryWorked
<1>1. ASSUME NEW i \in 1 .. Len(chain') PROVE i + 1 \in 1 .. Len(chain) /\ chain'[i] = chain[i + 1] /\ chain'[i].generation \in Nat
    BY <1>0, ChainTyped DEF EntryWorked
<1>2. ChainInOrder'
    <2> SUFFICES ASSUME NEW i \in 1 .. Len(chain'), NEW j \in 1 .. Len(chain'), i < j
                 PROVE  InOrder(chain[i], chain[j])'
        BY DEF ChainInOrder
    <2>1. i + 1 \in 1 .. Len(chain) /\ j + 1 \in 1 .. Len(chain) /\ i + 1 < j + 1
        BY <1>0
    <2>2. InOrder(chain[i + 1], chain[j + 1])
        BY <2>1 DEF ChainInOrder
    <2>3. QED
        BY <1>1, <2>2, GenerationGrows DEF InOrder, GenerationGrows, CarriesTrack, ClosesTrack
<1>3. ASSUME NEW i \in 1 .. Len(chain')
      PROVE  InOrder(r, chain'[i])
    <2>1. 1 \in 1 .. Len(chain) /\ 1 < i + 1
        BY <1>0
    <2>2. InOrder(chain[1], chain[i + 1])
        BY <1>1, <2>1 DEF ChainInOrder
    <2>3. QED
        BY <1>1, <2>2 DEF EntryWorked
<1>4. QED
    BY <1>2, <1>3 DEF InChain

LEMMA OrderTurned ==
    ASSUME CameraTypeOK, ChainInOrder, GenerationGrows, NEW r, NEW s \in Replacing, EntryTurned(r, s),
           r.by = "enable", s.by = "withdraw", s.generation = r.generation
    PROVE  ChainInOrder'
<1> SUFFICES ASSUME NEW i \in 1 .. Len(chain'), NEW j \in 1 .. Len(chain'), i < j
             PROVE  InOrder(chain[i], chain[j])'
    BY DEF ChainInOrder
<1>0. Len(chain) \in Nat /\ Len(chain') \in Nat /\ Len(chain) = Len(chain')
    BY DEF CameraTypeOK, EntryTurned
<1>1. i + 1 \in 1 .. Len(chain) /\ i \in 1 .. Len(chain) - 1
    BY <1>0
<1>2. chain'[i] = chain[i + 1] /\ chain'[i].generation \in Nat
    BY <1>0, <1>1, ChainTyped DEF EntryTurned
<1>3. CASE j = Len(chain)
    <2>1. chain'[j] = s /\ ~ ClosesTrack(s) /\ CarriesTrack(r)
        BY <1>3 DEF EntryTurned, ClosesTrack, CarriesTrack
    <2>2. 1 \in 1 .. Len(chain) /\ 1 < i + 1
        BY <1>0
    <2>3. InOrder(r, chain[i + 1])
        BY <1>1, <2>2 DEF ChainInOrder, EntryTurned
    <2>4. QED
        BY <1>2, <2>1, <2>3 DEF InOrder, CarriesTrack, ClosesTrack
<1>4. CASE j # Len(chain)
    <2>1. j + 1 \in 1 .. Len(chain) /\ chain'[j] = chain[j + 1] /\ i + 1 < j + 1
        BY <1>0, <1>4 DEF EntryTurned
    <2>2. InOrder(chain[i + 1], chain[j + 1])
        BY <1>1, <2>1 DEF ChainInOrder
    <2>3. QED
        BY <1>2, <2>1, <2>2, GenerationGrows DEF InOrder, GenerationGrows, CarriesTrack, ClosesTrack
<1>5. QED
    BY <1>3, <1>4

-----------------------------------------------------------------------------
(* Steps of an enable.                                                      *)

LEMMA CameraTyped ==
    ASSUME CameraTypeOK
    PROVE  /\ camera.generation \in Tracks /\ camera.stream \in Tracks /\ camera.stopped \in BOOLEAN
           /\ \A g \in Tracks : g \in Nat /\ g <= MaxOperations
           /\ \A g \in 0 .. MaxOperations : g \in Tracks
           /\ InChain \subseteq Replacing
           /\ \A r \in Replacing : r.generation \in Tracks /\ r.track \in Tracks
           /\ \A e \in enabling : e \in Enabling /\ e.generation \in Tracks
<1>1. camera.generation \in Tracks /\ camera.stream \in Tracks /\ camera.stopped \in BOOLEAN
    BY DEF CameraTypeOK
<1>2. \A g \in Tracks : g \in Nat /\ g <= MaxOperations
    BY OperationsAssumption DEF Tracks
<1>3. InChain \subseteq Replacing
    BY DEF CameraTypeOK, InChain
<1>4. /\ \A r \in Replacing : r.generation \in Tracks /\ r.track \in Tracks
      /\ \A e \in enabling : e \in Enabling /\ e.generation \in Tracks
    BY DEF CameraTypeOK, Replacing, Enabling
<1>5. QED
    BY <1>1, <1>2, <1>3, <1>4 DEF Tracks

CameraRecord == [generation : Tracks, stream : Tracks, stopped : BOOLEAN,
                 state : {"off", "acquiring", "on", "switching", "unavailable"}]

\* Whose track is open has a generation that the controller has given.
LEMMA LiveGiven == ASSUME CameraInv, NEW g \in live PROVE g <= camera.generation
BY CameraTyped DEF CameraInv, LiveAccounted, WorkerInOrder, EntryInOrder

LEMMA ChainOrderKept ==
    ASSUME CameraInv, chain' = chain, GenerationGrows PROVE ChainInOrder'
<1>1. \A i \in 1 .. Len(chain) : chain[i].generation \in Nat
    BY ChainTyped DEF CameraInv, CameraTypeOK
<1>2. QED
    BY <1>1 DEF CameraInv, ChainInOrder, InOrder, CarriesTrack, ClosesTrack, GenerationGrows

\* An enable begins, and is given the next generation.
LEMMA WorkerBegins ==
    ASSUME CameraInv, NEW n, camera.generation < MaxOperations,
           n = [generation |-> camera.generation + 1, step |-> "asking"],
           enabling' = enabling \cup {n},
           camera' = Begin(camera), ~ camera.stopped,
           chain' = chain, sending' = sending, live' = live, cleared' = cleared
    PROVE  CameraInv'
<1>0. CameraTypeOK
    BY DEF CameraInv
<1>1. /\ camera'.generation = camera.generation + 1 /\ camera'.stream = camera.stream
      /\ camera'.stopped = FALSE /\ camera.stopped = FALSE
      /\ camera'.state = IF camera.stream = 0 THEN "acquiring" ELSE "switching"
      /\ camera.generation + 1 \in Tracks
    BY <1>0, CameraTyped, OperationsAssumption DEF Begin, CameraTypeOK, Tracks
<1>2. CameraTypeOK'
    <2>1. n \in Enabling
        BY <1>1 DEF Enabling
    <2>2. camera' \in CameraRecord
        BY <1>0, <1>1 DEF Begin, CameraTypeOK, CameraRecord
    <2>3. QED
        BY <1>0, <2>1, <2>2 DEF CameraTypeOK, CameraRecord
<1>3. InChain' = InChain
    BY DEF InChain
<1>4. /\ n.generation = camera.generation + 1 /\ n.step = "asking"
      /\ camera.generation \in Nat
      /\ \A e \in enabling : e.generation \in Nat /\ e.generation <= camera.generation
    BY <1>0, CameraTyped DEF CameraInv, WorkerInOrder
<1>5. \A r \in InChain' : EntryInOrder(r)'
    <2> SUFFICES ASSUME NEW r \in InChain PROVE EntryInOrder(r)'
        BY <1>3
    <2>1. EntryInOrder(r) /\ r.generation \in Nat
        BY <1>0, CameraTyped DEF CameraInv
    <2>2. QED
        BY <1>1, <1>4, <2>1 DEF EntryInOrder, CarriesTrack, ClosesTrack
<1>6. \A e \in enabling' : WorkerInOrder(e)'
    <2>1. ASSUME NEW e \in enabling PROVE WorkerInOrder(e)'
        BY <1>1, <1>4 DEF CameraInv, WorkerInOrder
    <2>2. camera.stream <= camera.generation /\ camera.stream \in Nat
        BY <1>0, CameraTyped DEF CameraInv, LiveAccounted
    <2>3. n.generation \notin live
        BY <1>4, LiveGiven
    <2>4. n.generation \in 1 .. camera'.generation
        BY <1>1, <1>4
    <2>5. WorkerInOrder(n)'
        BY <1>1, <1>4, <2>2, <2>3, <2>4 DEF WorkerInOrder
    <2>6. QED
        BY <2>1, <2>5
<1>7. OneWorker'
    BY <1>4 DEF CameraInv, OneWorker
<1>8. ChainInOrder'
    BY <1>1, <1>4, ChainOrderKept DEF GenerationGrows
<1>9. LiveAccounted'
    BY <1>0, <1>1, <1>3, <1>4, CameraTyped DEF CameraInv, LiveAccounted, ClosesTrack
<1>10. StateAccounted'
    BY <1>1, <1>4 DEF StateAccounted
<1>11. SendingAccounted'
    BY <1>1, <1>3 DEF CameraInv, SendingAccounted
<1>12. QED
    BY <1>2, <1>5, <1>6, <1>7, <1>8, <1>9, <1>10, <1>11 DEF CameraInv

\* An enable goes on to its next step; its replaceTrack waits when it has come that far.
LEMMA WorkerGoesOn ==
    ASSUME CameraInv, NEW e \in enabling, e.step # "replacing",
           NEW n \in Enabling, n.generation = e.generation, enabling' = (enabling \ {e}) \cup {n},
           camera' = camera, sending' = sending, cleared' = cleared,
           live' \in {live, live \cup {e.generation}},
           n.step \in {"confirming", "replacing"} <=> e.generation \in live',
           NEW r \in Replacing,
           r = [track |-> e.generation, by |-> "enable", generation |-> e.generation],
           \/ chain' = chain
           \/ chain' = Append(chain, r) /\ n.step = "replacing"
    PROVE  CameraInv'
<1>0. CameraTypeOK /\ WorkerInOrder(e) /\ e \in Enabling /\ e.generation \in Tracks /\ camera.generation \in Nat
    BY CameraTyped DEF CameraInv
<1>1. r.generation = e.generation /\ r.track = e.generation /\ r.by = "enable"
    OBVIOUS
<1>2. \/ chain' = chain /\ InChain' = InChain
      \/ EntryQueued(r) /\ n = Worker(e.generation)
    <2>1. n.step = "replacing" => n = Worker(e.generation)
        BY DEF Enabling, Worker
    <2>2. QED
        BY <1>0, <2>1, AppendQueues DEF InChain, CameraTypeOK
<1>3. chain' \in Seq(Replacing) /\ InChain \subseteq InChain' /\ InChain' \subseteq InChain \cup {r}
    BY <1>0, <1>2 DEF EntryQueued, CameraTypeOK
<1>4. CameraTypeOK'
    BY <1>0, <1>3 DEF CameraTypeOK
<1>5. \A q \in InChain : CarriesTrack(q) => Worker(q.generation) \in enabling' /\ q.generation # e.generation
    <2> SUFFICES ASSUME NEW q \in InChain, CarriesTrack(q)
                 PROVE  Worker(q.generation) \in enabling' /\ q.generation # e.generation
        OBVIOUS
    <2>1. Worker(q.generation) \in enabling
        BY DEF CameraInv, EntryInOrder
    <2>2. Worker(q.generation).step = "replacing" /\ Worker(q.generation).generation = q.generation
        BY DEF Worker
    <2>3. Worker(q.generation) # e
        BY <2>2
    <2>4. QED
        BY <2>1, <2>2, <2>3 DEF CameraInv, OneWorker
<1>6. \A q \in InChain' : EntryInOrder(q)'
    <2>1. ASSUME NEW q \in InChain PROVE EntryInOrder(q)'
        BY <1>5 DEF CameraInv, EntryInOrder, CarriesTrack, ClosesTrack, Worker
    <2>2. r \in InChain' /\ r \notin InChain => n = Worker(e.generation)
        BY <1>2
    <2>3. ASSUME r \in InChain', r \notin InChain PROVE EntryInOrder(r)'
        BY <1>0, <1>1, <2>2, <2>3 DEF EntryInOrder, CarriesTrack, ClosesTrack, Worker, WorkerInOrder
    <2>4. QED
        BY <1>3, <2>1, <2>3
<1>7. \A f \in enabling' : WorkerInOrder(f)'
    <2>1. WorkerInOrder(n)'
        BY <1>0 DEF WorkerInOrder
    <2>2. ASSUME NEW f \in enabling, f # e PROVE WorkerInOrder(f)'
        <3>1. f.generation # e.generation /\ WorkerInOrder(f)
            BY <2>2 DEF CameraInv, OneWorker
        <3>2. QED
            BY <3>1 DEF WorkerInOrder
    <2>3. QED
        BY <2>1, <2>2
<1>8. OneWorker'
    BY DEF CameraInv, OneWorker
<1>9. ChainInOrder'
    <2>1. GenerationGrows
        BY <1>0 DEF GenerationGrows
    <2>2. Follows(r)
        BY <1>1, <1>5 DEF Follows, ClosesTrack
    <2>3. QED
        BY <1>0, <1>2, <2>1, <2>2, ChainOrderKept, OrderQueued DEF CameraInv
<1>10. LiveAccounted'
    BY <1>3 DEF CameraInv, LiveAccounted, ClosesTrack
<1>11. StateAccounted'
    BY <1>3 DEF CameraInv, StateAccounted, Settling
<1>12. SendingAccounted'
    BY <1>1, <1>3 DEF CameraInv, SendingAccounted
<1>13. QED
    BY <1>4, <1>6, <1>7, <1>8, <1>9, <1>10, <1>11, <1>12 DEF CameraInv

\* An enable fails, and closes the track it may have opened.
LEMMA WorkerFails ==
    ASSUME CameraInv, NEW e \in enabling, e.step # "replacing", enabling' = enabling \ {e},
           chain' = chain, sending' = sending, cleared' = cleared, camera' \in CameraRecord,
           live' = live \ {e.generation},
           camera'.generation = camera.generation, camera'.stream = camera.stream,
           camera'.stopped = camera.stopped,
           \/ camera'.state = camera.state /\ ~ Current(e)
           \/ camera'.state \in {"off", "unavailable"}
           \/ camera'.state = "on" /\ camera.stream # 0
    PROVE  CameraInv'
<1>0. CameraTypeOK /\ WorkerInOrder(e) /\ camera.generation \in Nat
    BY CameraTyped DEF CameraInv
<1>1. InChain' = InChain
    BY DEF InChain
<1>2. CameraTypeOK'
    BY <1>0 DEF CameraTypeOK, CameraRecord
<1>3. \A f \in enabling : f # e => f \in enabling' /\ f.generation # e.generation
    BY DEF CameraInv, OneWorker
<1>4. \A q \in InChain' : EntryInOrder(q)'
    <2> SUFFICES ASSUME NEW q \in InChain PROVE EntryInOrder(q)'
        BY <1>1
    <2>1. Worker(q.generation).step = "replacing"
        BY DEF Worker
    <2>2. EntryInOrder(q)
        BY DEF CameraInv
    <2>3. Worker(q.generation)' = Worker(q.generation)
        BY DEF Worker
    <2>4. QED
        BY <2>1, <2>2, <2>3 DEF EntryInOrder, CarriesTrack, ClosesTrack
<1>5. \A f \in enabling' : WorkerInOrder(f)'
    BY <1>3 DEF CameraInv, WorkerInOrder
<1>6. OneWorker'
    BY DEF CameraInv, OneWorker
<1>7. ChainInOrder'
    BY <1>0, ChainOrderKept DEF GenerationGrows
<1>8. LiveAccounted'
    BY <1>0, <1>1, <1>3 DEF CameraInv, LiveAccounted, ClosesTrack, WorkerInOrder
<1>9. StateAccounted'
    BY <1>0, <1>1, <1>3 DEF CameraInv, StateAccounted, Settling, Current, WorkerInOrder
<1>10. SendingAccounted'
    BY <1>1 DEF CameraInv, SendingAccounted
<1>11. QED
    BY <1>2, <1>4, <1>5, <1>6, <1>7, <1>8, <1>9, <1>10 DEF CameraInv

LEMMA FirstAuthorityStep == ASSUME CameraInv, NEW e \in enabling, FirstAuthority(e) PROVE CameraInv'
<1>0. CameraTypeOK /\ e \in Enabling /\ e.generation \in Tracks /\ WorkerInOrder(e)
    BY CameraTyped DEF CameraInv
<1>1. e.step = "asking" /\ chain' = chain /\ sending' = sending /\ live' = live /\ cleared' = cleared
    BY DEF FirstAuthority
<1>2. e.generation \notin live
    BY <1>0, <1>1 DEF WorkerInOrder
<1>3. CASE At(e, "opening") /\ UNCHANGED camera
    <2>1. PICK n : n = [e EXCEPT !.step = "opening"]
        OBVIOUS
    <2>2. n \in Enabling /\ n.generation = e.generation /\ n.step = "opening" /\ enabling' = (enabling \ {e}) \cup {n}
        BY <1>0, <1>3, <2>1 DEF At, Enabling
    <2>3. [track |-> e.generation, by |-> "enable", generation |-> e.generation] \in Replacing
        BY <1>0 DEF Replacing
    <2>4. QED
        BY <1>1, <1>2, <1>3, <2>2, <2>3, WorkerGoesOn
<1>4. CASE Set(StateFor(camera.stream)) /\ Return(e)
    <2>1. /\ camera' \in CameraRecord
          /\ camera'.generation = camera.generation /\ camera'.stream = camera.stream
          /\ camera'.stopped = camera.stopped
          /\ camera'.state \in {"off", "unavailable"} \/ (camera'.state = "on" /\ camera.stream # 0)
        BY <1>0, <1>4 DEF Set, StateFor, CameraTypeOK, CameraRecord
    <2>2. live' = live \ {e.generation} /\ enabling' = enabling \ {e}
        BY <1>1, <1>2, <1>4 DEF Return
    <2>3. QED
        BY <1>1, <2>1, <2>2, WorkerFails
<1>5. QED
    BY <1>3, <1>4 DEF FirstAuthority

LEMMA OpenCameraStep == ASSUME CameraInv, NEW e \in enabling, OpenCamera(e) PROVE CameraInv'
<1>0. CameraTypeOK /\ e \in Enabling /\ e.generation \in Tracks /\ WorkerInOrder(e)
    BY CameraTyped DEF CameraInv
<1>1. e.step = "opening" /\ chain' = chain /\ sending' = sending /\ cleared' = cleared
    BY DEF OpenCamera
<1>2. e.generation \notin live
    BY <1>0, <1>1 DEF WorkerInOrder
<1>3. CASE live' = live \cup {e.generation} /\ At(e, "confirming") /\ UNCHANGED camera
    <2>1. PICK n : n = [e EXCEPT !.step = "confirming"]
        OBVIOUS
    <2>2. n \in Enabling /\ n.generation = e.generation /\ n.step = "confirming" /\ enabling' = (enabling \ {e}) \cup {n}
        BY <1>0, <1>3, <2>1 DEF At, Enabling
    <2>3. [track |-> e.generation, by |-> "enable", generation |-> e.generation] \in Replacing
        BY <1>0 DEF Replacing
    <2>4. QED
        BY <1>1, <1>3, <2>2, <2>3, WorkerGoesOn
<1>4. CASE Return(e) /\ live' = live /\ ((~ Current(e) /\ UNCHANGED camera) \/ Set("unavailable"))
    <2>1. /\ camera' \in CameraRecord
          /\ camera'.generation = camera.generation /\ camera'.stream = camera.stream
          /\ camera'.stopped = camera.stopped
          /\ (camera'.state = camera.state /\ ~ Current(e)) \/ camera'.state \in {"off", "unavailable"}
        BY <1>0, <1>4 DEF Set, CameraTypeOK, CameraRecord
    <2>2. live' = live \ {e.generation} /\ enabling' = enabling \ {e}
        BY <1>2, <1>4 DEF Return
    <2>3. QED
        BY <1>1, <2>1, <2>2, WorkerFails
<1>5. QED
    BY <1>3, <1>4 DEF OpenCamera

LEMMA SecondAuthorityStep == ASSUME CameraInv, NEW e \in enabling, SecondAuthority(e) PROVE CameraInv'
<1>0. CameraTypeOK /\ e \in Enabling /\ e.generation \in Tracks /\ WorkerInOrder(e)
    BY CameraTyped DEF CameraInv
<1>1. e.step = "confirming" /\ sending' = sending /\ cleared' = cleared
    BY DEF SecondAuthority
<1>2. CASE At(e, "replacing") /\ ReplaceTrack(e.generation, "enable", e.generation) /\ UNCHANGED <<camera, live>>
    <2>1. PICK n : n = [e EXCEPT !.step = "replacing"]
        OBVIOUS
    <2>2. n \in Enabling /\ n.generation = e.generation /\ n.step = "replacing" /\ enabling' = (enabling \ {e}) \cup {n}
        BY <1>0, <1>2, <2>1 DEF At, Enabling
    <2>3. PICK r : r = [track |-> e.generation, by |-> "enable", generation |-> e.generation]
        OBVIOUS
    <2>4. r \in Replacing /\ chain' = Append(chain, r)
        BY <1>0, <1>2, <2>3 DEF Replacing, ReplaceTrack
    <2>5. e.generation \in live
        BY <1>0, <1>1 DEF WorkerInOrder
    <2>6. QED
        BY <1>1, <1>2, <2>2, <2>3, <2>4, <2>5, WorkerGoesOn
<1>3. CASE live' = live \ {e.generation} /\ Return(e) /\ chain' = chain
           /\ ((~ Current(e) /\ UNCHANGED camera) \/ Set("off"))
    <2>1. /\ camera' \in CameraRecord
          /\ camera'.generation = camera.generation /\ camera'.stream = camera.stream
          /\ camera'.stopped = camera.stopped
          /\ (camera'.state = camera.state /\ ~ Current(e)) \/ camera'.state \in {"off", "unavailable"}
        BY <1>0, <1>3 DEF Set, CameraTypeOK, CameraRecord
    <2>2. QED
        BY <1>1, <1>3, <2>1, WorkerFails DEF Return
<1>4. QED
    BY <1>2, <1>3 DEF SecondAuthority

LEMMA EnableStep == CameraInv /\ Enable => CameraInv'
<1> SUFFICES ASSUME CameraInv, Enable PROVE CameraInv'
    OBVIOUS
<1>1. PICK n : n = [generation |-> camera.generation + 1, step |-> "asking"]
    OBVIOUS
<1>2. QED
    BY <1>1, WorkerBegins DEF Enable

-----------------------------------------------------------------------------
(* disable, switchFacingMode and stop.                                      *)

\* The controller lets go of its track, and closes it when the sender has.
LEMMA LetsGo ==
    ASSUME CameraInv, NEW by \in {"disable", "switch", "stop"}, by # "disable" => ~ camera.stopped,
           camera.generation < MaxOperations,
           camera' \in CameraRecord,
           camera'.generation = camera.generation + 1, camera'.stream = 0,
           camera'.stopped = (camera.stopped \/ by = "stop"), camera'.state = camera.state,
           ReplaceTrack(0, by, camera.stream),
           enabling' = enabling, sending' = sending, live' = live, cleared' = cleared
    PROVE  CameraInv'
<1>0. /\ CameraTypeOK /\ camera.generation \in Nat /\ camera.stream \in Nat
      /\ \A q \in InChain : q.generation \in Nat
      /\ \A e \in enabling : WorkerInOrder(e)
    BY CameraTyped DEF CameraInv
<1>1. PICK r : r = [track |-> 0, by |-> by, generation |-> camera.stream]
    OBVIOUS
<1>2. /\ r \in Replacing /\ chain' = Append(chain, r)
      /\ r.by = by /\ r.track = 0 /\ r.generation = camera.stream /\ ClosesTrack(r) /\ ~ CarriesTrack(r)
    <2>1. 0 \in Tracks /\ camera.stream \in Tracks
        BY <1>0, CameraTyped, OperationsAssumption DEF Tracks
    <2>2. r \in Replacing
        BY <1>1, <2>1 DEF Replacing
    <2>3. QED
        BY <1>1, <2>2 DEF ReplaceTrack, ClosesTrack, CarriesTrack
<1>3. EntryQueued(r)
    BY <1>0, <1>2, AppendQueues DEF CameraTypeOK
<1>4. chain' \in Seq(Replacing) /\ InChain' = InChain \cup {r}
    BY <1>3 DEF EntryQueued
<1>5. CameraTypeOK'
    BY <1>0, <1>4 DEF CameraTypeOK, CameraRecord
<1>6. \A q \in InChain' : EntryInOrder(q)'
    <2>1. ASSUME NEW q \in InChain PROVE EntryInOrder(q)'
        <3>1. EntryInOrder(q) /\ q.generation \in Nat
            BY <1>0 DEF CameraInv
        <3>2. Worker(q.generation)' = Worker(q.generation)
            BY DEF Worker
        <3>3. QED
            BY <1>0, <3>1, <3>2 DEF EntryInOrder, CarriesTrack, ClosesTrack
    <2>2. camera.stream <= camera.generation
        BY DEF CameraInv, LiveAccounted
    <2>3. EntryInOrder(r)'
        BY <1>0, <1>2, <2>2 DEF EntryInOrder, WorkerInOrder, CarriesTrack, ClosesTrack
    <2>4. QED
        BY <1>4, <2>1, <2>3
<1>7. \A e \in enabling' : WorkerInOrder(e)'
    BY <1>0 DEF WorkerInOrder
<1>8. OneWorker'
    BY DEF CameraInv, OneWorker
<1>9. ChainInOrder'
    <2>1. Follows(r)
        BY <1>0, <1>2 DEF Follows, CameraInv, EntryInOrder
    <2>2. GenerationGrows
        BY <1>0 DEF GenerationGrows
    <2>3. QED
        BY <1>0, <1>2, <1>3, <2>1, <2>2, OrderQueued DEF CameraInv
<1>10. LiveAccounted'
    <2>1. ASSUME NEW g \in live
          PROVE  \/ \E e \in enabling : e.generation = g
                 \/ g # 0 /\ \E q \in InChain' : ClosesTrack(q) /\ q.generation = g
        BY <1>2, <1>4 DEF CameraInv, LiveAccounted
    <2>2. QED
        BY <1>0, <2>1 DEF LiveAccounted, ClosesTrack
<1>11. StateAccounted'
    <2>1. CASE ~ camera.stopped
        BY <1>2, <1>4, <2>1 DEF StateAccounted, Settling
    <2>2. CASE camera.stopped
        BY <1>0, <1>4, <2>2 DEF CameraInv, StateAccounted, Settling, LiveAccounted, WorkerInOrder
    <2>3. QED
        BY <2>1, <2>2
<1>12. SendingAccounted'
    BY <1>2, <1>4 DEF SendingAccounted
<1>13. QED
    BY <1>5, <1>6, <1>7, <1>8, <1>9, <1>10, <1>11, <1>12 DEF CameraInv

LEMMA DisableStep == CameraInv /\ (Disable \/ SwitchFacingMode \/ StopCamera) => CameraInv'
<1> SUFFICES ASSUME CameraInv, Disable \/ SwitchFacingMode \/ StopCamera PROVE CameraInv'
    OBVIOUS
<1>1. CameraTypeOK /\ (camera.generation < MaxOperations => camera.generation + 1 \in Tracks) /\ 0 \in Tracks
    BY CameraTyped, OperationsAssumption DEF CameraInv, Tracks
<1>2. CASE Disable
    <2>1. /\ camera' \in CameraRecord
          /\ camera'.generation = camera.generation + 1 /\ camera'.stream = 0
          /\ camera'.stopped = camera.stopped /\ camera'.state = camera.state
        BY <1>1, <1>2 DEF Disable, CameraTypeOK, CameraRecord
    <2>2. camera'.stopped = (camera.stopped \/ "disable" = "stop")
        BY <1>1, <2>1 DEF CameraTypeOK
    <2>3. QED
        BY <1>2, <2>1, <2>2, LetsGo DEF Disable
<1>3. CASE SwitchFacingMode
    <2>1. /\ camera' \in CameraRecord
          /\ camera'.generation = camera.generation + 1 /\ camera'.stream = 0
          /\ camera'.stopped = camera.stopped /\ camera'.state = camera.state
        BY <1>1, <1>3 DEF SwitchFacingMode, CameraTypeOK, CameraRecord
    <2>2. camera'.stopped = (camera.stopped \/ "switch" = "stop")
        BY <1>1, <2>1 DEF CameraTypeOK
    <2>3. QED
        BY <1>3, <2>1, <2>2, LetsGo DEF SwitchFacingMode
<1>4. CASE StopCamera
    <2>1. /\ camera' \in CameraRecord
          /\ camera'.generation = camera.generation + 1 /\ camera'.stream = 0
          /\ camera'.stopped = TRUE /\ camera'.state = camera.state
        BY <1>1, <1>4 DEF StopCamera, CameraTypeOK, CameraRecord
    <2>2. camera'.stopped = (camera.stopped \/ "stop" = "stop")
        BY <2>1
    <2>3. QED
        BY <1>4, <2>1, <2>2, LetsGo DEF StopCamera
<1>5. QED
    BY <1>2, <1>3, <1>4

-----------------------------------------------------------------------------
(* The first replaceTrack is resolved.                                      *)

\* What holds of the head of the chain, and of the enable that awaits it.
LEMMA HeadInOrder ==
    ASSUME CameraInv, chain # <<>>
    PROVE  /\ CameraTypeOK /\ Head1 \in InChain /\ Head1 \in Replacing /\ EntryInOrder(Head1)
           /\ Head1.generation \in Nat /\ camera.generation \in Nat /\ camera.stream \in Nat
           /\ camera.stopped \in BOOLEAN
           /\ \A q \in InChain : q.generation \in Nat
           /\ \A f \in enabling : WorkerInOrder(f)
<1>1. CameraTypeOK
    BY DEF CameraInv
<1>2. Head1 \in InChain
    <2>1. 1 \in 1 .. Len(chain)
        BY <1>1 DEF CameraTypeOK
    <2>2. QED
        BY <2>1 DEF InChain, Head1
<1>3. QED
    BY <1>1, <1>2, CameraTyped DEF CameraInv

LEMMA AwaitingHead ==
    ASSUME CameraInv, chain # <<>>, CarriesTrack(Head1), NEW e, e = Worker(Head1.generation)
    PROVE  /\ e \in enabling /\ e.generation = Head1.generation /\ e.step = "replacing"
           /\ e.generation \in live /\ e.generation # camera.stream
           /\ e.generation # 0 /\ e.generation <= camera.generation
           /\ camera.stopped => e.generation < camera.generation
           /\ \A f \in enabling : f # e => f.generation # e.generation
<1>1. e \in enabling /\ e.generation = Head1.generation /\ e.step = "replacing"
    BY HeadInOrder DEF EntryInOrder, Worker
<1>2. WorkerInOrder(e) /\ camera.generation \in Nat
    BY <1>1, HeadInOrder
<1>3. QED
    BY <1>1, <1>2 DEF WorkerInOrder, CameraInv, OneWorker

\* The head of an enable leaves the chain, and its enable returns.
Returned(e) ==
    /\ chain # <<>> /\ CarriesTrack(Head1) /\ e = Worker(Head1.generation)
    /\ chain' = Tail(chain) /\ enabling' = enabling \ {e}

LEMMA ReturnedInOrder ==
    ASSUME CameraInv, NEW e, Returned(e), camera' \in CameraRecord, camera'.generation = camera.generation
    PROVE  /\ chain' \in Seq(Replacing) /\ enabling' \subseteq Enabling
           /\ \A q \in InChain' : /\ q \in InChain /\ EntryInOrder(q) /\ InOrder(Head1, q)
                                  /\ CarriesTrack(q) => Worker(q.generation) \in enabling'
           /\ \A q \in InChain : q \in InChain' \/ q = Head1
           /\ OneWorker' /\ ChainInOrder'
<1>1. CameraTypeOK /\ camera.generation \in Nat /\ EntryWorked(Head1)
    BY HeadInOrder, TailWorks DEF Returned, CameraTypeOK
<1>2. ChainInOrder' /\ \A q \in InChain' : InOrder(Head1, q)
    <2>1. GenerationGrows
        BY <1>1 DEF GenerationGrows
    <2>2. QED
        BY <1>1, <2>1, OrderWorked DEF CameraInv
<1>3. ASSUME NEW q \in InChain'
      PROVE  /\ q \in InChain /\ EntryInOrder(q)
             /\ CarriesTrack(q) => Worker(q.generation) \in enabling'
    <2>1. q \in InChain /\ EntryInOrder(q)
        BY <1>1 DEF EntryWorked, CameraInv
    <2>2. CarriesTrack(q) => q.generation # Head1.generation
        BY <1>2 DEF InOrder, Returned
    <2>3. CarriesTrack(q) => Worker(q.generation) # e
        BY <2>2 DEF Worker, Returned
    <2>4. QED
        BY <2>1, <2>3 DEF EntryInOrder, Returned
<1>4. QED
    BY <1>1, <1>2, <1>3 DEF EntryWorked, CameraTypeOK, CameraInv, OneWorker, Returned

LEMMA EnableReplacedStep == CameraInv /\ EnableReplaced => CameraInv'
<1> SUFFICES ASSUME CameraInv, EnableReplaced PROVE CameraInv'
    OBVIOUS
<1>1. PICK e : e = Worker(Head1.generation)
    OBVIOUS
<1>2. /\ chain # <<>> /\ Head1.by = "enable" /\ sending' = Head1.track /\ CarriesTrack(Head1) /\ ~ ClosesTrack(Head1)
    BY DEF EnableReplaced, Resolve, CarriesTrack, ClosesTrack
<1>3. /\ CameraTypeOK /\ Head1 \in InChain /\ Head1 \in Replacing /\ EntryInOrder(Head1)
      /\ Head1.generation \in Nat /\ camera.generation \in Nat /\ camera.stream \in Nat
      /\ camera.stopped \in BOOLEAN
      /\ \A q \in InChain : q.generation \in Nat
      /\ \A f \in enabling : WorkerInOrder(f)
    BY <1>2, HeadInOrder
<1>4. /\ e \in enabling /\ e.generation = Head1.generation /\ e.step = "replacing"
      /\ e.generation \in live /\ e.generation # camera.stream
      /\ e.generation # 0 /\ e.generation <= camera.generation
      /\ camera.stopped => e.generation < camera.generation
      /\ \A f \in enabling : f # e => f.generation # e.generation
    BY <1>1, <1>2, AwaitingHead
<1>5. sending' = e.generation /\ e.generation \in Tracks
    BY <1>2, <1>3, <1>4 DEF EntryInOrder, Replacing
<1>6. CASE Current(e)
    <2>1. /\ camera' = [camera EXCEPT !.stream = e.generation, !.state = "on"]
          /\ live' = live \ {camera.stream} /\ Returned(e) /\ cleared' = cleared
        BY <1>1, <1>2, <1>6 DEF EnableReplaced, Returned, Return
    <2>2. /\ camera' \in CameraRecord /\ camera'.generation = camera.generation
          /\ camera'.stream = e.generation /\ camera'.state = "on" /\ camera'.stopped = camera.stopped
        BY <1>3, <1>5, <2>1 DEF CameraTypeOK, CameraRecord
    <2>3. e.generation = camera.generation /\ ~ camera.stopped
        BY <1>6 DEF Current
    <2>4. /\ chain' \in Seq(Replacing) /\ enabling' \subseteq Enabling
          /\ \A q \in InChain' : /\ q \in InChain /\ EntryInOrder(q) /\ InOrder(Head1, q)
                                 /\ CarriesTrack(q) => Worker(q.generation) \in enabling'
          /\ \A q \in InChain : q \in InChain' \/ q = Head1
          /\ OneWorker' /\ ChainInOrder'
        BY <2>1, <2>2, ReturnedInOrder
    <2>5. CameraTypeOK'
        BY <1>3, <1>5, <2>1, <2>2, <2>4 DEF CameraTypeOK, CameraRecord
    <2>6. \A q \in InChain' : EntryInOrder(q)'
        <3> SUFFICES ASSUME NEW q \in InChain' PROVE EntryInOrder(q)'
            OBVIOUS
        <3>1. /\ q \in InChain /\ EntryInOrder(q) /\ InOrder(Head1, q)
              /\ CarriesTrack(q) => Worker(q.generation) \in enabling'
            BY <2>4
        <3>2. ~ ClosesTrack(q)
            BY <1>2, <1>3, <1>4, <2>3, <3>1 DEF InOrder
        <3>3. QED
            BY <2>2, <3>1, <3>2 DEF EntryInOrder, CarriesTrack, ClosesTrack, Worker
    <2>7. \A f \in enabling' : WorkerInOrder(f)'
        BY <1>3, <1>4, <2>1, <2>2 DEF WorkerInOrder, Returned
    <2>8. LiveAccounted'
        BY <1>2, <1>3, <1>4, <2>1, <2>2, <2>3, <2>4 DEF CameraInv, LiveAccounted, ClosesTrack, Returned
    <2>9. StateAccounted'
        BY <1>4, <2>2 DEF StateAccounted
    <2>10. SendingAccounted'
        <3>1. \A q \in InChain' : q.by = "withdraw" => q.generation < camera'.stream
            BY <2>2, <2>3, <2>4 DEF EntryInOrder
        <3>2. QED
            BY <1>5, <2>2, <3>1 DEF SendingAccounted
    <2>11. QED
        BY <2>4, <2>5, <2>6, <2>7, <2>8, <2>9, <2>10 DEF CameraInv
<1>7. CASE ~ Current(e)
    <2>1. PICK s : s = [track |-> 0, by |-> "withdraw", generation |-> e.generation]
        OBVIOUS
    <2>2. /\ s \in Replacing /\ s.track = 0 /\ s.by = "withdraw" /\ s.generation = e.generation
          /\ CarriesTrack(s) /\ ~ ClosesTrack(s)
        BY <1>5, <2>1, OperationsAssumption DEF Replacing, Tracks, CarriesTrack, ClosesTrack
    <2>3. /\ chain' = Append(Tail(chain), s) /\ cleared' = (cleared \/ sending # 0)
          /\ camera' = camera /\ enabling' = enabling /\ live' = live
        BY <1>1, <1>7, <2>1 DEF EnableReplaced
    <2>4. EntryTurned(Head1, s)
        BY <1>2, <1>3, <2>2, <2>3, AppendTailTurns DEF CameraTypeOK
    <2>5. chain' \in Seq(Replacing) /\ InChain' \subseteq InChain \cup {s} /\ InChain \subseteq InChain' \cup {Head1} /\ s \in InChain'
        BY <2>4 DEF EntryTurned
    <2>6. CameraTypeOK'
        BY <1>3, <1>5, <2>3, <2>5 DEF CameraTypeOK
    <2>7. \A q \in InChain' : EntryInOrder(q)'
        <3>1. \A q \in InChain : EntryInOrder(q)'
            BY <2>3 DEF CameraInv, EntryInOrder, CarriesTrack, ClosesTrack, Worker
        <3>2. e.generation < camera.generation
            BY <1>3, <1>4, <1>7 DEF Current
        <3>3. Worker(s.generation)' = e
            BY <1>1, <1>4, <2>2 DEF Worker
        <3>4. EntryInOrder(s)'
            BY <1>4, <2>2, <2>3, <3>2, <3>3 DEF EntryInOrder, CarriesTrack, ClosesTrack
        <3>5. QED
            BY <2>5, <3>1, <3>4
    <2>8. \A f \in enabling' : WorkerInOrder(f)'
        BY <1>3, <2>3 DEF WorkerInOrder
    <2>9. OneWorker' /\ ChainInOrder'
        <3>1. GenerationGrows
            BY <1>3, <2>3 DEF GenerationGrows
        <3>2. QED
            BY <1>2, <1>3, <1>4, <2>2, <2>3, <2>4, <3>1, OrderTurned DEF CameraInv, OneWorker
    <2>10. LiveAccounted'
        BY <1>2, <2>3, <2>5 DEF CameraInv, LiveAccounted, ClosesTrack
    <2>11. StateAccounted'
        BY <1>2, <2>3, <2>5 DEF CameraInv, StateAccounted, Settling
    <2>12. SendingAccounted'
        BY <2>2, <2>3, <2>5 DEF CameraInv, SendingAccounted
    <2>13. QED
        BY <2>6, <2>7, <2>8, <2>9, <2>10, <2>11, <2>12 DEF CameraInv
<1>8. QED
    BY <1>6, <1>7

\* An enable returns without its track.
LEMMA ReturnsWithout ==
    ASSUME CameraInv, NEW e, Returned(e), camera' \in CameraRecord,
           camera'.generation = camera.generation, camera'.stream = camera.stream,
           camera'.stopped = camera.stopped,
           \/ camera'.state = camera.state /\ ~ Current(e)
           \/ camera'.state = "unavailable"
           \/ camera'.state = "on" /\ camera.stream # 0,
           live' = live \ {e.generation}, sending' \in Tracks, cleared' \in BOOLEAN
    PROVE  SendingAccounted' => CameraInv'
<1> SUFFICES ASSUME SendingAccounted' PROVE CameraInv'
    OBVIOUS
<1>1. chain # <<>> /\ CarriesTrack(Head1) /\ ~ ClosesTrack(Head1) /\ enabling' = enabling \ {e}
    BY DEF Returned, CarriesTrack, ClosesTrack
<1>2. /\ CameraTypeOK /\ camera.generation \in Nat /\ camera.stream \in Nat
      /\ \A q \in InChain : q.generation \in Nat
      /\ \A f \in enabling : WorkerInOrder(f)
    BY <1>1, HeadInOrder
<1>3. /\ e \in enabling /\ e.generation # camera.stream
      /\ camera.stopped => e.generation < camera.generation
      /\ \A f \in enabling : f # e => f.generation # e.generation
    BY <1>1, AwaitingHead DEF Returned
<1>4. /\ chain' \in Seq(Replacing) /\ enabling' \subseteq Enabling
      /\ \A q \in InChain' : /\ q \in InChain /\ EntryInOrder(q) /\ InOrder(Head1, q)
                             /\ CarriesTrack(q) => Worker(q.generation) \in enabling'
      /\ \A q \in InChain : q \in InChain' \/ q = Head1
      /\ OneWorker' /\ ChainInOrder'
    BY ReturnedInOrder
<1>5. CameraTypeOK'
    BY <1>2, <1>4 DEF CameraTypeOK, CameraRecord
<1>6. \A q \in InChain' : EntryInOrder(q)'
    <2> SUFFICES ASSUME NEW q \in InChain' PROVE EntryInOrder(q)'
        OBVIOUS
    <2>1. EntryInOrder(q) /\ (CarriesTrack(q) => Worker(q.generation) \in enabling')
        BY <1>4
    <2>2. Worker(q.generation)' = Worker(q.generation)
        BY DEF Worker
    <2>3. QED
        BY <1>1, <2>1, <2>2 DEF EntryInOrder, CarriesTrack, ClosesTrack
<1>7. \A f \in enabling' : WorkerInOrder(f)'
    BY <1>1, <1>2, <1>3 DEF WorkerInOrder
<1>8. LiveAccounted'
    BY <1>1, <1>2, <1>3, <1>4 DEF CameraInv, LiveAccounted, ClosesTrack
<1>9. \A q \in InChain : q.by \in {"disable", "switch", "stop"} => q \in InChain'
    BY <1>1, <1>4 DEF ClosesTrack
<1>10. StateAccounted'
    <2>1. ~ Current(e) => e.generation # camera.generation
        BY <1>3, <1>2 DEF Current
    <2>2. Settling => Settling'
        BY <1>9 DEF Settling
    <2>3. QED
        BY <1>1, <1>3, <2>1, <2>2 DEF CameraInv, StateAccounted
<1>11. QED
    BY <1>4, <1>5, <1>6, <1>7, <1>8, <1>10 DEF CameraInv

LEMMA ReplaceFailedStep == CameraInv /\ (ReplaceFailed \/ EnableWithdrawn) => CameraInv'
<1> SUFFICES ASSUME CameraInv, ReplaceFailed \/ EnableWithdrawn PROVE CameraInv'
    OBVIOUS
<1>1. PICK e : e = Worker(Head1.generation)
    OBVIOUS
<1>2. chain # <<>> /\ Head1.by \in {"enable", "withdraw"} /\ CarriesTrack(Head1)
    BY DEF ReplaceFailed, EnableWithdrawn, Resolve, CarriesTrack
<1>3. Returned(e) /\ e.generation = Head1.generation /\ live' = live \ {e.generation}
    <2>1. e.generation = Head1.generation
        BY <1>1 DEF Worker
    <2>2. QED
        BY <1>1, <1>2, <2>1 DEF ReplaceFailed, EnableWithdrawn, Returned, Return
<1>4. /\ CameraTypeOK /\ EntryInOrder(Head1) /\ Head1 \in InChain /\ Head1 \in Replacing
      /\ camera.stopped => e.generation < camera.generation
      /\ Head1.generation \in Nat /\ camera.generation \in Nat /\ camera.stream \in Nat
    BY <1>1, <1>2, HeadInOrder, AwaitingHead
<1>5. \A q \in InChain' : q \in InChain
    BY <1>2, <1>3, <1>4, TailWorks DEF Returned, EntryWorked, CameraTypeOK
<1>6. \A q \in InChain : q \in InChain' \/ q = Head1
    BY <1>2, <1>3, <1>4, TailWorks DEF Returned, EntryWorked, CameraTypeOK
<1>7. CASE ReplaceFailed
    <2>1. Head1.by = "enable" /\ sending' = sending /\ cleared' = cleared
        BY <1>7 DEF ReplaceFailed
    <2>2. IF Current(e) THEN Set(IF camera.stream = 0 THEN "unavailable" ELSE "on") ELSE UNCHANGED camera
        BY <1>1, <1>7 DEF ReplaceFailed
    <2>3. /\ camera' \in CameraRecord
          /\ camera'.generation = camera.generation /\ camera'.stream = camera.stream
          /\ camera'.stopped = camera.stopped
          /\ \/ camera'.state = camera.state /\ ~ Current(e)
             \/ camera'.state = "unavailable"
             \/ camera'.state = "on" /\ camera.stream # 0
        BY <1>4, <2>2 DEF Set, CameraTypeOK, CameraRecord
    <2>4. SendingAccounted'
        BY <1>5, <1>6, <2>1, <2>3 DEF CameraInv, SendingAccounted
    <2>5. sending' \in Tracks /\ cleared' \in BOOLEAN
        BY <1>4, <2>1 DEF CameraTypeOK
    <2>6. QED
        BY <1>3, <2>3, <2>4, <2>5, ReturnsWithout
<1>8. CASE EnableWithdrawn
    <2>1. Head1.by = "withdraw" /\ sending' = Head1.track /\ cleared' = (cleared \/ sending > Head1.generation) /\ camera' = camera
        BY <1>8 DEF EnableWithdrawn, Resolve
    <2>2. sending' = 0 /\ Head1.generation < camera.generation
        BY <1>4, <2>1 DEF EntryInOrder
    <2>3. ~ Current(e) /\ camera' \in CameraRecord
        BY <1>3, <1>4, <2>1, <2>2 DEF Current, CameraTypeOK, CameraRecord
    <2>4. SendingAccounted'
        <3>1. ~ (camera.stream # 0 /\ ~ cleared')
            BY <1>4, <2>1 DEF CameraInv, SendingAccounted
        <3>2. QED
            BY <2>1, <2>2, <3>1 DEF SendingAccounted
    <2>5. sending' \in Tracks /\ cleared' \in BOOLEAN
        BY <2>1, <2>2, <1>4, OperationsAssumption DEF Tracks, CameraTypeOK
    <2>6. QED
        BY <1>3, <2>1, <2>3, <2>4, <2>5, ReturnsWithout
<1>9. QED
    BY <1>7, <1>8

\* The browser has let go of a track, and it is closed.
TrackClosed ==
    /\ chain # <<>> /\ ClosesTrack(Head1) /\ chain' = Tail(chain) /\ sending' = Head1.track
    /\ live' = live \ {Head1.generation} /\ cleared' = cleared
    /\ camera' \in CameraRecord /\ camera.generation <= camera'.generation
    /\ camera'.stream = camera.stream /\ camera'.stopped = camera.stopped

\* Whoever works at an enable still works at it, or begins.
LEMMA ClosedInOrder ==
    ASSUME CameraInv, TrackClosed, enabling \subseteq enabling', enabling' \subseteq Enabling, OneWorker',
           \A f \in enabling' \ enabling : /\ f.generation = camera'.generation /\ f.step = "asking"
                                           /\ camera.generation < f.generation /\ ~ camera.stopped
    PROVE  /\ StateAccounted' => CameraInv'
           /\ \A q \in InChain : q \in InChain' \/ q = Head1
<1>1. /\ CameraTypeOK /\ camera.generation \in Nat /\ camera.stream \in Nat /\ EntryInOrder(Head1)
      /\ \A q \in InChain : q.generation \in Nat
      /\ \A f \in enabling : WorkerInOrder(f)
    BY HeadInOrder DEF TrackClosed
<1>2. EntryWorked(Head1)
    BY <1>1, TailWorks DEF TrackClosed, CameraTypeOK
<1>3. /\ chain' \in Seq(Replacing) /\ \A q \in InChain' : q \in InChain
      /\ \A q \in InChain : q \in InChain' \/ q = Head1
    BY <1>2 DEF EntryWorked
<1>4. /\ camera.stream = 0 /\ sending' = 0 /\ ~ CarriesTrack(Head1)
      /\ \A f \in enabling : f.generation # Head1.generation
    BY <1>1 DEF EntryInOrder, TrackClosed, ClosesTrack, CarriesTrack
<1>5. camera'.generation \in Nat /\ 0 \in Tracks
    BY OperationsAssumption DEF TrackClosed, CameraRecord, Tracks
<1>6. CameraTypeOK'
    BY <1>1, <1>3, <1>4, <1>5 DEF CameraTypeOK, CameraRecord, TrackClosed
<1>7. \A q \in InChain' : EntryInOrder(q)'
    <2> SUFFICES ASSUME NEW q \in InChain' PROVE EntryInOrder(q)'
        OBVIOUS
    <2>1. EntryInOrder(q) /\ q.generation \in Nat
        BY <1>1, <1>3 DEF CameraInv
    <2>2. Worker(q.generation)' = Worker(q.generation)
        BY DEF Worker
    <2>3. \A f \in enabling' \ enabling : f.generation # q.generation
        BY <1>1, <1>5, <2>1 DEF EntryInOrder
    <2>4. QED
        BY <1>1, <1>4, <1>5, <2>1, <2>2, <2>3 DEF EntryInOrder, CarriesTrack, ClosesTrack, TrackClosed
<1>8. \A f \in enabling' : WorkerInOrder(f)'
    <2>1. ASSUME NEW f \in enabling PROVE WorkerInOrder(f)'
        <3>1. WorkerInOrder(f) /\ f.generation # Head1.generation
            BY <1>1, <1>4
        <3>2. QED
            BY <1>1, <1>5, <3>1 DEF WorkerInOrder, TrackClosed
    <2>2. ASSUME NEW f \in enabling' \ enabling PROVE WorkerInOrder(f)'
        <3>1. f.generation \notin live
            BY <1>1, <1>5, LiveGiven
        <3>2. QED
            BY <1>1, <1>4, <1>5, <3>1 DEF WorkerInOrder, TrackClosed
    <2>3. QED
        BY <2>1, <2>2
<1>9. ChainInOrder'
    <2>1. GenerationGrows
        BY <1>1, <1>5 DEF GenerationGrows, TrackClosed
    <2>2. QED
        BY <1>1, <1>2, <2>1, OrderWorked DEF CameraInv
<1>10. LiveAccounted'
    <2>1. ASSUME NEW g \in live'
          PROVE  \/ \E f \in enabling' : f.generation = g
                 \/ g # 0 /\ \E q \in InChain' : ClosesTrack(q) /\ q.generation = g
        BY <1>3, <1>4 DEF CameraInv, LiveAccounted, TrackClosed
    <2>2. QED
        BY <1>4, <1>5, <2>1 DEF LiveAccounted, TrackClosed, ClosesTrack
<1>11. SendingAccounted'
    BY <1>4 DEF SendingAccounted, TrackClosed
<1>12. QED
    BY <1>3, <1>6, <1>7, <1>8, <1>9, <1>10, <1>11 DEF CameraInv

LEMMA DisableReplacedStep == CameraInv /\ (DisableReplaced \/ StopReplaced) => CameraInv'
<1> SUFFICES ASSUME CameraInv, DisableReplaced \/ StopReplaced PROVE CameraInv'
    OBVIOUS
<1>1. /\ chain # <<>> /\ Head1.by \in {"disable", "stop"} /\ ClosesTrack(Head1)
      /\ enabling' = enabling /\ chain' = Tail(chain) /\ sending' = Head1.track
      /\ live' = live \ {Head1.generation} /\ cleared' = cleared
      /\ Head1.by = "stop" \/ ~ camera.stopped => Set("off")
      /\ Head1.by = "disable" /\ camera.stopped => camera' = camera
    BY DEF DisableReplaced, StopReplaced, Resolve, ClosesTrack
<1>2. CameraTypeOK /\ camera.generation \in Nat /\ \A f \in enabling : WorkerInOrder(f)
    BY <1>1, HeadInOrder
<1>3. /\ camera' \in CameraRecord /\ camera'.generation = camera.generation
      /\ camera'.stream = camera.stream /\ camera'.stopped = camera.stopped
      /\ camera'.state = "off" \/ (Head1.by = "disable" /\ camera.stopped /\ camera'.state = camera.state)
    BY <1>1, <1>2 DEF Set, CameraTypeOK, CameraRecord
<1>4. TrackClosed
    BY <1>1, <1>2, <1>3 DEF TrackClosed
<1>5. OneWorker' /\ enabling' \subseteq Enabling
    BY <1>1, <1>2 DEF CameraInv, OneWorker, CameraTypeOK
<1>6. /\ StateAccounted' => CameraInv'
      /\ \A q \in InChain : q \in InChain' \/ q = Head1
    BY <1>1, <1>4, <1>5, ClosedInOrder
<1>7. StateAccounted'
    <2>1. CASE camera'.state = "off"
        BY <2>1 DEF StateAccounted
    <2>2. CASE Head1.by = "disable" /\ camera.stopped /\ camera'.state = camera.state
        <3>1. \A f \in enabling : f.generation # camera.generation
            BY <1>2, <2>2 DEF WorkerInOrder
        <3>2. Settling => Settling'
            BY <1>3, <1>6, <2>2 DEF Settling
        <3>3. QED
            BY <1>3, <2>2, <3>1, <3>2 DEF CameraInv, StateAccounted
    <2>3. QED
        BY <1>3, <2>1, <2>2
<1>8. QED
    BY <1>6, <1>7

LEMMA SwitchReplacedStep == CameraInv /\ SwitchReplaced => CameraInv'
<1> SUFFICES ASSUME CameraInv, SwitchReplaced PROVE CameraInv'
    OBVIOUS
<1>1. /\ chain # <<>> /\ Head1.by = "switch" /\ ClosesTrack(Head1)
      /\ chain' = Tail(chain) /\ sending' = Head1.track
      /\ live' = live \ {Head1.generation} /\ cleared' = cleared
    BY DEF SwitchReplaced, Resolve, ClosesTrack
<1>2. /\ CameraTypeOK /\ camera.generation \in Nat /\ camera.generation \in Tracks
      /\ \A f \in enabling : WorkerInOrder(f) /\ f.generation \in Nat
    BY <1>1, HeadInOrder, CameraTyped
<1>3. CASE camera.stopped
    <2>1. camera' = camera /\ enabling' = enabling
        BY <1>3 DEF SwitchReplaced
    <2>2. TrackClosed
        BY <1>1, <1>2, <2>1 DEF TrackClosed, CameraTypeOK, CameraRecord
    <2>3. OneWorker' /\ enabling' \subseteq Enabling
        BY <1>2, <2>1 DEF CameraInv, OneWorker, CameraTypeOK
    <2>4. /\ StateAccounted' => CameraInv'
          /\ \A q \in InChain : q \in InChain' \/ q = Head1
        BY <2>1, <2>2, <2>3, ClosedInOrder
    <2>5. \A f \in enabling : f.generation # camera.generation
        BY <1>2, <1>3 DEF WorkerInOrder
    <2>6. Settling => Settling'
        BY <1>1, <1>3, <2>1, <2>4 DEF Settling
    <2>7. QED
        BY <2>1, <2>4, <2>5, <2>6 DEF CameraInv, StateAccounted
<1>4. CASE ~ camera.stopped /\ camera.generation = MaxOperations
    <2>1. Set("off") /\ enabling' = enabling
        BY <1>4 DEF SwitchReplaced
    <2>2. TrackClosed /\ camera'.state = "off"
        BY <1>1, <1>2, <2>1 DEF TrackClosed, CameraTypeOK, CameraRecord, Set
    <2>3. OneWorker' /\ enabling' \subseteq Enabling
        BY <1>2, <2>1 DEF CameraInv, OneWorker, CameraTypeOK
    <2>4. StateAccounted'
        BY <2>2 DEF StateAccounted
    <2>5. QED
        BY <2>1, <2>2, <2>3, <2>4, ClosedInOrder
<1>5. CASE ~ camera.stopped /\ camera.generation # MaxOperations
    <2>1. PICK n : n = [generation |-> camera.generation + 1, step |-> "asking"]
        OBVIOUS
    <2>2. camera' = Begin(camera) /\ enabling' = enabling \cup {n}
        BY <1>5, <2>1 DEF SwitchReplaced
    <2>3. camera.generation + 1 \in Tracks
        BY <1>2, <1>5, OperationsAssumption DEF Tracks
    <2>4. n \in Enabling /\ n.generation = camera.generation + 1 /\ n.step = "asking"
        BY <2>1, <2>3 DEF Enabling
    <2>5. /\ camera' \in CameraRecord /\ camera'.generation = camera.generation + 1
          /\ camera'.stream = camera.stream /\ camera'.stopped = camera.stopped
          /\ camera'.state \in {"acquiring", "switching"}
        BY <1>2, <2>2, <2>3 DEF Begin, CameraTypeOK, CameraRecord
    <2>6. TrackClosed
        BY <1>1, <1>2, <2>5 DEF TrackClosed
    <2>7. OneWorker' /\ enabling' \subseteq Enabling
        BY <1>2, <2>2, <2>4 DEF CameraInv, OneWorker, CameraTypeOK, WorkerInOrder
    <2>8. StateAccounted'
        BY <2>2, <2>4, <2>5 DEF StateAccounted
    <2>9. QED
        BY <1>2, <1>5, <2>2, <2>4, <2>5, <2>6, <2>7, <2>8, ClosedInOrder
<1>6. QED
    BY <1>3, <1>4, <1>5

-----------------------------------------------------------------------------

LEMMA CameraInvKept == CameraInv /\ UNCHANGED cameraVars => CameraInv'
<1> SUFFICES ASSUME CameraInv, UNCHANGED cameraVars PROVE CameraInv'
    OBVIOUS
<1>1. /\ camera' = camera /\ enabling' = enabling /\ chain' = chain /\ sending' = sending
      /\ live' = live /\ cleared' = cleared /\ InChain' = InChain
    BY DEF cameraVars, InChain
<1>2. /\ CameraTypeOK' /\ OneWorker' /\ ChainInOrder' /\ StateAccounted'
      /\ LiveAccounted' /\ SendingAccounted'
    BY <1>1 DEF CameraInv, CameraTypeOK, OneWorker, ChainInOrder, InOrder, CarriesTrack, ClosesTrack,
                StateAccounted, Settling, LiveAccounted, SendingAccounted
<1>3. \A r \in InChain' : EntryInOrder(r)'
    BY <1>1 DEF CameraInv, EntryInOrder, CarriesTrack, ClosesTrack, Worker
<1>4. \A e \in enabling' : WorkerInOrder(e)'
    BY <1>1 DEF CameraInv, WorkerInOrder
<1>5. QED
    BY <1>2, <1>3, <1>4 DEF CameraInv

LEMMA CameraStep == CameraInv /\ [CameraNext]_cameraVars => CameraInv'
<1> SUFFICES ASSUME CameraInv, [CameraNext]_cameraVars PROVE CameraInv'
    OBVIOUS
<1>1. CASE \E e \in enabling : FirstAuthority(e) \/ OpenCamera(e) \/ SecondAuthority(e)
    BY <1>1, FirstAuthorityStep, OpenCameraStep, SecondAuthorityStep
<1>2. CASE Enable \/ Disable \/ SwitchFacingMode \/ StopCamera
    BY <1>2, EnableStep, DisableStep
<1>3. CASE EnableReplaced \/ ReplaceFailed \/ EnableWithdrawn \/ DisableReplaced \/ SwitchReplaced \/ StopReplaced
    BY <1>3, EnableReplacedStep, ReplaceFailedStep, DisableReplacedStep, SwitchReplacedStep
<1>4. CASE UNCHANGED cameraVars
    BY <1>4, CameraInvKept
<1>5. QED
    BY <1>1, <1>2, <1>3, <1>4 DEF CameraNext

\* The camera ends as it is shown (CameraController), for any number of operations, however they
\* overlap: no track stays open that nobody will close, and none is sent that was overtaken.
THEOREM CameraEndsAsShown == CameraSpec => []CameraMatchesState
<1>1. CameraInit => CameraInv
    BY CameraInvInit
<1>2. CameraInv /\ [CameraNext]_cameraVars => CameraInv'
    BY CameraStep
<1>3. CameraInv => CameraMatchesState
    BY CameraInvMatches
<1>4. QED
    BY <1>1, <1>2, <1>3, PTL DEF CameraSpec

-----------------------------------------------------------------------------
(* MediaOwnership: what holds in every state, besides OwnershipAccounted.   *)

PlayerRow == [phase : {"unused", "acquiring", "starting", "verified", "running", "ended"},
              stop : {"no", "stopping", "closing", "done"}, generation : Nat, heartbeat : BOOLEAN,
              watched : BOOLEAN, peer : BOOLEAN, socket : BOOLEAN,
              reconnect : {"none", "armed", "checking"}, turn : {"none", "armed", "refreshing"}]

\* A session that was granted the lease is told of its loss until it is stopped; one that
\* is stopped arms no timer, and one that is closed has no connection.
WatchedRow(r) == r.stop = "no" /\ r.phase \in {"starting", "verified", "running"} => r.heartbeat /\ r.watched
StoppedRow(r) ==
    /\ r.peer => r.phase = "running"
    /\ r.stop # "no" => r.reconnect # "armed" /\ r.turn # "armed"
    /\ r.stop \in {"closing", "done"} => ~ r.peer /\ ~ r.socket
    /\ r.phase = "unused" => ~ r.socket /\ r.reconnect = "none" /\ r.turn = "none"
SessionRow(r) == r \in PlayerRow /\ WatchedRow(r) /\ StoppedRow(r)

InPlay(r) == r.stop = "no" /\ r.phase # "unused"

Leaks(s)  == player[s].stop = "done" /\ player[s].generation > 0 => s \in leaked
InHand(s) == InPlay(player[s]) => panel[tabOf[s]] = s \/ s \in displaced

LeaseShape ==
    /\ tabOf \in [Players -> Tabs]
    /\ lease \in [owner : Players \cup {NoPlayer}, generation : Nat, valid : BOOLEAN]
    /\ player \in [Players -> PlayerRow]
    /\ panel \in [Tabs -> Players \cup {NoPlayer}]

LeaseInv ==
    /\ LeaseShape
    /\ \A s \in Players : SessionRow(player[s]) /\ Leaks(s) /\ InHand(s)

LEMMA LeaseInvAccounted == LeaseInv => OwnershipAccounted
<1> SUFFICES ASSUME LeaseInv PROVE OwnershipAccounted
    OBVIOUS
<1>1. ASSUME NEW s \in Players
      PROVE  /\ SessionRow(player[s]) /\ Leaks(s) /\ InHand(s)
             /\ player[s] \in PlayerRow
    BY DEF LeaseInv, SessionRow
<1>2. OvertakenFindsOut
    BY <1>1 DEF SessionRow, WatchedRow, StoppedRow, OvertakenFindsOut, Running
<1>3. StoppedIsStopped
    BY <1>1 DEF SessionRow, StoppedRow, Leaks, StoppedIsStopped
<1>4. PanelHoldsMedia
    BY <1>1 DEF SessionRow, StoppedRow, InHand, InPlay, PanelHoldsMedia, Running
<1>5. QED
    BY <1>2, <1>3, <1>4 DEF OwnershipAccounted

LEMMA LeaseInvInit == LeaseInit => LeaseInv
BY DEF LeaseInit, LeaseInv, LeaseShape, Unstarted, PlayerRow, SessionRow, WatchedRow, StoppedRow, Leaks, InHand, InPlay

-----------------------------------------------------------------------------

\* Only the session s goes on, and every panel holds what it held or remembers it.
GoesOn(s, row) ==
    /\ player' = [player EXCEPT ![s] = row]
    /\ SessionRow(row)
    /\ row.stop = "done" /\ row.generation > 0 => s \in leaked'

PanelsKept(s) == panel' = panel /\ displaced' = displaced
PanelsForget(s) ==
    /\ panel' \in [Tabs -> Players \cup {NoPlayer}]
    /\ displaced \subseteq displaced'
    /\ \A q \in Players \ {s} : panel[tabOf[q]] = q => panel'[tabOf[q]] = q \/ q \in displaced'

LeaseKept == lease' \in [owner : Players \cup {NoPlayer}, generation : Nat, valid : BOOLEAN]

LEMMA SessionGoes ==
    ASSUME LeaseInv, tabOf' = tabOf, LeaseKept, leaked \subseteq leaked',
           NEW s \in Players, NEW row, GoesOn(s, row),
           \/ PanelsKept(s) /\ (InPlay(row) => InPlay(player[s]))
           \/ PanelsForget(s) /\ (InPlay(row) => panel'[tabOf[s]] = s)
    PROVE  LeaseInv'
<1>1. LeaseShape'
    BY DEF LeaseInv, LeaseShape, LeaseKept, GoesOn, SessionRow, PanelsKept, PanelsForget
<1>2. ASSUME NEW q \in Players, q # s
      PROVE  SessionRow(player'[q]) /\ Leaks(q)' /\ InHand(q)'
    <2>1. player'[q] = player[q]
        BY <1>2 DEF GoesOn, LeaseInv, LeaseShape
    <2>2. SessionRow(player[q]) /\ Leaks(q) /\ InHand(q)
        BY DEF LeaseInv
    <2>3. InHand(q)'
        BY <1>2, <2>1, <2>2 DEF InHand, PanelsKept, PanelsForget
    <2>4. QED
        BY <2>1, <2>2, <2>3 DEF Leaks
<1>3. player'[s] = row
    BY DEF GoesOn, LeaseInv, LeaseShape
<1>4. InHand(s)
    BY DEF LeaseInv
<1>5. SessionRow(player'[s]) /\ Leaks(s)' /\ InHand(s)'
    BY <1>3, <1>4 DEF GoesOn, Leaks, InHand, PanelsKept
<1>6. QED
    BY <1>1, <1>2, <1>5 DEF LeaseInv

\* What stopping does to a row.
LEMMA StoppingRow ==
    ASSUME NEW r \in PlayerRow, StoppedRow(r)
    PROVE  /\ SessionRow(Stopping(r))
           /\ Stopping(r).stop # "no"
           /\ Stopping(r).generation = r.generation
           /\ Stopping(r).stop = "done" <=> r.stop = "done"
<1>1. CASE r.stop # "no"
    BY <1>1 DEF Stopping, SessionRow, WatchedRow
<1>2. CASE r.stop = "no"
    <2> DEFINE w == [r EXCEPT !.stop = "stopping", !.reconnect = "none",
                              !.turn = IF @ = "armed" THEN "none" ELSE @]
    <2>1. Stopping(r) = w
        BY <1>2, Zenon DEF Stopping
    <2>2. /\ w \in PlayerRow /\ w.stop = "stopping" /\ w.reconnect = "none" /\ w.turn # "armed"
          /\ w.peer = r.peer /\ w.phase = r.phase /\ w.generation = r.generation /\ w.socket = r.socket
          /\ (r.turn = "none" => w.turn = "none")
        BY DEF PlayerRow
    <2> HIDE DEF w
    <2>3. SessionRow(w)
        BY <2>2 DEF SessionRow, WatchedRow, StoppedRow
    <2>4. QED
        BY <1>2, <2>1, <2>2, <2>3
<1>3. QED
    BY <1>1, <1>2

LEMMA PanelForgets ==
    ASSUME LeaseInv, NEW s \in Players, ForgetSession(s)
    PROVE  PanelsForget(s)
<1>1. panel' \in [Tabs -> Players \cup {NoPlayer}]
    BY DEF ForgetSession, LeaseInv, LeaseShape
<1>2. ASSUME NEW q \in Players \ {s}, panel[tabOf[q]] = q
      PROVE  panel'[tabOf[q]] = q \/ q \in displaced'
    <2>1. tabOf[s] \in Tabs /\ tabOf[q] \in Tabs /\ panel \in [Tabs -> Players \cup {NoPlayer}]
        BY DEF LeaseInv, LeaseShape
    <2>2. CASE tabOf[q] = tabOf[s]
        BY <1>2, <2>2, PlayersAssumption DEF ForgetSession
    <2>3. CASE tabOf[q] # tabOf[s]
        BY <1>2, <2>1, <2>3 DEF ForgetSession
    <2>4. QED
        BY <2>2, <2>3
<1>3. QED
    BY <1>1, <1>2 DEF PanelsForget, ForgetSession

LEMMA RowFacts ==
    ASSUME LeaseInv, NEW s \in Players
    PROVE  /\ player[s] \in PlayerRow /\ WatchedRow(player[s]) /\ StoppedRow(player[s]) /\ Leaks(s) /\ InHand(s)
           /\ player[s].generation \in Nat
           /\ tabOf[s] \in Tabs
BY DEF LeaseInv, LeaseShape, SessionRow, PlayerRow

LEMMA LeaseRenewed ==
    ASSUME LeaseInv, NEW s \in Players, Renew(s)
    PROVE  LeaseKept
BY DEF Renew, LeaseInv, LeaseShape, LeaseKept

\* A session that is told it lost the lease stops, if it watches.
LEMMA OwnershipLost ==
    ASSUME LeaseInv, tabOf' = tabOf, LeaseKept, leaked' = leaked,
           NEW s \in Players, LoseOwnership(s, player[s])
    PROVE  LeaseInv'
<1> DEFINE deaf  == [player[s] EXCEPT !.heartbeat = FALSE, !.watched = FALSE]
           still == [player[s] EXCEPT !.heartbeat = FALSE]
<1>1. /\ player[s] \in PlayerRow /\ WatchedRow(player[s]) /\ StoppedRow(player[s]) /\ Leaks(s) /\ InHand(s)
    BY RowFacts
<1>2. CASE player[s].watched
    <2>1. /\ deaf \in PlayerRow /\ StoppedRow(deaf) /\ deaf.stop = player[s].stop
          /\ deaf.generation = player[s].generation
        BY <1>1 DEF PlayerRow, StoppedRow
    <2>2. player' = [player EXCEPT ![s] = Stopping(deaf)] /\ ForgetSession(s)
        BY <1>2, Zenon DEF LoseOwnership
    <2> HIDE DEF deaf
    <2>3. GoesOn(s, Stopping(deaf)) /\ Stopping(deaf).stop # "no"
        BY <1>1, <2>1, <2>2, StoppingRow DEF GoesOn, Leaks
    <2>4. QED
        BY <2>2, <2>3, PanelForgets, SessionGoes DEF InPlay
<1>3. CASE ~ player[s].watched
    <2>1. player' = [player EXCEPT ![s] = still] /\ panel' = panel /\ displaced' = displaced
        BY <1>3, Zenon DEF LoseOwnership
    <2>2. /\ still \in PlayerRow /\ StoppedRow(still) /\ WatchedRow(still) /\ still.stop = player[s].stop
          /\ still.phase = player[s].phase /\ still.generation = player[s].generation
        BY <1>1, <1>3 DEF PlayerRow, StoppedRow, WatchedRow
    <2> HIDE DEF still
    <2>3. GoesOn(s, still)
        BY <1>1, <2>1, <2>2 DEF GoesOn, Leaks, SessionRow
    <2>4. QED
        BY <1>1, <2>1, <2>2, <2>3, SessionGoes DEF PanelsKept, InPlay
<1>4. QED
    BY <1>2, <1>3 DEF PlayerRow

\* After a wait: the lease is checked again, unless the session was stopped meanwhile.
LEMMA OwnerChecked ==
    ASSUME LeaseInv, tabOf' = tabOf, leaked' = leaked,
           NEW s \in Players, NEW owned, NEW stopped, StillOwner(s, owned, stopped),
           player[s].stop = "no" => SessionRow(owned) /\ owned.stop = "no" /\ player[s].phase # "unused",
           stopped \in PlayerRow, StoppedRow(stopped),
           stopped.stop = player[s].stop, stopped.generation = player[s].generation
    PROVE  LeaseInv'
<1>1. Leaks(s)
    BY RowFacts
<1>2. CASE ~ Running(s)
    <2>1. GoesOn(s, stopped) /\ PanelsKept(s) /\ lease' = lease
        BY <1>1, <1>2 DEF StillOwner, Running, GoesOn, SessionRow, WatchedRow, PanelsKept, Leaks
    <2>2. LeaseKept /\ ~ InPlay(stopped)
        BY <1>2, <2>1 DEF LeaseInv, LeaseShape, LeaseKept, Running, InPlay
    <2>3. QED
        BY <2>1, <2>2, SessionGoes
<1>3. CASE Running(s)
    <2>1. Renew(s) /\ player[s].stop = "no"
        BY <1>3 DEF StillOwner, Running
    <2>2. LeaseKept
        BY <2>1, LeaseRenewed
    <2>3. CASE Owns(s)
        <3>1. GoesOn(s, owned) /\ PanelsKept(s)
            BY <1>3, <2>1, <2>3 DEF StillOwner, GoesOn, PanelsKept
        <3>2. QED
            BY <2>1, <2>2, <3>1, SessionGoes DEF InPlay
    <2>4. CASE ~ Owns(s)
        <3>1. player' = [player EXCEPT ![s] = Stopping(stopped)] /\ ForgetSession(s)
            BY <1>3, <2>4 DEF StillOwner
        <3>2. GoesOn(s, Stopping(stopped)) /\ ~ InPlay(Stopping(stopped))
            BY <2>1, <3>1, StoppingRow DEF GoesOn, InPlay
        <3>3. QED
            BY <2>2, <3>1, <3>2, PanelForgets, SessionGoes
    <2>5. QED
        BY <2>3, <2>4
<1>4. QED
    BY <1>2, <1>3

-----------------------------------------------------------------------------

LEMMA LeaseRanOut ==
    ASSUME LeaseInv, LeaseRunsOut, tabOf' = tabOf
    PROVE  LeaseInv'
<1>1. LeaseShape'
    BY DEF LeaseRunsOut, LeaseInv, LeaseShape
<1>2. QED
    BY <1>1 DEF LeaseRunsOut, LeaseInv, Leaks, InHand

LEMMA LeaseAcquired ==
    ASSUME LeaseInv, tabOf' = tabOf, NEW s \in Players, Acquire(s)
    PROVE  LeaseInv'
<1> DEFINE n   == lease.generation + 1
           row == [player[s] EXCEPT !.phase = "starting", !.generation = n, !.heartbeat = TRUE, !.watched = TRUE]
<1>1. player[s] \in PlayerRow /\ StoppedRow(player[s]) /\ player[s].phase = "acquiring" /\ n \in Nat
    BY RowFacts DEF Acquire, LeaseInv, LeaseShape
<1>2. LeaseKept
    BY <1>1 DEF Acquire, LeaseKept
<1>3. player' = [player EXCEPT ![s] = row] /\ leaked \subseteq leaked' /\ PanelsKept(s)
    BY <1>1 DEF Acquire, PanelsKept, LeaseInv, LeaseShape
<1>4. row.stop = "done" => s \in leaked'
    BY <1>1 DEF Acquire, PlayerRow
<1> HIDE DEF n
<1>5. row \in PlayerRow /\ row.phase = "starting" /\ row.heartbeat /\ row.watched /\ row.stop = player[s].stop
      /\ row.peer = player[s].peer /\ row.socket = player[s].socket /\ row.reconnect = player[s].reconnect
      /\ row.turn = player[s].turn
    BY <1>1 DEF PlayerRow
<1> HIDE DEF row
<1>6. GoesOn(s, row) /\ (InPlay(row) => InPlay(player[s]))
    BY <1>1, <1>3, <1>4, <1>5 DEF GoesOn, SessionRow, WatchedRow, StoppedRow, InPlay
<1>7. QED
    BY <1>2, <1>3, <1>6, SessionGoes

LEMMA HeartbeatRan ==
    ASSUME LeaseInv, tabOf' = tabOf, NEW s \in Players, Heartbeat(s)
    PROVE  LeaseInv'
<1>1. LeaseKept /\ leaked' = leaked
    BY LeaseRenewed DEF Heartbeat
<1>2. CASE Owns(s)
    <2>1. UNCHANGED <<player, panel, displaced, leaked>>
        BY <1>2 DEF Heartbeat
    <2>2. LeaseShape'
        BY <1>1, <2>1 DEF LeaseInv, LeaseShape, LeaseKept
    <2>3. QED
        BY <2>1, <2>2 DEF LeaseInv, Leaks, InHand
<1>3. CASE ~ Owns(s)
    BY <1>1, <1>3, OwnershipLost DEF Heartbeat
<1>4. QED
    BY <1>2, <1>3

LEMMA NoticeReceived ==
    ASSUME LeaseInv, tabOf' = tabOf, NEW s \in Players, ReceiveNotice(s)
    PROVE  LeaseInv'
<1>1. LeaseKept /\ leaked' = leaked /\ lease' = lease
    BY DEF ReceiveNotice, LeaseInv, LeaseShape, LeaseKept
<1>2. CASE LoseOwnership(s, player[s])
    BY <1>1, <1>2, OwnershipLost
<1>3. CASE UNCHANGED <<player, panel, displaced>>
    <2>1. LeaseShape'
        BY <1>1, <1>3 DEF LeaseInv, LeaseShape
    <2>2. QED
        BY <1>1, <1>3, <2>1 DEF LeaseInv, Leaks, InHand
<1>4. QED
    BY <1>2, <1>3 DEF ReceiveNotice

\* A step of the session alone: its row changes, and neither the lease nor a panel does.
LEMMA RowGoes ==
    ASSUME LeaseInv, tabOf' = tabOf, UNCHANGED <<lease, panel, leaked, displaced>>,
           NEW s \in Players, NEW row, player' = [player EXCEPT ![s] = row], SessionRow(row),
           InPlay(row) => InPlay(player[s]),
           row.stop = "done" => player[s].stop = "done" \/ row.generation = 0,
           row.generation \in {0, player[s].generation}
    PROVE  LeaseInv'
<1>1. LeaseKept
    BY DEF LeaseInv, LeaseShape, LeaseKept
<1>2. GoesOn(s, row) /\ PanelsKept(s)
    BY RowFacts DEF GoesOn, PanelsKept, Leaks
<1>3. QED
    BY <1>1, <1>2, SessionGoes

LEMMA PeerCreated ==
    ASSUME LeaseInv, tabOf' = tabOf, NEW s \in Players, CreatePeer(s)
    PROVE  LeaseInv'
<1> DEFINE row == [player[s] EXCEPT !.phase = "running", !.peer = TRUE, !.socket = TRUE, !.turn = "armed"]
<1>1. player[s] \in PlayerRow /\ WatchedRow(player[s]) /\ StoppedRow(player[s])
    BY RowFacts
<1>2. UNCHANGED <<lease, panel, leaked, displaced>> /\ player' = [player EXCEPT ![s] = row]
    BY <1>1 DEF CreatePeer, LeaseInv, LeaseShape
<1>3. player[s].phase = "verified" /\ player[s].stop = "no"
    BY DEF CreatePeer, MayCreatePeer, Running
<1>4. row \in PlayerRow /\ row.phase = "running" /\ row.peer = TRUE /\ row.socket = TRUE /\ row.turn = "armed"
      /\ row.stop = player[s].stop /\ row.generation = player[s].generation
      /\ row.heartbeat = player[s].heartbeat /\ row.watched = player[s].watched
      /\ row.reconnect = player[s].reconnect
    BY <1>1 DEF PlayerRow
<1> HIDE DEF row
<1>5. SessionRow(row) /\ (InPlay(row) => InPlay(player[s]))
    BY <1>1, <1>3, <1>4 DEF SessionRow, WatchedRow, StoppedRow, InPlay
<1>6. QED
    BY <1>2, <1>3, <1>4, <1>5, RowGoes

LEMMA StartEnded ==
    ASSUME LeaseInv, tabOf' = tabOf, NEW s \in Players, StartEnds(s)
    PROVE  LeaseInv'
<1> DEFINE row == [player[s] EXCEPT !.phase = "ended"]
<1>1. player[s] \in PlayerRow /\ WatchedRow(player[s]) /\ StoppedRow(player[s])
    BY RowFacts
<1>2. UNCHANGED <<lease, panel, leaked, displaced>> /\ player' = [player EXCEPT ![s] = row]
    BY <1>1 DEF StartEnds, LeaseInv, LeaseShape
<1>3. player[s].phase = "verified" /\ player[s].stop # "no"
    BY DEF StartEnds, MayCreatePeer, Running
<1>4. row \in PlayerRow /\ row.phase = "ended"
      /\ row.stop = player[s].stop /\ row.generation = player[s].generation
      /\ row.heartbeat = player[s].heartbeat /\ row.watched = player[s].watched
      /\ row.peer = player[s].peer /\ row.socket = player[s].socket
      /\ row.reconnect = player[s].reconnect /\ row.turn = player[s].turn
    BY <1>1 DEF PlayerRow
<1> HIDE DEF row
<1>5. SessionRow(row) /\ (InPlay(row) => InPlay(player[s]))
    BY <1>1, <1>3, <1>4 DEF SessionRow, WatchedRow, StoppedRow, InPlay
<1>6. QED
    BY <1>2, <1>3, <1>4, <1>5, RowGoes

LEMMA ReconnectFired ==
    ASSUME LeaseInv, tabOf' = tabOf, NEW s \in Players, ReconnectTimer(s)
    PROVE  LeaseInv'
<1> DEFINE row == [player[s] EXCEPT !.reconnect = "checking"]
<1>1. player[s] \in PlayerRow /\ WatchedRow(player[s]) /\ StoppedRow(player[s])
    BY RowFacts
<1>2. UNCHANGED <<lease, panel, leaked, displaced>> /\ player' = [player EXCEPT ![s] = row]
    BY <1>1 DEF ReconnectTimer, LeaseInv, LeaseShape
<1>3. player[s].reconnect = "armed"
    BY DEF ReconnectTimer
<1>4. row \in PlayerRow /\ row.reconnect = "checking"
      /\ row.phase = player[s].phase /\ row.stop = player[s].stop
      /\ row.generation = player[s].generation /\ row.heartbeat = player[s].heartbeat
      /\ row.watched = player[s].watched /\ row.peer = player[s].peer
      /\ row.socket = player[s].socket /\ row.turn = player[s].turn
    BY <1>1 DEF PlayerRow
<1> HIDE DEF row
<1>5. SessionRow(row) /\ (InPlay(row) => InPlay(player[s]))
    BY <1>1, <1>3, <1>4 DEF SessionRow, WatchedRow, StoppedRow, InPlay
<1>6. QED
    BY <1>2, <1>3, <1>4, <1>5, RowGoes

LEMMA TurnFired ==
    ASSUME LeaseInv, tabOf' = tabOf, NEW s \in Players, TurnTimer(s)
    PROVE  LeaseInv'
<1> DEFINE row == [player[s] EXCEPT !.turn = "refreshing"]
<1>1. player[s] \in PlayerRow /\ WatchedRow(player[s]) /\ StoppedRow(player[s])
    BY RowFacts
<1>2. UNCHANGED <<lease, panel, leaked, displaced>> /\ player' = [player EXCEPT ![s] = row]
    BY <1>1 DEF TurnTimer, LeaseInv, LeaseShape
<1>3. player[s].turn = "armed"
    BY DEF TurnTimer
<1>4. row \in PlayerRow /\ row.turn = "refreshing"
      /\ row.phase = player[s].phase /\ row.stop = player[s].stop
      /\ row.generation = player[s].generation /\ row.heartbeat = player[s].heartbeat
      /\ row.watched = player[s].watched /\ row.peer = player[s].peer
      /\ row.socket = player[s].socket /\ row.reconnect = player[s].reconnect
    BY <1>1 DEF PlayerRow
<1> HIDE DEF row
<1>5. SessionRow(row) /\ (InPlay(row) => InPlay(player[s]))
    BY <1>1, <1>3, <1>4 DEF SessionRow, WatchedRow, StoppedRow, InPlay
<1>6. QED
    BY <1>2, <1>3, <1>4, <1>5, RowGoes

LEMMA RefreshFailed ==
    ASSUME LeaseInv, tabOf' = tabOf, NEW s \in Players, RefreshFails(s)
    PROVE  LeaseInv'
<1> DEFINE row == [player[s] EXCEPT !.turn = "none"]
<1>1. player[s] \in PlayerRow /\ WatchedRow(player[s]) /\ StoppedRow(player[s])
    BY RowFacts
<1>2. UNCHANGED <<lease, panel, leaked, displaced>> /\ player' = [player EXCEPT ![s] = row]
    BY <1>1 DEF RefreshFails, LeaseInv, LeaseShape
<1>3. player[s].turn = "refreshing"
    BY DEF RefreshFails
<1>4. row \in PlayerRow /\ row.turn = "none"
      /\ row.phase = player[s].phase /\ row.stop = player[s].stop
      /\ row.generation = player[s].generation /\ row.heartbeat = player[s].heartbeat
      /\ row.watched = player[s].watched /\ row.peer = player[s].peer
      /\ row.socket = player[s].socket /\ row.reconnect = player[s].reconnect
    BY <1>1 DEF PlayerRow
<1> HIDE DEF row
<1>5. SessionRow(row) /\ (InPlay(row) => InPlay(player[s]))
    BY <1>1, <1>3, <1>4 DEF SessionRow, WatchedRow, StoppedRow, InPlay
<1>6. QED
    BY <1>2, <1>3, <1>4, <1>5, RowGoes

LEMMA MediaClosed ==
    ASSUME LeaseInv, tabOf' = tabOf, NEW s \in Players, CloseMedia(s)
    PROVE  LeaseInv'
<1> DEFINE row == [player[s] EXCEPT !.stop = "closing", !.peer = FALSE, !.socket = FALSE, !.heartbeat = FALSE]
<1>1. player[s] \in PlayerRow /\ WatchedRow(player[s]) /\ StoppedRow(player[s])
    BY RowFacts
<1>2. UNCHANGED <<lease, panel, leaked, displaced>> /\ player' = [player EXCEPT ![s] = row]
    BY <1>1 DEF CloseMedia, LeaseInv, LeaseShape
<1>3. player[s].stop = "stopping"
    BY DEF CloseMedia
<1>4. row \in PlayerRow /\ row.stop = "closing" /\ row.peer = FALSE /\ row.socket = FALSE /\ row.heartbeat = FALSE
      /\ row.phase = player[s].phase /\ row.generation = player[s].generation
      /\ row.watched = player[s].watched /\ row.reconnect = player[s].reconnect
      /\ row.turn = player[s].turn
    BY <1>1 DEF PlayerRow
<1> HIDE DEF row
<1>5. SessionRow(row) /\ (InPlay(row) => InPlay(player[s]))
    BY <1>1, <1>3, <1>4 DEF SessionRow, WatchedRow, StoppedRow, InPlay
<1>6. QED
    BY <1>2, <1>3, <1>4, <1>5, RowGoes


LEMMA SocketClosed ==
    ASSUME LeaseInv, tabOf' = tabOf, NEW s \in Players, SocketCloses(s)
    PROVE  LeaseInv'
<1> DEFINE again == IF player[s].stop = "no" THEN "armed" ELSE player[s].reconnect
           row == [player[s] EXCEPT !.socket = FALSE, !.reconnect = again]
<1>1. player[s] \in PlayerRow /\ WatchedRow(player[s]) /\ StoppedRow(player[s])
    BY RowFacts
<1>2. UNCHANGED <<lease, panel, leaked, displaced>> /\ player' = [player EXCEPT ![s] = row] /\ player[s].socket
    BY <1>1 DEF SocketCloses, Running, LeaseInv, LeaseShape
<1>3. again \in {"none", "armed", "checking"} /\ (player[s].stop # "no" => again = player[s].reconnect)
    BY <1>1 DEF PlayerRow
<1> HIDE DEF again
<1>4. row \in PlayerRow /\ row.socket = FALSE /\ row.reconnect = again
      /\ row.phase = player[s].phase /\ row.stop = player[s].stop /\ row.generation = player[s].generation
      /\ row.heartbeat = player[s].heartbeat /\ row.watched = player[s].watched /\ row.peer = player[s].peer
      /\ row.turn = player[s].turn
    BY <1>1, <1>3 DEF PlayerRow
<1> HIDE DEF row
<1>5. SessionRow(row) /\ (InPlay(row) => InPlay(player[s]))
    BY <1>1, <1>2, <1>3, <1>4 DEF SessionRow, WatchedRow, StoppedRow, InPlay
<1>6. QED
    BY <1>2, <1>4, <1>5, RowGoes

LEMMA LeaseReleased ==
    ASSUME LeaseInv, tabOf' = tabOf, NEW s \in Players, ReleaseLease(s)
    PROVE  LeaseInv'
<1> DEFINE row == [player[s] EXCEPT !.stop = "done", !.generation = 0, !.watched = FALSE]
<1>1. player[s] \in PlayerRow /\ StoppedRow(player[s])
    BY RowFacts
<1>2. PanelsKept(s) /\ player' = [player EXCEPT ![s] = row] /\ leaked' = leaked /\ player[s].stop = "closing"
    BY <1>1 DEF ReleaseLease, PanelsKept, LeaseInv, LeaseShape
<1>3. LeaseKept
    <2>1. (lease.valid /\ ~ Owns(s)) \in BOOLEAN
        BY Zenon
    <2>2. QED
        BY <2>1 DEF ReleaseLease, LeaseInv, LeaseShape, LeaseKept
<1>4. row \in PlayerRow /\ row.stop = "done" /\ row.generation = 0
      /\ row.phase = player[s].phase /\ row.peer = player[s].peer /\ row.socket = player[s].socket
      /\ row.reconnect = player[s].reconnect /\ row.turn = player[s].turn
    BY <1>1 DEF PlayerRow
<1> HIDE DEF row
<1>5. GoesOn(s, row) /\ ~ InPlay(row)
    BY <1>1, <1>2, <1>4 DEF GoesOn, SessionRow, WatchedRow, StoppedRow, InPlay
<1>6. QED
    BY <1>2, <1>3, <1>5, SessionGoes

\* The sessions that ask for the lease again before they go on.
LEMMA OwnershipVerified ==
    ASSUME LeaseInv, tabOf' = tabOf, NEW s \in Players, VerifyOwnership(s)
    PROVE  LeaseInv'
<1> DEFINE owned   == [player[s] EXCEPT !.phase = "verified"]
           stopped == [player[s] EXCEPT !.phase = "ended"]
<1>1. player[s] \in PlayerRow /\ WatchedRow(player[s]) /\ StoppedRow(player[s]) /\ player[s].phase = "starting"
    BY RowFacts DEF VerifyOwnership
<1>2. SessionRow(owned) /\ owned.stop = player[s].stop
    BY <1>1 DEF PlayerRow, SessionRow, WatchedRow, StoppedRow
<1>3. stopped \in PlayerRow /\ StoppedRow(stopped) /\ stopped.stop = player[s].stop
      /\ stopped.generation = player[s].generation /\ ~ stopped.peer
    BY <1>1 DEF PlayerRow, StoppedRow
<1>4. StillOwner(s, owned, stopped) /\ leaked' = leaked
    BY DEF VerifyOwnership
<1> HIDE DEF owned, stopped
<1>5. QED
    BY <1>1, <1>2, <1>3, <1>4, OwnerChecked

LEMMA Reconnected ==
    ASSUME LeaseInv, tabOf' = tabOf, NEW s \in Players, Reconnect(s)
    PROVE  LeaseInv'
<1> DEFINE idle  == [player[s] EXCEPT !.reconnect = "none"]
           owned == [idle EXCEPT !.socket = TRUE]
<1>1. player[s] \in PlayerRow /\ WatchedRow(player[s]) /\ StoppedRow(player[s])
    BY RowFacts
<1>2. /\ idle \in PlayerRow /\ WatchedRow(idle) /\ StoppedRow(idle) /\ idle.stop = player[s].stop
      /\ idle.generation = player[s].generation /\ idle.phase = player[s].phase
    BY <1>1 DEF PlayerRow, WatchedRow, StoppedRow
<1>3. StillOwner(s, owned, idle) /\ leaked' = leaked
    BY DEF Reconnect
<1>4. player[s].phase # "unused"
    BY <1>1 DEF Reconnect, StoppedRow
<1>5. player[s].stop = "no" => SessionRow(owned) /\ owned.stop = "no"
    BY <1>2, <1>4 DEF PlayerRow, SessionRow, WatchedRow, StoppedRow
<1> HIDE DEF idle, owned
<1>6. QED
    BY <1>1, <1>2, <1>3, <1>4, <1>5, OwnerChecked

LEMMA TurnRefreshed ==
    ASSUME LeaseInv, tabOf' = tabOf, NEW s \in Players, RefreshTurn(s)
    PROVE  LeaseInv'
<1> DEFINE idle  == [player[s] EXCEPT !.turn = "none"]
           again == IF player[s].peer THEN "armed" ELSE "none"
           owned == [idle EXCEPT !.turn = again]
<1>1. player[s] \in PlayerRow /\ WatchedRow(player[s]) /\ StoppedRow(player[s])
    BY RowFacts
<1>2. /\ idle \in PlayerRow /\ WatchedRow(idle) /\ StoppedRow(idle) /\ idle.stop = player[s].stop
      /\ idle.generation = player[s].generation /\ idle.phase = player[s].phase
    BY <1>1 DEF PlayerRow, WatchedRow, StoppedRow
<1>3. StillOwner(s, owned, idle) /\ leaked' = leaked
    BY DEF RefreshTurn
<1>4. player[s].phase # "unused"
    BY <1>1 DEF RefreshTurn, StoppedRow
<1>5. again \in {"armed", "none"}
    OBVIOUS
<1> HIDE DEF again
<1>6. player[s].stop = "no" => SessionRow(owned) /\ owned.stop = "no"
    BY <1>2, <1>4, <1>5 DEF PlayerRow, SessionRow, WatchedRow, StoppedRow
<1> HIDE DEF idle, owned
<1>7. QED
    BY <1>1, <1>2, <1>3, <1>4, <1>6, OwnerChecked

-----------------------------------------------------------------------------
(* What the panels do.                                                       *)

LEMMA MediaStarted ==
    ASSUME LeaseInv, tabOf' = tabOf, NEW s \in Players, StartMedia(s)
    PROVE  LeaseInv'
<1> DEFINE row == [player[s] EXCEPT !.phase = "acquiring"]
<1>1. player[s] \in PlayerRow /\ StoppedRow(player[s]) /\ Leaks(s) /\ tabOf[s] \in Tabs
    BY RowFacts
<1>2. /\ player' = [player EXCEPT ![s] = row] /\ leaked' = leaked /\ panel[tabOf[s]] = NoPlayer
      /\ player[s].phase = "unused" /\ panel' = [panel EXCEPT ![tabOf[s]] = s] /\ displaced' = displaced
      /\ panel \in [Tabs -> Players \cup {NoPlayer}]
    BY <1>1 DEF StartMedia, LeaseInv, LeaseShape
<1>3. LeaseKept
    BY DEF StartMedia, LeaseInv, LeaseShape, LeaseKept
<1>4. row \in PlayerRow /\ row.phase = "acquiring" /\ row.stop = player[s].stop
      /\ row.generation = player[s].generation /\ row.peer = player[s].peer /\ row.socket = player[s].socket
      /\ row.reconnect = player[s].reconnect /\ row.turn = player[s].turn
    BY <1>1 DEF PlayerRow
<1> HIDE DEF row
<1>5. GoesOn(s, row)
    BY <1>1, <1>2, <1>4 DEF GoesOn, SessionRow, WatchedRow, StoppedRow, Leaks
<1>6. PanelsForget(s) /\ panel'[tabOf[s]] = s
    <2>1. panel' \in [Tabs -> Players \cup {NoPlayer}] /\ panel'[tabOf[s]] = s
        BY <1>1, <1>2
    <2>2. ASSUME NEW q \in Players \ {s}, panel[tabOf[q]] = q
          PROVE  panel'[tabOf[q]] = q
        <3>1. tabOf[q] # tabOf[s]
            BY <1>2, <2>2, PlayersAssumption
        <3>2. tabOf[q] \in Tabs
            BY RowFacts
        <3>3. QED
            BY <1>2, <2>2, <3>1, <3>2
    <2>3. QED
        BY <1>2, <2>1, <2>2 DEF PanelsForget
<1>7. QED
    BY <1>2, <1>3, <1>5, <1>6, SessionGoes

\* A panel clears the session s if it holds it.
Cleared(s, t) ==
    /\ panel' = [panel EXCEPT ![t] = IF @ = s THEN NoPlayer ELSE @]
    /\ displaced' = displaced

LEMMA PanelCleared ==
    ASSUME LeaseInv, NEW s \in Players, NEW t \in Tabs, Cleared(s, t)
    PROVE  PanelsForget(s)
<1>1. panel \in [Tabs -> Players \cup {NoPlayer}]
    BY DEF LeaseInv, LeaseShape
<1>2. panel' \in [Tabs -> Players \cup {NoPlayer}]
    BY <1>1 DEF Cleared
<1>3. ASSUME NEW q \in Players \ {s}, panel[tabOf[q]] = q
      PROVE  panel'[tabOf[q]] = q
    <2>1. tabOf[q] \in Tabs
        BY RowFacts
    <2>2. QED
        BY <1>1, <1>3, <2>1 DEF Cleared
<1>4. QED
    BY <1>2, <1>3 DEF PanelsForget, Cleared

\* A session stops; its panel forgets it, or remembers whom it forgot.
LEMMA SessionStops ==
    ASSUME LeaseInv, tabOf' = tabOf, UNCHANGED <<lease, leaked>>, NEW s \in Players,
           NEW r \in PlayerRow, StoppedRow(r), r.stop = player[s].stop, r.generation = player[s].generation,
           player' = [player EXCEPT ![s] = Stopping(r)], PanelsForget(s)
    PROVE  LeaseInv'
<1>1. Leaks(s)
    BY RowFacts
<1>2. LeaseKept
    BY DEF LeaseInv, LeaseShape, LeaseKept
<1>3. GoesOn(s, Stopping(r)) /\ ~ InPlay(Stopping(r))
    BY <1>1, StoppingRow DEF GoesOn, InPlay, Leaks
<1>4. QED
    BY <1>2, <1>3, SessionGoes

LEMMA StartRefused ==
    ASSUME LeaseInv, tabOf' = tabOf, NEW s \in Players, RefuseAcquire(s) \/ StartFails(s)
    PROVE  LeaseInv'
<1> DEFINE row == [player[s] EXCEPT !.phase = "ended"]
<1>1. player[s] \in PlayerRow /\ StoppedRow(player[s]) /\ tabOf[s] \in Tabs
    BY RowFacts
<1>2. player' = [player EXCEPT ![s] = Stopping(row)] /\ UNCHANGED <<lease, leaked>> /\ Cleared(s, tabOf[s])
      /\ player[s].phase \in {"acquiring", "starting"}
    BY <1>1 DEF RefuseAcquire, StartFails, Cleared, LeaseInv, LeaseShape
<1>3. row \in PlayerRow /\ StoppedRow(row) /\ row.stop = player[s].stop /\ row.generation = player[s].generation
    BY <1>1, <1>2 DEF PlayerRow, StoppedRow
<1> HIDE DEF row
<1>4. QED
    BY <1>1, <1>2, <1>3, PanelCleared, SessionStops

LEMMA SessionSuperseded ==
    ASSUME LeaseInv, tabOf' = tabOf, NEW s \in Players, Superseded(s)
    PROVE  LeaseInv'
<1>1. player[s] \in PlayerRow /\ StoppedRow(player[s])
    BY RowFacts
<1>2. player' = [player EXCEPT ![s] = Stopping(player[s])] /\ UNCHANGED <<lease, leaked>> /\ ForgetSession(s)
    BY <1>1 DEF Superseded, LeaseInv, LeaseShape
<1>3. QED
    BY <1>1, <1>2, PanelForgets, SessionStops

LEMMA MediaStopped ==
    ASSUME LeaseInv, tabOf' = tabOf, NEW t \in Tabs, StopMedia(t)
    PROVE  LeaseInv'
<1> DEFINE s == panel[t]
<1>1. s \in Players
    BY DEF StopMedia, LeaseInv, LeaseShape
<1>2. player[s] \in PlayerRow /\ StoppedRow(player[s])
    BY <1>1, RowFacts
<1>3. player' = [player EXCEPT ![s] = Stopping(player[s])] /\ UNCHANGED <<lease, leaked>>
    BY <1>1, <1>2 DEF StopMedia, LeaseInv, LeaseShape
<1>4. Cleared(s, t)
    BY DEF StopMedia, Cleared
<1> HIDE DEF s
<1>5. QED
    BY <1>1, <1>2, <1>3, <1>4, PanelCleared, SessionStops

LEMMA TabClosed ==
    ASSUME LeaseInv, tabOf' = tabOf, NEW t \in Tabs, CloseTab(t)
    PROVE  LeaseInv'
<1> DEFINE gone  == {s \in Players : tabOf[s] = t /\ player[s].phase # "unused"}
           blank == [Unstarted EXCEPT !.phase = "ended", !.stop = "done"]
<1>1. /\ player' = [s \in Players |-> IF s \in gone THEN blank ELSE player[s]]
      /\ panel' = [panel EXCEPT ![t] = NoPlayer]
      /\ UNCHANGED <<lease, leaked, displaced>>
    BY DEF CloseTab
<1>2. SessionRow(blank) /\ blank.generation = 0 /\ ~ InPlay(blank)
    BY DEF Unstarted, PlayerRow, SessionRow, WatchedRow, StoppedRow, InPlay
<1> HIDE DEF blank
<1>3. LeaseShape'
    BY <1>1, <1>2 DEF LeaseInv, LeaseShape, SessionRow
<1>4. ASSUME NEW s \in Players
      PROVE  SessionRow(player'[s]) /\ Leaks(s)' /\ InHand(s)'
    <2>1. SessionRow(player[s]) /\ Leaks(s) /\ InHand(s) /\ tabOf[s] \in Tabs
          /\ panel \in [Tabs -> Players \cup {NoPlayer}]
        BY DEF LeaseInv, LeaseShape
    <2>2. CASE s \in gone
        <3>1. player'[s] = blank
            BY <1>1, <2>2
        <3>2. QED
            BY <1>2, <3>1 DEF Leaks, InHand
    <2>3. CASE s \notin gone
        <3>1. player'[s] = player[s]
            BY <1>1, <2>3
        <3>2. InPlay(player[s]) => tabOf[s] # t
            BY <2>3 DEF InPlay
        <3>3. InHand(s)'
            BY <1>1, <2>1, <3>1, <3>2 DEF InHand
        <3>4. QED
            BY <1>1, <2>1, <3>1, <3>3 DEF Leaks
    <2>4. QED
        BY <2>2, <2>3
<1>5. QED
    BY <1>3, <1>4 DEF LeaseInv

LEMMA OwnershipStep == LeaseInv /\ [LeaseNext]_leaseVars => LeaseInv'
<1> SUFFICES ASSUME LeaseInv, [LeaseNext]_leaseVars
             PROVE  LeaseInv'
    OBVIOUS
<1>1. CASE LeaseNext
    <2>1. tabOf' = tabOf /\ LeaseStep
        BY <1>1 DEF LeaseNext
    <2>2. CASE LeaseRunsOut
        BY <2>1, <2>2, LeaseRanOut
    <2>3. ASSUME NEW t \in Tabs, StopMedia(t) \/ CloseTab(t)
          PROVE  LeaseInv'
        BY <2>1, <2>3, MediaStopped, TabClosed
    <2>4. ASSUME NEW s \in Players, Acquire(s) \/ RefuseAcquire(s) \/ Heartbeat(s) \/ ReceiveNotice(s)
          PROVE  LeaseInv'
        BY <2>1, <2>4, LeaseAcquired, StartRefused, HeartbeatRan, NoticeReceived
    <2>5. ASSUME NEW s \in Players,
                 StartMedia(s) \/ StartFails(s) \/ VerifyOwnership(s) \/ CreatePeer(s) \/ StartEnds(s)
          PROVE  LeaseInv'
        BY <2>1, <2>5, MediaStarted, StartRefused, OwnershipVerified, PeerCreated, StartEnded
    <2>6. ASSUME NEW s \in Players, SocketCloses(s) \/ ReconnectTimer(s) \/ Reconnect(s)
          PROVE  LeaseInv'
        BY <2>1, <2>6, SocketClosed, ReconnectFired, Reconnected
    <2>7. ASSUME NEW s \in Players, TurnTimer(s) \/ RefreshTurn(s) \/ RefreshFails(s)
          PROVE  LeaseInv'
        BY <2>1, <2>7, TurnFired, TurnRefreshed, RefreshFailed
    <2>8. ASSUME NEW s \in Players, Superseded(s) \/ CloseMedia(s) \/ ReleaseLease(s)
          PROVE  LeaseInv'
        BY <2>1, <2>8, SessionSuperseded, MediaClosed, LeaseReleased
    <2>9. QED
        BY <2>1, <2>2, <2>3, <2>4, <2>5, <2>6, <2>7, <2>8 DEF LeaseStep
<1>2. CASE UNCHANGED leaseVars
    <2>1. UNCHANGED <<tabOf, lease, player, panel, leaked, displaced>>
        BY <1>2 DEF leaseVars
    <2>2. LeaseShape'
        BY <2>1 DEF LeaseInv, LeaseShape
    <2>3. QED
        BY <2>1, <2>2 DEF LeaseInv, Leaks, InHand
<1>3. QED
    BY <1>1, <1>2

\* A tab that loses the ownership of a call's media finds out, and what it has stopped stays
\* stopped (CallMediaSession, MediaOwnerLease), for any players and tabs.
THEOREM OwnershipAlwaysAccounted == LeaseSpec => []OwnershipAccounted
<1>1. LeaseInit => LeaseInv
    BY LeaseInvInit
<1>2. LeaseInv /\ [LeaseNext]_leaseVars => LeaseInv'
    BY OwnershipStep
<1>3. LeaseInv => OwnershipAccounted
    BY LeaseInvAccounted
<1>4. QED
    BY <1>1, <1>2, <1>3, PTL DEF LeaseSpec

-----------------------------------------------------------------------------
(* CallSignaling: what holds in every state, besides SignalsInOrder.        *)

Numbered(s, e, generation, last) ==
    \A i \in 1 .. Len(s) : s[i] = [from |-> e, generation |-> generation, number |-> last - Len(s) + i]

\* What awaits and what is in the backlog ends with the last frame sent.
Forwarded(e) == sent[e] - Len(awaiting[e])
SenderInOrder(e) ==
    /\ connection[e] \in {0, latest[e]}
    /\ connection[e] = 0 =>
           awaiting[e] = <<>> /\ received[e] = <<>> /\ verdict[e] = "none" /\ sent[e] = 0
    /\ sent[e] <= IF e = "caller" THEN MaxFrames ELSE MaxReplies
    /\ Len(awaiting[e]) <= sent[e]
    /\ Numbered(awaiting[e], e, connection[e], sent[e])

\* The backlog is one connected sender's, whose peer is not connected.
BacklogInOrder ==
    pending # <<>> =>
        \E e \in Endpoints : /\ connection[e] # 0 /\ connection[Peer(e)] = 0
                             /\ Len(pending) <= Forwarded(e)
                             /\ Numbered(pending, e, connection[e], Forwarded(e))

GapLess(f, g) == f.generation < g.generation \/ (f.generation = g.generation /\ g.number = f.number + 1)
WithoutGap(s) == \A i \in 1 .. Len(s) - 1 : GapLess(s[i], s[i + 1])

\* What has been received ends with what was forwarded last, or is of an earlier connection.
ReceiverInOrder(e) ==
    /\ WithoutGap(received[e])
    /\ received[e] # <<>> =>
           LET f == received[e][Len(received[e])]
           IN  /\ f.generation <= latest[Peer(e)]
               /\ f.generation = connection[Peer(e)] => f.number = Forwarded(Peer(e))

SignalInv ==
    /\ SignalingTypeOK
    /\ awaiting \in [Endpoints -> Seq(Frame)] /\ received \in [Endpoints -> Seq(Frame)]
    /\ \A e \in Endpoints : SenderInOrder(e) /\ ReceiverInOrder(e)
    /\ BacklogInOrder

-----------------------------------------------------------------------------
(* Array.filter.                                                            *)

NatLess == {p \in Nat \X Nat : p[1] < p[2]}

LEMMA LeastNatural ==
    ASSUME NEW T, T \subseteq Nat, T # {}
    PROVE  \E x \in T : \A y \in T : x <= y
<1>1. IsWellFoundedOn(NatLess, Nat)
    BY NatLessThanWellFounded DEF NatLess, OpToRel
<1>2. PICK x \in T : \A y \in T : ~ (<<y, x>> \in NatLess)
    BY <1>1, WFMin
<1>3. ASSUME NEW y \in T, ~ (x <= y) PROVE FALSE
    <2>1. x \in Nat /\ y \in Nat /\ y < x
        BY <1>3
    <2>2. PICK p : p = <<y, x>>
        OBVIOUS
    <2>3. p \in Nat \X Nat /\ p[1] < p[2]
        BY <2>1, <2>2
    <2>4. QED
        BY <1>2, <2>2, <2>3 DEF NatLess
<1>4. QED
    BY <1>3

\* What a filter has kept of the first frames is fixed by what it does to each.
FilterStep(k, s, keep, n) ==
    IF n = 0 THEN <<>> ELSE IF s[n] \in keep THEN Append(k[n - 1], s[n]) ELSE k[n - 1]
Filtering(k, s, keep) == k = [n \in 0 .. Len(s) |-> FilterStep(k, s, keep, n)]

LEMMA FilteredIs ==
    ASSUME NEW S, NEW s \in Seq(S), NEW keep, NEW k, Filtering(k, s, keep)
    PROVE  Filtered(s, keep) = k[Len(s)]
<1>1. PICK h : h = CHOOSE g : g = [n \in 0 .. Len(s) |-> IF n = 0 THEN <<>>
                                      ELSE IF s[n] \in keep THEN Append(g[n - 1], s[n]) ELSE g[n - 1]]
    OBVIOUS
<1>2. Filtered(s, keep) = h[Len(s)]
    BY <1>1, Zenon DEF Filtered
<1>3. Filtering(h, s, keep)
    BY <1>1, Zenon DEF Filtering, FilterStep
<1>4. ASSUME NEW n \in 0 .. Len(s), h[n] # k[n] PROVE FALSE
    <2> DEFINE T == {m \in 0 .. Len(s) : h[m] # k[m]}
    <2>1. T \subseteq Nat /\ T # {} /\ Len(s) \in Nat
        BY <1>4
    <2>2. PICK m \in T : \A y \in T : m <= y
        BY <2>1, LeastNatural
    <2>3. m \in 0 .. Len(s) /\ h[m] # k[m]
        BY <2>2
    <2>4. h[m] = FilterStep(h, s, keep, m) /\ k[m] = FilterStep(k, s, keep, m)
        BY <1>3, <2>3 DEF Filtering
    <2>5. CASE m = 0
        BY <2>3, <2>4, <2>5 DEF FilterStep
    <2>6. CASE m # 0
        <3>1. m - 1 \in 0 .. Len(s) /\ ~ (m <= m - 1)
            BY <2>1, <2>3, <2>6
        <3>2. h[m - 1] = k[m - 1]
            BY <2>2, <3>1
        <3>3. QED
            BY <2>3, <2>4, <2>6, <3>2 DEF FilterStep
    <2>7. QED
        BY <2>5, <2>6
<1>5. Len(s) \in 0 .. Len(s)
    OBVIOUS
<1>6. QED
    BY <1>2, <1>4, <1>5

LEMMA FilteredAll ==
    ASSUME NEW S, NEW s \in Seq(S), NEW keep, \A i \in 1 .. Len(s) : s[i] \in keep
    PROVE  Filtered(s, keep) = s
<1>1. PICK k : k = [n \in 0 .. Len(s) |-> SubSeq(s, 1, n)]
    OBVIOUS
<1>2. ASSUME NEW n \in 0 .. Len(s) PROVE SubSeq(s, 1, n) = FilterStep(k, s, keep, n)
    <2>1. CASE n = 0
        BY <2>1 DEF FilterStep
    <2>2. CASE n # 0
        <3>1. n \in 1 .. Len(s) /\ n - 1 \in 0 .. Len(s)
            BY <2>2
        <3>2. k[n - 1] = SubSeq(s, 1, n - 1)
            BY <1>1, <3>1
        <3>3. SubSeq(s, 1, n) = Append(SubSeq(s, 1, n - 1), s[n])
            BY <3>1
        <3>4. QED
            BY <2>2, <3>1, <3>2, <3>3 DEF FilterStep
    <2>3. QED
        BY <2>1, <2>2
<1>3. Filtering(k, s, keep)
    BY <1>1, <1>2 DEF Filtering
<1>4. Filtered(s, keep) = k[Len(s)]
    BY <1>3, FilteredIs
<1>5. k[Len(s)] = SubSeq(s, 1, Len(s))
    BY <1>1
<1>6. SubSeq(s, 1, Len(s)) = s
    OBVIOUS
<1>7. QED
    BY <1>4, <1>5, <1>6

LEMMA FilteredNone ==
    ASSUME NEW S, NEW s \in Seq(S), NEW keep, \A i \in 1 .. Len(s) : s[i] \notin keep
    PROVE  Filtered(s, keep) = <<>>
<1>1. PICK k : k = [n \in 0 .. Len(s) |-> <<>>]
    OBVIOUS
<1>2. ASSUME NEW n \in 0 .. Len(s) PROVE <<>> = FilterStep(k, s, keep, n)
    <2>1. CASE n # 0
        <3>1. n \in 1 .. Len(s) /\ n - 1 \in 0 .. Len(s)
            BY <2>1
        <3>2. QED
            BY <1>1, <2>1, <3>1 DEF FilterStep
    <2>2. QED
        BY <2>1 DEF FilterStep
<1>3. Filtering(k, s, keep)
    BY <1>1, <1>2 DEF Filtering
<1>4. QED
    BY <1>1, <1>3, FilteredIs

-----------------------------------------------------------------------------
(* Frames in order.                                                         *)

LEMMA PeerOf ==
    ASSUME NEW e \in Endpoints
    PROVE  /\ Peer(e) \in Endpoints /\ Peer(e) # e /\ Peer(Peer(e)) = e
           /\ \A x \in Endpoints : x = e \/ x = Peer(e)
BY DEF Endpoints, Peer

LEMMA ConcatAt ==
    ASSUME NEW S, NEW s \in Seq(S), NEW t \in Seq(S)
    PROVE  /\ s \o t \in Seq(S) /\ Len(s \o t) = Len(s) + Len(t) /\ Len(s) \in Nat /\ Len(t) \in Nat
           /\ \A i \in 1 .. Len(s) : (s \o t)[i] = s[i]
           /\ \A i \in 1 .. Len(t) : (s \o t)[Len(s) + i] = t[i]
           /\ \A i \in 1 .. Len(s) + Len(t) : i \in 1 .. Len(s) \/ i - Len(s) \in 1 .. Len(t)
           /\ \A i \in 1 .. Len(s) + Len(t) : i - Len(s) \in 1 .. Len(t) => (s \o t)[i] = t[i - Len(s)]
OBVIOUS

LEMMA ConcatLast ==
    ASSUME NEW S, NEW s \in Seq(S), NEW t \in Seq(S), t # <<>>
    PROVE  (s \o t)[Len(s) + Len(t)] = t[Len(t)]
<1>1. Len(t) \in 1 .. Len(t)
    OBVIOUS
<1>2. QED
    BY <1>1, ConcatAt

LEMMA NumberedConcat ==
    ASSUME NEW s \in Seq(Frame), NEW t \in Seq(Frame), NEW e, NEW g, NEW last \in Int,
           Numbered(s, e, g, last - Len(t)), Numbered(t, e, g, last)
    PROVE  Numbered(s \o t, e, g, last)
<1> SUFFICES ASSUME NEW i \in 1 .. Len(s) + Len(t)
             PROVE  (s \o t)[i] = [from |-> e, generation |-> g, number |-> last - (Len(s) + Len(t)) + i]
    BY ConcatAt DEF Numbered
<1>0. Len(s) \in Nat /\ Len(t) \in Nat
    OBVIOUS
<1>1. CASE i \in 1 .. Len(s)
    <2>1. (s \o t)[i] = s[i] /\ (last - Len(t)) - Len(s) + i = last - (Len(s) + Len(t)) + i
        BY <1>0, <1>1, ConcatAt
    <2>2. QED
        BY <1>1, <2>1 DEF Numbered
<1>2. CASE i - Len(s) \in 1 .. Len(t)
    <2>1. (s \o t)[i] = t[i - Len(s)] /\ last - Len(t) + (i - Len(s)) = last - (Len(s) + Len(t)) + i
        BY <1>0, <1>2, ConcatAt
    <2>2. QED
        BY <1>2, <2>1 DEF Numbered
<1>3. QED
    BY <1>1, <1>2, ConcatAt

LEMMA FrameTyped == \A f \in Frame : f.generation \in Nat /\ f.number \in Nat /\ f.from \in Endpoints
BY DEF Frame

\* Frames with consecutive numbers have no gap, nor behind others that end where they begin.
LEMMA WithoutGapConcat ==
    ASSUME NEW s \in Seq(Frame), NEW t \in Seq(Frame), NEW e, NEW g \in Int, NEW last \in Int,
           WithoutGap(s), Numbered(t, e, g, last),
           s # <<>> => \/ s[Len(s)].generation < g
                       \/ s[Len(s)].generation = g /\ s[Len(s)].number = last - Len(t)
    PROVE  /\ WithoutGap(s \o t)
           /\ t # <<>> => t[Len(t)] = [from |-> e, generation |-> g, number |-> last]
<1>0. Len(s) \in Nat /\ Len(t) \in Nat
    OBVIOUS
<1>1. ASSUME NEW i \in 1 .. Len(t) PROVE t[i].generation = g /\ t[i].number = last - Len(t) + i
    <2>1. t[i] = [from |-> e, generation |-> g, number |-> last - Len(t) + i]
        BY DEF Numbered
    <2>2. QED
        BY <2>1
<1>2. ASSUME NEW i \in 1 .. (Len(s) + Len(t)) - 1 PROVE GapLess((s \o t)[i], (s \o t)[i + 1])
    <2>0. i \in 1 .. Len(s) + Len(t) /\ i + 1 \in 1 .. Len(s) + Len(t)
        BY <1>0
    <2>1. CASE i + 1 \in 1 .. Len(s)
        <3>1. i \in 1 .. Len(s) - 1 /\ i \in 1 .. Len(s)
            BY <1>0, <2>1
        <3>2. (s \o t)[i] = s[i] /\ (s \o t)[i + 1] = s[i + 1]
            BY <2>1, <3>1, ConcatAt
        <3>3. QED
            BY <3>1, <3>2 DEF WithoutGap
    <2>2. CASE i = Len(s)
        <3>1. i \in 1 .. Len(s) /\ (i + 1) - Len(s) = 1 /\ 1 \in 1 .. Len(t)
            BY <1>0, <2>0, <2>2
        <3>2. (s \o t)[i] = s[Len(s)] /\ (s \o t)[i + 1] = t[1]
            BY <2>0, <2>2, <3>1, ConcatAt
        <3>3. t[1].generation = g /\ t[1].number = last - Len(t) + 1
            BY <1>1, <3>1
        <3>4. s # <<>>
            BY <2>2, <3>1
        <3>5. QED
            BY <1>0, <3>2, <3>3, <3>4 DEF GapLess
    <2>3. CASE i - Len(s) \in 1 .. Len(t)
        <3>1. (i + 1) - Len(s) \in 1 .. Len(t) /\ (i + 1) - Len(s) = (i - Len(s)) + 1
            BY <1>0, <2>0, <2>3
        <3>2. (s \o t)[i] = t[i - Len(s)] /\ (s \o t)[i + 1] = t[(i + 1) - Len(s)]
            BY <2>0, <2>3, <3>1, ConcatAt
        <3>3. /\ t[i - Len(s)].generation = g /\ t[i - Len(s)].number = last - Len(t) + (i - Len(s))
              /\ t[(i + 1) - Len(s)].generation = g /\ t[(i + 1) - Len(s)].number = last - Len(t) + ((i + 1) - Len(s))
            BY <1>1, <2>3, <3>1
        <3>4. QED
            BY <1>0, <3>2, <3>3 DEF GapLess
    <2>4. QED
        BY <1>0, <2>0, <2>1, <2>2, <2>3
<1>3. t # <<>> => t[Len(t)] = [from |-> e, generation |-> g, number |-> last]
    <2> SUFFICES ASSUME t # <<>> PROVE t[Len(t)] = [from |-> e, generation |-> g, number |-> last]
        OBVIOUS
    <2>1. Len(t) \in 1 .. Len(t) /\ last - Len(t) + Len(t) = last
        OBVIOUS
    <2>2. QED
        BY <2>1 DEF Numbered
<1>4. QED
    BY <1>2, <1>3, ConcatAt DEF WithoutGap

LEMMA WithoutGapNumbered ==
    ASSUME NEW t \in Seq(Frame), NEW e, NEW g \in Int, NEW last \in Int, Numbered(t, e, g, last)
    PROVE  WithoutGap(t)
<1>1. <<>> \in Seq(Frame) /\ WithoutGap(<<>>) /\ <<>> \o t = t
    BY DEF WithoutGap
<1>2. QED
    BY <1>1, WithoutGapConcat

-----------------------------------------------------------------------------
(* The invariant.                                                           *)

LEMMA SignalInvInit == SignalingInit => SignalInv
<1> SUFFICES ASSUME SignalingInit PROVE SignalInv
    OBVIOUS
<1>1. /\ \A e \in Endpoints : /\ connection[e] = 0 /\ latest[e] = 0 /\ sent[e] = 0 /\ verdict[e] = "none"
                              /\ awaiting[e] = <<>> /\ received[e] = <<>>
      /\ pending = <<>> /\ <<>> \in Seq(Frame) /\ Len(<<>>) = 0
    BY DEF SignalingInit
<1>2. SignalingTypeOK
    BY <1>1, SignalingAssumption DEF SignalingInit, SignalingTypeOK
<1>3. awaiting \in [Endpoints -> Seq(Frame)] /\ received \in [Endpoints -> Seq(Frame)]
    BY DEF SignalingInit
<1>4. ASSUME NEW e \in Endpoints PROVE SenderInOrder(e) /\ ReceiverInOrder(e)
    BY <1>1, SignalingAssumption DEF SenderInOrder, ReceiverInOrder, WithoutGap, Numbered
<1>5. QED
    BY <1>1, <1>2, <1>3, <1>4 DEF SignalInv, BacklogInOrder

LEMMA SignalTyped ==
    ASSUME SignalInv, NEW e \in Endpoints
    PROVE  /\ connection[e] \in Nat /\ latest[e] \in Nat /\ sent[e] \in Nat /\ Len(awaiting[e]) \in Nat
           /\ latest[e] <= MaxOpens /\ MaxOpens \in Nat /\ MaxFrames \in Nat /\ MaxReplies \in Nat /\ MaxBacklog \in Nat
           /\ awaiting[e] \in Seq(Frame) /\ received[e] \in Seq(Frame) /\ pending \in Seq(Frame)
           /\ Len(pending) \in Nat /\ Len(pending) <= MaxBacklog
           /\ Forwarded(e) \in Nat
           /\ SenderInOrder(e) /\ ReceiverInOrder(e) /\ BacklogInOrder
<1>1. SignalingTypeOK /\ SenderInOrder(e) /\ ReceiverInOrder(e) /\ BacklogInOrder
    BY DEF SignalInv
<1>2. /\ connection[e] \in Nat /\ latest[e] \in Nat /\ sent[e] \in Nat /\ latest[e] <= MaxOpens
      /\ MaxOpens \in Nat /\ MaxFrames \in Nat /\ MaxReplies \in Nat /\ MaxBacklog \in Nat
      /\ awaiting[e] \in Seq(Frame) /\ received[e] \in Seq(Frame) /\ pending \in Seq(Frame)
      /\ Len(pending) <= MaxBacklog
    BY <1>1, SignalingAssumption DEF SignalingTypeOK
<1>3. Len(awaiting[e]) \in Nat /\ Len(pending) \in Nat
    BY <1>2
<1>4. Forwarded(e) \in Nat
    BY <1>1, <1>2, <1>3 DEF SenderInOrder, Forwarded
<1>5. QED
    BY <1>1, <1>2, <1>3, <1>4

\* The backlog holds nothing of an endpoint whose peer is connected, or that is not connected.
LEMMA BacklogOf ==
    ASSUME SignalInv, NEW i \in 1 .. Len(pending)
    PROVE  /\ pending[i].from \in Endpoints /\ pending[i] \in Frame
           /\ connection[pending[i].from] # 0 /\ pending[i].generation = connection[pending[i].from]
           /\ connection[Peer(pending[i].from)] = 0
<1>1. pending \in Seq(Frame) /\ BacklogInOrder
    BY DEF SignalInv, SignalingTypeOK
<1>2. pending # <<>> /\ pending[i] \in Frame
    BY <1>1
<1>3. PICK e \in Endpoints : connection[e] # 0 /\ connection[Peer(e)] = 0 /\ Numbered(pending, e, connection[e], Forwarded(e))
    BY <1>1, <1>2 DEF BacklogInOrder
<1>4. pending[i] = [from |-> e, generation |-> connection[e], number |-> Forwarded(e) - Len(pending) + i]
    BY <1>3 DEF Numbered
<1>5. pending[i].from = e /\ pending[i].generation = connection[e]
    BY <1>4
<1>6. QED
    BY <1>2, <1>3, <1>5

LEMMA SignalInvInOrder == SignalInv => SignalsInOrder
<1> SUFFICES ASSUME SignalInv PROVE SignalsInOrder
    OBVIOUS
<1>1. ASSUME NEW e \in Endpoints, NEW i \in 1 .. Len(received[e]) - 1
      PROVE  GapLess(received[e][i], received[e][i + 1])
    BY SignalTyped DEF ReceiverInOrder, WithoutGap
<1>2. ASSUME NEW e \in Endpoints, connection[Peer(e)] # 0 PROVE FramesOf(e, pending) = <<>>
    <2>1. pending \in Seq(Frame)
        BY SignalTyped
    <2>2. \A i \in 1 .. Len(pending) : pending[i] \notin {f \in Frame : f.from = e}
        BY <1>2, BacklogOf
    <2>3. QED
        BY <2>1, <2>2, FilteredNone DEF FramesOf
<1>3. \A i \in 1 .. Len(pending) : pending[i].generation = connection[pending[i].from]
    BY BacklogOf
<1>4. QED
    BY <1>1, <1>2, <1>3 DEF SignalsInOrder, GapLess

-----------------------------------------------------------------------------
(* Steps that move no frame.                                                *)

LEMMA VerdictStep ==
    ASSUME SignalInv, verdict' \in [Endpoints -> {"none", "reading", "granted", "refused"}],
           \A e \in Endpoints : connection[e] = 0 => verdict'[e] = "none",
           authority' \subseteq Endpoints, admitted' \subseteq Endpoints,
           UNCHANGED <<connection, latest, awaiting, sent, pending, received>>
    PROVE  SignalInv'
<1>1. SignalingTypeOK'
    BY DEF SignalInv, SignalingTypeOK
<1>2. ASSUME NEW e \in Endpoints PROVE SenderInOrder(e)' /\ ReceiverInOrder(e)'
    BY DEF SignalInv, SenderInOrder, ReceiverInOrder, Forwarded, Numbered, WithoutGap
<1>3. BacklogInOrder'
    BY DEF SignalInv, BacklogInOrder, Forwarded, Numbered
<1>4. QED
    BY <1>1, <1>2, <1>3 DEF SignalInv

LEMMA QuietSteps ==
    SignalInv /\ (LoseAuthority \/ \E e \in Endpoints : Admit(e) \/ Revalidate(e) \/ ReadAuthority(e)) => SignalInv'
<1> SUFFICES ASSUME SignalInv, LoseAuthority \/ \E e \in Endpoints : Admit(e) \/ Revalidate(e) \/ ReadAuthority(e)
             PROVE  SignalInv'
    OBVIOUS
<1>1. /\ SignalingTypeOK
      /\ \A e \in Endpoints : connection[e] = 0 => verdict[e] = "none"
    BY DEF SignalInv, SenderInOrder
<1>2. /\ verdict' \in [Endpoints -> {"none", "reading", "granted", "refused"}]
      /\ \A e \in Endpoints : connection[e] = 0 => verdict'[e] = "none"
    BY <1>1 DEF LoseAuthority, Admit, Revalidate, ReadAuthority, SignalingTypeOK
<1>3. /\ authority' \subseteq Endpoints /\ admitted' \subseteq Endpoints
      /\ UNCHANGED <<connection, latest, awaiting, sent, pending, received>>
    BY <1>1 DEF LoseAuthority, Admit, Revalidate, ReadAuthority, SignalingTypeOK
<1>4. QED
    BY <1>2, <1>3, VerdictStep

-----------------------------------------------------------------------------
(* Connections.                                                             *)

LEMMA RemovedStep ==
    ASSUME SignalInv, NEW e \in Endpoints, connection[e] # 0, Removed(e), UNCHANGED <<authority, admitted>>
    PROVE  SignalInv'
<1>0. /\ Peer(e) \in Endpoints /\ Peer(e) # e /\ Peer(Peer(e)) = e
      /\ \A x \in Endpoints : x = e \/ x = Peer(e)
    BY PeerOf
<1>1. pending' = <<>>
    <2>1. CASE connection[Peer(e)] = 0
        BY <2>1 DEF Removed
    <2>2. CASE connection[Peer(e)] # 0
        <3>1. \A i \in 1 .. Len(pending) : FALSE
            BY <1>0, <2>2, BacklogOf
        <3>2. pending \in Seq(Frame)
            BY SignalTyped
        <3>3. Filtered(pending, {f \in Frame : f.from = Peer(e)}) = <<>>
            BY <3>1, <3>2, FilteredNone
        <3>4. QED
            BY <2>2, <3>3 DEF Removed, FramesOf
    <2>3. QED
        BY <2>1, <2>2
<1>2. /\ SignalingTypeOK /\ awaiting \in [Endpoints -> Seq(Frame)] /\ received \in [Endpoints -> Seq(Frame)]
    BY DEF SignalInv
<1>3. /\ connection'[e] = 0 /\ awaiting'[e] = <<>> /\ received'[e] = <<>> /\ verdict'[e] = "none" /\ sent'[e] = 0
      /\ connection'[Peer(e)] = connection[Peer(e)] /\ awaiting'[Peer(e)] = awaiting[Peer(e)]
      /\ received'[Peer(e)] = received[Peer(e)] /\ verdict'[Peer(e)] = verdict[Peer(e)] /\ sent'[Peer(e)] = sent[Peer(e)]
      /\ latest' = latest
    BY <1>0, <1>2 DEF Removed, SignalingTypeOK
<1>4. <<>> \in Seq(Frame) /\ Len(<<>>) = 0
    OBVIOUS
<1>5. awaiting' \in [Endpoints -> Seq(Frame)] /\ received' \in [Endpoints -> Seq(Frame)]
    BY <1>2, <1>4 DEF Removed
<1>6. SignalingTypeOK'
    <2>1. /\ connection' \in [Endpoints -> 0 .. MaxOpens]
          /\ verdict' \in [Endpoints -> {"none", "reading", "granted", "refused"}]
          /\ sent' \in [Endpoints -> 0 .. MaxFrames + MaxReplies]
        <3>1. 0 \in 0 .. MaxOpens /\ 0 \in 0 .. MaxFrames + MaxReplies
            BY SignalingAssumption
        <3>2. connection' \in [Endpoints -> 0 .. MaxOpens]
            BY <1>2, <3>1 DEF Removed, SignalingTypeOK
        <3>3. verdict' \in [Endpoints -> {"none", "reading", "granted", "refused"}]
            BY <1>2 DEF Removed, SignalingTypeOK
        <3>4. sent' \in [Endpoints -> 0 .. MaxFrames + MaxReplies]
            BY <1>2, <3>1 DEF Removed, SignalingTypeOK
        <3>5. QED
            BY <3>2, <3>3, <3>4
    <2>2. /\ authority' = authority /\ admitted' = admitted
          /\ \A x \in Endpoints : awaiting'[x] \in Seq(Frame) /\ received'[x] \in Seq(Frame)
          /\ pending' \in Seq(Frame) /\ Len(pending') <= MaxBacklog
        BY <1>1, <1>4, <1>5, SignalingAssumption
    <2>3. QED
        BY <1>2, <1>3, <2>1, <2>2 DEF SignalingTypeOK
<1>7. SenderInOrder(e)' /\ ReceiverInOrder(e)'
    BY <1>3, <1>4, SignalingAssumption DEF SenderInOrder, ReceiverInOrder, Numbered, WithoutGap
<1>8. SenderInOrder(Peer(e))'
    <2>1. SenderInOrder(Peer(e))
        BY <1>0 DEF SignalInv
    <2>2. QED
        BY <1>3, <2>1, Zenon DEF SenderInOrder, Numbered
<1>9. ReceiverInOrder(Peer(e))'
    <2>1. ReceiverInOrder(Peer(e)) /\ received[Peer(e)] \in Seq(Frame) /\ latest[e] \in Nat
        BY <1>0, SignalTyped
    <2>2. received[Peer(e)] # <<>> => received[Peer(e)][Len(received[Peer(e)])] \in Frame
        BY <2>1
    <2>3. received[Peer(e)] # <<>> => received[Peer(e)][Len(received[Peer(e)])].generation # 0
        BY <2>2, SignalingAssumption DEF Frame
    <2>4. QED
        BY <1>0, <1>3, <2>1, <2>3 DEF ReceiverInOrder, WithoutGap
<1>10. QED
    BY <1>0, <1>1, <1>5, <1>6, <1>7, <1>8, <1>9 DEF SignalInv, BacklogInOrder

LEMMA ClosingSteps ==
    SignalInv /\ (\E e \in Endpoints : CloseEndpoint(e) \/ Misbehave(e) \/ Refuse(e)) => SignalInv'
BY RemovedStep DEF CloseEndpoint, Misbehave, Refuse

LEMMA ShutDownStep == SignalInv /\ ShutDown => SignalInv'
<1> SUFFICES ASSUME SignalInv, ShutDown PROVE SignalInv'
    OBVIOUS
<1>1. /\ \A e \in Endpoints : /\ connection'[e] = 0 /\ sent'[e] = 0 /\ verdict'[e] = "none"
                              /\ awaiting'[e] = <<>> /\ received'[e] = <<>>
      /\ pending' = <<>> /\ <<>> \in Seq(Frame) /\ Len(<<>>) = 0 /\ latest' = latest /\ authority' = authority /\ admitted' = {}
    BY DEF ShutDown
<1>2. awaiting' \in [Endpoints -> Seq(Frame)] /\ received' \in [Endpoints -> Seq(Frame)]
    BY DEF ShutDown
<1>3. SignalingTypeOK'
    <2>1. /\ connection' \in [Endpoints -> 0 .. MaxOpens]
          /\ verdict' \in [Endpoints -> {"none", "reading", "granted", "refused"}]
          /\ sent' \in [Endpoints -> 0 .. MaxFrames + MaxReplies]
        BY SignalingAssumption DEF ShutDown
    <2>2. QED
        BY <1>1, <1>2, <2>1, SignalingAssumption DEF SignalInv, SignalingTypeOK
<1>4. ASSUME NEW e \in Endpoints PROVE SenderInOrder(e)' /\ ReceiverInOrder(e)'
    BY <1>1, SignalingAssumption DEF SenderInOrder, ReceiverInOrder, WithoutGap, Numbered
<1>5. QED
    BY <1>1, <1>2, <1>3, <1>4 DEF SignalInv, BacklogInOrder

\* A connection that is accepted receives the backlog of its peer, all of it.
LEMMA FlushIs ==
    ASSUME SignalInv, NEW e \in Endpoints
    PROVE  FlushPending(e) = IF connection[Peer(e)] = 0 THEN <<>> ELSE pending
<1>0. /\ Peer(e) \in Endpoints /\ Peer(e) # e /\ Peer(Peer(e)) = e
      /\ \A x \in Endpoints : x = e \/ x = Peer(e)
    BY PeerOf
<1> DEFINE own == {f \in Frame : f.from = Peer(e)}
           now == {f \in Frame : f.generation = connection[Peer(e)]}
<1>1. pending \in Seq(Frame) /\ <<>> \in Seq(Frame) /\ Len(<<>>) = 0
    BY SignalTyped
<1>2. CASE connection[Peer(e)] = 0
    <2>1. \A i \in 1 .. Len(pending) : pending[i] \notin own
        BY <1>2, BacklogOf
    <2>2. Filtered(pending, own) = <<>>
        BY <1>1, <2>1, FilteredNone
    <2>3. \A i \in 1 .. Len(<<>>) : <<>>[i] \notin now
        BY <1>1
    <2>4. Filtered(<<>>, now) = <<>>
        BY <1>1, <2>3, FilteredNone
    <2>5. QED
        BY <1>2, <2>2, <2>4 DEF FlushPending, FramesOf
<1>3. CASE connection[Peer(e)] # 0
    <2>1. \A i \in 1 .. Len(pending) : pending[i] \in own /\ pending[i] \in now
        BY <1>0, <1>3, BacklogOf
    <2>2. Filtered(pending, own) = pending
        BY <1>1, <2>1, FilteredAll
    <2>3. Filtered(pending, now) = pending
        BY <1>1, <2>1, FilteredAll
    <2>4. QED
        BY <1>3, <2>2, <2>3 DEF FlushPending, FramesOf
<1>4. QED
    BY <1>2, <1>3

LEMMA LastOf == ASSUME NEW S, NEW s \in Seq(S), s # <<>> PROVE Len(s) \in 1 .. Len(s) /\ s[Len(s)] \in S
OBVIOUS

LEMMA AcceptStep == ASSUME SignalInv, NEW e \in Endpoints, AcceptSocket(e) PROVE SignalInv'
<1>0. /\ Peer(e) \in Endpoints /\ Peer(e) # e /\ Peer(Peer(e)) = e
      /\ \A x \in Endpoints : x = e \/ x = Peer(e)
    BY PeerOf
<1> DEFINE p == Peer(e)
<1>1. /\ SignalingTypeOK /\ awaiting \in [Endpoints -> Seq(Frame)] /\ received \in [Endpoints -> Seq(Frame)]
    BY DEF SignalInv
<1>2. /\ connection[p] \in Nat /\ latest[e] \in Nat /\ latest[p] \in Nat /\ latest[e] < MaxOpens /\ MaxOpens \in Nat
      /\ Forwarded(p) \in Nat /\ SenderInOrder(p) /\ ReceiverInOrder(p) /\ BacklogInOrder
      /\ pending \in Seq(Frame) /\ received[p] \in Seq(Frame)
    BY <1>0, SignalTyped DEF AcceptSocket
<1>3. /\ connection'[e] = latest[e] + 1 /\ latest'[e] = latest[e] + 1 /\ awaiting'[e] = <<>>
      /\ verdict'[e] = "none" /\ sent'[e] = 0 /\ pending' = <<>> /\ received'[e] = FlushPending(e)
      /\ connection'[p] = connection[p] /\ latest'[p] = latest[p] /\ awaiting'[p] = awaiting[p]
      /\ received'[p] = received[p] /\ verdict'[p] = verdict[p] /\ sent'[p] = sent[p]
      /\ authority' = authority /\ admitted' = admitted \ {e}
    BY <1>0, <1>1 DEF AcceptSocket, SignalingTypeOK
<1>4. <<>> \in Seq(Frame) /\ Len(<<>>) = 0
    OBVIOUS
<1>5. received'[e] = (IF connection[p] = 0 THEN <<>> ELSE pending) /\ received'[e] \in Seq(Frame)
    BY <1>2, <1>3, <1>4, FlushIs
<1>6. awaiting' \in [Endpoints -> Seq(Frame)] /\ received' \in [Endpoints -> Seq(Frame)]
    BY <1>1, <1>3, <1>4, <1>5 DEF AcceptSocket
<1>7. SignalingTypeOK'
    <2>1. /\ connection' \in [Endpoints -> 0 .. MaxOpens] /\ latest' \in [Endpoints -> 0 .. MaxOpens]
          /\ verdict' \in [Endpoints -> {"none", "reading", "granted", "refused"}]
          /\ sent' \in [Endpoints -> 0 .. MaxFrames + MaxReplies]
        <3>1. latest[e] + 1 \in 0 .. MaxOpens /\ 0 \in 0 .. MaxFrames + MaxReplies
            BY <1>2, SignalingAssumption
        <3>2. connection' \in [Endpoints -> 0 .. MaxOpens] /\ latest' \in [Endpoints -> 0 .. MaxOpens]
            BY <1>1, <3>1 DEF AcceptSocket, SignalingTypeOK
        <3>3. /\ verdict' \in [Endpoints -> {"none", "reading", "granted", "refused"}]
              /\ sent' \in [Endpoints -> 0 .. MaxFrames + MaxReplies]
            BY <1>1, <3>1 DEF AcceptSocket, SignalingTypeOK
        <3>4. QED
            BY <3>2, <3>3
    <2>2. /\ \A x \in Endpoints : awaiting'[x] \in Seq(Frame) /\ received'[x] \in Seq(Frame)
          /\ pending' \in Seq(Frame) /\ Len(pending') <= MaxBacklog
        BY <1>3, <1>4, <1>6, SignalingAssumption
    <2>3. QED
        BY <1>1, <1>3, <2>1, <2>2 DEF SignalingTypeOK
<1>8. SenderInOrder(e)'
    BY <1>2, <1>3, <1>4, SignalingAssumption DEF SenderInOrder, Numbered
<1>9. SenderInOrder(p)'
    BY <1>2, <1>3, Zenon DEF SenderInOrder, Numbered
<1>10. ReceiverInOrder(p)'
    <2>1. connection'[e] > latest[e]
        BY <1>2, <1>3
    <2>2. received[p] # <<>> => received[p][Len(received[p])] \in Frame
        BY <1>2
    <2>3. received[p] # <<>> => received[p][Len(received[p])].generation \in Nat
        BY <2>2, FrameTyped
    <2>4. QED
        BY <1>0, <1>2, <1>3, <2>1, <2>3 DEF ReceiverInOrder, WithoutGap
<1>11. ReceiverInOrder(e)'
    <2>1. CASE connection[p] = 0 \/ pending = <<>>
        BY <1>4, <1>5, <2>1 DEF ReceiverInOrder, WithoutGap
    <2>2. CASE connection[p] # 0 /\ pending # <<>>
        <3>1. Numbered(pending, p, connection[p], Forwarded(p))
            BY <1>0, <1>2, <2>2 DEF BacklogInOrder
        <3>2. WithoutGap(pending)
            BY <1>2, <3>1, WithoutGapNumbered
        <3>3. Len(pending) \in 1 .. Len(pending) /\ Len(pending) \in Nat
            BY <1>2, <2>2
        <3>4. pending[Len(pending)] = [from |-> p, generation |-> connection[p], number |-> Forwarded(p) - Len(pending) + Len(pending)]
            BY <3>1, <3>3 DEF Numbered
        <3>5. Forwarded(p) - Len(pending) + Len(pending) = Forwarded(p) /\ Forwarded(p)' = Forwarded(p)
            BY <1>2, <1>3, <3>3 DEF Forwarded
        <3>6. pending[Len(pending)].generation = connection[p] /\ pending[Len(pending)].number = Forwarded(p)
            BY <3>4, <3>5
        <3>7. connection[p] <= latest[p]
            BY <1>2 DEF SenderInOrder
        <3>8. QED
            BY <1>3, <1>5, <2>2, <3>2, <3>5, <3>6, <3>7 DEF ReceiverInOrder, WithoutGap
    <2>3. QED
        BY <2>1, <2>2
<1>12. QED
    BY <1>0, <1>3, <1>6, <1>7, <1>8, <1>9, <1>10, <1>11 DEF SignalInv, BacklogInOrder

-----------------------------------------------------------------------------
(* Frames.                                                                  *)

LEMMA OneMore == \A a, b \in Nat : (a + 1) - (b + 1) = a - b /\ \A i \in Nat : (a + 1) - (b + 1) + i = a - b + i
OBVIOUS

LEMMA OnMessageStep == ASSUME SignalInv, NEW e \in Endpoints, OnMessage(e) PROVE SignalInv'
<1>0. /\ Peer(e) \in Endpoints /\ Peer(e) # e /\ Peer(Peer(e)) = e
      /\ \A x \in Endpoints : x = e \/ x = Peer(e)
    BY PeerOf
<1> DEFINE p == Peer(e)
<1>1. /\ SignalingTypeOK /\ awaiting \in [Endpoints -> Seq(Frame)] /\ received \in [Endpoints -> Seq(Frame)]
    BY DEF SignalInv
<1>2. /\ connection[e] \in Nat /\ latest[e] <= MaxOpens /\ MaxOpens \in Nat /\ MaxFrames \in Nat /\ MaxReplies \in Nat
      /\ sent[e] \in Nat /\ latest[e] \in Nat /\ awaiting[e] \in Seq(Frame)
      /\ SenderInOrder(e) /\ ReceiverInOrder(e) /\ SenderInOrder(p) /\ ReceiverInOrder(p) /\ BacklogInOrder
    BY <1>0, SignalTyped
<1>3. connection[e] # 0 /\ sent[e] < (IF e = "caller" THEN MaxFrames ELSE MaxReplies)
    BY DEF OnMessage
<1>4. PICK f : f = [from |-> e, generation |-> connection[e], number |-> sent[e] + 1]
    OBVIOUS
<1>5. f \in Frame
    <2>1. connection[e] \in 1 .. MaxOpens /\ sent[e] + 1 \in 1 .. MaxFrames + MaxReplies
        BY <1>2, <1>3 DEF SenderInOrder
    <2>2. QED
        BY <1>4, <2>1 DEF Frame
<1>6. /\ awaiting'[e] = Append(awaiting[e], f) /\ sent'[e] = sent[e] + 1
      /\ awaiting'[p] = awaiting[p] /\ sent'[p] = sent[p]
      /\ UNCHANGED <<authority, admitted, connection, latest, pending, received>>
      /\ verdict'[p] = verdict[p]
    BY <1>0, <1>1, <1>4 DEF OnMessage, SignalingTypeOK
<1>7. awaiting' \in [Endpoints -> Seq(Frame)]
    BY <1>1, <1>2, <1>4, <1>5 DEF OnMessage
<1>8. SignalingTypeOK'
    <2>1. /\ verdict' \in [Endpoints -> {"none", "reading", "granted", "refused"}]
          /\ sent' \in [Endpoints -> 0 .. MaxFrames + MaxReplies]
        BY <1>1, <1>2, <1>3, SMTT(20) DEF OnMessage, SignalingTypeOK
    <2>2. QED
        BY <1>1, <1>6, <1>7, <2>1 DEF SignalingTypeOK
<1>9. SenderInOrder(e)'
    <2>1. Len(awaiting'[e]) = Len(awaiting[e]) + 1 /\ Len(awaiting[e]) \in Nat
        BY <1>2, <1>5, <1>6
    <2>2. ASSUME NEW i \in 1 .. Len(awaiting[e]) + 1
          PROVE  Append(awaiting[e], f)[i] = [from |-> e, generation |-> connection[e], number |-> (sent[e] + 1) - (Len(awaiting[e]) + 1) + i]
        <3>1. CASE i = Len(awaiting[e]) + 1
            <4>1. (sent[e] + 1) - (Len(awaiting[e]) + 1) + i = sent[e] + 1
                BY <1>2, <2>1, <3>1
            <4>2. Append(awaiting[e], f)[i] = f
                BY <1>2, <1>5, <3>1
            <4>3. QED
                BY <1>4, <4>1, <4>2
        <3>2. CASE i # Len(awaiting[e]) + 1
            <4>1. i \in Nat /\ i >= 1 /\ i <= Len(awaiting[e]) + 1 /\ Len(awaiting[e]) \in Nat
                BY <2>1
            <4>2. i \in 1 .. Len(awaiting[e])
                BY <3>2, <4>1
            <4>3. (sent[e] + 1) - (Len(awaiting[e]) + 1) + i = sent[e] - Len(awaiting[e]) + i
                BY <1>2, <4>1, OneMore
            <4>4. Append(awaiting[e], f)[i] = awaiting[e][i]
                BY <1>2, <1>5, <4>2
            <4>5. QED
                BY <1>2, <4>2, <4>3, <4>4 DEF SenderInOrder, Numbered
        <3>3. QED
            BY <3>1, <3>2
    <2>3. Numbered(awaiting'[e], e, connection[e], sent'[e])
        BY <1>6, <2>1, <2>2 DEF Numbered
    <2>4. Len(awaiting'[e]) <= sent'[e] /\ sent'[e] <= (IF e = "caller" THEN MaxFrames ELSE MaxReplies)
        BY <1>2, <1>3, <1>6, <2>1 DEF SenderInOrder
    <2>5. QED
        BY <1>2, <1>3, <1>6, <2>3, <2>4 DEF SenderInOrder, Numbered
<1>10. SenderInOrder(p)'
    BY <1>2, <1>6, Zenon DEF SenderInOrder, Numbered
<1>11. Forwarded(e)' = Forwarded(e) /\ Forwarded(p)' = Forwarded(p)
    <2>1. Len(awaiting'[e]) = Len(awaiting[e]) + 1 /\ Len(awaiting[e]) \in Nat
        BY <1>2, <1>5, <1>6
    <2>2. Forwarded(e)' = sent'[e] - Len(awaiting'[e]) /\ Forwarded(p)' = sent'[p] - Len(awaiting'[p])
        BY DEF Forwarded
    <2>3. (sent[e] + 1) - (Len(awaiting[e]) + 1) = sent[e] - Len(awaiting[e])
        BY <1>2, <2>1, OneMore
    <2>4. QED
        BY <1>6, <2>1, <2>2, <2>3 DEF Forwarded
<1>12. ReceiverInOrder(e)' /\ ReceiverInOrder(p)'
    BY <1>0, <1>2, <1>6, <1>11 DEF ReceiverInOrder, WithoutGap
<1>13. BacklogInOrder'
    <2>1. \A x \in Endpoints : Forwarded(x)' = Forwarded(x)
        BY <1>0, <1>11
    <2>2. QED
        BY <1>2, <1>6, <2>1 DEF BacklogInOrder, Numbered
<1>14. QED
    BY <1>0, <1>1, <1>6, <1>7, <1>8, <1>9, <1>10, <1>12, <1>13 DEF SignalInv

LEMMA ForwardStep == ASSUME SignalInv, NEW e \in Endpoints, Forward(e) PROVE SignalInv'
<1>0. /\ Peer(e) \in Endpoints /\ Peer(e) # e /\ Peer(Peer(e)) = e
      /\ \A x \in Endpoints : x = e \/ x = Peer(e)
    BY PeerOf
<1> DEFINE p == Peer(e)
<1>1. /\ SignalingTypeOK /\ awaiting \in [Endpoints -> Seq(Frame)] /\ received \in [Endpoints -> Seq(Frame)]
    BY DEF SignalInv
<1>2. /\ connection[e] \in Nat /\ latest[e] \in Nat /\ sent[e] \in Nat /\ awaiting[e] \in Seq(Frame) /\ Len(awaiting[e]) \in Nat
      /\ received[e] \in Seq(Frame) /\ received[p] \in Seq(Frame) /\ pending \in Seq(Frame) /\ Len(pending) \in Nat
      /\ SenderInOrder(e) /\ ReceiverInOrder(e) /\ SenderInOrder(p) /\ ReceiverInOrder(p) /\ BacklogInOrder
    BY <1>0, SignalTyped
<1>3. /\ verdict[e] = "granted" /\ verdict'[e] = "none" /\ awaiting'[e] = <<>>
      /\ verdict'[p] = verdict[p] /\ awaiting'[p] = awaiting[p]
      /\ UNCHANGED <<authority, admitted, connection, latest, sent>>
    BY <1>0, <1>1 DEF Forward, SignalingTypeOK
<1>4. connection[e] # 0 /\ connection[e] = latest[e]
    BY <1>2, <1>3 DEF SenderInOrder
<1>5. <<>> \in Seq(Frame) /\ Len(<<>>) = 0
    OBVIOUS
<1>6. SenderInOrder(e)' /\ Forwarded(e)' = sent[e]
    BY <1>2, <1>3, <1>4, <1>5 DEF SenderInOrder, Numbered, Forwarded
<1>7. Forwarded(p)' = Forwarded(p)
    BY <1>3, Zenon DEF Forwarded
<1>8. awaiting' \in [Endpoints -> Seq(Frame)] /\ verdict' \in [Endpoints -> {"none", "reading", "granted", "refused"}]
    BY <1>1, <1>5 DEF Forward, SignalingTypeOK
<1>9. CASE connection[p] # 0
    <2>1. pending' = pending /\ received' = [received EXCEPT ![p] = received[p] \o awaiting[e]]
        BY <1>9 DEF Forward
    <2>2. pending = <<>>
        BY <1>0, <1>2, <1>4, <1>9 DEF BacklogInOrder
    <2>3. /\ received' \in [Endpoints -> Seq(Frame)]
          /\ received'[p] = received[p] \o awaiting[e] /\ received'[e] = received[e]
        BY <1>0, <1>1, <1>2, <2>1, ConcatAt
    <2>4. SignalingTypeOK'
        BY <1>1, <1>3, <1>8, <2>1, <2>3 DEF SignalingTypeOK
    <2>5. SenderInOrder(p)'
        BY <1>2, <1>3, <1>9, Zenon DEF SenderInOrder, Numbered
    <2>6. ReceiverInOrder(e)'
        BY <1>0, <1>2, <1>3, <1>7, <2>3 DEF ReceiverInOrder, WithoutGap
    <2>7. ReceiverInOrder(p)'
        <3>1. received[p] # <<>> =>
                  \/ received[p][Len(received[p])].generation < connection[e]
                  \/ /\ received[p][Len(received[p])].generation = connection[e]
                     /\ received[p][Len(received[p])].number = sent[e] - Len(awaiting[e])
            <4>1. received[p] # <<>> => received[p][Len(received[p])].generation \in Nat
                BY <1>2, LastOf, FrameTyped
            <4>2. QED
                BY <1>0, <1>2, <1>4, <4>1 DEF ReceiverInOrder, Forwarded
        <3>2. Numbered(awaiting[e], e, connection[e], sent[e]) /\ WithoutGap(received[p])
            BY <1>2 DEF SenderInOrder, ReceiverInOrder
        <3>3. /\ WithoutGap(received[p] \o awaiting[e])
              /\ awaiting[e] # <<>> => awaiting[e][Len(awaiting[e])] = [from |-> e, generation |-> connection[e], number |-> sent[e]]
            BY <1>2, <3>1, <3>2, WithoutGapConcat, SMTT(20)
        <3>4. CASE awaiting[e] # <<>>
            <4>1. Len(awaiting[e]) \in 1 .. Len(awaiting[e]) /\ Len(received[p]) \in Nat
                BY <1>2, <3>4, LastOf
            <4>2. Len(received'[p]) = Len(received[p]) + Len(awaiting[e])
                BY <1>2, <2>3, ConcatAt
            <4>3. (received[p] \o awaiting[e])[Len(received[p]) + Len(awaiting[e])] = awaiting[e][Len(awaiting[e])]
                BY <1>2, <3>4, ConcatLast
            <4>4. received'[p][Len(received'[p])] = awaiting[e][Len(awaiting[e])]
                BY <2>3, <4>2, <4>3
            <4>5. received'[p][Len(received'[p])].generation = connection[e] /\ received'[p][Len(received'[p])].number = sent[e]
                BY <3>3, <3>4, <4>4
            <4>6. WithoutGap(received'[p])
                BY <2>3, <3>3
            <4>7. connection'[e] = connection[e] /\ latest'[e] = latest[e] /\ connection[e] <= latest[e]
                BY <1>2, <1>3, <1>4
            <4>8. QED
                BY <1>0, <1>6, <4>5, <4>6, <4>7 DEF ReceiverInOrder, WithoutGap
        <3>5. CASE awaiting[e] = <<>>
            <4>1. received'[p] = received[p] /\ Forwarded(e)' = Forwarded(e)
                BY <1>2, <1>5, <1>6, <2>3, <3>5 DEF Forwarded
            <4>2. QED
                BY <1>0, <1>2, <1>3, <4>1 DEF ReceiverInOrder, WithoutGap
        <3>6. QED
            BY <3>4, <3>5
    <2>8. QED
        BY <1>0, <1>6, <1>8, <2>1, <2>2, <2>3, <2>4, <2>5, <2>6, <2>7 DEF SignalInv, BacklogInOrder
<1>10. CASE connection[p] = 0
    <2>1. Len(pending \o awaiting[e]) <= MaxBacklog /\ pending' = pending \o awaiting[e] /\ received' = received
        BY <1>10 DEF Forward
    <2>2. pending' \in Seq(Frame)
        BY <1>2, <2>1, ConcatAt
    <2>3. SignalingTypeOK'
        BY <1>1, <1>3, <1>8, <2>1, <2>2 DEF SignalingTypeOK
    <2>4. SenderInOrder(p)'
        BY <1>2, <1>3, <1>10, <2>1, Zenon DEF SenderInOrder, Numbered
    <2>5. ReceiverInOrder(e)'
        BY <1>0, <1>2, <1>3, <1>7, <2>1 DEF ReceiverInOrder, WithoutGap
    <2>6. ReceiverInOrder(p)'
        BY <1>2, <1>5, <1>10, <2>1 DEF SenderInOrder, ReceiverInOrder, WithoutGap
    <2>7. /\ Numbered(pending, e, connection[e], sent[e] - Len(awaiting[e]))
          /\ Len(pending) + Len(awaiting[e]) <= sent[e]
        <3>1. CASE pending = <<>>
            BY <1>2, <1>5, <3>1 DEF Numbered, SenderInOrder
        <3>2. CASE pending # <<>>
            <4>1. Numbered(pending, e, connection[e], Forwarded(e)) /\ Len(pending) <= Forwarded(e)
                BY <1>0, <1>2, <1>10, <3>2 DEF BacklogInOrder
            <4>2. QED
                BY <1>2, <4>1 DEF Forwarded
        <3>3. QED
            BY <3>1, <3>2
    <2>8. Numbered(pending', e, connection[e], sent[e])
        BY <1>2, <2>1, <2>7, NumberedConcat DEF SenderInOrder
    <2>9. Len(pending') = Len(pending) + Len(awaiting[e])
        BY <1>2, <2>1, ConcatAt
    <2>10. BacklogInOrder'
        BY <1>3, <1>4, <1>6, <1>10, <2>7, <2>8, <2>9 DEF BacklogInOrder, Numbered
    <2>11. QED
        BY <1>0, <1>1, <1>6, <1>8, <2>1, <2>3, <2>4, <2>5, <2>6, <2>10 DEF SignalInv
<1>11. QED
    BY <1>9, <1>10

-----------------------------------------------------------------------------

LEMMA SignalStep == SignalInv /\ [SignalingNext]_signalVars => SignalInv'
<1> SUFFICES ASSUME SignalInv, [SignalingNext]_signalVars PROVE SignalInv'
    OBVIOUS
<1>1. CASE LoseAuthority \/ \E e \in Endpoints : Admit(e) \/ Revalidate(e) \/ ReadAuthority(e)
    BY <1>1, QuietSteps
<1>2. CASE ShutDown \/ \E e \in Endpoints : CloseEndpoint(e) \/ Misbehave(e) \/ Refuse(e)
    BY <1>2, ShutDownStep, ClosingSteps
<1>3. CASE \E e \in Endpoints : AcceptSocket(e) \/ OnMessage(e) \/ Forward(e)
    BY <1>3, AcceptStep, OnMessageStep, ForwardStep
<1>4. CASE UNCHANGED signalVars
    <2>1. /\ SignalingTypeOK
          /\ \A e \in Endpoints : connection[e] = 0 => verdict[e] = "none"
        BY DEF SignalInv, SenderInOrder
    <2>2. QED
        BY <1>4, <2>1, VerdictStep DEF signalVars, SignalingTypeOK
<1>5. QED
    BY <1>1, <1>2, <1>3, <1>4 DEF SignalingNext

\* What an endpoint receives of its peer's connection is in order and without a gap
\* (CallSignalingHub), for any number of frames and connections and any backlog.
THEOREM SignalsNeverSkip == SignalingSpec => []SignalsInOrder
<1>1. SignalingInit => SignalInv
    BY SignalInvInit
<1>2. SignalInv /\ [SignalingNext]_signalVars => SignalInv'
    BY SignalStep
<1>3. SignalInv => SignalsInOrder
    BY SignalInvInOrder
<1>4. QED
    BY <1>1, <1>2, <1>3, PTL DEF SignalingSpec

-----------------------------------------------------------------------------
(* Idempotency: what holds in every state, besides KeyAccounted.            *)

Attempt == [payload : Payloads, looked : BOOLEAN, answer : Answers, effect : Nat]

KeyShape ==
    /\ keyScope \in Scopes /\ keyAge \in Nat
    /\ stored = NoRecord \/ stored \in [fingerprint : Payloads, answer : Nat, until : Nat \ {0}]
    /\ attempts \in Seq(Attempt) /\ effects \in Seq([payload : Payloads, at : Nat])

\* A stored answer is that of an execution of its own request.
StoredTrue ==
    stored # NoRecord /\ stored.answer # Denied =>
        /\ stored.answer \in 1 .. Len(effects)
        /\ effects[stored.answer].payload = stored.fingerprint

\* What was executed has its record, which runs out after the execution.
EffectsRecorded ==
    effects # <<>> =>
        /\ stored # NoRecord
        /\ \A e \in 1 .. Len(effects) : effects[e].at < stored.until
EffectsSpaced ==
    \A e, f \in 1 .. Len(effects) : e < f => keyScope = "relationship_item" /\ effects[e].at < effects[f].at

AnswerTrue(a, done) ==
    a.answer = "done" => a.effect \in 1 .. Len(done) /\ done[a.effect].payload = a.payload

\* A partner request is answered by the one record there will ever be.
AnswerStored(a, record) ==
    a.answer # "awaited" =>
        /\ record # NoRecord
        /\ IF a.payload # record.fingerprint THEN a.answer = "reused" /\ a.effect = 0
           ELSE IF record.answer = Denied THEN a.answer = "denied" /\ a.effect = 0
           ELSE a.answer = "done" /\ a.effect = record.answer
AttemptInOrder(a) == AnswerTrue(a, effects) /\ (keyScope = "partner_request" => AnswerStored(a, stored))

KeyInv ==
    /\ KeyShape /\ StoredTrue /\ EffectsRecorded /\ EffectsSpaced
    /\ \A i \in 1 .. Len(attempts) : AttemptInOrder(attempts[i])

LEMMA SeqUpdated ==
    ASSUME NEW S, NEW s \in Seq(S), NEW i \in 1 .. Len(s), NEW a \in S, NEW t, t = [s EXCEPT ![i] = a]
    PROVE  /\ t \in Seq(S) /\ Len(t) = Len(s) /\ t[i] = a
           /\ \A j \in 1 .. Len(s) : j # i => t[j] = s[j]
OBVIOUS

LEMMA SeqAppended ==
    ASSUME NEW S, NEW s \in Seq(S), NEW a \in S, NEW t, t = Append(s, a)
    PROVE  /\ t \in Seq(S) /\ Len(t) = Len(s) + 1 /\ t[Len(s) + 1] = a
           /\ \A j \in 1 .. Len(s) : t[j] = s[j]
OBVIOUS

LEMMA SeqElement == ASSUME NEW S, NEW s \in Seq(S), NEW i \in 1 .. Len(s) PROVE s[i] \in S
OBVIOUS

LEMMA KeyInvInit == KeyInit => KeyInv
BY DEF KeyInit, KeyInv, KeyShape, StoredTrue, EffectsRecorded, EffectsSpaced

LEMMA KeyInvAccounted == KeyInv => KeyAccounted
<1> SUFFICES ASSUME KeyInv PROVE KeyAccounted
    OBVIOUS
<1>1. DOMAIN effects = 1 .. Len(effects) /\ DOMAIN attempts = 1 .. Len(attempts)
    BY DEF KeyInv, KeyShape
<1>2. ASSUME NEW i \in 1 .. Len(attempts), NEW j \in 1 .. Len(attempts), keyScope = "partner_request",
             attempts[i].payload = attempts[j].payload, ~ Unanswered(i), ~ Unanswered(j)
      PROVE  attempts[i].answer = attempts[j].answer /\ attempts[i].effect = attempts[j].effect
    BY <1>2 DEF KeyInv, AttemptInOrder, AnswerStored, Unanswered
<1>3. QED
    BY <1>1, <1>2 DEF KeyAccounted, KeyInv, EffectsSpaced, AttemptInOrder, AnswerTrue

\* The answers given stay what they are, as the effects only grow and the record of a partner
\* request is for good.
LEMMA KeyKept ==
    ASSUME KeyInv, KeyShape', StoredTrue', EffectsRecorded', EffectsSpaced', keyScope' = keyScope,
           Len(effects) <= Len(effects'), \A e \in 1 .. Len(effects) : effects'[e] = effects[e],
           keyScope # "partner_request" \/ stored = NoRecord \/ stored' = stored,
           \A j \in 1 .. Len(attempts') :
               \/ j \in 1 .. Len(attempts) /\ attempts'[j] = attempts[j]
               \/ /\ AnswerTrue(attempts'[j], effects')
                  /\ keyScope = "partner_request" => AnswerStored(attempts'[j], stored')
    PROVE  KeyInv'
<1>1. ASSUME NEW j \in 1 .. Len(attempts'), j \in 1 .. Len(attempts), attempts'[j] = attempts[j]
      PROVE  /\ AnswerTrue(attempts'[j], effects')
             /\ keyScope = "partner_request" => AnswerStored(attempts'[j], stored')
    <2>1. AttemptInOrder(attempts[j])
        BY <1>1 DEF KeyInv
    <2>2. Len(effects) \in Nat /\ Len(effects') \in Nat
        BY DEF KeyInv, KeyShape
    <2>3. AnswerTrue(attempts'[j], effects')
        BY <1>1, <2>1, <2>2 DEF AttemptInOrder, AnswerTrue
    <2>4. ASSUME keyScope = "partner_request" PROVE AnswerStored(attempts'[j], stored')
        BY <1>1, <2>1, <2>4 DEF AttemptInOrder, AnswerStored
    <2>5. QED
        BY <2>3, <2>4
<1>2. ASSUME NEW j \in 1 .. Len(attempts') PROVE AttemptInOrder(attempts[j])'
    BY <1>1 DEF AttemptInOrder
<1>3. QED
    BY <1>2 DEF KeyInv

\* A request gets its answer, and nothing else happens.
LEMMA KeyReplied ==
    ASSUME KeyInv, NEW i \in 1 .. Len(attempts), NEW answer \in Answers, NEW effect \in Nat,
           Reply(i, answer, effect), UNCHANGED <<keyScope, stored, effects, keyAge>>,
           answer = "done" => effect \in 1 .. Len(effects) /\ effects[effect].payload = attempts[i].payload,
           keyScope = "partner_request" =>
               AnswerStored([attempts[i] EXCEPT !.answer = answer, !.effect = effect], stored)
    PROVE  KeyInv'
<1> DEFINE a == [attempts[i] EXCEPT !.answer = answer, !.effect = effect]
<1>1. attempts \in Seq(Attempt) /\ attempts[i] \in Attempt
    BY DEF KeyInv, KeyShape
<1>2. attempts' = [attempts EXCEPT ![i] = a]
    BY <1>1 DEF Reply, Attempt
<1>3. a \in Attempt /\ a.answer = answer /\ a.effect = effect /\ a.payload = attempts[i].payload
    BY <1>1 DEF Attempt
<1>4. /\ attempts' \in Seq(Attempt) /\ Len(attempts') = Len(attempts) /\ attempts'[i] = a
      /\ \A j \in 1 .. Len(attempts) : j # i => attempts'[j] = attempts[j]
    <2> HIDE DEF a
    <2>1. QED
        BY <1>1, <1>2, <1>3, SeqUpdated
<1>5. KeyShape' /\ StoredTrue' /\ EffectsRecorded' /\ EffectsSpaced'
    BY <1>4 DEF KeyInv, KeyShape, StoredTrue, EffectsRecorded, EffectsSpaced
<1>6. AnswerTrue(a, effects') /\ (keyScope = "partner_request" => AnswerStored(a, stored'))
    BY <1>3 DEF AnswerTrue
<1>7. KeyInv'
    <2> HIDE DEF a
    <2>1. Len(effects) \in Nat
        BY DEF KeyInv, KeyShape
    <2>2. QED
        BY <1>4, <1>5, <1>6, <2>1, KeyKept
<1>8. QED
    BY <1>7

LEMMA KeyReplayed ==
    ASSUME KeyInv, NEW i \in 1 .. Len(attempts), Replay(i), stored # NoRecord,
           UNCHANGED <<keyScope, stored, effects, keyAge>>
    PROVE  KeyInv'
<1>1. /\ stored.fingerprint \in Payloads /\ stored.answer \in Nat /\ attempts[i] \in Attempt
      /\ stored.answer # 0 => /\ stored.answer \in 1 .. Len(effects)
                              /\ effects[stored.answer].payload = stored.fingerprint
    BY DEF KeyInv, KeyShape, StoredTrue, Denied
<1>2. CASE ~ SameRequest(i)
    BY <1>1, <1>2, KeyReplied DEF Replay, SameRequest, Answers, AnswerStored, Attempt
<1>3. CASE SameRequest(i) /\ stored.answer = Denied
    BY <1>1, <1>3, KeyReplied DEF Replay, SameRequest, Answers, AnswerStored, Attempt, Denied
<1>4. CASE SameRequest(i) /\ stored.answer # Denied
    BY <1>1, <1>4, KeyReplied DEF Replay, SameRequest, Answers, AnswerStored, Attempt, Denied
<1>5. QED
    BY <1>2, <1>3, <1>4

LEMMA KeyLooked == ASSUME KeyInv, NEW i \in 1 .. Len(attempts), LookFirst(i) PROVE KeyInv'
<1>1. CASE stored # NoRecord
    BY <1>1, KeyReplayed DEF LookFirst
<1>2. CASE stored = NoRecord
    <2> DEFINE a == [attempts[i] EXCEPT !.looked = TRUE]
    <2>1. /\ attempts \in Seq(Attempt) /\ attempts[i] \in Attempt /\ attempts[i].answer = "awaited"
          /\ attempts' = [attempts EXCEPT ![i] = a] /\ UNCHANGED <<keyScope, stored, effects, keyAge>>
        BY <1>2 DEF KeyInv, KeyShape, LookFirst, Unanswered
    <2>2. a \in Attempt /\ a.answer = "awaited"
        BY <2>1 DEF Attempt
    <2>3. /\ attempts' \in Seq(Attempt) /\ Len(attempts') = Len(attempts) /\ attempts'[i] = a
          /\ \A j \in 1 .. Len(attempts) : j # i => attempts'[j] = attempts[j]
        <3> HIDE DEF a
        <3>1. QED
            BY <2>1, <2>2, SeqUpdated
    <2>4. KeyShape' /\ StoredTrue' /\ EffectsRecorded' /\ EffectsSpaced'
        BY <2>1, <2>3 DEF KeyInv, KeyShape, StoredTrue, EffectsRecorded, EffectsSpaced
    <2>5. AnswerTrue(a, effects') /\ AnswerStored(a, stored')
        BY <2>2 DEF AnswerTrue, AnswerStored
    <2>6. Len(effects) \in Nat
        BY DEF KeyInv, KeyShape
    <2>7. KeyInv'
        <3> HIDE DEF a
        <3>1. QED
            BY <2>1, <2>3, <2>4, <2>5, <2>6, KeyKept
    <2>8. QED
        BY <2>7
<1>3. QED
    BY <1>1, <1>2

\* Nothing was executed under the key, but for an item whose record has run out.
LEMMA KeyExecuted == ASSUME KeyInv, NEW i \in 1 .. Len(attempts), ExecuteOnce(i) PROVE KeyInv'
<1> DEFINE n == Len(effects) + 1
           e == [payload |-> attempts[i].payload, at |-> keyAge]
           a == [attempts[i] EXCEPT !.answer = "done", !.effect = n]
<1>1. /\ attempts \in Seq(Attempt) /\ attempts[i] \in Attempt
      /\ effects \in Seq([payload : Payloads, at : Nat]) /\ n \in Nat \ {0} /\ keyAge \in Nat
    BY DEF KeyInv, KeyShape
<1>2. /\ attempts' = [attempts EXCEPT ![i] = a] /\ effects' = Append(effects, e)
      /\ stored' = [fingerprint |-> attempts[i].payload, answer |-> n, until |-> keyAge + 1]
      /\ keyScope' = keyScope /\ keyAge' = keyAge
    BY <1>1 DEF ExecuteOnce, Reply, Reserved, Attempt
<1>3. a \in Attempt /\ a.answer = "done" /\ a.effect = n /\ a.payload = attempts[i].payload
    BY <1>1 DEF Attempt, Answers
<1>4. /\ attempts' \in Seq(Attempt) /\ Len(attempts') = Len(attempts) /\ attempts'[i] = a
      /\ \A j \in 1 .. Len(attempts) : j # i => attempts'[j] = attempts[j]
    <2> HIDE DEF a
    <2>1. QED
        BY <1>1, <1>2, <1>3, SeqUpdated
<1>5. /\ effects' \in Seq([payload : Payloads, at : Nat]) /\ Len(effects') = n /\ effects'[n] = e
      /\ \A f \in 1 .. Len(effects) : effects'[f] = effects[f]
    <2>1. e \in [payload : Payloads, at : Nat]
        BY <1>1 DEF Attempt
    <2> HIDE DEF e
    <2>2. QED
        BY <1>1, <1>2, <2>1, SeqAppended
<1>6. keyScope # "relationship_item" => effects = <<>>
    BY DEF KeyInv, KeyShape, EffectsRecorded, ExecuteOnce, RecordKept, BreakupClosed
<1>7. \A f \in 1 .. Len(effects) : keyScope = "relationship_item" /\ effects[f].at < keyAge
    <2>1. CASE effects = <<>>
        BY <2>1
    <2>2. CASE effects # <<>>
        <3>1. stored # NoRecord /\ stored.until \in Nat /\ keyScope = "relationship_item"
            BY <2>2, <1>6 DEF KeyInv, KeyShape, EffectsRecorded
        <3>2. stored.until <= keyAge
            BY <3>1, <1>1 DEF ExecuteOnce, RecordKept
        <3>3. ASSUME NEW f \in 1 .. Len(effects)
              PROVE  effects[f].at < stored.until /\ effects[f].at \in Nat
            <4>1. effects[f] \in [payload : Payloads, at : Nat]
                BY <1>1, SeqElement
            <4>2. effects[f].at < stored.until
                BY <2>2 DEF KeyInv, EffectsRecorded
            <4>3. QED
                BY <4>1, <4>2
        <3>4. QED
            BY <3>1, <3>2, <3>3, <1>1
    <2>3. QED
        BY <2>1, <2>2
<1>8. KeyShape'
    BY <1>1, <1>2, <1>4, <1>5 DEF KeyInv, KeyShape, Attempt
<1>9. StoredTrue'
    BY <1>1, <1>2, <1>5 DEF StoredTrue
<1>10. stored' # NoRecord /\ stored'.until = keyAge + 1
    BY <1>1, <1>2 DEF NoRecord
<1>11. EffectsRecorded'
    <2>1. ASSUME NEW f \in 1 .. n PROVE effects'[f].at < keyAge + 1
        <3>1. CASE f = n
            BY <3>1, <1>1, <1>5
        <3>2. CASE f # n
            <4>1. f \in 1 .. Len(effects)
                BY <3>2, <1>1
            <4>2. effects[f].at < keyAge /\ effects'[f] = effects[f] /\ effects[f] \in [payload : Payloads, at : Nat]
                BY <4>1, <1>1, <1>5, <1>7, SeqElement
            <4>3. effects'[f].at \in Nat
                BY <4>2
            <4>4. QED
                BY <4>2, <4>3, <1>1
        <3>3. QED
            BY <3>1, <3>2
    <2>2. QED
        BY <2>1, <1>5, <1>10 DEF EffectsRecorded
<1>12. EffectsSpaced'
    <2> SUFFICES ASSUME NEW x \in 1 .. n, NEW y \in 1 .. n, x < y
                 PROVE  keyScope = "relationship_item" /\ effects'[x].at < effects'[y].at
        BY <1>2, <1>5 DEF EffectsSpaced
    <2>1. x \in 1 .. Len(effects)
        BY <1>1
    <2>2. CASE y = n
        BY <2>1, <2>2, <1>5, <1>7
    <2>3. CASE y # n
        <3>1. y \in 1 .. Len(effects)
            <4>1. Len(effects) \in Nat
                BY <1>1
            <4>2. QED
                BY <2>3, <4>1
        <3>2. keyScope = "relationship_item" /\ effects[x].at < effects[y].at
            BY <2>1, <3>1 DEF KeyInv, EffectsSpaced
        <3>3. effects'[x] = effects[x] /\ effects'[y] = effects[y]
            BY <2>1, <3>1, <1>5
        <3>4. QED
            BY <3>2, <3>3
    <2>4. QED
        BY <2>2, <2>3
<1>13. AnswerTrue(a, effects')
    BY <1>1, <1>3, <1>5 DEF AnswerTrue
<1>14. AnswerStored(a, stored')
    BY <1>1, <1>2, <1>3, <1>10 DEF AnswerStored, Denied
<1>15. keyScope = "partner_request" => stored = NoRecord
    BY DEF ExecuteOnce, RecordKept
<1>16. Len(effects) <= Len(effects')
    BY <1>1, <1>5
<1>17. KeyInv'
    <2> HIDE DEF a, n, e
    <2>1. QED
        BY <1>2, <1>4, <1>5, <1>8, <1>9, <1>11, <1>12, <1>13, <1>14, <1>15, <1>16, KeyKept
<1>18. QED
    BY <1>17

LEMMA KeyDenied == ASSUME KeyInv, NEW i \in 1 .. Len(attempts), DenyUnder(i) PROVE KeyInv'
<1>1. CASE keyScope # "partner_request"
    BY <1>1, KeyReplied DEF DenyUnder, Answers
<1>2. CASE keyScope = "partner_request"
    <2> DEFINE a == [attempts[i] EXCEPT !.answer = "denied", !.effect = 0]
    <2>1. attempts \in Seq(Attempt) /\ attempts[i] \in Attempt /\ keyAge \in Nat
        BY DEF KeyInv, KeyShape
    <2>2. /\ stored = NoRecord /\ attempts' = [attempts EXCEPT ![i] = a]
          /\ stored' = [fingerprint |-> attempts[i].payload, answer |-> 0, until |-> keyAge + 1]
          /\ keyScope' = keyScope /\ keyAge' = keyAge /\ effects' = effects
        BY <1>2, <2>1 DEF DenyUnder, Reply, Reserved, Attempt, RecordKept, Denied
    <2>3. a \in Attempt /\ a.answer = "denied" /\ a.effect = 0 /\ a.payload = attempts[i].payload
        BY <2>1 DEF Attempt, Answers
    <2>4. /\ attempts' \in Seq(Attempt) /\ Len(attempts') = Len(attempts) /\ attempts'[i] = a
          /\ \A j \in 1 .. Len(attempts) : j # i => attempts'[j] = attempts[j]
        <3> HIDE DEF a
        <3>1. QED
            BY <2>1, <2>2, <2>3, SeqUpdated
    <2>5. effects = <<>>
        BY <2>2 DEF KeyInv, EffectsRecorded
    <2>6. stored' # NoRecord
        BY <2>1, <2>2 DEF NoRecord
    <2>7. KeyShape'
        BY <2>1, <2>2, <2>4 DEF KeyInv, KeyShape, Attempt
    <2>8. StoredTrue' /\ EffectsRecorded' /\ EffectsSpaced'
        BY <2>2, <2>5 DEF StoredTrue, EffectsRecorded, EffectsSpaced, Denied
    <2>9. AnswerTrue(a, effects') /\ AnswerStored(a, stored')
        BY <2>2, <2>3, <2>6 DEF AnswerTrue, AnswerStored, Denied
    <2>10. Len(effects) \in Nat
        BY <2>5
    <2>11. KeyInv'
        <3> HIDE DEF a
        <3>1. QED
            BY <2>2, <2>4, <2>5, <2>7, <2>8, <2>9, <2>10, KeyKept
    <2>12. QED
        BY <2>11
<1>3. QED
    BY <1>1, <1>2

LEMMA KeySent == ASSUME KeyInv, NEW p \in Payloads, SendUnder(p) PROVE KeyInv'
<1> DEFINE a == [payload |-> p, looked |-> FALSE, answer |-> "awaited", effect |-> 0]
<1>1. /\ attempts \in Seq(Attempt) /\ a \in Attempt /\ attempts' = Append(attempts, a)
      /\ UNCHANGED <<keyScope, stored, effects, keyAge>>
    BY DEF KeyInv, KeyShape, SendUnder, Attempt, Answers
<1>2. KeyShape' /\ StoredTrue' /\ EffectsRecorded' /\ EffectsSpaced'
    BY <1>1 DEF KeyInv, KeyShape, StoredTrue, EffectsRecorded, EffectsSpaced
<1>3. AnswerTrue(a, effects') /\ AnswerStored(a, stored')
    BY DEF AnswerTrue, AnswerStored
<1>4. \A j \in 1 .. Len(attempts') : attempts'[j] = a \/ (j \in 1 .. Len(attempts) /\ attempts'[j] = attempts[j])
    <2> HIDE DEF a
    <2>1. QED
        BY <1>1, SeqAppended
<1>5. Len(effects) \in Nat
    BY DEF KeyInv, KeyShape
<1>6. KeyInv'
    <2> HIDE DEF a
    <2>1. QED
        BY <1>1, <1>2, <1>3, <1>4, <1>5, KeyKept
<1>7. QED
    BY <1>6

LEMMA KeyStep == KeyInv /\ [KeyNext]_keyVars => KeyInv'
<1> SUFFICES ASSUME KeyInv, [KeyNext]_keyVars PROVE KeyInv'
    OBVIOUS
<1>1. DOMAIN attempts = 1 .. Len(attempts)
    BY DEF KeyInv, KeyShape
<1>2. ASSUME NEW p \in Payloads, SendUnder(p) PROVE KeyInv'
    BY <1>2, KeySent
<1>3. ASSUME NEW i \in 1 .. Len(attempts), LookFirst(i) \/ ExecuteOnce(i) \/ DenyUnder(i) PROVE KeyInv'
    BY <1>3, KeyLooked, KeyExecuted, KeyDenied
<1>4. ASSUME NEW i \in 1 .. Len(attempts), Unavailable(i) PROVE KeyInv'
    BY <1>4, KeyReplied DEF Unavailable, BreakupClosed, Answers
<1>5. ASSUME NEW i \in 1 .. Len(attempts), ReplayStored(i) PROVE KeyInv'
    BY <1>5, KeyReplayed DEF ReplayStored, RecordKept
<1>6. ASSUME UNCHANGED <<keyScope, stored, attempts, effects>>, keyAge' \in Nat PROVE KeyInv'
    BY <1>6 DEF KeyInv, KeyShape, StoredTrue, EffectsRecorded, EffectsSpaced, AttemptInOrder
<1>7. CASE RulesTurn \/ RetentionPasses \/ UNCHANGED keyVars
    BY <1>6, <1>7 DEF RulesTurn, RetentionPasses, keyVars, KeyInv, KeyShape
<1>8. QED
    BY <1>1, <1>2, <1>3, <1>4, <1>5, <1>7 DEF KeyNext

\* What a key was made for happens once (reserveMutation, completeMutation), whatever repeats or
\* abuses it, and every answer is that of the request's own execution.
THEOREM KeysExecuteOnce == KeySpec => []KeyAccounted
<1>1. QED
    BY KeyInvInit, KeyStep, KeyInvAccounted, PTL DEF KeySpec

-----------------------------------------------------------------------------
(* AccountRegistry: what holds in every state, besides RegistryAccounted.   *)

Nobody == [name |-> None, address |-> None]
IntentRow == {NoIntent} \cup [state : {"open", "expired", "completed"}, name : Names, address : Addresses]

RegistryShape ==
    /\ intent \in [Intents -> IntentRow]
    /\ holder \in [Intents -> {Nobody} \cup [name : Names, address : Addresses]]
    /\ partnered \in [Intents -> Names \cup {None}]
    /\ open \in [Intents -> {Closed} \cup [step : {"verify"}] \cup [step : {"rename"}, name : Names]
                                \cup [step : {"move"}, address : Addresses]]

\* What a transaction that holds the lock of an intent or an account has found and may rely on.
Found(i) ==
    /\ open[i].step = "verify" => intent[i].state \in {"open", "expired"}
    /\ open[i].step \in {"rename", "move"} => i \in Registered
    /\ open[i].step = "rename" => partnered[i] = None

\* An account is known by the name it was paired under.
PairedAsNamed(i) == partnered[i] # None => partnered[i] = holder[i].name

RegistryInv ==
    /\ RegistryShape
    /\ \A i \in Intents : /\ i \in Registered <=> intent[i].state = "completed"
                          /\ Found(i) /\ PairedAsNamed(i)
    /\ \A a, b \in Registered : a # b =>
           holder[a].name # holder[b].name /\ holder[a].address # holder[b].address

LEMMA RegistryInvInit == RegistryInit => RegistryInv
BY DEF RegistryInit, RegistryInv, RegistryShape, Nobody, IntentRow, NoIntent, Closed, Found, PairedAsNamed, Registered

LEMMA RegistryInvAccounted == RegistryInv => RegistryAccounted
BY DEF RegistryInv, RegistryAccounted, PairedAsNamed

\* A step that leaves the holders, and keeps what the transactions have found.
LEMMA HoldersKept ==
    ASSUME RegistryInv, holder' = holder, RegistryShape',
           \A i \in Intents : /\ intent'[i].state = "completed" <=> intent[i].state = "completed"
                              /\ Found(i)' /\ PairedAsNamed(i)'
    PROVE  RegistryInv'
<1>1. Registered' = Registered
    BY DEF Registered
<1>2. QED
    BY <1>1 DEF RegistryInv

LEMMA IntentMoved ==
    ASSUME RegistryInv, NEW i \in Intents, NEW row \in IntentRow, row.state # "completed",
           intent[i].state # "completed", intent' = [intent EXCEPT ![i] = row],
           UNCHANGED <<holder, partnered, open>>,
           open[i].step = "verify" => row.state \in {"open", "expired"}
    PROVE  RegistryInv'
<1>1. RegistryShape'
    BY DEF RegistryInv, RegistryShape
<1>2. Registered' = Registered
    BY DEF Registered
<1>3. ASSUME NEW j \in Intents
      PROVE  /\ intent'[j].state = "completed" <=> intent[j].state = "completed"
             /\ Found(j)' /\ PairedAsNamed(j)'
    <2>1. intent'[j] = IF j = i THEN row ELSE intent[j]
        BY DEF RegistryInv, RegistryShape
    <2>2. Found(j) /\ PairedAsNamed(j)
        BY DEF RegistryInv
    <2>3. QED
        BY <1>2, <2>1, <2>2 DEF Found, PairedAsNamed
<1>4. QED
    BY <1>1, <1>3, HoldersKept

\* A transaction begins, goes on or ends without writing.
LEMMA TransactionMoved ==
    ASSUME RegistryInv, NEW i \in Intents, NEW row, open' = [open EXCEPT ![i] = row],
           UNCHANGED <<intent, holder, partnered>>, RegistryShape',
           row.step = "verify" => intent[i].state \in {"open", "expired"},
           row.step \in {"rename", "move"} => i \in Registered,
           row.step = "rename" => partnered[i] = None
    PROVE  RegistryInv'
<1>1. Registered' = Registered
    BY DEF Registered
<1>2. ASSUME NEW j \in Intents
      PROVE  Found(j)' /\ PairedAsNamed(j)'
    <2>1. open'[j] = IF j = i THEN row ELSE open[j]
        BY DEF RegistryInv, RegistryShape
    <2>2. Found(j) /\ PairedAsNamed(j)
        BY DEF RegistryInv
    <2>3. QED
        BY <1>1, <2>1, <2>2 DEF Found, PairedAsNamed
<1>3. QED
    BY <1>2, HoldersKept

\* The transaction of i ends, and with it i holds what the indexes admit.
LEMMA HolderMoved ==
    ASSUME RegistryInv, NEW i \in Intents, NEW row \in [name : Names, address : Addresses],
           holder' = [holder EXCEPT ![i] = row],
           open' = [open EXCEPT ![i] = Closed],
           intent' = [intent EXCEPT ![i].state = "completed"], intent[i] # NoIntent,
           partnered' = partnered, partnered[i] \in {None, row.name},
           \A b \in Registered \ {i} : holder[b].name # row.name /\ holder[b].address # row.address
    PROVE  RegistryInv'
<1>1. RegistryShape'
    <2>2. intent[i] \in [state : {"open", "expired", "completed"}, name : Names, address : Addresses]
        BY DEF RegistryInv, RegistryShape, IntentRow
    <2>3. [intent[i] EXCEPT !.state = "completed"] \in IntentRow
        BY <2>2 DEF IntentRow
    <2>4. intent' \in [Intents -> IntentRow]
        BY <2>3 DEF RegistryInv, RegistryShape
    <2>5. QED
        BY <2>4 DEF RegistryInv, RegistryShape
<1>2. \A j \in Intents : holder'[j] = IF j = i THEN row ELSE holder[j]
    BY DEF RegistryInv, RegistryShape
<1>3. row.name # None
    BY RegistryAssumption DEF None
<1>4. Registered' = Registered \cup {i}
    BY <1>2, <1>3 DEF Registered
<1>5. intent'[i].state = "completed"
    BY DEF RegistryInv, RegistryShape, IntentRow
<1>6. ASSUME NEW j \in Intents
      PROVE  /\ j \in Registered' <=> intent'[j].state = "completed"
             /\ Found(j)' /\ PairedAsNamed(j)'
    <2>1. CASE j = i
        <3>1. open'[j].step = "none"
            BY <2>1 DEF RegistryInv, RegistryShape, Closed
        <3>2. QED
            BY <2>1, <3>1, <1>2, <1>4, <1>5 DEF Found, PairedAsNamed
    <2>2. CASE j # i
        <3>1. intent'[j] = intent[j] /\ open'[j] = open[j]
            BY <2>2 DEF RegistryInv, RegistryShape
        <3>2. (j \in Registered <=> intent[j].state = "completed") /\ Found(j) /\ PairedAsNamed(j)
            BY DEF RegistryInv
        <3>3. QED
            BY <2>2, <3>1, <3>2, <1>2, <1>4 DEF Found, PairedAsNamed
    <2>3. QED
        BY <2>1, <2>2
<1>7. ASSUME NEW a \in Registered', NEW b \in Registered', a # b
      PROVE  holder'[a].name # holder'[b].name /\ holder'[a].address # holder'[b].address
    <2>1. a \in Intents /\ b \in Intents
        BY DEF Registered
    <2>2. QED
        BY <1>2, <1>4, <1>7, <2>1 DEF RegistryInv
<1>8. QED
    BY <1>1, <1>6, <1>7 DEF RegistryInv

-----------------------------------------------------------------------------

LEMMA RegistrationCommitted == ASSUME RegistryInv, NEW i \in Intents, CommitRegistration(i) PROVE RegistryInv'
<1>1. intent[i] \in [state : {"open", "expired", "completed"}, name : Names, address : Addresses]
    BY DEF RegistryInv, RegistryShape, IntentRow, NoIntent, Found, CommitRegistration
<1>2. partnered[i] = None
    <2>1. i \notin Registered
        BY DEF RegistryInv, Found, CommitRegistration
    <2>2. holder[i].name = None
        BY <2>1 DEF Registered
    <2>3. QED
        BY <2>2 DEF RegistryInv, PairedAsNamed
<1>3. intent[i] # NoIntent
    BY DEF RegistryInv, Found, CommitRegistration, NoIntent
<1>4. QED
    <2> DEFINE row == [name |-> intent[i].name, address |-> intent[i].address]
    <2>1. /\ holder' = [holder EXCEPT ![i] = row]
          /\ open' = [open EXCEPT ![i] = Closed] /\ partnered' = partnered
          /\ intent' = [intent EXCEPT ![i].state = "completed"]
        BY DEF CommitRegistration, InsertAccount, CompleteIntent
    <2>2. \A b \in Registered \ {i} : holder[b].name # row.name /\ holder[b].address # row.address
        BY DEF CommitRegistration, NameIndexAdmits, AddressIndexAdmits
    <2>3. row \in [name : Names, address : Addresses]
        BY <1>1
    <2> HIDE DEF row
    <2>4. QED
        BY <1>2, <1>3, <2>1, <2>2, <2>3, HolderMoved

\* What i holds is changed in one of its parts.
LEMMA HolderChanged ==
    ASSUME RegistryInv, NEW i \in Registered, NEW row \in [name : Names, address : Addresses],
           holder' = [holder EXCEPT ![i] = row],
           open' = [open EXCEPT ![i] = Closed],
           UNCHANGED <<intent, partnered>>, partnered[i] \in {None, row.name},
           \A b \in Registered \ {i} : holder[b].name # row.name /\ holder[b].address # row.address
    PROVE  RegistryInv'
<1>1. i \in Intents
    BY DEF Registered
<1>2. intent[i].state = "completed" /\ intent[i] \in IntentRow
    BY <1>1 DEF RegistryInv, RegistryShape
<1>3. intent' = [intent EXCEPT ![i].state = "completed"] /\ intent[i] # NoIntent
    BY <1>1, <1>2 DEF IntentRow, NoIntent, RegistryInv, RegistryShape
<1>4. QED
    BY <1>1, <1>3, HolderMoved

LEMMA RegisteredHolds ==
    ASSUME RegistryInv, NEW i \in Registered
    PROVE  i \in Intents /\ holder[i] \in [name : Names, address : Addresses]
BY DEF RegistryInv, RegistryShape, Registered, Nobody

LEMMA UsernameChanged == ASSUME RegistryInv, NEW i \in Intents, ChangeUsername(i) PROVE RegistryInv'
<1> DEFINE row == [holder[i] EXCEPT !.name = open[i].name]
<1>1. i \in Registered /\ partnered[i] = None /\ open[i].name \in Names
    BY DEF RegistryInv, RegistryShape, Found, ChangeUsername, Closed
<1>2. holder[i] \in [name : Names, address : Addresses]
    BY <1>1, RegisteredHolds
<1>3. /\ row \in [name : Names, address : Addresses]
      /\ row.name = open[i].name /\ row.address = holder[i].address
    BY <1>1, <1>2
<1>4. /\ holder' = [holder EXCEPT ![i] = row] /\ open' = [open EXCEPT ![i] = Closed]
      /\ UNCHANGED <<intent, partnered>>
    BY DEF ChangeUsername
<1>5. \A b \in Registered \ {i} : holder[b].name # open[i].name /\ holder[b].address # holder[i].address
    BY <1>1 DEF ChangeUsername, NameIndexAdmits, RegistryInv
<1>6. RegistryInv'
    <2> HIDE DEF row
    <2>1. partnered[i] \in {None, row.name}
        BY <1>1, <1>2, <1>3
    <2>2. \A b \in Registered \ {i} : holder[b].name # row.name /\ holder[b].address # row.address
        BY <1>3, <1>5
    <2>3. QED
        BY <1>1, <1>3, <1>4, <2>1, <2>2, HolderChanged
<1>7. QED
    BY <1>6

LEMMA AddressChanged == ASSUME RegistryInv, NEW i \in Intents, ChangeAddress(i) PROVE RegistryInv'
<1> DEFINE row == [holder[i] EXCEPT !.address = open[i].address]
<1>1. i \in Registered /\ open[i].address \in Addresses
    BY DEF RegistryInv, RegistryShape, Found, ChangeAddress, Closed
<1>2. holder[i] \in [name : Names, address : Addresses] /\ partnered[i] \in {None, holder[i].name}
    BY <1>1, RegisteredHolds DEF RegistryInv, PairedAsNamed
<1>3. /\ row \in [name : Names, address : Addresses]
      /\ row.name = holder[i].name /\ row.address = open[i].address
    BY <1>1, <1>2
<1>4. /\ holder' = [holder EXCEPT ![i] = row] /\ open' = [open EXCEPT ![i] = Closed]
      /\ UNCHANGED <<intent, partnered>>
    BY DEF ChangeAddress
<1>5. \A b \in Registered \ {i} : holder[b].name # holder[i].name /\ holder[b].address # open[i].address
    BY <1>1 DEF ChangeAddress, AddressIndexAdmits, RegistryInv
<1>6. RegistryInv'
    <2> HIDE DEF row
    <2>1. partnered[i] \in {None, row.name}
        BY <1>1, <1>2, <1>3
    <2>2. \A b \in Registered \ {i} : holder[b].name # row.name /\ holder[b].address # row.address
        BY <1>3, <1>5
    <2>3. QED
        BY <1>1, <1>3, <1>4, <2>1, <2>2, HolderChanged
<1>7. QED
    BY <1>6

LEMMA PairMoved ==
    ASSUME RegistryInv, NEW i \in Intents, Pair(i) \/ Part(i)
    PROVE  RegistryInv'
<1>1. i \in Registered /\ open[i].step = "none"
    BY DEF Pair, Part, LockAccount, Closed
<1>2. holder[i] \in [name : Names, address : Addresses]
    BY <1>1, RegisteredHolds
<1>3. partnered' \in [Intents -> Names \cup {None}]
    BY <1>2 DEF Pair, Part, RegistryInv, RegistryShape
<1>4. partnered'[i] \in {None, holder[i].name} /\ \A j \in Intents \ {i} : partnered'[j] = partnered[j]
    BY DEF Pair, Part, RegistryInv, RegistryShape
<1>5. UNCHANGED <<intent, holder, open>>
    BY DEF Pair, Part
<1>6. RegistryShape'
    BY <1>3, <1>5 DEF RegistryInv, RegistryShape
<1>7. Registered' = Registered
    BY <1>5 DEF Registered
<1>8. ASSUME NEW j \in Intents PROVE Found(j)' /\ PairedAsNamed(j)'
    <2>1. Found(j) /\ PairedAsNamed(j)
        BY DEF RegistryInv
    <2>2. CASE j = i
        BY <1>1, <1>4, <1>5, <2>2 DEF Found, PairedAsNamed
    <2>3. CASE j # i
        BY <1>4, <1>5, <1>7, <2>1, <2>3 DEF Found, PairedAsNamed
    <2>4. QED
        BY <2>2, <2>3
<1>9. QED
    BY <1>5, <1>6, <1>8, HoldersKept

LEMMA TransactionStep ==
    ASSUME RegistryInv, NEW i \in Intents,
           \/ CheckRegistration(i) \/ RollBackRegistry(i)
           \/ \E name \in Names : CheckUsername(i, name)
           \/ \E address \in Addresses : CheckAddress(i, address)
    PROVE  RegistryInv'
<1>1. CASE CheckRegistration(i)
    <2>1. RegistryShape'
        BY <1>1 DEF CheckRegistration, RegistryInv, RegistryShape
    <2>2. QED
        BY <1>1, <2>1, TransactionMoved DEF CheckRegistration, LockRegistrationIntent
<1>2. ASSUME NEW name \in Names, CheckUsername(i, name)
      PROVE  RegistryInv'
    <2>1. RegistryShape'
        BY <1>2 DEF CheckUsername, RegistryInv, RegistryShape
    <2>2. QED
        BY <1>2, <2>1, TransactionMoved DEF CheckUsername, LockAccount, UsernameChangeAllowed
<1>3. ASSUME NEW address \in Addresses, CheckAddress(i, address)
      PROVE  RegistryInv'
    <2>1. RegistryShape'
        BY <1>3 DEF CheckAddress, RegistryInv, RegistryShape
    <2>2. QED
        BY <1>3, <2>1, TransactionMoved DEF CheckAddress, LockAccount
<1>4. CASE RollBackRegistry(i)
    <2>1. RegistryShape'
        BY <1>4 DEF RollBackRegistry, RegistryInv, RegistryShape
    <2>2. QED
        BY <1>4, <2>1, TransactionMoved DEF RollBackRegistry, Closed
<1>5. QED
    BY <1>1, <1>2, <1>3, <1>4

LEMMA RegistrationStarted ==
    ASSUME RegistryInv, NEW i \in Intents, NEW name \in Names, NEW address \in Addresses,
           StartRegistration(i, name, address)
    PROVE  RegistryInv'
<1> DEFINE row == [state |-> "open", name |-> name, address |-> address]
<1>1. row \in IntentRow /\ row.state = "open"
    BY DEF IntentRow
<1>2. intent[i].state # "completed" /\ intent' = [intent EXCEPT ![i] = row]
    BY DEF StartRegistration, InsertRegistrationIntent, NoIntent
<1>3. UNCHANGED <<holder, partnered, open>>
    BY DEF StartRegistration
<1> HIDE DEF row
<1>4. QED
    BY <1>1, <1>2, <1>3, IntentMoved

LEMMA IntentExpired == ASSUME RegistryInv, NEW i \in Intents, IntentExpires(i) PROVE RegistryInv'
<1> DEFINE row == [intent[i] EXCEPT !.state = "expired"]
<1>1. intent[i] \in [state : {"open", "expired", "completed"}, name : Names, address : Addresses]
    BY DEF IntentExpires, RegistryInv, RegistryShape, IntentRow, NoIntent
<1>2. row \in IntentRow /\ row.state = "expired"
    BY <1>1 DEF IntentRow
<1>3. intent[i].state # "completed" /\ intent' = [intent EXCEPT ![i] = row]
    BY DEF IntentExpires
<1>4. UNCHANGED <<holder, partnered, open>>
    BY DEF IntentExpires
<1> HIDE DEF row
<1>5. QED
    BY <1>2, <1>3, <1>4, IntentMoved

LEMMA IntentDeleted == ASSUME RegistryInv, NEW i \in Intents, DeleteExpiredIntents(i) PROVE RegistryInv'
<1>1. NoIntent \in IntentRow /\ NoIntent.state = "none"
    BY DEF IntentRow, NoIntent
<1>2. intent[i].state # "completed" /\ open[i].step = "none" /\ intent' = [intent EXCEPT ![i] = NoIntent]
    BY DEF DeleteExpiredIntents, Closed
<1>3. UNCHANGED <<holder, partnered, open>>
    BY DEF DeleteExpiredIntents
<1>4. QED
    BY <1>1, <1>2, <1>3, IntentMoved

LEMMA RegistryStep == RegistryInv /\ [RegistryNext]_registryVars => RegistryInv'
<1> SUFFICES ASSUME RegistryInv, [RegistryNext]_registryVars PROVE RegistryInv'
    OBVIOUS
<1>1. ASSUME UNCHANGED <<intent, holder, partnered, open>> PROVE RegistryInv'
    <2>1. RegistryShape' /\ Registered' = Registered
        BY <1>1 DEF RegistryInv, RegistryShape, Registered
    <2>2. ASSUME NEW j \in Intents PROVE Found(j)' /\ PairedAsNamed(j)'
        BY <1>1, <2>1 DEF RegistryInv, Found, PairedAsNamed
    <2>3. QED
        BY <1>1, <2>1, <2>2, HoldersKept
<1>2. CASE UNCHANGED registryVars
    BY <1>1, <1>2 DEF registryVars
<1>3. ASSUME NEW i \in Intents,
             \/ ResendRegistration(i) \/ MinutePasses(i) \/ RegistrationCodeExpires(i)
             \/ RefuseRegistrationCode(i) \/ YearPasses(i) \/ CorrectDateOfBirth(i)
      PROVE  RegistryInv'
    BY <1>1, <1>3 DEF ResendRegistration, MinutePasses, RegistrationCodeExpires, RefuseRegistrationCode,
       YearPasses, CorrectDateOfBirth
<1>4. ASSUME NEW i \in Intents,
             \/ CommitRegistration(i) \/ ChangeUsername(i) \/ ChangeAddress(i)
             \/ Pair(i) \/ Part(i) \/ IntentExpires(i) \/ DeleteExpiredIntents(i)
      PROVE  RegistryInv'
    BY <1>4, RegistrationCommitted, UsernameChanged, AddressChanged, PairMoved, IntentExpired, IntentDeleted
<1>5. QED
    BY <1>2, <1>3, <1>4, TransactionStep, RegistrationStarted DEF RegistryNext

\* No two accounts come to hold one name or one address, however many transactions found it free,
\* and each is made once (verifyRegistration, changeUsername, completeEmailChange), for any
\* intents, names and addresses.
THEOREM NamesAreHeldOnce == RegistrySpec => []RegistryAccounted
<1>1. QED
    BY RegistryInvInit, RegistryStep, RegistryInvAccounted, PTL DEF RegistrySpec

-----------------------------------------------------------------------------
(* AccountAccess: what holds in every state, besides SessionsAccounted.     *)

Token      == [session : 0 .. MaxSessions, generation : Nat]
Handle     == [device : 0 .. MaxDevices, generation : Nat]
AccessRow == [device : 0 .. MaxDevices, generation : Nat, live : BOOLEAN, epoch : Nat, recent : BOOLEAN]

AnswerRequest  == [stage : {"answer"}, browser : Browsers, token : Token, handle : Handle]
SessionRequest == [stage : {"session"}, browser : Browsers, token : Token, recent : BOOLEAN]
LoginRequest   == [stage : {"login"}, browser : Browsers, handle : Handle, password : Nat, dated : BOOLEAN]
RecoveryRequest == [stage : {"start", "complete"}, purpose : Purposes, email : Emails]
AccessRequest == {IdleSlot} \cup AnswerRequest \cup SessionRequest \cup LoginRequest \cup RecoveryRequest

AccessShape ==
    /\ credentials \in [status : {"active", "deletion_pending"}, password : Nat, email : Emails, dated : BOOLEAN]
    /\ session \in [SessionIds -> AccessRow]
    /\ device \in [DeviceIds -> [handle : Nat, revoked : BOOLEAN]]
    /\ mailed \in [Purposes -> {NoCode} \cup [email : Emails, attempts : Nat, expired : BOOLEAN]]
    /\ epoch \in Nat
    /\ jar \in [Browsers -> [token : Token, handle : Handle]]
    /\ request \in [Slots -> AccessRequest]

\* Sessions and devices are numbered as they come.
NumberedInTurn ==
    /\ \E n \in 0 .. MaxSessions : Opened = 1 .. n
    /\ \E n \in 0 .. MaxDevices : Known = 1 .. n
    /\ \A s \in Opened : session[s].device \in Known
    /\ \A d \in Known : device[d].handle # 0

\* A token names a session that was opened, in a generation it has reached.
TokenKnown(t) == t.session # 0 => t.session \in Opened /\ t.generation \in 0 .. session[t.session].generation

\* The token an answer carries is the current one of its session, and nobody else's.
AnswerAlone(r) ==
    request[r].stage = "answer" /\ request[r].token.session # 0 =>
        /\ request[r].token.generation = session[request[r].token.session].generation
        /\ \A b \in Browsers : jar[b].token # request[r].token
        /\ \A q \in Slots : /\ q # r /\ request[q].stage = "answer" =>
                                   request[q].token.session # request[r].token.session
                            /\ request[q].stage = "session" => request[q].token # request[r].token

TokensAccounted ==
    /\ \A b \in Browsers : TokenKnown(jar[b].token)
    /\ \A r \in Slots : /\ request[r].stage \in {"answer", "session"} => TokenKnown(request[r].token)
                        /\ AnswerAlone(r)
    /\ \A s \in Live \ orphaned : TokenHeld(s)

AccessInv == AccessShape /\ NumberedInTurn /\ SignedOutStaysOut /\ TokensAccounted

LEMMA AccessInvAccounted == AccessInv => SessionsAccounted
BY DEF AccessInv, SessionsAccounted, TokensAccounted

LEMMA FirstSession ==
    ASSUME NEW u \in AccessRow, 1 \in 0 .. MaxDevices,
           NEW row, row = [u EXCEPT !.device = 1, !.generation = 1, !.live = TRUE, !.recent = TRUE]
    PROVE  row \in AccessRow /\ row.device = 1 /\ row.generation = 1 /\ row.live /\ row.epoch = u.epoch
BY DEF AccessRow

LEMMA FirstDevice ==
    ASSUME NEW u \in [handle : Nat, revoked : BOOLEAN], NEW row, row = [u EXCEPT !.handle = 1]
    PROVE  row \in [handle : Nat, revoked : BOOLEAN] /\ row.handle = 1 /\ row.revoked = u.revoked
OBVIOUS

LEMMA AccessInvInit == AccessInit => AccessInv
<1> SUFFICES ASSUME AccessInit PROVE AccessInv
    OBVIOUS
<1>1. {0, 1} \subseteq 0 .. MaxSessions /\ {0, 1} \subseteq 0 .. MaxDevices /\ 1 \in SessionIds /\ 1 \in DeviceIds /\ 1 \in 0 .. MaxSessions /\ 1 \in 0 .. MaxDevices
    BY AccessAssumption DEF SessionIds, DeviceIds
<1>2. Unopened \in AccessRow /\ Missing \in [handle : Nat, revoked : BOOLEAN]
    BY <1>1 DEF Unopened, Missing, AccessRow
<1>3. ASSUME NEW s \in SessionIds
      PROVE  /\ session[s] \in AccessRow /\ session[s].epoch = 0
             /\ s = 1 => session[s].device = 1 /\ session[s].generation = 1 /\ session[s].live
             /\ s # 1 => session[s] = Unopened
    <2>1. session[s] = IF s = 1 THEN [Unopened EXCEPT !.device = 1, !.generation = 1, !.live = TRUE, !.recent = TRUE]
                       ELSE Unopened
        BY Zenon DEF AccessInit
    <2>2. Unopened.epoch = 0
        BY DEF Unopened
    <2> HIDE DEF Unopened
    <2>3. CASE s = 1
        BY <1>1, <1>2, <2>1, <2>2, <2>3, FirstSession
    <2>4. CASE s # 1
        BY <1>2, <2>1, <2>2, <2>4
    <2>5. QED
        BY <2>3, <2>4
<1>4. ASSUME NEW d \in DeviceIds
      PROVE  /\ device[d] \in [handle : Nat, revoked : BOOLEAN] /\ ~ device[d].revoked
             /\ IF d = 1 THEN device[d].handle = 1 ELSE device[d] = Missing
    <2>1. device[d] = IF d = 1 THEN [Missing EXCEPT !.handle = 1] ELSE Missing
        BY Zenon DEF AccessInit
    <2>2. ~ Missing.revoked
        BY DEF Missing
    <2> HIDE DEF Missing
    <2>3. CASE d = 1
        BY <1>1, <1>2, <2>1, <2>2, <2>3, FirstDevice
    <2>4. CASE d # 1
        BY <1>2, <2>1, <2>2, <2>4
    <2>5. QED
        BY <2>3, <2>4
<1>5. Opened = {1} /\ Known = {1} /\ Live = {1}
    <2>1. Opened = {1}
        BY <1>1, <1>3 DEF Opened, Unopened
    <2>2. Known = {1}
        BY <1>1, <1>4 DEF Known, Missing
    <2>3. QED
        BY <1>1, <1>3, <2>1, <2>2 DEF Live
<1>6. PICK b \in Browsers :
          jar = [c \in Browsers |-> IF c = b THEN [token |-> [session |-> 1, generation |-> 1],
                                                   handle |-> [device |-> 1, generation |-> 1]]
                                    ELSE [token |-> NoToken, handle |-> NoHandle]]
    BY DEF AccessInit
<1>7. ASSUME NEW c \in Browsers
      PROVE  jar[c].token = IF c = b THEN [session |-> 1, generation |-> 1] ELSE NoToken
    BY <1>6
<1>8. \A r \in Slots : request[r] = IdleSlot /\ request[r].stage = "idle"
    BY DEF AccessInit, IdleSlot
<1>9. AccessShape
    <2>1. session \in [SessionIds -> AccessRow]
        BY <1>3 DEF AccessInit
    <2>2. device \in [DeviceIds -> [handle : Nat, revoked : BOOLEAN]]
        BY <1>4 DEF AccessInit
    <2>3. /\ [session |-> 1, generation |-> 1] \in Token /\ NoToken \in Token
          /\ [device |-> 1, generation |-> 1] \in Handle /\ NoHandle \in Handle
        BY <1>1 DEF Token, Handle, NoToken, NoHandle
    <2>4. jar \in [Browsers -> [token : Token, handle : Handle]]
        BY <1>6, <2>3
    <2>5. request \in [Slots -> AccessRequest]
        BY DEF AccessInit, AccessRequest
    <2>6. credentials \in [status : {"active", "deletion_pending"}, password : Nat, email : Emails, dated : BOOLEAN]
        BY DEF AccessInit
    <2>7. mailed \in [Purposes -> {NoCode} \cup [email : Emails, attempts : Nat, expired : BOOLEAN]] /\ epoch \in Nat
        BY DEF AccessInit
    <2>8. QED
        BY <2>1, <2>2, <2>4, <2>5, <2>6, <2>7 DEF AccessShape
<1>10. NumberedInTurn
    <2>1. {1} = 1 .. 1
        OBVIOUS
    <2>2. QED
        BY <1>1, <1>3, <1>4, <1>5, <2>1 DEF NumberedInTurn
<1>11. SignedOutStaysOut
    <2>1. epoch = 0 /\ credentials.status = "active"
        BY DEF AccessInit
    <2>2. session[1].epoch = 0 /\ session[1].device = 1 /\ ~ device[1].revoked
        BY <1>1, <1>3, <1>4
    <2>3. QED
        BY <1>5, <2>1, <2>2 DEF SignedOutStaysOut
<1>12. TokensAccounted
    <2>1. session[1].generation = 1
        BY <1>1, <1>3
    <2>2. \A c \in Browsers : TokenKnown(jar[c].token)
        BY <1>5, <1>7, <2>1 DEF TokenKnown, NoToken
    <2>3. TokenHeld(1)
        BY <1>7, <2>1 DEF TokenHeld, Carries
    <2>4. QED
        BY <1>5, <1>8, <2>2, <2>3 DEF TokensAccounted, AnswerAlone
<1>13. QED
    BY <1>9, <1>10, <1>11, <1>12 DEF AccessInv

-----------------------------------------------------------------------------

LEMMA OpenedSessions ==
    ASSUME AccessInv
    PROVE  /\ Opened = {s \in SessionIds : session[s].device # 0}
           /\ Live = {s \in SessionIds : session[s].live}
           /\ Known = {d \in DeviceIds : device[d].handle # 0}
<1>1. ASSUME NEW s \in SessionIds
      PROVE  (s \in Opened <=> session[s].device # 0) /\ (session[s].live => s \in Opened)
    <2>1. CASE session[s] = Unopened
        BY <2>1 DEF Opened, Unopened
    <2>2. CASE session[s] # Unopened
        <3>1. s \in Opened
            BY <2>2 DEF Opened
        <3>2. session[s].device \in DeviceIds
            BY <3>1 DEF AccessInv, NumberedInTurn, Known
        <3>3. QED
            BY <3>1, <3>2, AccessAssumption DEF DeviceIds
    <2>3. QED
        BY <2>1, <2>2
<1>2. ASSUME NEW d \in DeviceIds
      PROVE  d \in Known <=> device[d].handle # 0
    BY DEF AccessInv, NumberedInTurn, Known, Missing
<1>3. QED
    BY <1>1, <1>2 DEF Opened, Live, Known

\* Sessions that only end, or are no longer recent, and devices that are only revoked.
SessionsOnlyEnd ==
    /\ session' \in [SessionIds -> AccessRow]
    /\ \A s \in SessionIds : /\ session'[s].device = session[s].device
                             /\ session'[s].generation = session[s].generation
                             /\ session'[s].epoch = session[s].epoch
                             /\ session'[s].live => session[s].live
                             /\ s \notin Opened => session'[s] = session[s]
DevicesKept ==
    /\ device' \in [DeviceIds -> [handle : Nat, revoked : BOOLEAN]]
    /\ \A d \in DeviceIds : /\ device'[d].handle = device[d].handle
                            /\ d \notin Known => device'[d] = device[d]

LEMMA SessionsEnded ==
    ASSUME AccessInv, SessionsOnlyEnd, DevicesKept
    PROVE  NumberedInTurn' /\ Opened' = Opened /\ Known' = Known /\ Live' \subseteq Live
<1>1. Known' = Known
    <2>1. ASSUME NEW d \in DeviceIds PROVE device'[d] # Missing <=> device[d] # Missing
        <3>1. CASE d \in Known
            BY <3>1, OpenedSessions DEF DevicesKept, Known, Missing
        <3>2. CASE d \notin Known
            BY <3>2 DEF DevicesKept
        <3>3. QED
            BY <3>1, <3>2
    <2>2. QED
        BY <2>1 DEF Known
<1>2. Opened' = Opened
    <2>1. ASSUME NEW s \in SessionIds PROVE session'[s] # Unopened <=> session[s] # Unopened
        <3>1. CASE s \in Opened
            <4>1. session'[s].device # 0
                BY <3>1, OpenedSessions DEF SessionsOnlyEnd
            <4>2. QED
                BY <3>1, <4>1 DEF Opened, Unopened
        <3>2. CASE s \notin Opened
            BY <3>2 DEF SessionsOnlyEnd
        <3>3. QED
            BY <3>1, <3>2
    <2>2. QED
        BY <2>1 DEF Opened
<1>3. Live' \subseteq Live
    BY <1>2 DEF Live, SessionsOnlyEnd, Opened
<1>4. NumberedInTurn'
    <2>1. ASSUME NEW s \in Opened' PROVE session'[s].device \in Known'
        BY <1>1, <1>2 DEF AccessInv, NumberedInTurn, SessionsOnlyEnd, Opened
    <2>2. ASSUME NEW d \in Known' PROVE device'[d].handle # 0
        BY <1>1 DEF AccessInv, NumberedInTurn, DevicesKept, Known
    <2>3. QED
        BY <1>1, <1>2, <2>1, <2>2 DEF AccessInv, NumberedInTurn
<1>5. QED
    BY <1>1, <1>2, <1>3, <1>4

\* A request that takes no part in the tokens, or takes one from a browser.
RequestMoves(r) ==
    \/ request'[r] = request[r]
    \/ request'[r].stage \notin {"answer", "session"}
    \/ request'[r].stage = "answer" /\ request'[r].token.session = 0
    \/ request'[r].stage = "session" /\ \E b \in Browsers : request'[r].token = jar[b].token

LEMMA TokensStay ==
    ASSUME AccessInv, SessionsOnlyEnd, DevicesKept, UNCHANGED <<jar, orphaned>>,
           \A r \in Slots : RequestMoves(r) /\ (request[r].stage = "answer" => request'[r] = request[r])
    PROVE  TokensAccounted'
<1>1. Opened' = Opened /\ Live' \subseteq Live
    BY SessionsEnded
<1>2. ASSUME NEW t, TokenKnown(t) PROVE t.session # 0 => t.session \in Opened' /\ t.generation \in 0 .. session'[t.session].generation
    BY <1>1, <1>2 DEF TokenKnown, SessionsOnlyEnd, Opened
<1>3. ASSUME NEW b \in Browsers PROVE TokenKnown(jar[b].token)'
    BY <1>2 DEF AccessInv, TokensAccounted, TokenKnown
<1>4. ASSUME NEW r \in Slots, request'[r].stage \in {"answer", "session"}
      PROVE  TokenKnown(request[r].token)'
    BY <1>2, <1>4 DEF AccessInv, TokensAccounted, TokenKnown, RequestMoves
<1>5. ASSUME NEW r \in Slots PROVE AnswerAlone(r)'
    <2> SUFFICES ASSUME request'[r].stage = "answer", request'[r].token.session # 0
                 PROVE  /\ request'[r].token.generation = session'[request'[r].token.session].generation
                        /\ \A b \in Browsers : jar[b].token # request'[r].token
                        /\ \A q \in Slots : /\ q # r /\ request'[q].stage = "answer" =>
                                                   request'[q].token.session # request'[r].token.session
                                            /\ request'[q].stage = "session" => request'[q].token # request'[r].token
        BY DEF AnswerAlone
    <2>1. request'[r] = request[r]
        BY DEF RequestMoves
    <2>2. AnswerAlone(r) /\ TokenKnown(request[r].token)
        BY <2>1 DEF AccessInv, TokensAccounted
    <2>3. request[r].token.session \in SessionIds
        BY <2>1, <2>2 DEF TokenKnown, Opened
    <2>4. request'[r].token.generation = session'[request'[r].token.session].generation
        BY <2>1, <2>2, <2>3 DEF AnswerAlone, SessionsOnlyEnd
    <2>5. \A b \in Browsers : jar[b].token # request'[r].token
        BY <2>1, <2>2 DEF AnswerAlone
    <2>6. ASSUME NEW q \in Slots, q # r, request'[q].stage = "answer"
          PROVE  request'[q].token.session # request'[r].token.session
        BY <2>1, <2>2, <2>6 DEF AnswerAlone, RequestMoves
    <2>7. ASSUME NEW q \in Slots, request'[q].stage = "session"
          PROVE  request'[q].token # request'[r].token
        BY <2>1, <2>2, <2>5, <2>7 DEF AnswerAlone, RequestMoves
    <2>8. QED
        BY <2>4, <2>5, <2>6, <2>7
<1>6. ASSUME NEW s \in Live' \ orphaned' PROVE TokenHeld(s)'
    <2>1. TokenHeld(s) /\ session'[s].generation = session[s].generation
        BY <1>1 DEF AccessInv, TokensAccounted, SessionsOnlyEnd, Live, Opened
    <2>2. QED
        BY <2>1 DEF TokenHeld, Carries
<1>7. QED
    BY <1>3, <1>4, <1>5, <1>6 DEF TokensAccounted

\* Who is signed in still is of an active account, on a device that stands, as of the last epoch.
LEMMA StandingKept ==
    ASSUME AccessInv, SessionsOnlyEnd, DevicesKept,
           \A s \in Live' : /\ credentials'.status = "active" /\ epoch' = epoch
                            /\ device'[session[s].device].revoked => device[session[s].device].revoked
    PROVE  SignedOutStaysOut'
<1> SUFFICES ASSUME NEW s \in Live'
             PROVE  /\ credentials'.status = "active" /\ ~ device'[session'[s].device].revoked
                    /\ session'[s].epoch = epoch'
    BY DEF SignedOutStaysOut
<1>1. s \in Live /\ s \in SessionIds
    BY SessionsEnded DEF Live, Opened
<1>2. ~ device[session[s].device].revoked /\ session[s].epoch = epoch
    BY <1>1 DEF AccessInv, SignedOutStaysOut
<1>3. session'[s].device = session[s].device /\ session'[s].epoch = session[s].epoch
    BY <1>1 DEF SessionsOnlyEnd
<1>4. QED
    BY <1>2, <1>3

LEMMA AccessGoesOn ==
    ASSUME AccessInv, AccessShape', SessionsOnlyEnd, DevicesKept, UNCHANGED <<jar, orphaned>>,
           \A r \in Slots : RequestMoves(r) /\ (request[r].stage = "answer" => request'[r] = request[r]),
           \A s \in Live' : /\ credentials'.status = "active" /\ epoch' = epoch
                            /\ device'[session[s].device].revoked => device[session[s].device].revoked
    PROVE  AccessInv'
BY SessionsEnded, TokensStay, StandingKept DEF AccessInv

-----------------------------------------------------------------------------

\* The request r takes the token of its session to the next generation.
SessionRotated(s) ==
    /\ session' \in [SessionIds -> AccessRow]
    /\ session'[s].device = session[s].device /\ session'[s].live
    /\ session'[s].generation = session[s].generation + 1
    /\ \A q \in SessionIds \ {s} : /\ session'[q].device = session[q].device
                                   /\ session'[q].generation = session[q].generation
                                   /\ session'[q].epoch = session[q].epoch
                                   /\ session'[q].live => session[q].live
                                   /\ q \notin Opened => session'[q] = session[q]

LEMMA RotationOpens ==
    ASSUME AccessInv, NEW s \in Live, SessionRotated(s), device' = device
    PROVE  NumberedInTurn' /\ Opened' = Opened /\ Known' = Known /\ Live' \subseteq Live
<1>1. Known' = Known
    BY DEF Known
<1>2. s \in SessionIds /\ s \in Opened /\ session[s].live
    BY DEF Live, Opened
<1>3. Opened' = Opened
    <2>1. ASSUME NEW q \in SessionIds PROVE session'[q] # Unopened <=> session[q] # Unopened
        <3>1. CASE q \in Opened
            <4>1. session'[q].device # 0
                BY <3>1, <1>2, OpenedSessions DEF SessionRotated
            <4>2. QED
                BY <3>1, <4>1 DEF Opened, Unopened
        <3>2. CASE q \notin Opened
            BY <3>2, <1>2 DEF SessionRotated
        <3>3. QED
            BY <3>1, <3>2
    <2>2. QED
        BY <2>1 DEF Opened
<1>4. Live' \subseteq Live
    BY <1>2, <1>3 DEF Live, SessionRotated, Opened
<1>5. NumberedInTurn'
    <2>1. ASSUME NEW q \in Opened' PROVE session'[q].device \in Known'
        BY <1>1, <1>3 DEF AccessInv, NumberedInTurn, SessionRotated, Opened
    <2>2. QED
        BY <1>1, <1>3, <2>1 DEF AccessInv, NumberedInTurn
<1>6. QED
    BY <1>1, <1>3, <1>4, <1>5

LEMMA TokenRotated ==
    ASSUME AccessInv, NEW r \in Slots, request[r].stage = "session", CanRotate(request[r].token),
           SessionRotated(request[r].token.session), UNCHANGED <<device, jar, orphaned>>,
           request' = [request EXCEPT ![r] = RotatingAnswer(r)]
    PROVE  TokensAccounted'
<1> DEFINE s == request[r].token.session
           a == RotatingAnswer(r)
<1>1. /\ s \in Live /\ s \in SessionIds /\ s # 0 /\ session[s].generation = request[r].token.generation
      /\ session[s].generation \in Nat
    BY AccessAssumption DEF CanRotate, Live, Opened, AccessInv, AccessShape, AccessRow, SessionIds
<1>2. request[r] \in SessionRequest
    BY DEF AccessInv, AccessShape, AccessRequest, IdleSlot, AnswerRequest, LoginRequest, RecoveryRequest
<1>3. /\ a.stage = "answer" /\ a.token.session = s
      /\ a.token.generation = session[s].generation + 1
    BY <1>2 DEF RotatingAnswer, SessionRequest, Token
<1>4. \A q \in Slots : request'[q] = IF q = r THEN a ELSE request[q]
    BY DEF AccessInv, AccessShape
<1> HIDE DEF a
<1>5. Opened' = Opened /\ Live' \subseteq Live
    BY <1>1, RotationOpens
<1>6. \A q \in SessionIds : /\ q # s => session'[q].generation = session[q].generation
                            /\ session'[s].generation = session[s].generation + 1
    BY <1>1 DEF SessionRotated
<1>7. ASSUME NEW t, TokenKnown(t)
      PROVE  /\ t.session # 0 => t.session \in Opened' /\ t.generation \in 0 .. session'[t.session].generation
             /\ t # a.token
    <2>1. t # a.token
        BY <1>1, <1>3, <1>7 DEF TokenKnown
    <2>2. ASSUME t.session # 0
          PROVE  t.session \in Opened' /\ t.generation \in 0 .. session'[t.session].generation
        <3>1. t.session \in Opened /\ t.session \in SessionIds /\ t.generation \in 0 .. session[t.session].generation
            BY <1>7, <2>2 DEF TokenKnown, Opened
        <3>2. session[t.session].generation \in Nat
            BY <3>1 DEF AccessInv, AccessShape, AccessRow
        <3>3. CASE t.session = s
            <4>1. t.generation \in 0 .. session[s].generation + 1
                BY <3>1, <3>2, <3>3, <1>1
            <4>2. QED
                BY <1>1, <1>5, <1>6, <3>1, <3>3, <4>1
        <3>4. CASE t.session # s
            BY <1>5, <1>6, <3>1, <3>4
        <3>5. QED
            BY <3>3, <3>4
    <2>3. QED
        BY <2>1, <2>2
<1>8. \A b \in Browsers : TokenKnown(jar[b].token)'
    BY <1>7 DEF AccessInv, TokensAccounted, TokenKnown
<1>9. ASSUME NEW q \in Slots, request'[q].stage \in {"answer", "session"}
      PROVE  TokenKnown(request[q].token)'
    <2>1. CASE q = r
        <3>1. s \in Opened' /\ session'[s].generation = session[s].generation + 1
            BY <1>1, <1>5, <1>6 DEF Live
        <3>2. QED
            BY <1>1, <1>3, <1>4, <2>1, <3>1 DEF TokenKnown
    <2>2. CASE q # r
        BY <1>4, <1>7, <1>9, <2>2 DEF AccessInv, TokensAccounted, TokenKnown
    <2>3. QED
        BY <2>1, <2>2
<1>10. ASSUME NEW q \in Slots, q # r, request[q].stage = "answer"
       PROVE  request[q].token.session # s
    <2> SUFFICES ASSUME request[q].token.session = s PROVE FALSE
        OBVIOUS
    <2>1. AnswerAlone(q)
        BY DEF AccessInv, TokensAccounted
    <2>2. request[q].token.generation = session[s].generation /\ request[r].token # request[q].token
        BY <1>1, <1>10, <2>1 DEF AnswerAlone
    <2>3. request[q] \in AnswerRequest
        BY <1>10 DEF AccessInv, AccessShape, AccessRequest, IdleSlot, SessionRequest, LoginRequest, RecoveryRequest
    <2>4. request[q].token \in Token /\ request[r].token \in Token
        BY <1>2, <2>3 DEF AnswerRequest, SessionRequest
    <2>5. QED
        BY <1>1, <2>2, <2>4 DEF Token
<1>11. ASSUME NEW q \in Slots PROVE AnswerAlone(q)'
    <2>1. CASE q = r
        <3>1. \A b \in Browsers : jar[b].token # a.token
            BY <1>7 DEF AccessInv, TokensAccounted
        <3>2. ASSUME NEW p \in Slots, p # r, request[p].stage = "session"
              PROVE  request[p].token # a.token
            BY <1>7, <3>2 DEF AccessInv, TokensAccounted
        <3>3. a.token.generation = session'[s].generation
            BY <1>1, <1>3, <1>6
        <3>4. QED
            BY <1>3, <1>4, <1>10, <2>1, <3>1, <3>2, <3>3 DEF AnswerAlone
    <2>2. CASE q # r /\ request[q].stage = "answer" /\ request[q].token.session # 0
        <3>1. AnswerAlone(q) /\ TokenKnown(request[q].token) /\ request[q].token.session # s
            BY <2>2, <1>10 DEF AccessInv, TokensAccounted
        <3>2. request[q].token.session \in SessionIds
            BY <2>2, <3>1 DEF TokenKnown, Opened
        <3>3. session'[request[q].token.session].generation = session[request[q].token.session].generation
            BY <1>6, <3>1, <3>2
        <3>4. QED
            BY <1>3, <1>4, <2>2, <3>1, <3>3 DEF AnswerAlone
    <2>3. CASE q # r /\ ~ (request[q].stage = "answer" /\ request[q].token.session # 0)
        BY <1>4, <2>3 DEF AnswerAlone
    <2>4. QED
        BY <2>1, <2>2, <2>3
<1>12. ASSUME NEW q \in Live' \ orphaned' PROVE TokenHeld(q)'
    <2>1. CASE q = s
        <3>1. request'[r].stage = "answer" /\ request'[r].token = [session |-> q, generation |-> session'[q].generation]
            BY <1>1, <1>2, <1>3, <1>4, <1>6, <2>1 DEF a, RotatingAnswer, SessionRequest, Token
        <3>2. QED
            BY <3>1 DEF TokenHeld, Carries
    <2>2. CASE q # s
        <3>1. TokenHeld(q) /\ session'[q].generation = session[q].generation
            BY <1>5, <1>6, <2>2 DEF AccessInv, TokensAccounted, Live, Opened
        <3>2. QED
            BY <1>4, <2>2, <3>1 DEF TokenHeld, Carries
    <2>3. QED
        BY <2>1, <2>2
<1>13. QED
    BY <1>8, <1>9, <1>11, <1>12 DEF TokensAccounted

-----------------------------------------------------------------------------

LEMMA NextIsNew ==
    ASSUME AccessInv
    PROVE  /\ NextSession \notin Opened
           /\ NextSession \in SessionIds => \E m \in 0 .. MaxSessions : Opened \cup {NextSession} = 1 .. m
           /\ NextDevice \notin Known
           /\ NextDevice \in DeviceIds => \E m \in 0 .. MaxDevices : Known \cup {NextDevice} = 1 .. m
<1>1. ASSUME NEW n \in Nat PROVE Cardinality(1 .. n) = n /\ (1 .. n) \cup {n + 1} = 1 .. (n + 1) /\ n + 1 \notin 1 .. n
    <2>1. Cardinality(1 .. n) = IF 1 > n THEN 0 ELSE n - 1 + 1
        BY FS_Interval
    <2>2. Cardinality(1 .. n) = n
        BY <2>1
    <2>3. (1 .. n) \cup {n + 1} = 1 .. (n + 1) /\ n + 1 \notin 1 .. n
        OBVIOUS
    <2>4. QED
        BY <2>2, <2>3
<1>2. PICK n \in 0 .. MaxSessions : Opened = 1 .. n
    BY DEF AccessInv, NumberedInTurn
<1>3. PICK m \in 0 .. MaxDevices : Known = 1 .. m
    BY DEF AccessInv, NumberedInTurn
<1>4. NextSession = n + 1 /\ NextDevice = m + 1
    BY <1>1, <1>2, <1>3 DEF NextSession, NextDevice
<1>5. n \in Nat /\ m \in Nat
    OBVIOUS
<1>6. n + 1 \in SessionIds => n + 1 \in 0 .. MaxSessions
    BY AccessAssumption DEF SessionIds
<1>7. m + 1 \in DeviceIds => m + 1 \in 0 .. MaxDevices
    BY AccessAssumption DEF DeviceIds
<1>8. QED
    BY <1>1, <1>2, <1>3, <1>4, <1>5, <1>6, <1>7

LEMMA SessionIssued ==
    ASSUME AccessInv, NEW r \in Slots, Login(r)
    PROVE  AccessInv'
<1> DEFINE n == NextSession
           d == IssueDevice(request[r].handle)
           row == [device |-> d, generation |-> 1, live |-> TRUE, epoch |-> epoch, recent |-> TRUE]
           a == [stage |-> "answer", browser |-> request[r].browser, token |-> [session |-> n, generation |-> 1],
                 handle |-> [device |-> d, generation |-> device[d].handle + 1]]
<1>1. request[r] \in LoginRequest
    BY DEF Login, AccessInv, AccessShape, AccessRequest, IdleSlot, AnswerRequest, SessionRequest, RecoveryRequest
<1>2. /\ n \in SessionIds /\ d \in DeviceIds /\ credentials.status = "active"
      /\ device' = [device EXCEPT ![d].handle = @ + 1] /\ session' = [session EXCEPT ![n] = row]
      /\ request' = [request EXCEPT ![r] = a]
      /\ UNCHANGED <<mailed, epoch, jar, orphaned>>
    BY DEF Login, IssueSession, CreateSession
<1>3. n \notin Opened
    BY NextIsNew
<1>4. (d \in Known /\ ~ device[d].revoked) \/ d = NextDevice
    BY DEF IssueDevice, FindActiveDevice
<1>5. n \in 0 .. MaxSessions /\ d \in 0 .. MaxDevices /\ n # 0 /\ d # 0
    BY <1>2, AccessAssumption DEF SessionIds, DeviceIds
<1>6. device[d] \in [handle : Nat, revoked : BOOLEAN] /\ ~ device[d].revoked
    <2>1. CASE d \in Known /\ ~ device[d].revoked
        BY <1>2, <2>1 DEF AccessInv, AccessShape
    <2>2. CASE d = NextDevice
        <3>1. device[d] = Missing
            BY <1>2, <2>2, NextIsNew DEF Known
        <3>2. QED
            BY <3>1 DEF Missing
    <2>3. QED
        BY <1>4, <2>1, <2>2
<1>7. \A e \in DeviceIds : /\ device'[e] = IF e = d THEN [device[d] EXCEPT !.handle = @ + 1] ELSE device[e]
                           /\ device'[e] \in [handle : Nat, revoked : BOOLEAN]
    BY <1>2, <1>6 DEF AccessInv, AccessShape
<1>8. /\ device'[d].handle = device[d].handle + 1 /\ device'[d].revoked = device[d].revoked
      /\ device[d].handle \in Nat
    BY <1>2, <1>6, <1>7
<1>9. row \in AccessRow /\ row # Unopened /\ row.device = d /\ row.epoch = epoch /\ row.generation = 1 /\ row.live
    BY <1>5 DEF AccessRow, Unopened, AccessInv, AccessShape
<1>10. /\ a \in AnswerRequest /\ a.stage = "answer" /\ a.token.session = n /\ a.token.generation = 1
       /\ a.token = [session |-> n, generation |-> 1]
    BY <1>1, <1>5, <1>8 DEF AnswerRequest, LoginRequest, Token, Handle
<1> HIDE DEF row, a
<1>11. \A q \in SessionIds : session'[q] = IF q = n THEN row ELSE session[q]
    BY <1>2 DEF AccessInv, AccessShape
<1>12. \A q \in Slots : request'[q] = IF q = r THEN a ELSE request[q]
    BY <1>2 DEF AccessInv, AccessShape
<1>13. Opened' = Opened \cup {n}
    BY <1>2, <1>9, <1>11 DEF Opened
<1>14. Known' = Known \cup {d}
    <2>1. device'[d] # Missing
        BY <1>8 DEF Missing
    <2>2. QED
        BY <1>2, <1>7, <2>1 DEF Known
<1>15. Live' = Live \cup {n}
    BY <1>2, <1>3, <1>9, <1>11, <1>13 DEF Live, Opened
<1>16. AccessShape'
    <2>1. session' \in [SessionIds -> AccessRow]
        BY <1>2, <1>9 DEF AccessInv, AccessShape
    <2>2. request' \in [Slots -> AccessRequest]
        BY <1>2, <1>10 DEF AccessInv, AccessShape, AccessRequest
    <2>3. device' \in [DeviceIds -> [handle : Nat, revoked : BOOLEAN]]
        BY <1>2, <1>7 DEF AccessInv, AccessShape
    <2>4. credentials' \in [status : {"active", "deletion_pending"}, password : Nat, email : Emails, dated : BOOLEAN]
        BY <1>1 DEF Login, AccessInv, AccessShape, LoginRequest
    <2>5. QED
        BY <1>2, <2>1, <2>2, <2>3, <2>4 DEF AccessInv, AccessShape
<1>17. NumberedInTurn'
    <2>1. \E m \in 0 .. MaxSessions : Opened' = 1 .. m
        BY <1>2, <1>13, NextIsNew
    <2>2. \E m \in 0 .. MaxDevices : Known' = 1 .. m
        <3>1. CASE d \in Known
            BY <1>14, <3>1 DEF AccessInv, NumberedInTurn
        <3>2. CASE d = NextDevice
            BY <1>2, <1>14, <3>2, NextIsNew
        <3>3. QED
            BY <1>4, <3>1, <3>2
    <2>3. \A q \in Opened' : session'[q].device \in Known'
        BY <1>2, <1>9, <1>11, <1>13, <1>14 DEF AccessInv, NumberedInTurn, Opened
    <2>4. \A e \in Known' : device'[e].handle # 0
        BY <1>2, <1>7, <1>8, <1>14 DEF AccessInv, NumberedInTurn, Known
    <2>5. QED
        BY <2>1, <2>2, <2>3, <2>4 DEF NumberedInTurn
<1>18. SignedOutStaysOut'
    <2>1. credentials'.status = "active"
        BY <1>1 DEF Login, AccessInv, AccessShape, LoginRequest
    <2>2. ASSUME NEW s \in Live' PROVE ~ device'[session'[s].device].revoked /\ session'[s].epoch = epoch'
        <3>1. CASE s = n
            BY <1>2, <1>6, <1>8, <1>9, <1>11, <3>1
        <3>2. CASE s # n
            <4>1. s \in Live /\ s \in Opened /\ s \in SessionIds
                BY <1>15, <3>2 DEF Live, Opened
            <4>2. ~ device[session[s].device].revoked /\ session[s].epoch = epoch /\ session[s].device \in DeviceIds
                BY <4>1 DEF AccessInv, SignedOutStaysOut, NumberedInTurn, Known
            <4>3. QED
                BY <1>2, <1>7, <1>8, <1>11, <3>2, <4>1, <4>2
        <3>3. QED
            BY <3>1, <3>2
    <2>3. QED
        BY <2>1, <2>2 DEF SignedOutStaysOut
<1>19. TokensAccounted'
    <2>1. ASSUME NEW t, TokenKnown(t)
          PROVE  /\ t.session # n
                 /\ t.session # 0 => t.session \in Opened' /\ t.generation \in 0 .. session'[t.session].generation
        BY <1>3, <1>5, <1>11, <1>13, <2>1 DEF TokenKnown, Opened
    <2>2. \A b \in Browsers : TokenKnown(jar[b].token)'
        BY <1>2, <2>1 DEF AccessInv, TokensAccounted, TokenKnown
    <2>3. session'[n].generation = 1 /\ n \in Opened'
        BY <1>2, <1>9, <1>11, <1>13
    <2>4. ASSUME NEW q \in Slots, request'[q].stage \in {"answer", "session"}
          PROVE  TokenKnown(request[q].token)'
        <3>1. CASE q = r
            BY <1>10, <1>12, <2>3, <3>1 DEF TokenKnown
        <3>2. CASE q # r
            BY <1>12, <2>1, <2>4, <3>2 DEF AccessInv, TokensAccounted, TokenKnown
        <3>3. QED
            BY <3>1, <3>2
    <2>5. ASSUME NEW q \in Slots, q # r PROVE request[q].stage \in {"answer", "session"} => request[q].token.session # n
        BY <2>1 DEF AccessInv, TokensAccounted
    <2>6. ASSUME NEW q \in Slots PROVE AnswerAlone(q)'
        <3>1. CASE q = r
            <4>1. \A b \in Browsers : jar'[b].token.session # n
                BY <1>2, <2>1 DEF AccessInv, TokensAccounted
            <4>2. QED
                BY <1>10, <1>12, <2>3, <2>5, <3>1, <4>1 DEF AnswerAlone
        <3>2. CASE q # r /\ request[q].stage = "answer" /\ request[q].token.session # 0
            <4>1. AnswerAlone(q) /\ TokenKnown(request[q].token)
                BY <3>2 DEF AccessInv, TokensAccounted
            <4>2. session'[request[q].token.session].generation = session[request[q].token.session].generation
                BY <1>11, <2>5, <3>2, <4>1 DEF TokenKnown, Opened
            <4>3. QED
                BY <1>2, <1>10, <1>12, <2>5, <3>2, <4>1, <4>2 DEF AnswerAlone
        <3>3. CASE q # r /\ ~ (request[q].stage = "answer" /\ request[q].token.session # 0)
            BY <1>12, <3>3 DEF AnswerAlone
        <3>4. QED
            BY <3>1, <3>2, <3>3
    <2>7. ASSUME NEW s \in Live' \ orphaned' PROVE TokenHeld(s)'
        <3>1. CASE s = n
            BY <1>10, <1>12, <2>3, <3>1 DEF TokenHeld, Carries
        <3>2. CASE s # n
            <4>1. TokenHeld(s) /\ session'[s].generation = session[s].generation
                BY <1>2, <1>11, <1>15, <3>2 DEF AccessInv, TokensAccounted, Live, Opened
            <4>2. request[r].stage # "answer"
                BY DEF Login
            <4>3. QED
                BY <1>2, <1>12, <4>1, <4>2 DEF TokenHeld, Carries
        <3>3. QED
            BY <3>1, <3>2
    <2>8. QED
        BY <2>2, <2>4, <2>6, <2>7 DEF TokensAccounted
<1>20. QED
    BY <1>16, <1>17, <1>18, <1>19 DEF AccessInv

-----------------------------------------------------------------------------

LEMMA AnswerTyped ==
    ASSUME AccessInv, NEW r \in Slots, request[r].stage = "answer"
    PROVE  request[r] \in AnswerRequest
BY DEF AccessInv, AccessShape, AccessRequest, IdleSlot, SessionRequest, LoginRequest, RecoveryRequest

LEMMA SessionTyped ==
    ASSUME AccessInv, NEW r \in Slots, request[r].stage = "session"
    PROVE  request[r] \in SessionRequest
BY DEF AccessInv, AccessShape, AccessRequest, IdleSlot, AnswerRequest, LoginRequest, RecoveryRequest

LEMMA RecoveryTyped ==
    ASSUME AccessInv, NEW r \in Slots, request[r].stage \in {"start", "complete"}
    PROVE  request[r] \in RecoveryRequest
BY DEF AccessInv, AccessShape, AccessRequest, IdleSlot, AnswerRequest, LoginRequest, SessionRequest

LEMMA AnswerReceived == ASSUME AccessInv, NEW r \in Slots, ReceiveAnswer(r) PROVE AccessInv'
<1> DEFINE a == request[r]
           cookies == [token |-> a.token, handle |-> IF a.handle = SameHandle THEN jar[a.browser].handle ELSE a.handle]
<1>1. a \in AnswerRequest /\ a.stage = "answer"
    BY AnswerTyped DEF ReceiveAnswer
<1>2. /\ a.browser \in Browsers /\ a.token \in Token /\ jar[a.browser].token \in Token
      /\ cookies \in [token : Token, handle : Handle] /\ cookies.token = a.token
    BY <1>1 DEF AnswerRequest, AccessInv, AccessShape
<1>3. /\ jar' = [jar EXCEPT ![a.browser] = cookies] /\ orphaned' = orphaned \cup Replaced(a.browser, a.token)
      /\ request' = [request EXCEPT ![r] = IdleSlot]
      /\ UNCHANGED <<credentials, session, device, mailed, epoch>>
    BY DEF ReceiveAnswer
<1> HIDE DEF cookies
<1>4. \A q \in Slots : request'[q] = IF q = r THEN IdleSlot ELSE request[q]
    BY <1>3 DEF AccessInv, AccessShape
<1>5. \A b \in Browsers : jar'[b] = IF b = a.browser THEN cookies ELSE jar[b]
    BY <1>3 DEF AccessInv, AccessShape
<1>6. Opened' = Opened /\ Live' = Live /\ Known' = Known
    BY <1>3 DEF Opened, Live, Known
<1>7. AccessShape'
    BY <1>2, <1>3 DEF AccessInv, AccessShape, AccessRequest
<1>8. NumberedInTurn' /\ SignedOutStaysOut'
    BY <1>3, <1>6 DEF AccessInv, NumberedInTurn, SignedOutStaysOut
<1>9. TokenKnown(a.token) /\ AnswerAlone(r)
    BY <1>1 DEF AccessInv, TokensAccounted
<1>10. ASSUME NEW b \in Browsers PROVE TokenKnown(jar[b].token)'
    BY <1>2, <1>3, <1>5, <1>6, <1>9 DEF AccessInv, TokensAccounted, TokenKnown
<1>11. IdleSlot.stage = "idle"
    BY DEF IdleSlot
<1>12. ASSUME NEW q \in Slots, request'[q].stage \in {"answer", "session"}
       PROVE  TokenKnown(request[q].token)' /\ request'[q] = request[q] /\ q # r
    BY <1>3, <1>4, <1>6, <1>11, <1>12 DEF AccessInv, TokensAccounted, TokenKnown
<1>13. ASSUME NEW q \in Slots PROVE AnswerAlone(q)'
    <2> SUFFICES ASSUME request'[q].stage = "answer", request'[q].token.session # 0
                 PROVE  AnswerAlone(q)'
        BY DEF AnswerAlone
    <2>1. request'[q] = request[q] /\ q # r /\ AnswerAlone(q)
        BY <1>12 DEF AccessInv, TokensAccounted
    <2>2. \A b \in Browsers : jar'[b].token # request[q].token
        BY <1>1, <1>2, <1>5, <2>1 DEF AnswerAlone
    <2>3. QED
        BY <1>3, <1>12, <2>1, <2>2 DEF AnswerAlone
<1>14. ASSUME NEW s \in Live' \ orphaned' PROVE TokenHeld(s)'
    <2>1. TokenHeld(s) /\ s \in SessionIds /\ s # 0
        BY <1>3, <1>6, AccessAssumption DEF AccessInv, TokensAccounted, Live, Opened, SessionIds
    <2>2. CASE a.token.session = s
        <3>1. a.token.generation = session[s].generation
            BY <1>1, <1>9, <2>1, <2>2 DEF AnswerAlone
        <3>2. a.token = [session |-> s, generation |-> session[s].generation]
            BY <1>2, <2>2, <3>1 DEF Token
        <3>3. QED
            BY <1>2, <1>3, <1>5, <3>2 DEF TokenHeld, Carries
    <2>3. CASE a.token.session # s
        <3>1. jar[a.browser].token.session # s
            BY <1>3, <2>1, <2>3 DEF Replaced
        <3>2. QED
            BY <1>3, <1>4, <1>5, <2>1, <2>3, <3>1 DEF TokenHeld, Carries
    <2>4. QED
        BY <2>2, <2>3
<1>15. QED
    BY <1>7, <1>8, <1>10, <1>12, <1>13, <1>14 DEF AccessInv, TokensAccounted

LEMMA LostAnswer == ASSUME AccessInv, NEW r \in Slots, LoseAnswer(r) PROVE AccessInv'
<1>1. request[r] \in AnswerRequest /\ request[r].stage = "answer"
    BY AnswerTyped DEF LoseAnswer
<1>2. /\ orphaned' = orphaned \cup ({request[r].token.session} \ {0})
      /\ request' = [request EXCEPT ![r] = IdleSlot]
      /\ UNCHANGED <<credentials, session, device, mailed, epoch, jar>>
    BY DEF LoseAnswer
<1>3. \A q \in Slots : request'[q] = IF q = r THEN IdleSlot ELSE request[q]
    BY <1>2 DEF AccessInv, AccessShape
<1>4. Opened' = Opened /\ Live' = Live /\ Known' = Known
    BY <1>2 DEF Opened, Live, Known
<1>5. AccessShape'
    BY <1>2 DEF AccessInv, AccessShape, AccessRequest
<1>6. NumberedInTurn' /\ SignedOutStaysOut'
    BY <1>2, <1>4 DEF AccessInv, NumberedInTurn, SignedOutStaysOut
<1>7. IdleSlot.stage = "idle"
    BY DEF IdleSlot
<1>8. ASSUME NEW q \in Slots, request'[q].stage \in {"answer", "session"}
      PROVE  TokenKnown(request[q].token)' /\ request'[q] = request[q]
    BY <1>2, <1>3, <1>4, <1>7, <1>8 DEF AccessInv, TokensAccounted, TokenKnown
<1>9. ASSUME NEW q \in Slots PROVE AnswerAlone(q)'
    <2>1. AnswerAlone(q)
        BY DEF AccessInv, TokensAccounted
    <2>2. QED
        BY <1>2, <1>8, <2>1 DEF AnswerAlone
<1>10. ASSUME NEW b \in Browsers PROVE TokenKnown(jar[b].token)'
    BY <1>2, <1>4 DEF AccessInv, TokensAccounted, TokenKnown
<1>11. ASSUME NEW s \in Live' \ orphaned' PROVE TokenHeld(s)'
    <2>1. TokenHeld(s) /\ s # 0
        BY <1>2, <1>4, AccessAssumption DEF AccessInv, TokensAccounted, Live, Opened, SessionIds
    <2>2. ~ Carries(request[r].token, s)
        BY <1>2, <2>1, <1>11 DEF Carries
    <2>3. QED
        BY <1>2, <1>3, <2>1, <2>2 DEF TokenHeld, Carries
<1>12. QED
    BY <1>5, <1>6, <1>8, <1>9, <1>10, <1>11 DEF AccessInv, TokensAccounted

-----------------------------------------------------------------------------

CredentialRow == [status : {"active", "deletion_pending"}, password : Nat, email : Emails, dated : BOOLEAN]
CodeRow == {NoCode} \cup [email : Emails, attempts : Nat, expired : BOOLEAN]

LEMMA SessionsSame ==
    ASSUME AccessInv, session' = session
    PROVE  SessionsOnlyEnd
BY DEF SessionsOnlyEnd, AccessInv, AccessShape

LEMMA DevicesSame ==
    ASSUME AccessInv, device' = device
    PROVE  DevicesKept
BY DEF DevicesKept, AccessInv, AccessShape

LEMMA SessionsRevoked ==
    ASSUME AccessInv, NEW remaining, session' = RevokeSessions(remaining)
    PROVE  SessionsOnlyEnd /\ \A s \in SessionIds : session'[s].live => s \notin remaining
<1>1. ASSUME NEW s \in SessionIds
      PROVE  /\ session'[s] \in AccessRow
             /\ session'[s].device = session[s].device /\ session'[s].generation = session[s].generation
             /\ session'[s].epoch = session[s].epoch
             /\ session'[s].live => session[s].live /\ s \notin remaining
             /\ s \notin Opened => session'[s] = session[s]
    <2>1. session[s] \in AccessRow /\ session'[s] = [session[s] EXCEPT !.live = @ /\ s \notin remaining]
        BY DEF AccessInv, AccessShape, RevokeSessions
    <2>2. /\ session'[s] \in AccessRow
          /\ session'[s].device = session[s].device /\ session'[s].generation = session[s].generation
          /\ session'[s].epoch = session[s].epoch
          /\ session'[s].live => session[s].live /\ s \notin remaining
        BY <2>1 DEF AccessRow
    <2>3. ASSUME s \notin Opened PROVE session'[s] = session[s]
        <3>1. session[s] = Unopened
            BY <2>3 DEF Opened
        <3>2. session[s].live = FALSE
            BY <3>1 DEF Unopened
        <3>3. QED
            BY <2>1, <3>2 DEF AccessRow
    <2>4. QED
        BY <2>2, <2>3
<1>2. session' \in [SessionIds -> AccessRow]
    BY <1>1 DEF RevokeSessions
<1>3. QED
    BY <1>1, <1>2 DEF SessionsOnlyEnd

\* The request r goes on or ends, and the rest is as the assumptions say.
LEMMA RequestGoesOn ==
    ASSUME AccessInv, NEW r \in Slots, NEW row \in AccessRequest, request' = [request EXCEPT ![r] = row],
           request[r].stage # "answer",
           \/ row.stage \notin {"answer", "session"}
           \/ row.stage = "answer" /\ row.token.session = 0
           \/ row.stage = "session" /\ \E b \in Browsers : row.token = jar[b].token,
           SessionsOnlyEnd, DevicesKept, UNCHANGED <<jar, orphaned>>,
           credentials' \in CredentialRow, mailed' \in [Purposes -> CodeRow], epoch' \in Nat,
           \A s \in Live' : /\ credentials'.status = "active" /\ epoch' = epoch
                            /\ device'[session[s].device].revoked => device[session[s].device].revoked
    PROVE  AccessInv'
<1>1. \A q \in Slots : request'[q] = IF q = r THEN row ELSE request[q]
    BY DEF AccessInv, AccessShape
<1>2. request' \in [Slots -> AccessRequest]
    BY DEF AccessInv, AccessShape
<1>3. AccessShape'
    BY <1>2 DEF AccessInv, AccessShape, SessionsOnlyEnd, DevicesKept, CredentialRow, CodeRow
<1>4. \A q \in Slots : RequestMoves(q) /\ (request[q].stage = "answer" => request'[q] = request[q])
    BY <1>1 DEF RequestMoves
<1>5. QED
    BY <1>3, <1>4, AccessGoesOn

LEMMA LiveStand ==
    ASSUME AccessInv, SessionsOnlyEnd, DevicesKept, NEW s \in Live'
    PROVE  s \in Live /\ s \in SessionIds /\ credentials.status = "active" /\ session[s].device \in DeviceIds
                      /\ session'[s].live
BY SessionsEnded DEF AccessInv, SignedOutStaysOut, NumberedInTurn, Live, Opened, Known

\* A request that only changes a code, or nothing but itself.
LEMMA RequestOnly ==
    ASSUME AccessInv, NEW r \in Slots, NEW row \in AccessRequest, request' = [request EXCEPT ![r] = row],
           request[r].stage # "answer",
           \/ row.stage \notin {"answer", "session"}
           \/ row.stage = "answer" /\ row.token.session = 0
           \/ row.stage = "session" /\ \E b \in Browsers : row.token = jar[b].token,
           UNCHANGED <<session, device, jar, orphaned, epoch, credentials>>, mailed' \in [Purposes -> CodeRow]
    PROVE  AccessInv'
<1>1. SessionsOnlyEnd /\ DevicesKept
    BY SessionsSame, DevicesSame
<1>2. credentials' \in CredentialRow /\ epoch' \in Nat
    BY DEF AccessInv, AccessShape, CredentialRow
<1>3. \A s \in Live' : credentials'.status = "active" /\ epoch' = epoch
                       /\ (device'[session[s].device].revoked => device[session[s].device].revoked)
    BY <1>1, LiveStand
<1>4. QED
    BY <1>1, <1>2, <1>3, RequestGoesOn

LEMMA CodesTyped == ASSUME AccessInv PROVE mailed \in [Purposes -> CodeRow] /\ credentials \in CredentialRow /\ epoch \in Nat
BY DEF AccessInv, AccessShape, CodeRow, CredentialRow

LEMMA IdleTyped == IdleSlot \in AccessRequest /\ IdleSlot.stage = "idle"
BY DEF AccessRequest, IdleSlot

LEMMA CodeCreated ==
    ASSUME AccessInv, NEW p \in Purposes, NEW email \in Emails, CreateChallenge(p, email)
    PROVE  mailed' \in [Purposes -> CodeRow]
<1> DEFINE code == [email |-> email, attempts |-> 0, expired |-> FALSE]
<1>1. code \in CodeRow /\ mailed' = [mailed EXCEPT ![p] = code]
    BY DEF CreateChallenge, CodeRow
<1> HIDE DEF code
<1>2. QED
    BY <1>1, CodesTyped

LEMMA CodeConsumed ==
    ASSUME AccessInv, NEW p \in Purposes, ConsumeChallenge(p)
    PROVE  mailed' \in [Purposes -> CodeRow]
<1>1. NoCode \in CodeRow
    BY DEF CodeRow
<1>2. QED
    BY <1>1, CodesTyped DEF ConsumeChallenge

LEMMA FailureRecorded ==
    ASSUME AccessInv, NEW p \in Purposes, NEW right, CodeRefused(p, right)
    PROVE  mailed' \in [Purposes -> CodeRow]
<1> DEFINE code == [mailed[p] EXCEPT !.attempts = IF @ < MaxAttempts THEN @ + 1 ELSE @]
<1>1. mailed[p] \in [email : Emails, attempts : Nat, expired : BOOLEAN]
    BY CodesTyped DEF CodeRefused, CodeRow
<1>2. code \in CodeRow
    BY <1>1 DEF CodeRow
<1>3. mailed' = mailed \/ mailed' = [mailed EXCEPT ![p] = code]
    BY DEF CodeRefused, RecordFailure
<1> HIDE DEF code
<1>4. QED
    BY <1>2, <1>3, CodesTyped

-----------------------------------------------------------------------------

LEMMA CodeExpired == ASSUME AccessInv, NEW p \in Purposes, CodeExpires(p) PROVE AccessInv'
<1> DEFINE code == [mailed[p] EXCEPT !.expired = TRUE]
<1>1. mailed[p] \in [email : Emails, attempts : Nat, expired : BOOLEAN]
    BY CodesTyped DEF CodeExpires, CodeRow
<1>2. code \in CodeRow
    BY <1>1 DEF CodeRow
<1>3. mailed' = [mailed EXCEPT ![p] = code] /\ UNCHANGED <<credentials, session, device, epoch, jar, request, orphaned>>
    BY DEF CodeExpires
<1> HIDE DEF code
<1>4. mailed' \in [Purposes -> CodeRow]
    BY <1>2, <1>3, CodesTyped
<1>5. SessionsOnlyEnd /\ DevicesKept
    BY <1>3, SessionsSame, DevicesSame
<1>6. AccessShape'
    BY <1>3, <1>4 DEF AccessInv, AccessShape, CodeRow
<1>7. \A q \in Slots : RequestMoves(q) /\ (request[q].stage = "answer" => request'[q] = request[q])
    BY <1>3 DEF RequestMoves
<1>8. \A s \in Live' : credentials'.status = "active" /\ epoch' = epoch
                       /\ (device'[session[s].device].revoked => device[session[s].device].revoked)
    BY <1>3, <1>5, LiveStand
<1>9. QED
    BY <1>3, <1>5, <1>6, <1>7, <1>8, AccessGoesOn

\* Nothing but sessions that end, or are no longer recent.
LEMMA OnlySessionsEnd ==
    ASSUME AccessInv, SessionsOnlyEnd, UNCHANGED <<credentials, device, mailed, epoch, jar, request, orphaned>>
    PROVE  AccessInv'
<1>1. DevicesKept
    BY DevicesSame
<1>2. AccessShape'
    BY DEF AccessInv, AccessShape, SessionsOnlyEnd
<1>3. \A q \in Slots : RequestMoves(q) /\ (request[q].stage = "answer" => request'[q] = request[q])
    BY DEF RequestMoves
<1>4. \A s \in Live' : credentials'.status = "active" /\ epoch' = epoch
                       /\ (device'[session[s].device].revoked => device[session[s].device].revoked)
    BY <1>1, LiveStand
<1>5. QED
    BY <1>1, <1>2, <1>3, <1>4, AccessGoesOn

LEMMA SessionExpired ==
    ASSUME AccessInv, NEW s \in SessionIds, SessionExpires(s) \/ RecencyPasses(s)
    PROVE  AccessInv'
<1>1. CASE SessionExpires(s)
    BY <1>1, SessionsRevoked, OnlySessionsEnd DEF SessionExpires
<1>2. CASE RecencyPasses(s)
    <2> DEFINE row == [session[s] EXCEPT !.recent = FALSE]
    <2>1. s \in Opened /\ session[s] \in AccessRow /\ session' = [session EXCEPT ![s] = row]
        BY <1>2 DEF RecencyPasses, Live, AccessInv, AccessShape
    <2>2. /\ row \in AccessRow /\ row.device = session[s].device /\ row.generation = session[s].generation
          /\ row.epoch = session[s].epoch /\ (row.live => session[s].live)
        BY <2>1 DEF AccessRow
    <2> HIDE DEF row
    <2>3. SessionsOnlyEnd
        BY <2>1, <2>2 DEF SessionsOnlyEnd, AccessInv, AccessShape
    <2>4. QED
        BY <1>2, <2>3, OnlySessionsEnd DEF RecencyPasses
<1>3. QED
    BY <1>1, <1>2

LEMMA AuthenticateStarts ==
    ASSUME AccessInv, NEW r \in Slots, NEW b \in Browsers, Authenticate(r, b)
    PROVE  AccessInv'
<1> DEFINE row == [stage |-> "session", browser |-> b, token |-> jar[b].token,
                   recent |-> session[jar[b].token.session].recent]
<1>1. session[jar[b].token.session] \in AccessRow
    BY DEF Authenticate, Authenticated, FindSessionByVerifier, Live, Opened, AccessInv, AccessShape
<1>2. jar[b].token \in Token
    BY DEF AccessInv, AccessShape
<1>3. row \in AccessRequest /\ row.stage = "session" /\ row.token = jar[b].token
    BY <1>1, <1>2 DEF AccessRequest, SessionRequest, AccessRow
<1>4. /\ request[r].stage = "idle" /\ request' = [request EXCEPT ![r] = row]
      /\ UNCHANGED <<credentials, session, device, mailed, epoch, jar, orphaned>>
    BY IdleTyped DEF Authenticate, Free
<1> HIDE DEF row
<1>5. QED
    BY <1>3, <1>4, CodesTyped, RequestOnly

LEMMA LoginStarts ==
    ASSUME AccessInv, NEW r \in Slots, NEW b \in Browsers, BeginLogin(r, b)
    PROVE  AccessInv'
<1> DEFINE row == [stage |-> "login", browser |-> b, handle |-> jar[b].handle,
                   password |-> credentials.password, dated |-> credentials.dated]
<1>1. jar[b].handle \in Handle /\ credentials \in CredentialRow
    BY CodesTyped DEF AccessInv, AccessShape
<1>2. row \in AccessRequest /\ row.stage = "login"
    BY <1>1 DEF AccessRequest, LoginRequest, CredentialRow
<1>3. /\ request[r].stage = "idle" /\ request' = [request EXCEPT ![r] = row]
      /\ UNCHANGED <<credentials, session, device, mailed, epoch, jar, orphaned>>
    BY IdleTyped DEF BeginLogin, Free
<1> HIDE DEF row
<1>4. QED
    BY <1>2, <1>3, CodesTyped, RequestOnly

LEMMA RecoveryStarts ==
    ASSUME AccessInv, NEW r \in Slots, NEW p \in Purposes, NEW step \in {"start", "complete"}, BeginRecovery(r, p, step)
    PROVE  AccessInv'
<1> DEFINE row == [stage |-> step, purpose |-> p, email |-> credentials.email]
<1>1. row \in AccessRequest /\ row.stage \in {"start", "complete"}
    BY CodesTyped DEF AccessRequest, RecoveryRequest, CredentialRow
<1>2. /\ request[r].stage = "idle" /\ request' = [request EXCEPT ![r] = row]
      /\ UNCHANGED <<credentials, session, device, mailed, epoch, jar, orphaned>>
    BY IdleTyped DEF BeginRecovery, Free
<1> HIDE DEF row
<1>3. QED
    BY <1>1, <1>2, CodesTyped, RequestOnly

LEMMA RequestAbandoned == ASSUME AccessInv, NEW r \in Slots, AbandonRequest(r) PROVE AccessInv'
BY IdleTyped, CodesTyped, RequestOnly DEF AbandonRequest

\* The answer that clears the cookies.
LEMMA ClearingTyped ==
    ASSUME AccessInv, NEW r \in Slots, request[r].stage = "session", NEW own \in BOOLEAN
    PROVE  /\ ClearingAnswer(r, own) \in AccessRequest /\ ClearingAnswer(r, own).stage = "answer"
           /\ ClearingAnswer(r, own).token.session = 0
<1>1. request[r] \in SessionRequest
    BY SessionTyped
<1>2. NoToken \in Token /\ NoHandle \in Handle /\ SameHandle \in Handle /\ NoToken.session = 0
    BY AccessAssumption DEF Token, Handle, NoToken, NoHandle, SameHandle
<1>3. QED
    BY <1>1, <1>2 DEF ClearingAnswer, AccessRequest, AnswerRequest, SessionRequest

LEMMA LoggedOut == ASSUME AccessInv, NEW r \in Slots, LogoutSession(r) PROVE AccessInv'
<1>1. SessionsOnlyEnd /\ DevicesKept
    BY SessionsRevoked, DevicesSame DEF LogoutSession
<1>2. \A s \in Live' : credentials'.status = "active" /\ epoch' = epoch
                       /\ (device'[session[s].device].revoked => device[session[s].device].revoked)
    BY <1>1, LiveStand DEF LogoutSession
<1> DEFINE row == ClearingAnswer(r, FALSE)
<1>3. row \in AccessRequest /\ row.stage = "answer" /\ row.token.session = 0
    BY ClearingTyped DEF LogoutSession
<1>4. request' = [request EXCEPT ![r] = row] /\ request[r].stage = "session"
      /\ UNCHANGED <<credentials, device, mailed, epoch, jar, orphaned>>
    BY DEF LogoutSession
<1> HIDE DEF row
<1>5. QED
    BY <1>1, <1>2, <1>3, <1>4, CodesTyped, RequestGoesOn

LEMMA DeviceRevoked ==
    ASSUME AccessInv, NEW r \in Slots, NEW d \in DeviceIds, RevokeAccountDevice(r, d)
    PROVE  AccessInv'
<1> DEFINE own == session[request[r].token.session].device = d
           row == IF own THEN ClearingAnswer(r, TRUE) ELSE IdleSlot
           dev == [device[d] EXCEPT !.revoked = TRUE]
<1>1. /\ request[r].stage = "session" /\ d \in Known /\ device' = [device EXCEPT ![d] = dev]
      /\ session' = RevokeSessions({s \in Live : session[s].device = d})
      /\ request' = [request EXCEPT ![r] = row]
      /\ UNCHANGED <<credentials, mailed, epoch, jar, orphaned>>
    BY DEF RevokeAccountDevice, Acting
<1>2. dev \in [handle : Nat, revoked : BOOLEAN] /\ dev.handle = device[d].handle
    BY DEF AccessInv, AccessShape
<1>3. row \in AccessRequest /\ (row.stage \notin {"answer", "session"} \/ (row.stage = "answer" /\ row.token.session = 0))
    BY <1>1, ClearingTyped, IdleTyped
<1> HIDE DEF row, dev
<1>4. \A e \in DeviceIds : device'[e] = IF e = d THEN dev ELSE device[e]
    BY <1>1 DEF AccessInv, AccessShape
<1>5. SessionsOnlyEnd /\ \A s \in SessionIds : session'[s].live => ~ (s \in Live /\ session[s].device = d)
    BY <1>1, SessionsRevoked
<1>6. DevicesKept
    BY <1>1, <1>2, <1>4 DEF DevicesKept, AccessInv, AccessShape
<1>7. \A s \in Live' : credentials'.status = "active" /\ epoch' = epoch
                       /\ (device'[session[s].device].revoked => device[session[s].device].revoked)
    BY <1>1, <1>4, <1>5, <1>6, LiveStand
<1>8. QED
    BY <1>1, <1>3, <1>5, <1>6, <1>7, CodesTyped, RequestGoesOn

\* All sessions end, and with them an epoch.
LEMMA EverySessionEnds ==
    ASSUME AccessInv, NEW r \in Slots, NEW row \in AccessRequest, request' = [request EXCEPT ![r] = row],
           request[r].stage # "answer",
           row.stage \notin {"answer", "session"} \/ (row.stage = "answer" /\ row.token.session = 0),
           session' = RevokeAllSessions, UNCHANGED <<device, jar, orphaned>>,
           credentials' \in CredentialRow, mailed' \in [Purposes -> CodeRow], epoch' = epoch + 1
    PROVE  AccessInv'
<1>1. SessionsOnlyEnd /\ DevicesKept /\ \A s \in SessionIds : session'[s].live => s \notin Live
    BY SessionsRevoked, DevicesSame DEF RevokeAllSessions
<1>2. Live' = {}
    BY <1>1, LiveStand
<1>3. epoch' \in Nat
    BY CodesTyped
<1>4. QED
    BY <1>1, <1>2, <1>3, RequestGoesOn

LEMMA PasswordReset == ASSUME AccessInv, NEW r \in Slots, ResetPassword(r) PROVE AccessInv'
<1>1. credentials' \in CredentialRow
    <2>1. epoch \in Nat /\ epoch + 1 \in Nat /\ credentials \in CredentialRow
        BY CodesTyped
    <2>2. credentials' = [credentials EXCEPT !.password = epoch + 1, !.dated = FALSE]
        BY DEF ResetPassword
    <2>3. QED
        BY <2>1, <2>2 DEF CredentialRow
<1>2. mailed' \in [Purposes -> CodeRow]
    BY CodeConsumed DEF ResetPassword, Purposes
<1>3. QED
    BY <1>1, <1>2, IdleTyped, EverySessionEnds DEF ResetPassword

LEMMA DeletionEndsSessions == ASSUME AccessInv, NEW r \in Slots, RequestAccountDeletion(r) PROVE AccessInv'
<1> DEFINE row == ClearingAnswer(r, FALSE)
<1>1. request[r].stage = "session" /\ request' = [request EXCEPT ![r] = row] /\ epoch' = epoch + 1
      /\ session' = RevokeAllSessions /\ UNCHANGED <<device, mailed, jar, orphaned>>
    BY DEF RequestAccountDeletion, Acting
<1>2. row \in AccessRequest /\ row.stage = "answer" /\ row.token.session = 0
    BY <1>1, ClearingTyped
<1>3. credentials' \in CredentialRow
    BY CodesTyped DEF RequestAccountDeletion, CredentialRow
<1> HIDE DEF row
<1>4. QED
    BY <1>1, <1>2, <1>3, CodesTyped, EverySessionEnds

LEMMA AccountRecovered == ASSUME AccessInv, NEW r \in Slots, CompleteAccountRecovery(r) PROVE AccessInv'
<1>1. credentials' \in CredentialRow
    BY CodesTyped DEF CompleteAccountRecovery, CredentialRow
<1>2. mailed' \in [Purposes -> CodeRow]
    BY CodeConsumed DEF CompleteAccountRecovery, Purposes
<1>3. SessionsOnlyEnd /\ DevicesKept /\ epoch' \in Nat
    BY SessionsSame, DevicesSame, CodesTyped DEF CompleteAccountRecovery
<1>4. \A s \in Live' : FALSE
    BY <1>3, LiveStand DEF CompleteAccountRecovery
<1>5. QED
    BY <1>1, <1>2, <1>3, <1>4, IdleTyped, RequestGoesOn DEF CompleteAccountRecovery

LEMMA CodeRequested ==
    ASSUME AccessInv, NEW r \in Slots,
           \/ \E email \in Emails : StartEmailChange(r, email)
           \/ ResendEmailChange(r) \/ StartRecovery(r)
    PROVE  AccessInv'
<1>1. "email_change" \in Purposes
    BY DEF Purposes
<1>2. ASSUME NEW email \in Emails, StartEmailChange(r, email) PROVE AccessInv'
    BY <1>1, <1>2, CodeCreated, IdleTyped, RequestOnly DEF StartEmailChange, Acting
<1>3. CASE ResendEmailChange(r)
    <2>1. mailed["email_change"].email \in Emails
        BY <1>1, <1>3, CodesTyped DEF ResendEmailChange, CodeRow
    <2>2. QED
        BY <1>1, <1>3, <2>1, CodeCreated, IdleTyped, RequestOnly DEF ResendEmailChange, Acting
<1>4. CASE StartRecovery(r)
    <2>1. request[r] \in RecoveryRequest
        BY <1>4, RecoveryTyped DEF StartRecovery
    <2>2. request[r].purpose \in Purposes /\ request[r].email \in Emails
        BY <2>1 DEF RecoveryRequest
    <2>3. QED
        BY <1>4, <2>2, CodeCreated, IdleTyped, RequestOnly DEF StartRecovery
<1>5. QED
    BY <1>2, <1>3, <1>4

LEMMA CodeWrong ==
    ASSUME AccessInv, NEW r \in Slots, NEW right \in BOOLEAN, RefuseEmailCode(r, right) \/ RefuseRecoveryCode(r, right)
    PROVE  AccessInv'
<1>1. CASE RefuseEmailCode(r, right)
    BY <1>1, FailureRecorded, IdleTyped, RequestOnly DEF RefuseEmailCode, Acting, Purposes
<1>2. CASE RefuseRecoveryCode(r, right)
    <2>1. request[r].purpose \in Purposes
        BY <1>2, RecoveryTyped DEF RefuseRecoveryCode, RecoveryRequest
    <2>2. QED
        BY <1>2, <2>1, FailureRecorded, IdleTyped, RequestOnly DEF RefuseRecoveryCode
<1>3. QED
    BY <1>1, <1>2

-----------------------------------------------------------------------------
\* The two requests that rotate their session.

LEMMA RotatingTyped ==
    ASSUME AccessInv, NEW r \in Slots, request[r].stage = "session", CanRotate(request[r].token)
    PROVE  RotatingAnswer(r) \in AccessRequest
<1> DEFINE s == request[r].token.session
<1>1. s \in SessionIds /\ session[s].generation + 1 \in Nat
    BY DEF CanRotate, Live, Opened, AccessInv, AccessShape, AccessRow
<1>2. request[r] \in SessionRequest /\ request[r].token \in Token
    BY SessionTyped DEF SessionRequest
<1>3. [request[r].token EXCEPT !.generation = session[s].generation + 1] \in Token
    BY <1>1, <1>2 DEF Token
<1>4. SameHandle \in Handle
    BY AccessAssumption DEF Handle, SameHandle
<1>5. QED
    BY <1>2, <1>3, <1>4 DEF RotatingAnswer, AccessRequest, AnswerRequest, SessionRequest

LEMMA RotatedRow ==
    ASSUME NEW s, session[s] \in AccessRow
    PROVE  /\ Rotated(s) \in AccessRow /\ Rotated(s).device = session[s].device
           /\ Rotated(s).generation = session[s].generation + 1
           /\ Rotated(s).live = session[s].live /\ Rotated(s).epoch = session[s].epoch
<1>1. session[s].generation + 1 \in Nat
    BY DEF AccessRow
<1>2. QED
    BY <1>1 DEF Rotated, AccessRow

LEMMA EpochMoved ==
    ASSUME NEW u \in AccessRow, NEW e \in Nat, NEW row, row = [u EXCEPT !.epoch = e]
    PROVE  /\ row \in AccessRow /\ row.device = u.device /\ row.generation = u.generation
           /\ row.live = u.live /\ row.epoch = e
BY DEF AccessRow

LEMMA Reauthenticated == ASSUME AccessInv, NEW r \in Slots, Reauthenticate(r) PROVE AccessInv'
<1> DEFINE s == request[r].token.session
           row == Rotated(s)
           answer == RotatingAnswer(r)
<1>1. /\ request[r].stage = "session" /\ CanRotate(request[r].token)
      /\ session' = [session EXCEPT ![s] = row] /\ request' = [request EXCEPT ![r] = answer]
      /\ UNCHANGED <<credentials, device, mailed, epoch, jar, orphaned>>
    BY DEF Reauthenticate
<1>2. s \in Live /\ s \in SessionIds /\ session[s] \in AccessRow /\ session[s].live /\ epoch \in Nat
    BY <1>1, CodesTyped DEF CanRotate, Live, Opened, AccessInv, AccessShape
<1>3. /\ row \in AccessRow /\ row.device = session[s].device /\ row.live
      /\ row.generation = session[s].generation + 1 /\ row.epoch = session[s].epoch
    BY <1>2, RotatedRow
<1>4. answer \in AccessRequest
    BY <1>1, RotatingTyped
<1> HIDE DEF row, answer
<1>5. \A q \in SessionIds : session'[q] = IF q = s THEN row ELSE session[q]
    BY <1>1 DEF AccessInv, AccessShape
<1>6. session' \in [SessionIds -> AccessRow]
    BY <1>1, <1>3 DEF AccessInv, AccessShape
<1>7. SessionRotated(s)
    BY <1>2, <1>3, <1>5, <1>6 DEF SessionRotated
<1>8. AccessShape'
    BY <1>1, <1>4, <1>6 DEF AccessInv, AccessShape
<1>9. NumberedInTurn' /\ Live' \subseteq Live
    BY <1>1, <1>2, <1>7, RotationOpens
<1>10. SignedOutStaysOut'
    <2>1. ASSUME NEW q \in Live' PROVE session'[q].device = session[q].device /\ session'[q].epoch = session[q].epoch
        BY <1>3, <1>5, <1>9 DEF Live, Opened
    <2>2. QED
        BY <1>1, <1>9, <2>1 DEF AccessInv, SignedOutStaysOut
<1>11. TokensAccounted'
    BY <1>1, <1>7, TokenRotated DEF answer
<1>12. QED
    BY <1>8, <1>9, <1>10, <1>11 DEF AccessInv

LEMMA EmailChanged == ASSUME AccessInv, NEW r \in Slots, ChangeEmail(r) PROVE AccessInv'
<1> DEFINE s == request[r].token.session
           row == [Rotated(s) EXCEPT !.epoch = epoch + 1]
           remaining == RevokeSessions(Live \ {s})
           answer == RotatingAnswer(r)
<1>1. /\ request[r].stage = "session" /\ CanRotate(request[r].token) /\ CodeAccepted("email_change")
      /\ LockAuthenticatedSession(request[r].token) /\ ConsumeChallenge("email_change")
      /\ credentials' = [credentials EXCEPT !.email = mailed["email_change"].email]
      /\ session' = [remaining EXCEPT ![s] = row] /\ request' = [request EXCEPT ![r] = answer]
      /\ epoch' = epoch + 1 /\ UNCHANGED <<device, jar, orphaned>>
    BY DEF ChangeEmail, Acting
<1>2. s \in Live /\ s \in SessionIds /\ session[s] \in AccessRow /\ session[s].live /\ epoch \in Nat /\ epoch + 1 \in Nat
    BY <1>1, CodesTyped DEF CanRotate, Live, Opened, AccessInv, AccessShape
<1>3. /\ row \in AccessRow /\ row.device = session[s].device /\ row.live
      /\ row.generation = session[s].generation + 1 /\ row.epoch = epoch + 1
    BY <1>2, RotatedRow, EpochMoved
<1>4. answer \in AccessRequest
    BY <1>1, RotatingTyped
<1>5. \A q \in SessionIds : remaining[q] = [session[q] EXCEPT !.live = @ /\ q \notin Live \ {s}]
    BY DEF RevokeSessions
<1>6. ASSUME NEW q \in SessionIds
      PROVE  /\ remaining[q] \in AccessRow /\ remaining[q].device = session[q].device
             /\ remaining[q].generation = session[q].generation /\ remaining[q].epoch = session[q].epoch
             /\ remaining[q].live => q \notin Live \ {s} /\ session[q].live
             /\ q \notin Opened => remaining[q] = session[q]
    <2>1. session[q] \in AccessRow
        BY DEF AccessInv, AccessShape
    <2>2. q \notin Opened => session[q].live = FALSE
        BY DEF Opened, Unopened
    <2>3. remaining[q] = [session[q] EXCEPT !.live = @ /\ q \notin Live \ {s}]
        BY <1>5
    <2> HIDE DEF s, remaining
    <2>4. /\ remaining[q] \in AccessRow /\ remaining[q].device = session[q].device
          /\ remaining[q].generation = session[q].generation /\ remaining[q].epoch = session[q].epoch
          /\ remaining[q].live => q \notin Live \ {s} /\ session[q].live
        BY <2>1, <2>3 DEF AccessRow
    <2>5. ASSUME q \notin Opened PROVE remaining[q] = session[q]
        BY <2>1, <2>2, <2>3, <2>5 DEF AccessRow
    <2>6. QED
        BY <2>4, <2>5
<1>7. remaining = [q \in SessionIds |-> remaining[q]]
    BY DEF RevokeSessions
<1> HIDE DEF row, answer, remaining
<1>8. \A q \in SessionIds : session'[q] = IF q = s THEN row ELSE remaining[q]
    BY <1>1, <1>7
<1>9. session' \in [SessionIds -> AccessRow]
    BY <1>1, <1>3, <1>6, <1>7
<1>10. SessionRotated(s)
    BY <1>2, <1>3, <1>6, <1>8, <1>9 DEF SessionRotated
<1>11. AccessShape'
    <2>1. "email_change" \in Purposes
        BY DEF Purposes
    <2>2. mailed["email_change"].email \in Emails
        BY <1>1, <2>1, CodesTyped DEF CodeAccepted, CodeRow
    <2>3. credentials' \in CredentialRow
        BY <1>1, <2>2, CodesTyped DEF CredentialRow
    <2>4. mailed' \in [Purposes -> CodeRow]
        BY <1>1, <2>1, CodeConsumed
    <2>5. request' \in [Slots -> AccessRequest]
        BY <1>1, <1>4 DEF AccessInv, AccessShape
    <2>6. QED
        BY <1>1, <1>2, <1>9, <2>3, <2>4, <2>5 DEF AccessInv, AccessShape, CredentialRow, CodeRow
<1>12. NumberedInTurn' /\ Live' \subseteq Live
    BY <1>1, <1>2, <1>10, RotationOpens
<1>13. \A q \in Live' : q = s
    BY <1>6, <1>8, <1>12 DEF Live, Opened
<1>14. SignedOutStaysOut'
    <2>1. credentials.status = "active" /\ ~ device[session[s].device].revoked
        BY <1>2 DEF AccessInv, SignedOutStaysOut
    <2>2. credentials'.status = "active"
        BY <1>1, <2>1, CodesTyped DEF CredentialRow
    <2>3. session'[s].epoch = epoch' /\ session'[s].device = session[s].device
        BY <1>1, <1>2, <1>3, <1>8
    <2>4. QED
        BY <1>1, <1>13, <2>1, <2>2, <2>3 DEF SignedOutStaysOut
<1>15. TokensAccounted'
    BY <1>1, <1>10, TokenRotated DEF answer
<1>16. QED
    BY <1>11, <1>12, <1>14, <1>15 DEF AccessInv

LEMMA AccessStep == AccessInv /\ [AccessNext]_accessVars => AccessInv'
<1> SUFFICES ASSUME AccessInv, [AccessNext]_accessVars PROVE AccessInv'
    OBVIOUS
<1>1. ASSUME WindowPasses \/ RefuseLogin \/ UNCHANGED accessVars PROVE AccessInv'
    BY <1>1, SessionsSame, OnlySessionsEnd DEF WindowPasses, RefuseLogin, accessVars
<1>2. ASSUME NEW r \in Slots,
             \/ \E b \in Browsers : Authenticate(r, b) \/ BeginLogin(r, b)
             \/ \E purpose \in Purposes, step \in {"start", "complete"} : BeginRecovery(r, purpose, step)
             \/ AbandonRequest(r) \/ ReceiveAnswer(r) \/ LoseAnswer(r)
             \/ Login(r) \/ LogoutSession(r) \/ Reauthenticate(r)
      PROVE  AccessInv'
    BY <1>2, AuthenticateStarts, LoginStarts, RecoveryStarts, RequestAbandoned, AnswerReceived, LostAnswer,
       SessionIssued, LoggedOut, Reauthenticated
<1>3. ASSUME NEW r \in Slots,
             \/ \E email \in Emails : StartEmailChange(r, email)
             \/ ResendEmailChange(r) \/ ChangeEmail(r)
             \/ \E right \in BOOLEAN : RefuseEmailCode(r, right) \/ RefuseRecoveryCode(r, right)
             \/ StartRecovery(r) \/ ResetPassword(r)
             \/ RequestAccountDeletion(r) \/ CompleteAccountRecovery(r)
             \/ \E d \in DeviceIds : RevokeAccountDevice(r, d)
      PROVE  AccessInv'
    BY <1>3, CodeRequested, EmailChanged, CodeWrong, PasswordReset, DeletionEndsSessions, AccountRecovered, DeviceRevoked
<1>4. QED
    BY <1>1, <1>2, <1>3, CodeExpired, SessionExpired DEF AccessNext

\* No login, no request under way and no late answer brings back a session that a
\* reset, a change of address, a deletion or the revocation of its device ended, and
\* two tabs that rotate one session at once leave its new token with one of them.
THEOREM SignedOutForGood == AccessSpec => []SessionsAccounted
<1>1. AccessSpec => []AccessInv
    BY AccessInvInit, AccessStep, PTL DEF AccessSpec
<1>2. QED
    BY <1>1, AccessInvAccounted, PTL

=============================================================================
