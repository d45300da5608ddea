------------------------- MODULE DeletionManifests -------------------------
(***************************************************************************)
(* The erasure of a dissolved partnership: one deletion manifest, its      *)
(* targets, the worker's deletion consumer and the handlers of the         *)
(* targets.                                                                *)
(*                                                                         *)
(* Every statement is its own transaction, and the storage of media        *)
(* objects is outside the database.  Targets are retried without a limit,  *)
(* so errors, deaths of workers and leases that expire are counted against *)
(* a bound.  The tables of the partnership's content belong to one target, *)
(* its media objects to another.                                           *)
(***************************************************************************)
EXTENDS Naturals, FiniteSets

CONSTANTS
    ContentTarget,   \* partnership_relational_content; the crypto state is erased alike
    MediaTarget,     \* partnership_media_objects
    Erasers,         \* worker identities
    NoEraser,        \* claimed_by is null
    Tables,          \* tables with content of the partnership
    Objects,         \* media objects of the partnership
    MaxFaults        \* bound: errors, deaths, expired leases and missing handlers

ASSUME TargetsAssumption == ContentTarget # MediaTarget
ASSUME ErasersAssumption == NoEraser \notin Erasers
ASSUME FaultsAssumption == MaxFaults \in Nat /\ IsFiniteSet(Tables) /\ IsFiniteSet(Objects)

VARIABLES
    manifest,      \* status of the deletion_manifests row
    target,        \* deletion_targets rows
    runs,          \* claimed targets in the memory of the workers
    content,       \* tables that still hold content of the partnership
    mediaRows,     \* media_objects rows
    stored,        \* objects in the store
    grants,        \* objects whose upload URL is still valid
    erased,        \* objects a worker has deleted from the store
    late,          \* objects uploaded again after that
    lostClosings,  \* a worker was lost between completing a target and closing the manifest
    faults

deletionVars == <<manifest, target, runs, content, mediaRows, stored, grants, erased, late,
                  lostClosings, faults>>
contentVars  == <<content, mediaRows, stored, grants, erased, late>>

Targets   == {ContentTarget, MediaTarget}
Unfinished == {"pending", "processing", "failed"}
TargetRow == [status : Unfinished \cup {"completed"}, ready : BOOLEAN, expired : BOOLEAN,
              by : Erasers \cup {NoEraser}, version : Nat]
Run       == [worker : Erasers, target : Targets, version : Nat,
              step : {"started", "erasing", "forgetting", "done", "closing", "failing", "failed", "retrying"},
              todo : SUBSET Objects, hand : SUBSET Objects]

DeletionTypeOK ==
    /\ manifest \in {"absent", "completed"} \cup Unfinished
    /\ target \in [Targets -> TargetRow]
    /\ runs \subseteq Run
    /\ content \subseteq Tables
    /\ mediaRows \subseteq Objects /\ stored \subseteq Objects /\ grants \subseteq Objects
    /\ erased \subseteq Objects /\ late \subseteq stored
    /\ lostClosings \in BOOLEAN
    /\ faults \in 0 .. MaxFaults

\* Any media object may still be waiting for its upload when the partnership dissolves.
DeletionInit ==
    /\ manifest = "absent"
    /\ target = [t \in Targets |-> [status |-> "pending", ready |-> FALSE, expired |-> FALSE,
                                    by |-> NoEraser, version |-> 0]]
    /\ runs = {}
    /\ content = Tables
    /\ mediaRows = Objects
    /\ stored = {} /\ grants = Objects
    /\ erased = {} /\ late = {}
    /\ lostClosings = FALSE
    /\ faults = 0

-----------------------------------------------------------------------------
(* The dissolution, the devices and the clock.                              *)

\* The dissolution revokes the access and inserts the manifest with its targets, once
\* for a partnership.
CreateManifest ==
    /\ manifest = "absent"
    /\ manifest' = "pending"
    /\ UNCHANGED <<target, runs, contentVars, lostClosings, faults>>

\* A device uses the URL it was granted, perhaps after the dissolution: nobody can
\* revoke it.
Upload(o) ==
    /\ o \in grants
    /\ stored' = stored \cup {o}
    /\ grants' = grants \ {o}
    /\ late' = IF o \in erased THEN late \cup {o} ELSE late
    /\ UNCHANGED <<manifest, target, runs, content, mediaRows, erased, lostClosings, faults>>

UploadGrantExpires(o) ==
    /\ o \in grants
    /\ grants' = grants \ {o}
    /\ UNCHANGED <<manifest, target, runs, content, mediaRows, stored, erased, late, lostClosings, faults>>

TargetDue(t) ==
    /\ manifest # "absent" /\ target[t].status = "pending" /\ ~ target[t].ready
    /\ target' = [target EXCEPT ![t].ready = TRUE]
    /\ UNCHANGED <<manifest, runs, contentVars, lostClosings, faults>>

Fault == faults < MaxFaults /\ faults' = faults + 1

TargetLeaseExpires(t) ==
    /\ target[t].status = "processing" /\ ~ target[t].expired
    /\ \/ (\A r \in runs : r.target # t) /\ UNCHANGED faults
       \/ Fault
    /\ target' = [target EXCEPT ![t].expired = TRUE]
    /\ UNCHANGED <<manifest, runs, contentVars, lostClosings>>

-----------------------------------------------------------------------------
(* Claims and acknowledgements.                                             *)

\* Mutation: a target whose lease expired is not taken over.
TargetClaimable_PendingOnly(t) == target[t].status = "pending" /\ target[t].ready

TargetClaimable(t) ==
    \/ target[t].status = "pending" /\ target[t].ready
    \/ target[t].status = "processing" /\ target[t].expired

ClaimTarget(w, t) ==
    /\ TargetClaimable(t)
    /\ target' = [target EXCEPT ![t] = [status |-> "processing", ready |-> FALSE, expired |-> FALSE,
                                        by |-> w, version |-> @.version + 1]]
    /\ manifest' = IF manifest = "pending" THEN "processing" ELSE manifest
    /\ runs' = runs \cup {[worker |-> w, target |-> t, version |-> target[t].version + 1,
                           step |-> "started", todo |-> {}, hand |-> {}]}
    /\ UNCHANGED <<contentVars, lostClosings, faults>>

HoldsTarget(r) ==
    /\ target[r.target].status = "processing"
    /\ target[r.target].by = r.worker
    /\ target[r.target].version = r.version

SetTarget(r, status) ==
    target' = IF HoldsTarget(r)
              THEN [target EXCEPT ![r.target] =
                        [@ EXCEPT !.status = status, !.by = NoEraser, !.expired = FALSE]]
              ELSE target

Drop(r) == runs' = runs \ {r}
Continue(r, step) == runs' = (runs \ {r}) \cup {[r EXCEPT !.step = step, !.todo = {}, !.hand = {}]}

\* completeDeletionTarget; without the row there is no manifest to close.
CompleteTarget(r) ==
    /\ r.step = "done"
    /\ SetTarget(r, "completed")
    /\ IF HoldsTarget(r) THEN Continue(r, "closing") ELSE Drop(r)
    /\ UNCHANGED <<manifest, contentVars, lostClosings, faults>>

\* Mutation: a failed target does not keep the manifest open.
AllCompleted_OrFailed == \A t \in Targets : target[t].status \in {"completed", "failed"}

AllCompleted == \A t \in Targets : target[t].status = "completed"

\* completeDeletionManifestIfReady, from whatever status the manifest has.
CloseManifest(r) ==
    /\ r.step = "closing"
    /\ manifest' = IF AllCompleted THEN "completed" ELSE manifest
    /\ Drop(r)
    /\ UNCHANGED <<target, contentVars, lostClosings, faults>>

\* An error of the closing statement ends in a retry of a target that is completed.
LoseClosing(r) ==
    /\ r.step = "closing" /\ Fault
    /\ lostClosings' = TRUE
    /\ Continue(r, "retrying")
    /\ UNCHANGED <<manifest, target, contentVars>>

RetryTarget(r) ==
    /\ r.step = "retrying"
    /\ SetTarget(r, "pending")
    /\ Drop(r)
    /\ UNCHANGED <<manifest, contentVars, lostClosings, faults>>

\* failDeletionTarget, in two statements.
FailTarget(r) ==
    /\ r.step = "failing"
    /\ SetTarget(r, "failed")
    /\ IF HoldsTarget(r) THEN Continue(r, "failed") ELSE Drop(r)
    /\ UNCHANGED <<manifest, contentVars, lostClosings, faults>>

FailManifest(r) ==
    /\ r.step = "failed"
    /\ manifest' = IF manifest # "completed" THEN "failed" ELSE manifest
    /\ Drop(r)
    /\ UNCHANGED <<target, contentVars, lostClosings, faults>>

\* resumeFailedDeletionTarget, for an operator; its two statements are taken together.
ResumeTarget(t) ==
    /\ target[t].status = "failed"
    /\ target' = [target EXCEPT ![t].status = "pending", ![t].ready = FALSE]
    /\ manifest' = IF manifest = "failed" THEN "pending" ELSE manifest
    /\ UNCHANGED <<runs, contentVars, lostClosings, faults>>

-----------------------------------------------------------------------------
(* processTarget and the handlers.                                          *)

NoTargetHandler(r) ==
    /\ r.step = "started" /\ Fault
    /\ Continue(r, "failing")
    /\ UNCHANGED <<manifest, target, contentVars, lostClosings>>

EraserFails(r) ==
    /\ r.step \in {"started", "erasing", "forgetting", "done"} /\ Fault
    /\ Continue(r, "retrying")
    /\ UNCHANGED <<manifest, target, contentVars, lostClosings>>

EraserDies(r) ==
    /\ Fault
    /\ lostClosings' = (lostClosings \/ r.step = "closing")
    /\ Drop(r)
    /\ UNCHANGED <<manifest, target, contentVars>>

\* One table after another.
EraseTable(r, table) ==
    /\ r.target = ContentTarget /\ r.step = "started"
    /\ table \in content
    /\ content' = content \ {table}
    /\ UNCHANGED <<manifest, target, runs, mediaRows, stored, grants, erased, late, lostClosings, faults>>

ContentErased(r) ==
    /\ r.target = ContentTarget /\ r.step = "started"
    /\ content = {}
    /\ Continue(r, "done")
    /\ UNCHANGED <<manifest, target, contentVars, lostClosings, faults>>

ListMedia(r) ==
    /\ r.target = MediaTarget /\ r.step = "started"
    /\ IF mediaRows = {}
       THEN Continue(r, "done")
       ELSE runs' = (runs \ {r}) \cup {[r EXCEPT !.step = "erasing", !.todo = mediaRows]}
    /\ UNCHANGED <<manifest, target, contentVars, lostClosings, faults>>

\* The object goes first: a worker lost in between leaves a row to come back to.
EraseObject(r, o) ==
    /\ r.step = "erasing" /\ o \in r.todo
    /\ stored' = stored \ {o} /\ late' = late \ {o} /\ erased' = erased \cup {o}
    /\ runs' = (runs \ {r}) \cup {[r EXCEPT !.step = "forgetting", !.hand = {o}]}
    /\ UNCHANGED <<manifest, target, content, mediaRows, grants, lostClosings, faults>>

ForgetObject(r, o) ==
    /\ r.step = "forgetting" /\ o \in r.hand
    /\ mediaRows' = mediaRows \ {o}
    /\ runs' = (runs \ {r}) \cup {[r EXCEPT !.step = "erasing", !.todo = @ \ {o}, !.hand = {}]}
    /\ UNCHANGED <<manifest, target, content, stored, grants, erased, late, lostClosings, faults>>

\* At the end of a batch the lease is renewed, or found lost.
RenewTargetLease(r) ==
    /\ r.step = "erasing" /\ r.todo = {}
    /\ Continue(r, IF HoldsTarget(r) /\ ~ target[r.target].expired THEN "started" ELSE "retrying")
    /\ UNCHANGED <<manifest, target, contentVars, lostClosings, faults>>

-----------------------------------------------------------------------------

Advance(r) ==
    \/ (\E table \in Tables : EraseTable(r, table)) \/ ContentErased(r)
    \/ ListMedia(r) \/ (\E o \in Objects : EraseObject(r, o) \/ ForgetObject(r, o)) \/ RenewTargetLease(r)
    \/ CompleteTarget(r) \/ CloseManifest(r) \/ RetryTarget(r) \/ FailTarget(r) \/ FailManifest(r)

DeletionNext ==
    \/ CreateManifest
    \/ \E o \in Objects : Upload(o) \/ UploadGrantExpires(o)
    \/ \E t \in Targets : TargetDue(t) \/ TargetLeaseExpires(t) \/ ResumeTarget(t)
    \/ \E w \in Erasers, t \in Targets : ClaimTarget(w, t)
    \/ \E r \in runs : Advance(r) \/ NoTargetHandler(r) \/ EraserFails(r) \/ EraserDies(r) \/ LoseClosing(r)

DeletionSpec == DeletionInit /\ [][DeletionNext]_deletionVars

-----------------------------------------------------------------------------
(* Properties.                                                              *)

\* A manifest is completed only when every target is, and then nothing of the
\* partnership is left in the database; an object that is left in the store without its
\* row, which nothing would ever delete, was uploaded after a worker had deleted it;
\* and when every target is completed the manifest is, or a worker is about to close
\* it, unless one was lost between the two statements (processTarget,
\* createPartnershipMediaDeletionHandler, completeDeletionManifestIfReady).
ManifestMatchesTargets ==
    /\ manifest = "completed" =>
           (\A t \in Targets : target[t].status = "completed") /\ content = {} /\ mediaRows = {}
    /\ stored \subseteq mediaRows \cup late
    /\ (\A t \in Targets : target[t].status = "completed") =>
           manifest = "completed" \/ lostClosings \/ \E r \in runs : r.step = "closing"

\* With finitely many faults every target is erased or reported as failed.
TargetSettles ==
    \A t \in Targets :
        (manifest # "absent" /\ target[t].status = "pending")
            ~> (target[t].status \in {"completed", "failed"})

=============================================================================
