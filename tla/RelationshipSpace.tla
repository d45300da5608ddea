--------------------------- MODULE RelationshipSpace ---------------------------
(***************************************************************************)
(* The shared items of a partnership: who may write, reveal and link them, *)
(* when a scheduled one is released, and the content keys and media that   *)
(* belong to them.                                                         *)
(*                                                                         *)
(* Every mutation and every release locks the partnership, and is one      *)
(* step.  An item is named by the request that creates it, since a client  *)
(* names what it encrypts and the schema lets no one change a name.  A     *)
(* scheduled release is an action of ScheduledActions: here it is claimed, *)
(* claimed again when its lease runs out, and performed.  A message that   *)
(* is referred to, dates of occurrence and the reads are left out.         *)
(***************************************************************************)
EXTENDS Integers, FiniteSets

CONSTANTS
    Partners,
    Letters,        \* bound: items that are created as "for_you" or "surprise"
    Albums,         \* bound: items that are created as "anniversary"
    Photos,         \* media of one of the partners
    Illustrated,    \* bound: items that refer to media
    Uploader,
    Author,         \* who creates the items
    Leavers,        \* bound: partners who delete their account
    MaxWrites,      \* bound: versions that items get
    MaxTime,        \* bound: ticks of the clock
    Grace           \* ticks a deletion or a breakup can be undone in

ASSUME SpaceAssumption ==
    /\ {Uploader, Author} \subseteq Partners /\ Leavers \subseteq Partners
    /\ Illustrated \subseteq Letters \cup Albums
    /\ Letters \cap Albums = {} /\ {"free", "deleted"} \cap (Letters \cup Albums) = {}
    /\ MaxWrites \in Nat \ {0} /\ MaxTime \in Nat /\ Grace \in Nat \ {0}

VARIABLES
    items,       \* relationship_items rows
    links,       \* relationship_item_links rows, <<owner, target>>
    references,  \* relationship_item_references rows to media
    binding,     \* what the media are bound to: an item, or "free" or "deleted"
    itemKeys,    \* protected_content_keys rows
    events,      \* relationship_events rows
    releases,    \* scheduled_actions rows that are not done
    dropped,     \* items whose release a worker gave up, at a deadline
    created,     \* requests to create that were answered
    required,    \* crypto_required_from is set
    requiring,   \* a statement that sets it has its snapshot and waits for the partnership
    unsealed,    \* items that were created plain since that snapshot and have not been sealed
    deletions,   \* until when each partner can recover the account, or Never
    breakupAt,   \* the open breakup's deadline, or Never
    ended,
    clock

spaceVars == <<items, links, references, binding, itemKeys, events, releases, dropped, created,
               required, requiring, unsealed, deletions, breakupAt, ended, clock>>

Never == -1
Empty == -1    \* no preview; 0 is plain and a version names a key
Times     == 0 .. MaxTime + Grace
Stamps    == Times \cup {Never}
ItemVersions == 1 .. MaxWrites
KeyRoles     == {"main", "preview"}
Modes     == {"none", "immediate", "scheduled", "recipient_open", "creator_reveal"}

Items == Letters \cup Albums
Kinds == {"for_you", "surprise", "anniversary"}
KindsOf(i) == IF i \in Letters THEN {"for_you", "surprise"} ELSE {"anniversary"}

Item == [state : {"absent", "active"}, kind : Kinds \cup {"none"}, mode : Modes, generation : ItemVersions,
         unlock : Stamps, released : Stamps, version : 0 .. MaxWrites,
         preview : Empty .. MaxWrites, main : 0 .. MaxWrites]
ReleaseAction == [item : Items, generation : ItemVersions, at : Times, since : Stamps]   \* claimed since

SpaceTypeOK ==
    /\ items \in [Items -> Item]
    /\ links \subseteq Items \X Items
    /\ references \subseteq [item : Items, photo : Photos]
    /\ binding \in [Photos -> Items \cup {"free", "deleted"}]
    /\ itemKeys \subseteq Items \X KeyRoles \X ItemVersions
    /\ events \subseteq [item : Items, type : {"created", "updated", "released"}, version : ItemVersions]
    /\ releases \subseteq ReleaseAction
    /\ created \subseteq Items /\ dropped \subseteq Items
    /\ required \in BOOLEAN /\ requiring \in BOOLEAN /\ unsealed \subseteq Items /\ ended \in BOOLEAN
    /\ deletions \in [Partners -> Stamps] /\ breakupAt \in Stamps /\ clock \in 0 .. MaxTime

NoItem == [state |-> "absent", kind |-> "none", mode |-> "none", generation |-> 1, unlock |-> Never,
           released |-> Never, version |-> 0, preview |-> Empty, main |-> 0]

SpaceInit ==
    /\ items = [i \in Items |-> NoItem]
    /\ links = {} /\ references = {} /\ itemKeys = {} /\ events = {} /\ releases = {} /\ created = {}
    /\ dropped = {}
    /\ binding = [p \in Photos |-> "free"]
    /\ required = FALSE /\ requiring = FALSE /\ unsealed = {} /\ ended = FALSE
    /\ deletions = [a \in Partners |-> Never] /\ breakupAt = Never /\ clock = 0

Active(i) == items[i].state = "active"

Bounded == Cardinality(events) < MaxWrites

\* The time a transaction began at, before it waited for its locks.
BeganAt == {t \in 0 .. clock : clock <= t + 1}

-----------------------------------------------------------------------------
(* Policies.                                                                *)

Pending == {deletions[a] : a \in Partners} \ {Never}

\* Relationship objects are view-only during a breakup or a deletion.
SpaceWritable == ~ ended /\ breakupAt = Never /\ Pending = {}

EitherPartner(kind) == kind = "anniversary"

\* recipientOpen, creatorReveal: the ways an item of a kind is released.
ReleaseModes(kind) ==
    CASE kind = "for_you"  -> {"immediate", "scheduled", "recipient_open"}
      [] kind = "surprise" -> {"immediate", "creator_reveal"}
      [] OTHER             -> {"none"}

Immutable(i) == ReleaseModes(items[i].kind) # {"none"} /\ items[i].released # Never

CanEditContent(a, i) == ~ Immutable(i) /\ (EitherPartner(items[i].kind) \/ a = Author)

CanDelete(a, i) == EitherPartner(items[i].kind) \/ a = Author

CanRelease(a, i) ==
    \/ items[i].mode = "recipient_open" /\ a # Author
    \/ items[i].mode = "creator_reveal" /\ a = Author

FullyVisible(a, i) == items[i].mode = "none" \/ items[i].released # Never \/ a = Author

Visible(a, i) == Active(i) /\ (FullyVisible(a, i) \/ items[i].preview # Empty)

\* Only what both partners can read is linked to.
CanBeLinked(i) == Active(i) /\ (items[i].mode = "none" \/ items[i].released # Never)

-----------------------------------------------------------------------------
(* What a mutation writes.                                                  *)

KeyOf(i, role, version) == IF version > 0 THEN {<<i, role, version>>} ELSE {}

KeysOfItem(i) == KeyOf(i, "main", items[i].main) \cup KeyOf(i, "preview", items[i].preview)

\* Plain until encryption is required, a key of the item's next version afterwards.
Written(version) == IF required THEN version ELSE 0

\* s1_reject_crypto_required_plaintext: a row is not written with plain content in it.
Storable(i) == required => items[i].main # 0

ReleaseFields(mode, unlock, now) ==
    [mode |-> mode, unlock |-> IF mode = "scheduled" THEN unlock ELSE Never,
     released |-> IF mode = "immediate" THEN now ELSE Never]

AppendEvent(rows, i, type, version) == rows \cup {[item |-> i, type |-> type, version |-> version]}

ArmRelease(i, generation, unlock) ==
    [item |-> i, generation |-> generation, at |-> unlock, since |-> Never]

\* Only an action that no worker has claimed is cancelled.
CancelRelease(i) ==
    {r \in releases : ~ (r.item = i /\ r.generation = items[i].generation /\ r.since = Never)}

\* A medium is bound once in its life; its uploader authorizes the reference.
BindReferences(a, i, added) ==
    /\ a = Uploader \/ added = {}
    /\ \A r \in added : binding[r.photo] = "free"

\* The media that are no longer referred to are deleted, the new ones bound.
ReconcileMedia(i, before, after) ==
    [p \in Photos |->
        IF \E r \in before \ after : r.photo = p /\ binding[p] = i THEN "deleted"
        ELSE IF \E r \in after \ before : r.photo = p THEN i ELSE binding[p]]

ReferencesOf(i) == {r \in references : r.item = i}

InsertItem(i, kind, fields, preview) ==
    items' = [items EXCEPT ![i] =
        [state |-> "active", kind |-> kind, mode |-> fields.mode, generation |-> 1, unlock |-> fields.unlock,
         released |-> fields.released, version |-> 1, preview |-> IF preview THEN Written(1) ELSE Empty,
         main |-> Written(1)]]

ReserveCreation(i) == i \notin created

\* An anniversary is curated once a year.
CurationExists == \E i \in Items : Active(i) /\ items[i].kind = "anniversary"

MayCreate(i, kind, mode, unlock, preview, refs, targets, now) ==
    /\ ReserveCreation(i) /\ SpaceWritable /\ ~ Active(i) /\ Bounded
    /\ mode \in ReleaseModes(kind) /\ (mode = "scheduled" => unlock > now)
    /\ preview => ReleaseModes(kind) # {"none"}
    /\ EitherPartner(kind) => ~ CurationExists
    /\ targets # {} => EitherPartner(kind)
    /\ \A t \in targets : t # i /\ CanBeLinked(t)
    /\ BindReferences(Author, i, refs)

CreateItem(i, kind, mode, unlock, preview, refs, targets, now) ==
    /\ MayCreate(i, kind, mode, unlock, preview, refs, targets, now)
    /\ InsertItem(i, kind, ReleaseFields(mode, unlock, now), preview)
    /\ itemKeys' = itemKeys \cup KeyOf(i, "main", Written(1))
                            \cup (IF preview THEN KeyOf(i, "preview", Written(1)) ELSE {})
    /\ binding' = ReconcileMedia(i, {}, refs) /\ references' = references \cup refs
    /\ links' = links \cup ({i} \X targets)
    /\ releases' = IF mode = "scheduled" THEN releases \cup {ArmRelease(i, 1, unlock)} ELSE releases
    /\ events' = AppendEvent(events, i, "created", 1) /\ created' = created \cup {i}
    /\ unsealed' = IF requiring THEN unsealed \cup {i} ELSE unsealed
    /\ UNCHANGED <<dropped, required, requiring, deletions, breakupAt, ended, clock>>

-----------------------------------------------------------------------------
(* Patches: the expected version is the current one.                        *)

UpdateRoot(i, row) == items' = [items EXCEPT ![i] = [row EXCEPT !.version = items[i].version + 1]]

Patch(a, i) ==
    /\ SpaceWritable /\ Visible(a, i) /\ Bounded
    /\ events' = AppendEvent(events, i, "updated", items[i].version + 1)
    /\ UNCHANGED <<dropped, created, required, requiring, deletions, breakupAt, ended, clock>>

\* The key of what is replaced is deleted.  A patch after encryption is required stores no plain
\* content: the first one replaces what the item was created with and forgets its preview.
PatchContent(a, i, role, erase) ==
    /\ Patch(a, i) /\ CanEditContent(a, i)
    /\ role = "preview" => ReleaseModes(items[i].kind) # {"none"} /\ Storable(i)
    /\ erase => role = "preview"
    /\ LET version == IF erase THEN Empty ELSE Written(items[i].version + 1)
           kept    == IF required /\ items[i].preview = 0 THEN Empty ELSE items[i].preview
           row     == IF role = "main" THEN [items[i] EXCEPT !.main = version, !.preview = kept]
                                       ELSE [items[i] EXCEPT !.preview = version]
           old     == IF role = "main" THEN items[i].main ELSE items[i].preview
       IN /\ UpdateRoot(i, row)
          /\ itemKeys' = (itemKeys \ KeyOf(i, role, old)) \cup KeyOf(i, role, version)
    /\ unsealed' = IF required /\ role = "main" THEN unsealed \ {i} ELSE unsealed
    /\ UNCHANGED <<links, references, binding, releases>>

\* releaseChanged: the same release again changes nothing but the version.
ReleaseChanged(i, mode, unlock) ==
    mode # items[i].mode \/ (mode = "scheduled" /\ unlock # items[i].unlock)

NextGeneration(i, mode, unlock) ==
    IF ReleaseChanged(i, mode, unlock) /\ "scheduled" \in {mode, items[i].mode}
    THEN items[i].generation + 1 ELSE items[i].generation

PatchRelease(a, i, mode, unlock, now) ==
    /\ Patch(a, i) /\ Storable(i) /\ CanEditContent(a, i)
    /\ mode \in ReleaseModes(items[i].kind) \ {"none"} /\ (mode = "scheduled" => unlock > now)
    /\ LET fields     == ReleaseFields(mode, unlock, now)
           changed    == ReleaseChanged(i, mode, unlock)
           generation == NextGeneration(i, mode, unlock)
           left       == IF changed /\ items[i].mode = "scheduled" THEN CancelRelease(i) ELSE releases
       IN /\ UpdateRoot(i, [items[i] EXCEPT !.mode = mode, !.unlock = fields.unlock, !.generation = generation,
                                            !.released = fields.released])
          /\ releases' = left \cup (IF changed /\ mode = "scheduled"
                                    THEN {ArmRelease(i, generation, unlock)} ELSE {})
    /\ UNCHANGED <<links, references, binding, itemKeys, unsealed>>

PatchReferences(a, i, refs) ==
    /\ Patch(a, i) /\ Storable(i) /\ CanEditContent(a, i) /\ (refs # {} => a = Uploader)
    /\ BindReferences(a, i, refs \ ReferencesOf(i))
    /\ UpdateRoot(i, items[i])
    /\ binding' = ReconcileMedia(i, ReferencesOf(i), refs)
    /\ references' = (references \ ReferencesOf(i)) \cup refs
    /\ UNCHANGED <<links, itemKeys, releases, unsealed>>

PatchLinks(a, i, targets) ==
    /\ Patch(a, i) /\ Storable(i) /\ EitherPartner(items[i].kind)
    /\ \A t \in targets : t # i /\ CanBeLinked(t)
    /\ UpdateRoot(i, items[i])
    /\ links' = {l \in links : l[1] # i} \cup ({i} \X targets)
    /\ UNCHANGED <<references, binding, itemKeys, releases, unsealed>>

IncomingLinks(i) == {l \in links : l[2] = i}

Owners(i) == {l[1] : l \in {m \in links : m[2] = i}}

\* The owners of links to the item lose them and get a version.  The schema would refuse to
\* delete an item that is linked to.
DeleteItem(a, i) ==
    /\ SpaceWritable /\ Visible(a, i) /\ CanDelete(a, i)
    /\ items' = [j \in Items |-> IF j = i THEN NoItem
                                 ELSE IF j \in Owners(i) THEN [items[j] EXCEPT !.version = @ + 1] ELSE items[j]]
    /\ links' = {l \in links \ IncomingLinks(i) : l[1] # i}
    /\ releases' = IF items[i].mode = "scheduled" THEN CancelRelease(i) ELSE releases
    /\ itemKeys' = itemKeys \ KeysOfItem(i)
    /\ binding' = ReconcileMedia(i, ReferencesOf(i), {}) /\ references' = references \ ReferencesOf(i)
    /\ events' = {e \in events : e.item # i} \cup
                 {[item |-> o, type |-> "updated", version |-> items[o].version + 1] : o \in Owners(i)}
    /\ unsealed' = unsealed \ {i}
    /\ UNCHANGED <<dropped, created, required, requiring, deletions, breakupAt, ended, clock>>

-----------------------------------------------------------------------------
(* Releases.                                                                *)

\* The recipient opens it, or the creator reveals it.
Release(a, i, now) ==
    /\ SpaceWritable /\ Visible(a, i) /\ items[i].released = Never /\ CanRelease(a, i)
    /\ Storable(i) /\ Bounded
    /\ UpdateRoot(i, [items[i] EXCEPT !.released = now])
    /\ events' = AppendEvent(events, i, "released", items[i].version + 1)
    /\ UNCHANGED <<links, references, binding, itemKeys, releases, dropped, created, required, requiring,
                   unsealed, deletions, breakupAt, ended, clock>>

\* A worker claims an action that is due, or one whose lease has run out.
ClaimRelease(r) ==
    /\ r.at <= clock /\ (r.since = Never \/ r.since < clock)
    /\ releases' = (releases \ {r}) \cup {[r EXCEPT !.since = clock]}
    /\ UNCHANGED <<items, links, references, binding, itemKeys, events, dropped, created, required, requiring,
                   unsealed, deletions, breakupAt, ended, clock>>

\* getRelationshipReleaseGeneration
CurrentGeneration(r) ==
    /\ Active(r.item) /\ items[r.item].mode = "scheduled" /\ items[r.item].released = Never
    /\ items[r.item].generation = r.generation

EarliestOf(S) == CHOOSE t \in S : \A u \in S : t <= u

\* The deadlines the worker sees: the breakup's and the first deletion's.
Deadlines == ({breakupAt} \ {Never}) \cup IF Pending = {} THEN {} ELSE {EarliestOf(Pending)}

ScheduledDecision(r, now) ==
    CASE ~ CurrentGeneration(r) \/ ended           -> "stale"
      [] \E d \in Deadlines : d <= now             -> "deadline"
      [] now < items[r.item].unlock                -> "too_early"
      [] Pending # {}                              -> "pause"
      [] OTHER                                     -> "release"

MarkReleased(r, now) ==
    /\ items' = [items EXCEPT ![r.item].released = now, ![r.item].version = @ + 1]
    /\ events' = AppendEvent(events, r.item, "released", items[r.item].version + 1)
    /\ releases' = releases \ {r}

Reschedule(r, at) ==
    /\ releases' = (releases \ {r}) \cup {[r EXCEPT !.at = at, !.since = Never]}
    /\ UNCHANGED <<items, events>>

ExecuteRelease(r, now) ==
    /\ r.since # Never /\ r.since <= now
    /\ CASE ScheduledDecision(r, now) = "stale"     -> releases' = releases \ {r} /\ UNCHANGED <<items, events>>
         [] ScheduledDecision(r, now) = "deadline"  -> releases' = releases \ {r} /\ UNCHANGED <<items, events>>
         [] ScheduledDecision(r, now) = "too_early" -> Reschedule(r, items[r.item].unlock)
         [] ScheduledDecision(r, now) = "pause"     -> Reschedule(r, EarliestOf(Pending))
         [] OTHER -> Bounded /\ MarkReleased(r, now)
    /\ dropped' = dropped \cup (IF ScheduledDecision(r, now) = "deadline" THEN {r.item} ELSE {})
    /\ UNCHANGED <<links, references, binding, itemKeys, created, required, requiring, unsealed, deletions,
                   breakupAt, ended, clock>>

-----------------------------------------------------------------------------
(* The partnership.                                                         *)

Later(s, t) == IF s < t THEN t ELSE s

ReleasePending(r) == r.since = Never /\ Active(r.item) /\ items[r.item].mode = "scheduled"
                     /\ items[r.item].released = Never

PauseReleases(until) == {IF ReleasePending(r) THEN [r EXCEPT !.at = Later(@, until)] ELSE r : r \in releases}

\* Mutation: a recovery leaves the releases paused.
WakeReleases_None(now) == releases

\* GREATEST(execute_at, now); an action executes at its item's time.
WakeReleases(now) ==
    {IF ReleasePending(r) /\ r.generation = items[r.item].generation /\ r.at > Later(items[r.item].unlock, now)
     THEN [r EXCEPT !.at = Later(items[r.item].unlock, now)] ELSE r : r \in releases}

StartDeletion(a, now) ==
    /\ ~ ended /\ deletions[a] = Never
    /\ deletions' = [deletions EXCEPT ![a] = now + Grace]
    /\ releases' = PauseReleases(now + Grace)
    /\ UNCHANGED <<items, links, references, binding, itemKeys, events, dropped, created, required, requiring,
                   unsealed, breakupAt, ended, clock>>

UndoDeletion(a, now) ==
    /\ ~ ended /\ now < deletions[a]
    /\ deletions' = [deletions EXCEPT ![a] = Never]
    /\ releases' = WakeReleases(now)
    /\ UNCHANGED <<items, links, references, binding, itemKeys, events, dropped, created, required, requiring,
                   unsealed, breakupAt, ended, clock>>

StartBreakup(now) ==
    /\ SpaceWritable /\ breakupAt' = now + Grace
    /\ UNCHANGED <<items, links, references, binding, itemKeys, events, releases, dropped, created, required,
                   requiring, unsealed, deletions, ended, clock>>

\* Cancelled or restored, by a transaction that began in time.
EndBreakup(now) ==
    /\ ~ ended /\ now < breakupAt /\ Pending = {} /\ breakupAt' = Never
    /\ UNCHANGED <<items, links, references, binding, itemKeys, events, releases, dropped, created, required,
                   requiring, unsealed, deletions, ended, clock>>

\* cancelPendingRelationshipReleaseActionsForPartnership
Dissolve ==
    /\ ~ ended /\ \E d \in Deadlines : d <= clock
    /\ ended' = TRUE /\ releases' = {r \in releases : r.since # Never}
    /\ breakupAt' = Never /\ deletions' = [a \in Partners |-> Never]
    /\ UNCHANGED <<items, links, references, binding, itemKeys, events, dropped, created, required, requiring,
                   unsealed, clock>>

\* A target of the deletion manifest.  The schema restricts the deletion of an item that is
\* linked to: the statement may fail until it reaches the owners first.
DeleteRelationshipContent ==
    /\ ended /\ \E i \in Items : Active(i)
    /\ items' = [i \in Items |-> NoItem] /\ events' = {} /\ links' = {} /\ references' = {}
    /\ unsealed' = {}
    /\ UNCHANGED <<binding, itemKeys, releases, dropped, created, required, requiring, deletions, breakupAt,
                   ended, clock>>

\* Encryption is required once nothing is plain.  The statement looks in its snapshot and waits
\* for the partnership, which a creation has locked and does not change: it does not look again.
BeginRequiring ==
    /\ ~ required /\ ~ requiring /\ ~ ended /\ \A i \in Items : ~ Active(i)
    /\ requiring' = TRUE
    /\ UNCHANGED <<items, links, references, binding, itemKeys, events, releases, dropped, created, required,
                   unsealed, deletions, breakupAt, ended, clock>>

RequireCrypto ==
    /\ requiring /\ ~ ended
    /\ required' = TRUE /\ requiring' = FALSE
    /\ UNCHANGED <<items, links, references, binding, itemKeys, events, releases, dropped, created, unsealed,
                   deletions, breakupAt, ended, clock>>

\* The partnership ended while it waited, or the transaction rolls back.
AbandonRequiring ==
    /\ requiring /\ requiring' = FALSE /\ unsealed' = {}
    /\ UNCHANGED <<items, links, references, binding, itemKeys, events, releases, dropped, created, required,
                   deletions, breakupAt, ended, clock>>

Tick ==
    /\ clock < MaxTime /\ ~ ended /\ clock' = clock + 1
    /\ UNCHANGED <<items, links, references, binding, itemKeys, events, releases, dropped, created, required,
                   requiring, unsealed, deletions, breakupAt, ended>>

ReferenceSets == {{}} \cup {{[item |-> i, photo |-> p]} : i \in Illustrated, p \in Photos}
TargetSets  == {{}} \cup {{i} : i \in Items}

ReferencesTo(i) == {refs \in ReferenceSets : \A r \in refs : r.item = i}

CreateSomething(i, now) ==
    \E kind \in KindsOf(i), preview \in BOOLEAN, refs \in ReferencesTo(i), targets \in TargetSets :
        \E mode \in ReleaseModes(kind) :
            \E unlock \in IF mode = "scheduled" THEN 1 .. MaxTime ELSE {1} :
                CreateItem(i, kind, mode, unlock, preview, refs, targets, now)

ChangeSomething(a, i) ==
    \/ \E role \in KeyRoles, erase \in BOOLEAN : PatchContent(a, i, role, erase)
    \/ \E refs \in ReferencesTo(i) : PatchReferences(a, i, refs)
    \/ \E targets \in TargetSets : PatchLinks(a, i, targets)
    \/ DeleteItem(a, i)

ReleaseSomething(a, i, now) ==
    \/ \E mode \in Modes \ {"none"} : \E unlock \in IF mode = "scheduled" THEN 1 .. MaxTime ELSE {1} :
           PatchRelease(a, i, mode, unlock, now)
    \/ Release(a, i, now)

\* The items a request may be about: any other request is refused and changes nothing.
Creatable == {i \in Items \ created : SpaceWritable /\ Bounded}
Editable  == {i \in Items : SpaceWritable /\ Active(i)}

SpaceNext ==
    \/ \E i \in Editable, a \in Partners : ChangeSomething(a, i)
    \/ \E now \in BeganAt :
           \/ \E i \in Creatable : CreateSomething(i, now)
           \/ \E i \in Editable, a \in Partners : ReleaseSomething(a, i, now)
           \/ StartBreakup(now) \/ EndBreakup(now)
           \/ \E a \in Leavers : StartDeletion(a, now) \/ UndoDeletion(a, now)
           \/ \E r \in releases : ExecuteRelease(r, now)
    \/ \E r \in releases : ClaimRelease(r)
    \/ Dissolve \/ DeleteRelationshipContent \/ Tick
    \/ BeginRequiring \/ RequireCrypto \/ AbandonRequiring

SpaceSpec == SpaceInit /\ [][SpaceNext]_spaceVars

-----------------------------------------------------------------------------
(* Properties.                                                              *)

\* What is scheduled will be released (RelationshipSpaceService, relationshipItemReleaseHandler):
\* while the partnership lives, exactly one action carries the generation of an item that waits
\* for its time, and unless an account is being deleted it sleeps no longer than that time.  The
\* exception is a worker that found the last deadline passed, before a restore or a recovery
\* that had begun in time.
ReleaseArmed ==
    ~ ended => \A i \in Items \ dropped : CurrentGeneration([item |-> i, generation |-> items[i].generation]) =>
        \E r \in releases :
            /\ r.item = i /\ r.generation = items[i].generation
            /\ \A s \in releases : s.item = i /\ s.generation = r.generation => s = r
            /\ Pending = {} => r.at <= Later(items[i].unlock, clock)

\* The items are consistent (RelationshipSpaceService): what is scheduled is armed, and nothing
\* is revealed before its time or more than once; links lead to items both partners can read;
\* each item has the keys of what it stores and the media that refer to it, and each of its
\* versions has one event; and once encryption is required only an item is plain that was created
\* while the statement that requires it waited for the partnership, until a patch seals it.
SpaceAccounted ==
    /\ ReleaseArmed
    /\ \A i \in Items : Active(i) =>
         /\ items[i].mode = "scheduled" /\ items[i].released # Never => items[i].released >= items[i].unlock
         /\ {e.version : e \in {f \in events : f.item = i}} = 1 .. items[i].version
         /\ Cardinality({e \in events : e.item = i}) = items[i].version
         /\ Cardinality({e \in events : e.item = i /\ e.type = "released"}) <= 1
         /\ i \in created
    /\ \A l \in links : Active(l[1]) /\ CanBeLinked(l[2])
    /\ ~ ended => itemKeys = UNION {KeysOfItem(i) : i \in {j \in Items : Active(j)}}
    /\ ~ ended => \A p \in Photos, i \in Items : binding[p] = i <=> \E r \in references : r.item = i /\ r.photo = p
    /\ required => \A i \in Items \ unsealed : Active(i) => items[i].main # 0 /\ items[i].preview # 0

\* While an account is being deleted nothing is released (relationshipItemReleaseHandler): what
\* falls due waits for the partners, and a worker that claimed it before then gives it back.
DeletionHoldsReleases ==
    Pending # {} => \A i \in Items : items'[i].released # Never => items'[i].released = items[i].released

=============================================================================
