---------------------------- MODULE SharingProofs ----------------------------
(* Theorems about what two partners share: the items of their space         *)
(* (RelationshipSpace) and the group their devices encrypt for               *)
(* (CryptoRuntime), for any items, texts, times, devices and requests.       *)
EXTENDS RelationshipSpace, CryptoRuntime, FiniteSetTheorems, WellFoundedInduction, TLAPS

-----------------------------------------------------------------------------
(* RelationshipSpace: what holds in every state, besides SpaceAccounted.    *)

ItemRow == [state : {"absent", "active"}, kind : Kinds \cup {"none"}, mode : Modes, generation : Nat,
            unlock : Int, released : Int, version : Nat, preview : Int, main : Nat]
ReleaseRow == [item : Items, generation : Nat, at : Int, since : Int]
SpaceEvent == [item : Items, type : {"created", "updated", "released"}, version : Nat]

SpaceShape ==
    /\ items \in [Items -> ItemRow] /\ links \subseteq Items \X Items
    /\ references \subseteq [item : Items, photo : Photos]
    /\ events \subseteq SpaceEvent /\ releases \subseteq ReleaseRow /\ created \subseteq Items
    /\ required \in BOOLEAN /\ requiring \in BOOLEAN /\ (requiring => ~ required)
    /\ unsealed \subseteq Items /\ ended \in BOOLEAN
    /\ deletions \in [Partners -> Nat \cup {Never}] /\ breakupAt \in Int /\ clock \in Nat

\* An item is released as its kind admits, not before its time, and is encrypted when it must be,
\* unless it was created since the snapshot of the statement that requires it.
ItemsSound ==
    \A i \in Items : Active(i) =>
        /\ i \in created /\ items[i].mode \in ReleaseModes(items[i].kind)
        /\ items[i].mode = "scheduled" /\ items[i].released # Never => items[i].released >= items[i].unlock
        /\ requiring => i \in unsealed
        /\ required => i \in unsealed \/ (items[i].main # 0 /\ items[i].preview # 0)

\* Each version has its one event, and only a released item the event of a release.
EventsOf(i) ==
    /\ Active(i) => \A v \in 1 .. items[i].version : \E e \in events : e.item = i /\ e.version = v
    /\ \A e \in events : e.item = i =>
           /\ Active(i) /\ e.version \in 1 .. items[i].version
           /\ e.type = "released" => items[i].released # Never
    /\ \A e, f \in events :
           /\ e.item = i /\ f.item = i
           /\ e.version = f.version \/ (e.type = "released" /\ f.type = "released")
           => e = f

EventsSound == \A i \in Items : EventsOf(i)

LinksSound == \A l \in links : Active(l[1]) /\ CanBeLinked(l[2]) /\ l[1] # l[2]

BindingSound ==
    /\ \A r \in references : Active(r.item)
    /\ ~ ended => \A p \in Photos, i \in Items :
                      binding[p] = i <=> \E r \in references : r.item = i /\ r.photo = p

KeysSound == ~ ended => itemKeys = UNION {KeysOfItem(i) : i \in {j \in Items : Active(j)}}

\* No action is ahead of its item, and none is claimed before it is due.
ReleasesSound ==
    \A r \in releases :
        /\ r.item \in created
        /\ Active(r.item) => r.generation <= items[r.item].generation
        /\ r.since # Never => r.at <= clock

Awaiting(i) == Active(i) /\ items[i].mode = "scheduled" /\ items[i].released = Never

ArmedOnce(i) ==
    \E r \in releases :
        /\ r.item = i /\ r.generation = items[i].generation
        /\ \A s \in releases : s.item = i /\ s.generation = r.generation => s = r
        /\ Pending = {} => r.at <= Later(items[i].unlock, clock)

ArmedSound == ~ ended => \A i \in Items \ dropped : Awaiting(i) => ArmedOnce(i)

SpaceInv ==
    /\ SpaceShape /\ ItemsSound /\ EventsSound /\ LinksSound /\ BindingSound /\ KeysSound
    /\ ReleasesSound /\ ArmedSound

LEMMA ArmedSoundArmed == ArmedSound => ReleaseArmed
<1> SUFFICES ASSUME ArmedSound, ~ ended, NEW i \in Items \ dropped,
                    CurrentGeneration([item |-> i, generation |-> items[i].generation])
             PROVE  ArmedOnce(i)
    BY DEF ReleaseArmed, ArmedOnce
<1>1. Awaiting(i)
    BY DEF CurrentGeneration, Awaiting
<1>2. QED
    BY <1>1 DEF ArmedSound

\* As many events as versions: they are numbered.
LEMMA EventsCounted ==
    ASSUME SpaceShape, NEW i \in Items, Active(i), EventsOf(i)
    PROVE  /\ {e.version : e \in {f \in events : f.item = i}} = 1 .. items[i].version
           /\ Cardinality({e \in events : e.item = i}) = items[i].version
           /\ Cardinality({e \in events : e.item = i /\ e.type = "released"}) <= 1
<1> DEFINE E == {e \in events : e.item = i}
           n == items[i].version
           R == {e \in events : e.item = i /\ e.type = "released"}
<1>1. n \in Nat
    BY DEF SpaceShape, ItemRow
<1>2. /\ \A v \in 1 .. n : \E e \in E : e.version = v
      /\ \A e \in E : e.version \in 1 .. n
      /\ \A e, f \in E : e.version = f.version => e = f
    BY DEF EventsOf
<1>3. ExistsBijection(1 .. n, E)
    <2> DEFINE b == [v \in 1 .. n |-> CHOOSE e \in E : e.version = v]
    <2>1. \A v \in 1 .. n : b[v] \in E /\ b[v].version = v
        BY <1>2
    <2> HIDE DEF b
    <2>2. b \in [1 .. n -> E]
        BY <2>1 DEF b
    <2>3. b \in Bijection(1 .. n, E)
        <3>1. \A v, w \in 1 .. n : b[v] = b[w] => v = w
            BY <2>1
        <3>2. \A e \in E : \E v \in 1 .. n : b[v] = e
            BY <2>1, <1>2
        <3>3. QED
            BY <2>2, <3>1, <3>2 DEF Bijection, Injection, Surjection, IsInjective
    <2>4. QED
        BY <2>3 DEF ExistsBijection
<1>4. Cardinality(E) = n
    BY <1>1, <1>3, FS_Bijection, FS_Interval
<1>5. Cardinality(R) <= 1
    <2>1. CASE R = {}
        <3>1. Cardinality({}) = 0
            BY FS_EmptySet
        <3>2. QED
            BY <2>1, <3>1
    <2>2. CASE R # {}
        <3>1. PICK e \in R : TRUE
            BY <2>2
        <3>2. R = {e}
            BY <3>1 DEF EventsOf
        <3>3. QED
            BY <3>2, FS_Singleton
    <2>3. QED
        BY <2>1, <2>2
<1>6. {e.version : e \in E} = 1 .. n
    BY <1>2
<1>7. QED
    BY <1>4, <1>5, <1>6

LEMMA SpaceInvAccounted == SpaceInv => SpaceAccounted
<1> SUFFICES ASSUME SpaceInv PROVE SpaceAccounted
    OBVIOUS
<1>1. ReleaseArmed
    BY ArmedSoundArmed DEF SpaceInv
<1>2. ASSUME NEW i \in Items, Active(i)
      PROVE  /\ items[i].mode = "scheduled" /\ items[i].released # Never => items[i].released >= items[i].unlock
             /\ {e.version : e \in {f \in events : f.item = i}} = 1 .. items[i].version
             /\ Cardinality({e \in events : e.item = i}) = items[i].version
             /\ Cardinality({e \in events : e.item = i /\ e.type = "released"}) <= 1
             /\ i \in created
             /\ required => i \in unsealed \/ (items[i].main # 0 /\ items[i].preview # 0)
    <2>1. EventsOf(i) /\ SpaceShape
        BY DEF SpaceInv, EventsSound
    <2>2. QED
        BY <1>2, <2>1, EventsCounted DEF SpaceInv, ItemsSound
<1>3. \A l \in links : Active(l[1]) /\ CanBeLinked(l[2])
    BY DEF SpaceInv, LinksSound
<1>4. ~ ended => itemKeys = UNION {KeysOfItem(i) : i \in {j \in Items : Active(j)}}
    BY DEF SpaceInv, KeysSound
<1>5. ~ ended => \A p \in Photos, i \in Items : binding[p] = i <=> \E r \in references : r.item = i /\ r.photo = p
    BY DEF SpaceInv, BindingSound
<1>6. QED
    BY <1>1, <1>2, <1>3, <1>4, <1>5 DEF SpaceAccounted

LEMMA SpaceInvInit == SpaceInit => SpaceInv
<1> SUFFICES ASSUME SpaceInit PROVE SpaceInv
    OBVIOUS
<1>1. NoItem \in ItemRow /\ NoItem.state = "absent"
    BY DEF NoItem, ItemRow, Kinds, Modes, Never, Empty
<1>2. \A i \in Items : items[i] = NoItem /\ ~ Active(i)
    BY <1>1 DEF SpaceInit, Active
<1>3. SpaceShape
    <2>1. items \in [Items -> ItemRow]
        BY <1>1 DEF SpaceInit
    <2>2. deletions \in [Partners -> Nat \cup {Never}] /\ breakupAt \in Int /\ clock \in Nat
        BY DEF SpaceInit, Never
    <2>3. QED
        BY <2>1, <2>2 DEF SpaceInit, SpaceShape
<1>4. ItemsSound /\ EventsSound /\ LinksSound /\ ReleasesSound /\ ArmedSound
    BY <1>2 DEF SpaceInit, ItemsSound, EventsSound, EventsOf, LinksSound, ReleasesSound, ArmedSound, Awaiting
<1>5. BindingSound
    BY SpaceAssumption DEF SpaceInit, BindingSound, Items
<1>6. KeysSound
    BY <1>2 DEF SpaceInit, KeysSound
<1>7. QED
    BY <1>3, <1>4, <1>5, <1>6 DEF SpaceInv

-----------------------------------------------------------------------------
(* RelationshipSpace: what a step leaves alone.                             *)

LEMMA NowPast ==
    ASSUME SpaceShape, NEW now \in BeganAt PROVE now \in Nat /\ now <= clock /\ now # Never
    BY DEF BeganAt, SpaceShape, Never

\* The worker's decision is that of the earliest deletion.
LEMMA EarliestPending ==
    ASSUME SpaceShape, Pending # {} PROVE EarliestOf(Pending) \in Nat
<1>1. Pending \subseteq Nat
    BY DEF Pending, SpaceShape
<1>2. PICK R : R = OpToRel(<, Nat)
    OBVIOUS
<1>3. IsWellFoundedOn(R, Nat)
    BY <1>2, NatLessThanWellFounded
<1>4. PICK x \in Pending : \A y \in Pending : ~ (<<y, x>> \in R)
    BY <1>1, <1>3, WFMin
<1>5. ASSUME NEW y \in Pending PROVE x <= y
    <2>1. x \in Nat /\ y \in Nat /\ ~ (<<y, x>> \in R)
        BY <1>1, <1>4
    <2>2. y < x => <<y, x>> \in R
        BY <1>2, <2>1 DEF OpToRel
    <2>3. QED
        BY <2>1, <2>2
<1>6. EarliestOf(Pending) \in Pending
    BY <1>4, <1>5 DEF EarliestOf
<1>7. QED
    BY <1>1, <1>6

LEMMA ItemWritten ==
    ASSUME SpaceShape, NEW i \in Items, NEW row \in ItemRow, items' = [items EXCEPT ![i] = row]
    PROVE  /\ items' \in [Items -> ItemRow] /\ items'[i] = row
           /\ \A j \in Items : j # i => items'[j] = items[j]
    BY DEF SpaceShape

\* A new version of an item, and its event.
Rewritten(i, row, type) ==
    /\ items' = [items EXCEPT ![i] = row] /\ row.state = "active" /\ row.version = items[i].version + 1
    /\ events' = AppendEvent(events, i, type, items[i].version + 1)
    /\ items[i].released # Never => row.released # Never
    /\ type = "released" => items[i].released = Never /\ row.released # Never

LEMMA RewrittenEvents ==
    ASSUME SpaceInv, NEW i \in Items, Active(i), NEW row \in ItemRow, NEW type \in {"updated", "released"},
           Rewritten(i, row, type)
    PROVE  EventsSound' /\ events' \subseteq SpaceEvent
<1> DEFINE n == items[i].version + 1
           new == [item |-> i, type |-> type, version |-> n]
<1>1. SpaceShape /\ EventsSound /\ items[i] \in ItemRow /\ items[i].version \in Nat
    BY DEF SpaceInv, SpaceShape, ItemRow
<1>2. items'[i] = row /\ (\A j \in Items : j # i => items'[j] = items[j]) /\ row.version = n /\ row.state = "active"
    BY <1>1, ItemWritten DEF Rewritten
<1>3. events' = events \cup {new} /\ new \in SpaceEvent /\ new.item = i /\ new.version = n /\ new.type = type
    BY <1>1 DEF Rewritten, AppendEvent, SpaceEvent
<1>4. events' \subseteq SpaceEvent
    BY <1>1, <1>3 DEF SpaceShape
<1> HIDE DEF new
<1>5. ASSUME NEW j \in Items, j # i PROVE EventsOf(j)'
    <2>1. EventsOf(j) /\ items'[j] = items[j] /\ \A e \in events' : e.item = j => e \in events
        BY <1>1, <1>2, <1>3, <1>5 DEF EventsSound
    <2>2. events \subseteq events'
        BY <1>3
    <2>3. QED
        BY <2>1, <2>2 DEF EventsOf, Active
<1>6. EventsOf(i)'
    <2>1. EventsOf(i) /\ \A e \in events : e.item = i => e.version \in 1 .. items[i].version
        BY <1>1 DEF EventsSound, EventsOf
    <2>2. ASSUME NEW v \in 1 .. n PROVE \E e \in events' : e.item = i /\ e.version = v
        <3>1. CASE v = n
            BY <1>3, <3>1
        <3>2. CASE v # n
            <4>1. v \in 1 .. items[i].version
                BY <1>1, <3>2
            <4>2. QED
                BY <2>1, <4>1, <1>3 DEF EventsOf
        <3>3. QED
            BY <3>1, <3>2
    <2>3. ASSUME NEW e \in events', e.item = i
          PROVE  /\ e.version \in 1 .. n
                 /\ e.type = "released" => row.released # Never
        <3>1. CASE e = new
            BY <3>1, <1>1, <1>3 DEF Rewritten
        <3>2. CASE e \in events
            <4>1. e.version \in 1 .. items[i].version /\ (e.type = "released" => items[i].released # Never)
                BY <3>2, <2>3, <2>1 DEF EventsOf
            <4>2. QED
                BY <4>1, <1>1 DEF Rewritten
        <3>3. QED
            BY <3>1, <3>2, <1>3
    <2>4. ASSUME NEW e \in events', NEW f \in events', e.item = i, f.item = i,
                 e.version = f.version \/ (e.type = "released" /\ f.type = "released")
          PROVE  e = f
        <3>1. \A x \in events : x.item = i => x.version # n
            BY <1>1, <2>1
        <3>2. type = "released" => \A x \in events : x.item = i => x.type # "released"
            BY <2>1 DEF EventsOf, Rewritten
        <3>3. CASE e \in events /\ f \in events
            BY <3>3, <2>1, <2>4 DEF EventsOf
        <3>4. CASE e = new /\ f = new
            BY <3>4
        <3>5. CASE (e = new /\ f \in events) \/ (f = new /\ e \in events)
            BY <3>5, <3>1, <3>2, <2>4, <1>3
        <3>6. QED
            BY <3>3, <3>4, <3>5, <1>3
    <2>5. QED
        BY <2>2, <2>3, <2>4, <1>2 DEF EventsOf, Active
<1>7. QED
    BY <1>4, <1>5, <1>6 DEF EventsSound

\* The fields a release depends on.
SameRelease(row, old) ==
    /\ row.state = old.state /\ row.kind = old.kind /\ row.mode = old.mode /\ row.generation = old.generation
    /\ row.unlock = old.unlock /\ row.released = old.released

LEMMA LinksKept ==
    ASSUME LinksSound, links \subseteq Items \X Items, \A j \in Items : SameRelease(items'[j], items[j]),
           links' \subseteq links
    PROVE  LinksSound'
<1>1. ASSUME NEW l \in links' PROVE Active(l[1])' /\ CanBeLinked(l[2])' /\ l[1] # l[2]
    <2>1. l[1] \in Items /\ l[2] \in Items /\ Active(l[1]) /\ CanBeLinked(l[2]) /\ l[1] # l[2]
        BY DEF LinksSound
    <2>2. QED
        BY <2>1 DEF Active, CanBeLinked, SameRelease
<1>2. QED
    BY <1>1 DEF LinksSound

LEMMA BindingKept ==
    ASSUME BindingSound, SpaceShape, \A j \in Items : items'[j].state = items[j].state,
           UNCHANGED <<references, binding>>, ~ ended' => ~ ended
    PROVE  BindingSound'
<1>1. \A r \in references' : Active(r.item)'
    BY DEF BindingSound, Active, SpaceShape
<1>2. QED
    BY <1>1 DEF BindingSound

LEMMA KeysKept ==
    ASSUME KeysSound, ~ ended' => ~ ended, UNCHANGED itemKeys,
           \A j \in Items : /\ items'[j].state = items[j].state
                            /\ items'[j].main = items[j].main /\ items'[j].preview = items[j].preview
    PROVE  KeysSound'
<1>1. \A j \in Items : (Active(j)' <=> Active(j)) /\ KeysOfItem(j)' = KeysOfItem(j)
    BY DEF Active, KeysOfItem, KeyOf
<1>2. {KeysOfItem(j) : j \in {k \in Items : Active(k)}}' = {KeysOfItem(j) : j \in {k \in Items : Active(k)}}
    BY <1>1
<1>3. QED
    BY <1>2 DEF KeysSound

LEMMA ReleasesKept ==
    ASSUME ReleasesSound, SpaceShape, \A j \in Items : SameRelease(items'[j], items[j]),
           releases' \subseteq releases, created \subseteq created', clock' \in Nat, clock <= clock'
    PROVE  ReleasesSound'
<1>1. ASSUME NEW r \in releases'
      PROVE  /\ r.item \in created'
             /\ Active(r.item)' => r.generation <= items'[r.item].generation
             /\ r.since # Never => r.at <= clock'
    <2>1. r \in releases /\ r \in ReleaseRow /\ r.item \in Items /\ r.at \in Int
        BY DEF SpaceShape, ReleaseRow
    <2>2. QED
        BY <2>1 DEF ReleasesSound, SameRelease, Active, SpaceShape
<1>2. QED
    BY <1>1 DEF ReleasesSound

\* An item's action is as it was.
LEMMA ArmedKept ==
    ASSUME SpaceShape, NEW i \in Items, ArmedOnce(i), clock' \in Nat, clock <= clock',
           items'[i].generation = items[i].generation, items'[i].unlock = items[i].unlock,
           \A r \in releases \cup releases' : r.item = i => (r \in releases' <=> r \in releases),
           Pending' = {} => Pending = {}
    PROVE  ArmedOnce(i)'
<1>1. PICK r \in releases :
          /\ r.item = i /\ r.generation = items[i].generation
          /\ \A s \in releases : s.item = i /\ s.generation = r.generation => s = r
          /\ Pending = {} => r.at <= Later(items[i].unlock, clock)
    BY DEF ArmedOnce
<1>2. r \in releases' /\ \A s \in releases' : s.item = i /\ s.generation = r.generation => s = r
    BY <1>1
<1>3. r.at <= Later(items[i].unlock, clock) => r.at <= Later(items[i].unlock, clock')
    <2>1. r.at \in Int /\ items[i].unlock \in Int /\ clock \in Nat
        BY DEF SpaceShape, ReleaseRow, ItemRow
    <2>2. QED
        BY <2>1 DEF Later
<1>4. QED
    BY <1>1, <1>2, <1>3 DEF ArmedOnce

LEMMA ArmedSoundKept ==
    ASSUME SpaceShape, ArmedSound, \A j \in Items : SameRelease(items'[j], items[j]),
           UNCHANGED <<releases, ended, deletions>>, dropped \subseteq dropped', clock' \in Nat, clock <= clock'
    PROVE  ArmedSound'
<1> SUFFICES ASSUME ~ ended', NEW i \in Items \ dropped', Awaiting(i)' PROVE ArmedOnce(i)'
    BY DEF ArmedSound
<1>1. Awaiting(i) /\ items'[i].generation = items[i].generation /\ items'[i].unlock = items[i].unlock
    BY DEF Awaiting, Active, SameRelease
<1>2. ArmedOnce(i)
    BY <1>1 DEF ArmedSound
<1>3. Pending' = Pending
    BY DEF Pending
<1>4. QED
    BY <1>1, <1>2, <1>3, ArmedKept

-----------------------------------------------------------------------------
(* RelationshipSpace: the steps.                                            *)

\* The parts of the invariant at once, for a version that changes no release.
LEMMA PlainPatch ==
    ASSUME SpaceInv, NEW i \in Items, Active(i), NEW row \in ItemRow, Rewritten(i, row, "updated"),
           SameRelease(row, items[i]), required => i \in unsealed' \/ (row.main # 0 /\ row.preview # 0),
           unsealed \ {i} \subseteq unsealed', requiring => unsealed' = unsealed,
           UNCHANGED <<releases, dropped, created, required, requiring, deletions, ended, clock>>
    PROVE  /\ items' \in [Items -> ItemRow] /\ events' \subseteq SpaceEvent
           /\ ItemsSound' /\ EventsSound' /\ ReleasesSound' /\ ArmedSound'
           /\ \A j \in Items : SameRelease(items'[j], items[j])
           /\ items'[i] = row /\ \A j \in Items : j # i => items'[j] = items[j]
<1>1. SpaceShape /\ ItemsSound /\ ReleasesSound /\ ArmedSound
    BY DEF SpaceInv
<1>2. items' \in [Items -> ItemRow] /\ items'[i] = row /\ \A j \in Items : j # i => items'[j] = items[j]
    BY <1>1, ItemWritten DEF Rewritten
<1>3. \A j \in Items : SameRelease(items'[j], items[j])
    BY <1>2 DEF SameRelease
<1>4. EventsSound' /\ events' \subseteq SpaceEvent
    BY RewrittenEvents
<1>5. clock' \in Nat /\ clock <= clock'
    BY <1>1 DEF SpaceShape
<1>6. ReleasesSound'
    BY <1>1, <1>3, <1>5, ReleasesKept
<1>7. ArmedSound'
    BY <1>1, <1>3, <1>5, ArmedSoundKept
<1>8. ItemsSound'
    <2>1. ASSUME NEW j \in Items, Active(j)'
          PROVE  /\ j \in created' /\ items'[j].mode \in ReleaseModes(items'[j].kind)
                 /\ items'[j].mode = "scheduled" /\ items'[j].released # Never => items'[j].released >= items'[j].unlock
                 /\ requiring' => j \in unsealed'
                 /\ required' => j \in unsealed' \/ (items'[j].main # 0 /\ items'[j].preview # 0)
        <3>1. Active(j) /\ SameRelease(items'[j], items[j])
            BY <2>1, <1>3 DEF Active, SameRelease
        <3>2. CASE j = i
            BY <3>1, <3>2, <1>1, <1>2 DEF ItemsSound, SameRelease
        <3>3. CASE j # i
            BY <3>1, <3>3, <1>1, <1>2 DEF ItemsSound
        <3>4. QED
            BY <3>2, <3>3
    <2>2. QED
        BY <2>1 DEF ItemsSound
<1>9. QED
    BY <1>2, <1>3, <1>4, <1>6, <1>7, <1>8

LEMMA PatchContentStep ==
    ASSUME SpaceInv, NEW a \in Partners, NEW i \in Items, Active(i), NEW role \in KeyRoles, NEW erase \in BOOLEAN,
           PatchContent(a, i, role, erase)
    PROVE  SpaceInv'
<1> DEFINE n == items[i].version + 1
<1>1. SpaceShape /\ items[i] \in ItemRow /\ n \in Nat \ {0}
    BY DEF SpaceInv, SpaceShape, ItemRow
<1>2. PICK version, kept :
          /\ version = IF erase THEN Empty ELSE Written(n)
          /\ kept = IF required /\ items[i].preview = 0 THEN Empty ELSE items[i].preview
    OBVIOUS
<1>3. /\ version \in Int /\ (required => version # 0) /\ (role = "main" => version \in Nat)
      /\ kept \in Int /\ (required => kept # 0) /\ (~ required => kept = items[i].preview)
    BY <1>1, <1>2 DEF Written, Empty, PatchContent, ItemRow
<1>4. PICK row : row = [(IF role = "main" THEN [items[i] EXCEPT !.main = version, !.preview = kept]
                                         ELSE [items[i] EXCEPT !.preview = version]) EXCEPT !.version = n]
    OBVIOUS
<1>5. /\ row \in ItemRow /\ row.version = n /\ SameRelease(row, items[i])
      /\ row.main = (IF role = "main" THEN version ELSE items[i].main)
      /\ row.preview = (IF role = "main" THEN kept ELSE version)
    <2>1. CASE role = "main"
        <3>1. row = [items[i] EXCEPT !.main = version, !.preview = kept, !.version = n]
            BY <1>4, <2>1
        <3>2. QED
            BY <3>1, <2>1, <1>1, <1>3 DEF ItemRow, SameRelease
    <2>2. CASE role # "main"
        <3>1. row = [items[i] EXCEPT !.preview = version, !.version = n]
            BY <1>4, <2>2
        <3>2. QED
            BY <3>1, <2>2, <1>1, <1>3 DEF ItemRow, SameRelease
    <2>3. QED
        BY <2>1, <2>2
<1>6. items' = [items EXCEPT ![i] = row]
    BY <1>2, <1>4 DEF PatchContent, UpdateRoot
<1>7. Rewritten(i, row, "updated")
    BY <1>1, <1>5, <1>6 DEF Rewritten, PatchContent, Patch, SameRelease, Active
<1>8. required => row.main # 0 /\ row.preview # 0
    BY <1>3, <1>5 DEF PatchContent, Storable, KeyRoles
<1>9. /\ UNCHANGED <<links, references, binding, releases, dropped, created, required, requiring, deletions,
                     breakupAt, ended, clock>>
      /\ unsealed \ {i} \subseteq unsealed' /\ unsealed' \subseteq unsealed /\ (requiring => unsealed' = unsealed)
    BY <1>1 DEF PatchContent, Patch, SpaceShape
<1>10. /\ items' \in [Items -> ItemRow] /\ events' \subseteq SpaceEvent
       /\ ItemsSound' /\ EventsSound' /\ ReleasesSound' /\ ArmedSound'
       /\ \A j \in Items : SameRelease(items'[j], items[j])
       /\ items'[i] = row /\ \A j \in Items : j # i => items'[j] = items[j]
    BY <1>5, <1>7, <1>8, <1>9, PlainPatch
<1>11. SpaceShape'
    BY <1>1, <1>9, <1>10 DEF SpaceShape
<1>12. LinksSound'
    BY <1>1, <1>9, <1>10, LinksKept DEF SpaceInv, SpaceShape
<1>13. BindingSound'
    BY <1>1, <1>9, <1>10, BindingKept DEF SpaceInv, SameRelease
<1>14. KeysSound'
    <2> SUFFICES ASSUME ~ ended PROVE itemKeys' = UNION {KeysOfItem(j)' : j \in {k \in Items : Active(k)'}}
        BY <1>9 DEF KeysSound
    <2>1. itemKeys = UNION {KeysOfItem(j) : j \in {k \in Items : Active(k)}}
        BY DEF SpaceInv, KeysSound
    <2>2. PICK old : old = IF role = "main" THEN items[i].main ELSE items[i].preview
        OBVIOUS
    <2>3. itemKeys' = (itemKeys \ KeyOf(i, role, old)) \cup KeyOf(i, role, version)
        BY <1>2, <2>2 DEF PatchContent
    <2>4. \A j \in Items : (Active(j)' <=> Active(j)) /\ (j # i => KeysOfItem(j)' = KeysOfItem(j))
        BY <1>10 DEF Active, SameRelease, KeysOfItem, KeyOf
    <2>5. KeysOfItem(i)' = (KeysOfItem(i) \ KeyOf(i, role, old)) \cup KeyOf(i, role, version)
        <3>1. CASE role = "main"
            <4>1. KeyOf(i, "preview", kept) = KeyOf(i, "preview", items[i].preview)
                BY <1>2 DEF KeyOf, Empty
            <4>2. items'[i].main = version /\ items'[i].preview = kept /\ old = items[i].main
                BY <3>1, <2>2, <1>5, <1>10
            <4>3. KeyOf(i, "preview", items[i].preview) \cap KeyOf(i, "main", old) = {}
                BY DEF KeyOf
            <4>4. QED
                BY <3>1, <4>1, <4>2, <4>3 DEF KeysOfItem, KeyOf
        <3>2. CASE role = "preview"
            BY <3>2, <2>2, <1>5, <1>10 DEF KeysOfItem, KeyOf
        <3>3. QED
            BY <3>1, <3>2 DEF KeyRoles
    <2>6. \A j \in Items : j # i => KeysOfItem(j) \cap KeyOf(i, role, old) = {}
        BY DEF KeysOfItem, KeyOf
    <2>7. QED
        BY <2>1, <2>3, <2>4, <2>5, <2>6
<1>15. QED
    BY <1>10, <1>11, <1>12, <1>13, <1>14 DEF SpaceInv

\* A patch that only makes a version.
LEMMA RootUpdated ==
    ASSUME SpaceInv, NEW a \in Partners, NEW i \in Items, Active(i), Patch(a, i), UpdateRoot(i, items[i]),
           UNCHANGED <<itemKeys, releases, unsealed>>
    PROVE  /\ items' \in [Items -> ItemRow] /\ events' \subseteq SpaceEvent
           /\ ItemsSound' /\ EventsSound' /\ ReleasesSound' /\ ArmedSound' /\ KeysSound'
           /\ \A j \in Items : SameRelease(items'[j], items[j])
<1>1. SpaceShape /\ items[i] \in ItemRow /\ items[i].version + 1 \in Nat
    BY DEF SpaceInv, SpaceShape, ItemRow
<1>2. PICK row : row = [items[i] EXCEPT !.version = items[i].version + 1]
    OBVIOUS
<1>3. /\ row \in ItemRow /\ row.version = items[i].version + 1 /\ SameRelease(row, items[i])
      /\ row.main = items[i].main /\ row.preview = items[i].preview
    BY <1>1, <1>2 DEF ItemRow, SameRelease
<1>4. Rewritten(i, row, "updated")
    BY <1>1, <1>2, <1>3 DEF Rewritten, UpdateRoot, Patch, SameRelease, Active
<1>5. required => i \in unsealed' \/ (row.main # 0 /\ row.preview # 0)
    BY <1>3 DEF SpaceInv, ItemsSound
<1>6. UNCHANGED <<dropped, created, required, requiring, deletions, ended, clock>>
    BY DEF Patch
<1>7. /\ items' \in [Items -> ItemRow] /\ events' \subseteq SpaceEvent
      /\ ItemsSound' /\ EventsSound' /\ ReleasesSound' /\ ArmedSound'
      /\ \A j \in Items : SameRelease(items'[j], items[j])
      /\ items'[i] = row /\ \A j \in Items : j # i => items'[j] = items[j]
    BY <1>3, <1>4, <1>5, <1>6, PlainPatch
<1>8. KeysSound'
    <2>1. \A j \in Items : /\ items'[j].state = items[j].state
                           /\ items'[j].main = items[j].main /\ items'[j].preview = items[j].preview
        BY <1>3, <1>7 DEF SameRelease
    <2>2. QED
        BY <2>1, <1>6, KeysKept DEF SpaceInv
<1>9. QED
    BY <1>7, <1>8

LEMMA PatchReferencesStep ==
    ASSUME SpaceInv, NEW a \in Partners, NEW i \in Items, Active(i), NEW refs \in ReferencesTo(i),
           PatchReferences(a, i, refs)
    PROVE  SpaceInv'
<1>1. SpaceShape /\ BindingSound
    BY DEF SpaceInv
<1>2. UNCHANGED <<links, itemKeys, releases, dropped, created, required, requiring, unsealed, deletions,
                  breakupAt, ended, clock>>
    BY DEF PatchReferences, Patch
<1>3. /\ items' \in [Items -> ItemRow] /\ events' \subseteq SpaceEvent
      /\ ItemsSound' /\ EventsSound' /\ ReleasesSound' /\ ArmedSound' /\ KeysSound'
      /\ \A j \in Items : SameRelease(items'[j], items[j])
    BY <1>2, RootUpdated DEF PatchReferences
<1>4. /\ refs \subseteq [item : Items, photo : Photos] /\ \A r \in refs : r.item = i
      /\ references' = (references \ ReferencesOf(i)) \cup refs
      /\ binding' = ReconcileMedia(i, ReferencesOf(i), refs)
      /\ \A r \in refs \ ReferencesOf(i) : binding[r.photo] = "free"
    BY DEF ReferencesTo, ReferenceSets, PatchReferences, BindReferences
<1>5. SpaceShape'
    BY <1>1, <1>2, <1>3, <1>4 DEF SpaceShape
<1>6. LinksSound'
    BY <1>1, <1>2, <1>3, LinksKept DEF SpaceInv, SpaceShape
<1>7. BindingSound'
    <2>1. \A j \in Items : Active(j)' <=> Active(j)
        BY <1>3 DEF Active, SameRelease
    <2>2. \A r \in references' : Active(r.item)'
        BY <2>1, <1>1, <1>4 DEF BindingSound, SpaceShape
    <2>3. ASSUME ~ ended', NEW p \in Photos, NEW j \in Items
          PROVE  binding'[p] = j <=> \E r \in references' : r.item = j /\ r.photo = p
        <3> DEFINE row(k) == [item |-> k, photo |-> p]
        <3>1. \A k \in Items : binding[p] = k <=> row(k) \in references
            <4>1. \A r \in references, k \in Items : r.item = k /\ r.photo = p => r = row(k)
                BY <1>1 DEF SpaceShape
            <4>2. QED
                BY <4>1, <1>1, <1>2, <2>3 DEF BindingSound
        <3>2. \A k \in Items : (\E r \in references' : r.item = k /\ r.photo = p) <=> row(k) \in references'
            BY <1>5 DEF SpaceShape
        <3>3. \A r \in refs : r.photo = p => r = row(i)
            BY <1>4
        <3>4. row(i) \in ReferencesOf(i) <=> row(i) \in references
            BY DEF ReferencesOf
        <3>5. \A r \in ReferencesOf(i) : r.photo = p => r = row(i)
            BY <1>1 DEF ReferencesOf, SpaceShape
        <3>6. binding'[p] = IF row(i) \in ReferencesOf(i) /\ row(i) \notin refs /\ binding[p] = i THEN "deleted"
                            ELSE IF row(i) \in refs /\ row(i) \notin ReferencesOf(i) THEN i ELSE binding[p]
            BY <1>4, <3>3, <3>5 DEF ReconcileMedia
        <3>7. j # "deleted" /\ j # "free"
            BY SpaceAssumption DEF Items
        <3>8. row(i) \in refs /\ row(i) \notin references => binding[p] = "free"
            BY <1>4, <3>4
        <3>9. CASE j = i
            <4>1. row(j) \in references' <=> row(i) \in refs
                BY <1>4, <3>4, <3>9
            <4>2. binding'[p] = i <=> row(i) \in refs
                BY <3>1, <3>4, <3>6, <3>7, <3>8, <3>9
            <4>3. QED
                BY <4>1, <4>2, <3>2, <3>9
        <3>10. CASE j # i
            <4>1. row(j) \in references' <=> row(j) \in references
                BY <1>4, <3>10 DEF ReferencesOf
            <4>2. binding'[p] = j <=> binding[p] = j
                BY <3>1, <3>4, <3>6, <3>7, <3>8, <3>10
            <4>3. QED
                BY <4>1, <4>2, <3>1, <3>2
        <3>11. QED
            BY <3>9, <3>10
    <2>4. QED
        BY <2>2, <2>3 DEF BindingSound
<1>8. QED
    BY <1>3, <1>5, <1>6, <1>7 DEF SpaceInv

LEMMA PatchLinksStep ==
    ASSUME SpaceInv, NEW a \in Partners, NEW i \in Items, Active(i), NEW targets \in TargetSets,
           PatchLinks(a, i, targets)
    PROVE  SpaceInv'
<1>1. SpaceShape
    BY DEF SpaceInv
<1>2. UNCHANGED <<references, binding, itemKeys, releases, dropped, created, required, requiring, unsealed,
                  deletions, breakupAt, ended, clock>>
    BY DEF PatchLinks, Patch
<1>3. /\ items' \in [Items -> ItemRow] /\ events' \subseteq SpaceEvent
      /\ ItemsSound' /\ EventsSound' /\ ReleasesSound' /\ ArmedSound' /\ KeysSound'
      /\ \A j \in Items : SameRelease(items'[j], items[j])
    BY <1>2, RootUpdated DEF PatchLinks
<1>4. targets \subseteq Items
    BY DEF TargetSets
<1>5. SpaceShape'
    BY <1>1, <1>2, <1>3, <1>4 DEF SpaceShape, PatchLinks
<1>6. LinksSound'
    <2>1. ASSUME NEW l \in links' PROVE l[1] \in Items /\ l[2] \in Items /\ Active(l[1]) /\ CanBeLinked(l[2]) /\ l[1] # l[2]
        <3>1. CASE l \in links
            BY <3>1, <1>1 DEF SpaceInv, LinksSound, SpaceShape
        <3>2. CASE l \in {i} \X targets
            BY <3>2, <1>4 DEF PatchLinks
        <3>3. QED
            BY <3>1, <3>2 DEF PatchLinks
    <2>2. QED
        BY <2>1, <1>3 DEF LinksSound, Active, CanBeLinked, SameRelease
<1>7. BindingSound'
    BY <1>1, <1>2, <1>3, BindingKept DEF SpaceInv, SameRelease
<1>8. QED
    BY <1>3, <1>5, <1>6, <1>7 DEF SpaceInv

\* The parts that only look at whether an item is released, and by what keys and media it is named.
LEMMA ReleaseRewritten ==
    ASSUME SpaceInv, NEW i \in Items, Active(i), NEW row \in ItemRow, NEW type \in {"updated", "released"},
           Rewritten(i, row, type),
           row.kind = items[i].kind /\ row.mode \in ReleaseModes(row.kind),
           row.mode = "scheduled" /\ row.released # Never => row.released >= row.unlock,
           row.main = items[i].main /\ row.preview = items[i].preview,
           CanBeLinked(i) => row.mode = "none" \/ row.released # Never,
           UNCHANGED <<links, references, binding, itemKeys, created, required, requiring, unsealed, ended>>
    PROVE  /\ items' \in [Items -> ItemRow] /\ events' \subseteq SpaceEvent
           /\ ItemsSound' /\ EventsSound' /\ LinksSound' /\ BindingSound' /\ KeysSound'
           /\ items'[i] = row /\ \A j \in Items : j # i => items'[j] = items[j]
<1>1. SpaceShape
    BY DEF SpaceInv
<1>2. items' \in [Items -> ItemRow] /\ items'[i] = row /\ \A j \in Items : j # i => items'[j] = items[j]
    BY <1>1, ItemWritten DEF Rewritten
<1>3. EventsSound' /\ events' \subseteq SpaceEvent
    BY RewrittenEvents
<1>4. \A j \in Items : /\ items'[j].state = items[j].state
                       /\ items'[j].main = items[j].main /\ items'[j].preview = items[j].preview
    BY <1>2 DEF Rewritten, Active
<1>5. BindingSound' /\ KeysSound'
    BY <1>1, <1>4, BindingKept, KeysKept DEF SpaceInv
<1>6. LinksSound'
    <2>1. ASSUME NEW l \in links' PROVE Active(l[1])' /\ CanBeLinked(l[2])' /\ l[1] # l[2]
        <3>1. l[1] \in Items /\ l[2] \in Items /\ Active(l[1]) /\ CanBeLinked(l[2]) /\ l[1] # l[2]
            BY <1>1 DEF SpaceInv, LinksSound, SpaceShape
        <3>2. Active(l[1])' /\ Active(l[2])'
            BY <3>1, <1>4 DEF Active, CanBeLinked
        <3>3. CASE l[2] = i
            BY <3>1, <3>2, <3>3, <1>2 DEF CanBeLinked
        <3>4. CASE l[2] # i
            BY <3>1, <3>2, <3>4, <1>2 DEF CanBeLinked
        <3>5. QED
            BY <3>1, <3>2, <3>3, <3>4
    <2>2. QED
        BY <2>1 DEF LinksSound
<1>7. ItemsSound'
    <2>1. ASSUME NEW j \in Items, Active(j)'
          PROVE  /\ j \in created' /\ items'[j].mode \in ReleaseModes(items'[j].kind)
                 /\ items'[j].mode = "scheduled" /\ items'[j].released # Never => items'[j].released >= items'[j].unlock
                 /\ requiring' => j \in unsealed'
                 /\ required' => j \in unsealed' \/ (items'[j].main # 0 /\ items'[j].preview # 0)
        <3>1. Active(j)
            BY <2>1, <1>4 DEF Active
        <3>2. CASE j = i
            BY <3>1, <3>2, <1>2 DEF SpaceInv, ItemsSound
        <3>3. CASE j # i
            BY <3>1, <3>3, <1>2 DEF SpaceInv, ItemsSound
        <3>4. QED
            BY <3>2, <3>3
    <2>2. QED
        BY <2>1 DEF ItemsSound
<1>8. QED
    BY <1>2, <1>3, <1>5, <1>6, <1>7

\* What a patch leaves and arms: the generation of the new action is that of no other.
LEMMA PatchReleaseStep ==
    ASSUME SpaceInv, NEW a \in Partners, NEW i \in Items, Active(i), NEW mode \in Modes,
           NEW unlock \in Int, NEW now \in BeganAt, PatchRelease(a, i, mode, unlock, now)
    PROVE  SpaceInv'
<1>1. SpaceShape /\ items[i] \in ItemRow /\ items[i].version + 1 \in Nat /\ items[i].generation \in Nat
    BY DEF SpaceInv, SpaceShape, ItemRow
<1>2. now \in Nat /\ now <= clock /\ now # Never
    BY <1>1, NowPast
<1> DEFINE changed == ReleaseChanged(i, mode, unlock)
           armed   == changed /\ mode = "scheduled"
<1>3. PICK generation : generation = NextGeneration(i, mode, unlock)
    OBVIOUS
<1>4. /\ generation \in Nat /\ items[i].generation <= generation
      /\ armed => generation = items[i].generation + 1
      /\ ~ changed => generation = items[i].generation
    BY <1>1, <1>3 DEF NextGeneration
<1>5. PICK fields : fields = ReleaseFields(mode, unlock, now)
    OBVIOUS
<1>6. /\ fields.unlock = (IF mode = "scheduled" THEN unlock ELSE Never)
      /\ fields.released = (IF mode = "immediate" THEN now ELSE Never)
      /\ fields.unlock \in Int /\ fields.released \in Int
    BY <1>2, <1>5 DEF ReleaseFields, Never
<1>7. PICK row : row = [[items[i] EXCEPT !.mode = mode, !.unlock = fields.unlock, !.generation = generation,
                                         !.released = fields.released] EXCEPT !.version = items[i].version + 1]
    OBVIOUS
<1>8. /\ row \in ItemRow /\ row.version = items[i].version + 1 /\ row.state = items[i].state
      /\ row.kind = items[i].kind /\ row.main = items[i].main /\ row.preview = items[i].preview
      /\ row.mode = mode /\ row.unlock = fields.unlock /\ row.generation = generation /\ row.released = fields.released
    BY <1>1, <1>4, <1>6, <1>7 DEF ItemRow
<1>9. items' = [items EXCEPT ![i] = row]
    BY <1>3, <1>5, <1>7 DEF PatchRelease, UpdateRoot
<1>10. mode \in ReleaseModes(items[i].kind) \ {"none"} /\ items[i].released = Never /\ items[i].mode # "none"
    <2>1. mode \in ReleaseModes(items[i].kind) \ {"none"} /\ items[i].mode \in ReleaseModes(items[i].kind)
        BY DEF PatchRelease, SpaceInv, ItemsSound
    <2>2. items[i].released = Never
        BY <2>1 DEF PatchRelease, CanEditContent, Immutable
    <2>3. items[i].mode # "none"
        BY <2>1 DEF ReleaseModes
    <2>4. QED
        BY <2>1, <2>2, <2>3
<1>11. Rewritten(i, row, "updated")
    BY <1>8, <1>9, <1>10 DEF Rewritten, PatchRelease, Patch, Active
<1>12. UNCHANGED <<links, references, binding, itemKeys, dropped, created, required, requiring, unsealed,
                   deletions, breakupAt, ended, clock>>
    BY DEF PatchRelease, Patch
<1>13. ~ CanBeLinked(i)
    BY <1>10 DEF CanBeLinked
<1>14. row.mode = "scheduled" /\ row.released # Never => row.released >= row.unlock
    BY <1>6, <1>8
<1>15. /\ items' \in [Items -> ItemRow] /\ events' \subseteq SpaceEvent
       /\ ItemsSound' /\ EventsSound' /\ LinksSound' /\ BindingSound' /\ KeysSound'
       /\ items'[i] = row /\ \A j \in Items : j # i => items'[j] = items[j]
    BY <1>8, <1>10, <1>11, <1>12, <1>13, <1>14, ReleaseRewritten
<1>16. PICK new : new = ArmRelease(i, generation, unlock)
    OBVIOUS
<1>17. new \in ReleaseRow /\ new.item = i /\ new.generation = generation /\ new.at = unlock /\ new.since = Never
    BY <1>4, <1>16 DEF ArmRelease, ReleaseRow, Never
<1>18. /\ \A r \in releases' : r \in releases \/ (armed /\ r = new)
       /\ armed => new \in releases'
       /\ ~ changed => releases' = releases
       /\ \A r \in releases : r.item # i => r \in releases'
    <2>1. releases' = (IF changed /\ items[i].mode = "scheduled" THEN CancelRelease(i) ELSE releases)
                      \cup (IF armed THEN {new} ELSE {})
        BY <1>3, <1>16 DEF PatchRelease
    <2>2. QED
        BY <2>1 DEF CancelRelease
<1>19. \A r \in releases : r.item = i => r.generation \in Nat /\ r.generation <= items[i].generation
    BY <1>1 DEF SpaceInv, ReleasesSound, SpaceShape, ReleaseRow
<1>20. SpaceShape'
    BY <1>1, <1>12, <1>15, <1>17, <1>18 DEF SpaceShape
<1>21. ReleasesSound'
    <2>1. ASSUME NEW r \in releases'
          PROVE  /\ r.item \in created'
                 /\ Active(r.item)' => r.generation <= items'[r.item].generation
                 /\ r.since # Never => r.at <= clock'
        <3>1. CASE r = new /\ armed
            <4>1. i \in created
                BY DEF SpaceInv, ItemsSound
            <4>2. QED
                BY <3>1, <4>1, <1>4, <1>8, <1>12, <1>15, <1>17
        <3>2. CASE r \in releases /\ r.item = i
            <4>1. r.item \in created /\ (r.since # Never => r.at <= clock)
                BY <3>2 DEF SpaceInv, ReleasesSound
            <4>2. r.generation <= generation
                BY <3>2, <1>1, <1>4, <1>19
            <4>3. QED
                BY <4>1, <4>2, <3>2, <1>8, <1>12, <1>15
        <3>3. CASE r \in releases /\ r.item # i
            <4>1. r.item \in Items
                BY <3>3, <1>1 DEF SpaceShape, ReleaseRow
            <4>2. QED
                BY <4>1, <3>3, <1>12, <1>15 DEF SpaceInv, ReleasesSound, Active
        <3>4. QED
            BY <3>1, <3>2, <3>3, <1>18
    <2>2. QED
        BY <2>1 DEF ReleasesSound
<1>22. ArmedSound'
    <2> SUFFICES ASSUME ~ ended', NEW j \in Items \ dropped', Awaiting(j)' PROVE ArmedOnce(j)'
        BY DEF ArmedSound
    <2>1. clock' \in Nat /\ clock <= clock' /\ Pending' = Pending
        BY <1>1, <1>12 DEF SpaceShape, Pending
    <2>2. CASE j # i
        <3>1. Awaiting(j)
            BY <2>2, <1>15 DEF Awaiting, Active
        <3>2. ArmedOnce(j)
            BY <3>1, <1>12 DEF SpaceInv, ArmedSound
        <3>3. \A r \in releases \cup releases' : r.item = j => (r \in releases' <=> r \in releases)
            BY <2>2, <1>17, <1>18
        <3>4. QED
            BY <3>2, <3>3, <2>1, <2>2, <1>1, <1>15, ArmedKept
    <2>3. CASE j = i /\ armed
        <3>1. \A s \in releases' : s.item = i /\ s.generation = generation => s = new
            <4>1. ASSUME NEW s \in releases', s.item = i, s.generation = generation, s \in releases PROVE FALSE
                BY <4>1, <2>3, <1>1, <1>4, <1>19
            <4>2. QED
                BY <4>1, <1>18
        <3>2. new.at <= Later(items'[i].unlock, clock')
            BY <2>1, <2>3, <1>6, <1>8, <1>15, <1>17 DEF Later
        <3>3. QED
            BY <3>1, <3>2, <2>3, <1>8, <1>15, <1>17, <1>18 DEF ArmedOnce
    <2>4. CASE j = i /\ ~ armed
        <3>1. mode = "scheduled" /\ ~ changed /\ mode = items[i].mode /\ unlock = items[i].unlock
            BY <2>4, <1>8, <1>15 DEF Awaiting, ReleaseChanged
        <3>2. Awaiting(i) /\ i \notin dropped
            BY <3>1, <2>4, <1>10, <1>12 DEF Awaiting
        <3>3. ArmedOnce(i)
            BY <3>2, <1>12 DEF SpaceInv, ArmedSound
        <3>4. items'[i].generation = items[i].generation /\ items'[i].unlock = items[i].unlock /\ releases' = releases
            BY <3>1, <1>4, <1>6, <1>8, <1>15, <1>18
        <3>5. QED
            BY <3>3, <3>4, <2>1, <2>4, <1>1, ArmedKept
    <2>5. QED
        BY <2>2, <2>3, <2>4
<1>23. QED
    BY <1>15, <1>20, <1>21, <1>22 DEF SpaceInv

\* One item leaves; its event numbers, keys and media go with it, its owner gets a version.
LEMMA DeleteItemStep ==
    ASSUME SpaceInv, NEW a \in Partners, NEW i \in Items, Active(i), DeleteItem(a, i)
    PROVE  SpaceInv'
<1>1. SpaceShape
    BY DEF SpaceInv
<1>2. UNCHANGED <<dropped, created, required, requiring, deletions, breakupAt, ended, clock>> /\ unsealed' = unsealed \ {i}
    BY DEF DeleteItem
<1>3. \A o \in Owners(i) : o \in Items /\ Active(o)
    BY <1>1 DEF Owners, SpaceInv, LinksSound, SpaceShape
<1>4. NoItem \in ItemRow /\ NoItem.state = "absent"
    BY DEF NoItem, ItemRow, Kinds, Modes, Never, Empty
<1>5. /\ items'[i] = NoItem
      /\ \A j \in Items : j # i =>
             /\ items'[j] \in ItemRow /\ SameRelease(items'[j], items[j])
             /\ items'[j].main = items[j].main /\ items'[j].preview = items[j].preview
             /\ items'[j].version = IF j \in Owners(i) THEN items[j].version + 1 ELSE items[j].version
    <2>1. items'[i] = NoItem
        BY DEF DeleteItem
    <2>2. ASSUME NEW j \in Items, j # i
          PROVE  /\ items'[j] \in ItemRow /\ SameRelease(items'[j], items[j])
                 /\ items'[j].main = items[j].main /\ items'[j].preview = items[j].preview
                 /\ items'[j].version = IF j \in Owners(i) THEN items[j].version + 1 ELSE items[j].version
        <3>1. items[j] \in ItemRow /\ items[j].version + 1 \in Nat
            BY <1>1 DEF SpaceShape, ItemRow
        <3>2. PICK row : row = [items[j] EXCEPT !.version = items[j].version + 1]
            OBVIOUS
        <3>3. /\ row \in ItemRow /\ SameRelease(row, items[j]) /\ row.main = items[j].main
              /\ row.preview = items[j].preview /\ row.version = items[j].version + 1
            BY <3>1, <3>2 DEF ItemRow, SameRelease
        <3>4. items'[j] = IF j \in Owners(i) THEN row ELSE items[j]
            BY <2>2, <3>2 DEF DeleteItem
        <3>5. QED
            BY <3>1, <3>3, <3>4 DEF SameRelease
    <2>3. QED
        BY <2>1, <2>2
<1>6. items' \in [Items -> ItemRow]
    <2>1. \A j \in Items : items'[j] \in ItemRow
        BY <1>4, <1>5
    <2>2. DOMAIN items' = Items /\ items' = [j \in DOMAIN items' |-> items'[j]]
        BY DEF DeleteItem
    <2>3. QED
        BY <2>1, <2>2
<1>7. ~ Active(i)' /\ \A j \in Items : j # i => (Active(j)' <=> Active(j))
    BY <1>4, <1>5 DEF Active, SameRelease
<1>8. releases' \subseteq releases /\ \A r \in releases : r.item # i => r \in releases'
    BY DEF DeleteItem, CancelRelease
<1>9. references' = references \ ReferencesOf(i)
    BY DEF DeleteItem
<1> DEFINE update(o) == [item |-> o, type |-> "updated", version |-> items[o].version + 1]
<1>10. /\ events' = {e \in events : e.item # i} \cup {update(o) : o \in Owners(i)}
       /\ i \notin Owners(i)
    BY <1>1 DEF DeleteItem, Owners, SpaceInv, LinksSound
<1>11. events' \subseteq SpaceEvent
    <2>1. ASSUME NEW o \in Owners(i) PROVE update(o) \in SpaceEvent
        <3>1. items[o].version + 1 \in Nat
            BY <1>1, <1>3 DEF SpaceShape, ItemRow
        <3>2. QED
            BY <3>1, <1>3 DEF SpaceEvent
    <2>2. QED
        BY <2>1, <1>1, <1>10 DEF SpaceShape
<1>12. SpaceShape'
    BY <1>1, <1>2, <1>6, <1>8, <1>9, <1>11 DEF SpaceShape, DeleteItem, IncomingLinks
<1>13. ItemsSound'
    <2>1. ASSUME NEW j \in Items, Active(j)'
          PROVE  /\ j \in created' /\ items'[j].mode \in ReleaseModes(items'[j].kind)
                 /\ items'[j].mode = "scheduled" /\ items'[j].released # Never => items'[j].released >= items'[j].unlock
                 /\ requiring' => j \in unsealed'
                 /\ required' => j \in unsealed' \/ (items'[j].main # 0 /\ items'[j].preview # 0)
        <3>1. j # i /\ Active(j)
            BY <2>1, <1>7
        <3>2. SameRelease(items'[j], items[j]) /\ items'[j].main = items[j].main /\ items'[j].preview = items[j].preview
            BY <3>1, <1>5
        <3>3. QED
            BY <3>1, <3>2, <1>2 DEF SpaceInv, ItemsSound, SameRelease
    <2>2. QED
        BY <2>1 DEF ItemsSound
<1>14. EventsSound'
    <2>1. ASSUME NEW j \in Items PROVE EventsOf(j)'
        <3>1. CASE j = i
            <4>1. \A e \in events' : e.item # i
                BY <1>10
            <4>2. QED
                BY <4>1, <3>1, <1>7 DEF EventsOf
        <3>2. CASE j # i /\ j \notin Owners(i)
            <4>1. \A e : e.item = j => (e \in events' <=> e \in events)
                BY <3>2, <1>10
            <4>2. EventsOf(j) /\ (Active(j)' <=> Active(j)) /\ items'[j].version = items[j].version
                  /\ items'[j].released = items[j].released
                BY <3>2, <1>5, <1>7 DEF SpaceInv, EventsSound, SameRelease
            <4>3. QED
                BY <4>1, <4>2 DEF EventsOf
        <3>3. CASE j \in Owners(i)
            <4> DEFINE n == items[j].version + 1
            <4>1. j # i /\ Active(j) /\ Active(j)' /\ items'[j].version = n /\ items'[j].released = items[j].released
                BY <3>3, <1>3, <1>5, <1>7, <1>10 DEF SameRelease
            <4>2. EventsOf(j) /\ n \in Nat /\ items[j].version \in Nat
                BY <1>1 DEF SpaceInv, EventsSound, SpaceShape, ItemRow
            <4>3. PICK new : new = update(j)
                OBVIOUS
            <4>4. /\ new.item = j /\ new.version = n /\ new.type = "updated" /\ new \in events'
                  /\ \A e \in events' : e.item = j => e \in events \/ e = new
                  /\ \A e \in events : e.item = j => e \in events'
                BY <3>3, <4>1, <4>3, <1>10
            <4>5. ASSUME NEW v \in 1 .. n PROVE \E e \in events' : e.item = j /\ e.version = v
                <5>1. CASE v = n
                    BY <5>1, <4>4
                <5>2. CASE v # n
                    <6>1. v \in 1 .. items[j].version
                        BY <5>2, <4>2
                    <6>2. QED
                        BY <6>1, <4>1, <4>2, <4>4 DEF EventsOf
                <5>3. QED
                    BY <5>1, <5>2
            <4>6. ASSUME NEW e \in events', e.item = j
                  PROVE  e.version \in 1 .. n /\ (e.type = "released" => items[j].released # Never)
                <5>1. CASE e = new
                    BY <5>1, <4>2, <4>4
                <5>2. CASE e \in events
                    <6>1. e.version \in 1 .. items[j].version
                        BY <5>2, <4>6, <4>2 DEF EventsOf
                    <6>2. QED
                        BY <6>1, <5>2, <4>6, <4>2 DEF EventsOf
                <5>3. QED
                    BY <5>1, <5>2, <4>4, <4>6
            <4>7. ASSUME NEW e \in events', NEW f \in events', e.item = j, f.item = j,
                         e.version = f.version \/ (e.type = "released" /\ f.type = "released")
                  PROVE  e = f
                <5>1. \A x \in events : x.item = j => x.version # n
                    BY <4>2 DEF EventsOf
                <5>2. CASE e \in events /\ f \in events
                    BY <5>2, <4>2, <4>7 DEF EventsOf
                <5>3. CASE e = new \/ f = new
                    BY <5>1, <5>3, <4>4, <4>7
                <5>4. QED
                    BY <5>2, <5>3, <4>4, <4>7
            <4>8. QED
                BY <4>1, <4>5, <4>6, <4>7 DEF EventsOf
        <3>4. QED
            BY <3>1, <3>2, <3>3
    <2>2. QED
        BY <2>1 DEF EventsSound
<1>15. LinksSound'
    <2>1. ASSUME NEW l \in links' PROVE Active(l[1])' /\ CanBeLinked(l[2])' /\ l[1] # l[2]
        <3>1. l \in links /\ l[1] # i /\ l[2] # i
            BY DEF DeleteItem, IncomingLinks
        <3>2. l[1] \in Items /\ l[2] \in Items /\ Active(l[1]) /\ CanBeLinked(l[2]) /\ l[1] # l[2]
            BY <3>1, <1>1 DEF SpaceInv, LinksSound, SpaceShape
        <3>3. SameRelease(items'[l[2]], items[l[2]]) /\ Active(l[1])' /\ Active(l[2])'
            BY <3>1, <3>2, <1>5, <1>7 DEF CanBeLinked
        <3>4. QED
            BY <3>2, <3>3 DEF CanBeLinked, SameRelease
    <2>2. QED
        BY <2>1 DEF LinksSound
<1>16. BindingSound'
    <2>1. \A r \in references : r.item \in Items /\ Active(r.item)
        BY <1>1 DEF SpaceInv, BindingSound, SpaceShape
    <2>2. \A r \in references' : Active(r.item)'
        BY <2>1, <1>7, <1>9 DEF ReferencesOf
    <2>3. ASSUME ~ ended', NEW p \in Photos, NEW j \in Items
          PROVE  binding'[p] = j <=> \E r \in references' : r.item = j /\ r.photo = p
        <3>1. \A k \in Items : binding[p] = k <=> \E r \in references : r.item = k /\ r.photo = p
            BY <2>3, <1>2 DEF SpaceInv, BindingSound
        <3>2. binding'[p] = IF (\E r \in ReferencesOf(i) : r.photo = p) /\ binding[p] = i THEN "deleted" ELSE binding[p]
            BY DEF DeleteItem, ReconcileMedia
        <3>3. j # "deleted"
            BY SpaceAssumption DEF Items
        <3>4. CASE j = i
            BY <3>1, <3>2, <3>3, <3>4, <1>9 DEF ReferencesOf
        <3>5. CASE j # i
            BY <3>1, <3>2, <3>3, <3>5, <1>9 DEF ReferencesOf
        <3>6. QED
            BY <3>4, <3>5
    <2>4. QED
        BY <2>2, <2>3 DEF BindingSound
<1>17. KeysSound'
    <2> SUFFICES ASSUME ~ ended PROVE itemKeys' = UNION {KeysOfItem(j)' : j \in {k \in Items : Active(k)'}}
        BY <1>2 DEF KeysSound
    <2>1. itemKeys = UNION {KeysOfItem(j) : j \in {k \in Items : Active(k)}}
        BY DEF SpaceInv, KeysSound
    <2>2. itemKeys' = itemKeys \ KeysOfItem(i)
        BY DEF DeleteItem
    <2>3. \A j \in Items : j # i => KeysOfItem(j)' = KeysOfItem(j) /\ KeysOfItem(j) \cap KeysOfItem(i) = {}
        BY <1>5 DEF KeysOfItem, KeyOf
    <2>4. QED
        BY <2>1, <2>2, <2>3, <1>7
<1>18. ReleasesSound'
    <2>1. ASSUME NEW r \in releases'
          PROVE  /\ r.item \in created'
                 /\ Active(r.item)' => r.generation <= items'[r.item].generation
                 /\ r.since # Never => r.at <= clock'
        <3>1. r \in releases /\ r.item \in Items
            BY <1>1, <1>8 DEF SpaceShape, ReleaseRow
        <3>2. Active(r.item)' => Active(r.item) /\ items'[r.item].generation = items[r.item].generation
            BY <3>1, <1>5, <1>7 DEF SameRelease
        <3>3. QED
            BY <3>1, <3>2, <1>2 DEF SpaceInv, ReleasesSound
    <2>2. QED
        BY <2>1 DEF ReleasesSound
<1>19. ArmedSound'
    <2> SUFFICES ASSUME ~ ended', NEW j \in Items \ dropped', Awaiting(j)' PROVE ArmedOnce(j)'
        BY DEF ArmedSound
    <2>1. j # i /\ SameRelease(items'[j], items[j]) /\ Awaiting(j)
        BY <1>5, <1>7 DEF Awaiting, SameRelease
    <2>2. ArmedOnce(j)
        BY <2>1, <1>2 DEF SpaceInv, ArmedSound
    <2>3. clock' \in Nat /\ clock <= clock' /\ Pending' = Pending
        BY <1>1, <1>2 DEF SpaceShape, Pending
    <2>4. \A r \in releases \cup releases' : r.item = j => (r \in releases' <=> r \in releases)
        BY <2>1, <1>8
    <2>5. QED
        BY <2>1, <2>2, <2>3, <2>4, <1>1, ArmedKept DEF SameRelease
<1>20. QED
    BY <1>12, <1>13, <1>14, <1>15, <1>16, <1>17, <1>18, <1>19 DEF SpaceInv

\* An item is released now: its event is the only one of its kind.
LEMMA ReleasedNow ==
    ASSUME SpaceInv, NEW i \in Items, Active(i), NEW now \in Nat, items[i].released = Never,
           items[i].mode = "scheduled" => items[i].unlock <= now,
           items' = [items EXCEPT ![i].released = now, ![i].version = @ + 1],
           events' = AppendEvent(events, i, "released", items[i].version + 1),
           UNCHANGED <<links, references, binding, itemKeys, dropped, created, required, requiring, unsealed,
                       deletions, breakupAt, ended, clock>>,
           releases' \subseteq releases, \A r \in releases : r.item # i => r \in releases'
    PROVE  SpaceInv'
<1>1. SpaceShape /\ items[i] \in ItemRow /\ items[i].version + 1 \in Nat /\ now # Never /\ now \in Int
    BY DEF SpaceInv, SpaceShape, ItemRow, Never
<1>2. PICK row : row = [items[i] EXCEPT !.released = now, !.version = items[i].version + 1]
    OBVIOUS
<1>3. /\ row \in ItemRow /\ row.version = items[i].version + 1 /\ row.released = now /\ row.state = items[i].state
      /\ row.kind = items[i].kind /\ row.mode = items[i].mode /\ row.unlock = items[i].unlock
      /\ row.generation = items[i].generation /\ row.main = items[i].main /\ row.preview = items[i].preview
    BY <1>1, <1>2 DEF ItemRow
<1>4. items' = [items EXCEPT ![i] = row]
    <2>1. items' = [items EXCEPT ![i] = [items[i] EXCEPT !.released = now, !.version = items[i].version + 1]]
        BY <1>1 DEF SpaceShape
    <2>2. QED
        BY <2>1, <1>2
<1>5. Rewritten(i, row, "released")
    BY <1>1, <1>3, <1>4 DEF Rewritten, Active
<1>6. row.mode \in ReleaseModes(row.kind) /\ (row.mode = "scheduled" /\ row.released # Never => row.released >= row.unlock)
    <2>1. items[i].unlock \in Int
        BY <1>1 DEF ItemRow
    <2>2. QED
        BY <2>1, <1>3 DEF SpaceInv, ItemsSound
<1>7. CanBeLinked(i) => row.mode = "none" \/ row.released # Never
    BY <1>1, <1>3
<1>8. /\ items' \in [Items -> ItemRow] /\ events' \subseteq SpaceEvent
      /\ ItemsSound' /\ EventsSound' /\ LinksSound' /\ BindingSound' /\ KeysSound'
      /\ items'[i] = row /\ \A j \in Items : j # i => items'[j] = items[j]
    BY <1>3, <1>5, <1>6, <1>7, ReleaseRewritten
<1>9. SpaceShape'
    BY <1>1, <1>8 DEF SpaceShape
<1>10. ReleasesSound'
    <2>1. ASSUME NEW r \in releases'
          PROVE  /\ r.item \in created'
                 /\ Active(r.item)' => r.generation <= items'[r.item].generation
                 /\ r.since # Never => r.at <= clock'
        <3>1. r \in releases /\ r.item \in Items
            BY <1>1 DEF SpaceShape, ReleaseRow
        <3>2. items'[r.item].state = items[r.item].state /\ items'[r.item].generation = items[r.item].generation
            BY <3>1, <1>3, <1>8
        <3>3. QED
            BY <3>1, <3>2 DEF SpaceInv, ReleasesSound, Active
    <2>2. QED
        BY <2>1 DEF ReleasesSound
<1>11. ArmedSound'
    <2> SUFFICES ASSUME ~ ended', NEW j \in Items \ dropped', Awaiting(j)' PROVE ArmedOnce(j)'
        BY DEF ArmedSound
    <2>1. j # i
        BY <1>1, <1>3, <1>8 DEF Awaiting
    <2>2. Awaiting(j) /\ ArmedOnce(j)
        BY <2>1, <1>8 DEF Awaiting, Active, SpaceInv, ArmedSound
    <2>3. clock' \in Nat /\ clock <= clock' /\ Pending' = Pending
        BY <1>1 DEF SpaceShape, Pending
    <2>4. \A r \in releases \cup releases' : r.item = j => (r \in releases' <=> r \in releases)
        BY <2>1
    <2>5. QED
        BY <2>1, <2>2, <2>3, <2>4, <1>1, <1>8, ArmedKept
<1>12. QED
    BY <1>8, <1>9, <1>10, <1>11 DEF SpaceInv

LEMMA ReleaseStep ==
    ASSUME SpaceInv, NEW a \in Partners, NEW i \in Items, Active(i), NEW now \in BeganAt, Release(a, i, now)
    PROVE  SpaceInv'
<1>1. SpaceShape /\ now \in Nat /\ items[i].version \in Nat
    BY NowPast DEF SpaceInv, SpaceShape, ItemRow
<1>2. items' = [items EXCEPT ![i].released = now, ![i].version = @ + 1]
    BY <1>1 DEF Release, UpdateRoot, SpaceShape, ItemRow
<1>3. items[i].released = Never /\ items[i].mode # "scheduled"
    BY DEF Release, CanRelease
<1>4. events' = AppendEvent(events, i, "released", items[i].version + 1) /\ releases' = releases
    BY DEF Release
<1>5. UNCHANGED <<links, references, binding, itemKeys, dropped, created, required, requiring, unsealed,
                  deletions, breakupAt, ended, clock>>
    BY DEF Release
<1>6. QED
    BY <1>1, <1>2, <1>3, <1>4, <1>5, ReleasedNow

LEMMA CreateItemStep ==
    ASSUME SpaceInv, NEW i \in Items \ created, NEW now \in BeganAt, NEW kind \in KindsOf(i), NEW preview \in BOOLEAN,
           NEW refs \in ReferencesTo(i), NEW targets \in TargetSets, NEW mode \in ReleaseModes(kind),
           NEW unlock \in Int, CreateItem(i, kind, mode, unlock, preview, refs, targets, now)
    PROVE  SpaceInv'
<1>1. SpaceShape /\ ~ Active(i) /\ i \in Items /\ now \in Nat /\ now <= clock /\ now # Never
    BY NowPast DEF CreateItem, MayCreate, SpaceInv
<1>2. /\ UNCHANGED <<dropped, required, requiring, deletions, breakupAt, ended, clock>> /\ created' = created \cup {i}
      /\ unsealed' = IF requiring THEN unsealed \cup {i} ELSE unsealed
    BY DEF CreateItem
<1>3. PICK fields : fields = ReleaseFields(mode, unlock, now)
    OBVIOUS
<1>4. /\ fields.mode = mode /\ fields.unlock = (IF mode = "scheduled" THEN unlock ELSE Never)
      /\ fields.released = (IF mode = "immediate" THEN now ELSE Never)
      /\ fields.unlock \in Int /\ fields.released \in Int
    BY <1>1, <1>3 DEF ReleaseFields, Never
<1>5. PICK row : row = [state |-> "active", kind |-> kind, mode |-> fields.mode, generation |-> 1, unlock |-> fields.unlock,
                        released |-> fields.released, version |-> 1, preview |-> IF preview THEN Written(1) ELSE Empty,
                        main |-> Written(1)]
    OBVIOUS
<1>6. kind \in Kinds /\ mode \in Modes
    BY DEF KindsOf, Kinds, Modes, ReleaseModes
<1>7. Written(1) \in {0, 1} /\ (required => Written(1) = 1)
    BY DEF Written
<1>8. /\ row \in ItemRow /\ row.state = "active" /\ row.kind = kind /\ row.mode = mode /\ row.generation = 1
      /\ row.unlock = fields.unlock /\ row.released = fields.released /\ row.version = 1 /\ row.main = Written(1)
      /\ row.preview = (IF preview THEN Written(1) ELSE Empty)
    <2>1. (IF preview THEN Written(1) ELSE Empty) \in Int /\ Written(1) \in Nat
        BY <1>7 DEF Empty
    <2>2. QED
        BY <2>1, <1>4, <1>5, <1>6 DEF ItemRow
<1>9. items' = [items EXCEPT ![i] = row]
    BY <1>3, <1>5 DEF CreateItem, InsertItem
<1>10. items' \in [Items -> ItemRow] /\ items'[i] = row /\ \A j \in Items : j # i => items'[j] = items[j]
    BY <1>1, <1>8, <1>9, ItemWritten
<1>11. Active(i)' /\ \A j \in Items : j # i => (Active(j)' <=> Active(j))
    BY <1>8, <1>10 DEF Active
<1>12. PICK new : new = [item |-> i, type |-> "created", version |-> 1]
    OBVIOUS
<1>13. /\ events' = events \cup {new} /\ new \in SpaceEvent /\ new.item = i /\ new.version = 1 /\ new.type = "created"
       /\ \A e \in events : e.item # i
    BY <1>1, <1>12 DEF CreateItem, AppendEvent, SpaceEvent, SpaceInv, EventsSound, EventsOf
<1>14. PICK action : action = ArmRelease(i, 1, unlock)
    OBVIOUS
<1>15. /\ action \in ReleaseRow /\ action.item = i /\ action.generation = 1 /\ action.at = unlock /\ action.since = Never
       /\ releases' = IF mode = "scheduled" THEN releases \cup {action} ELSE releases
       /\ \A r \in releases : r.item # i
    <2>1. \A r \in releases : r.item # i
        BY DEF SpaceInv, ReleasesSound
    <2>2. releases' = IF mode = "scheduled" THEN releases \cup {action} ELSE releases
        BY <1>14 DEF CreateItem
    <2>3. QED
        BY <2>1, <2>2, <1>14 DEF ArmRelease, ReleaseRow, Never
<1>16. /\ refs \subseteq [item : Items, photo : Photos] /\ \A r \in refs : r.item = i
       /\ references' = references \cup refs /\ binding' = ReconcileMedia(i, {}, refs)
       /\ \A r \in refs : binding[r.photo] = "free"
       /\ \A r \in references : r.item # i
    BY <1>1 DEF ReferencesTo, ReferenceSets, CreateItem, MayCreate, BindReferences, SpaceInv, BindingSound
<1>17. targets \subseteq Items /\ links' = links \cup ({i} \X targets) /\ \A t \in targets : t # i /\ CanBeLinked(t)
    BY DEF TargetSets, CreateItem, MayCreate
<1>18. SpaceShape'
    <2>1. events' \subseteq SpaceEvent /\ releases' \subseteq ReleaseRow
        BY <1>1, <1>13, <1>15 DEF SpaceShape
    <2>2. QED
        BY <2>1, <1>1, <1>2, <1>10, <1>16, <1>17 DEF SpaceShape
<1>19. ItemsSound'
    <2>1. ASSUME NEW j \in Items, Active(j)'
          PROVE  /\ j \in created' /\ items'[j].mode \in ReleaseModes(items'[j].kind)
                 /\ items'[j].mode = "scheduled" /\ items'[j].released # Never => items'[j].released >= items'[j].unlock
                 /\ requiring' => j \in unsealed'
                 /\ required' => j \in unsealed' \/ (items'[j].main # 0 /\ items'[j].preview # 0)
        <3>1. CASE j = i
            BY <3>1, <1>2, <1>4, <1>7, <1>8, <1>10 DEF Empty
        <3>2. CASE j # i
            BY <3>2, <2>1, <1>2, <1>10, <1>11 DEF SpaceInv, ItemsSound
        <3>3. QED
            BY <3>1, <3>2
    <2>2. QED
        BY <2>1 DEF ItemsSound
<1>20. EventsSound'
    <2>1. ASSUME NEW j \in Items PROVE EventsOf(j)'
        <3>1. CASE j = i
            <4>1. \A e \in events' : e.item = i => e = new
                BY <1>13
            <4>2. items'[i].version = 1 /\ 1 \in 1 .. 1 /\ \A v \in 1 .. 1 : v = 1
                BY <1>8, <1>10
            <4>3. new \in events'
                BY <1>13
            <4>4. QED
                BY <3>1, <4>1, <4>2, <4>3, <1>11, <1>13 DEF EventsOf
        <3>2. CASE j # i
            <4>1. \A e : e.item = j => (e \in events' <=> e \in events)
                BY <3>2, <1>13
            <4>2. EventsOf(j) /\ (Active(j)' <=> Active(j)) /\ items'[j] = items[j]
                BY <3>2, <1>10, <1>11 DEF SpaceInv, EventsSound
            <4>3. QED
                BY <4>1, <4>2 DEF EventsOf
        <3>3. QED
            BY <3>1, <3>2
    <2>2. QED
        BY <2>1 DEF EventsSound
<1>21. LinksSound'
    <2>1. ASSUME NEW l \in links' PROVE Active(l[1])' /\ CanBeLinked(l[2])' /\ l[1] # l[2]
        <3>1. l[2] \in Items /\ l[2] # i /\ CanBeLinked(l[2]) /\ l[1] # l[2] /\ l[1] \in Items
              /\ (l[1] = i \/ Active(l[1]))
            <4>1. CASE l \in links
                BY <4>1, <1>1 DEF SpaceInv, LinksSound, SpaceShape, CanBeLinked
            <4>2. CASE l \in {i} \X targets
                BY <4>2, <1>1, <1>17
            <4>3. QED
                BY <4>1, <4>2, <1>17
        <3>2. CanBeLinked(l[2])'
            BY <3>1, <1>10, <1>11 DEF CanBeLinked
        <3>3. Active(l[1])'
            BY <3>1, <1>11
        <3>4. QED
            BY <3>1, <3>2, <3>3
    <2>2. QED
        BY <2>1 DEF LinksSound
<1>22. BindingSound'
    <2>1. \A r \in references' : Active(r.item)'
        <3>1. \A r \in references : r.item \in Items /\ Active(r.item)
            BY <1>1 DEF SpaceInv, BindingSound, SpaceShape
        <3>2. QED
            BY <3>1, <1>11, <1>16
    <2>2. ASSUME ~ ended', NEW p \in Photos, NEW j \in Items
          PROVE  binding'[p] = j <=> \E r \in references' : r.item = j /\ r.photo = p
        <3>1. binding[p] = j <=> \E r \in references : r.item = j /\ r.photo = p
            BY <2>2, <1>2 DEF SpaceInv, BindingSound
        <3>2. binding'[p] = IF \E r \in refs : r.photo = p THEN i ELSE binding[p]
            BY <1>16 DEF ReconcileMedia
        <3>3. j # "free"
            BY SpaceAssumption DEF Items
        <3>4. CASE \E r \in refs : r.photo = p
            <4>1. binding[p] = "free" /\ binding'[p] = i
                BY <3>2, <3>4, <1>16
            <4>2. ~ \E r \in references : r.item = j /\ r.photo = p
                BY <3>1, <3>3, <4>1
            <4>3. (\E r \in references' : r.item = j /\ r.photo = p) <=> j = i
                BY <3>4, <4>2, <1>16
            <4>4. QED
                BY <4>1, <4>3
        <3>5. CASE ~ \E r \in refs : r.photo = p
            BY <3>1, <3>2, <3>5, <1>16
        <3>6. QED
            BY <3>4, <3>5
    <2>3. QED
        BY <2>1, <2>2 DEF BindingSound
<1>23. KeysSound'
    <2> SUFFICES ASSUME ~ ended PROVE itemKeys' = UNION {KeysOfItem(j)' : j \in {k \in Items : Active(k)'}}
        BY <1>2 DEF KeysSound
    <2>1. itemKeys = UNION {KeysOfItem(j) : j \in {k \in Items : Active(k)}}
        BY DEF SpaceInv, KeysSound
    <2>2. KeysOfItem(i)' = KeyOf(i, "main", Written(1)) \cup (IF preview THEN KeyOf(i, "preview", Written(1)) ELSE {})
        BY <1>8, <1>10 DEF KeysOfItem, KeyOf, Empty
    <2>3. itemKeys' = itemKeys \cup KeysOfItem(i)'
        BY <2>2 DEF CreateItem
    <2>4. \A j \in Items : j # i => KeysOfItem(j)' = KeysOfItem(j)
        BY <1>10 DEF KeysOfItem, KeyOf
    <2>5. QED
        BY <2>1, <2>3, <2>4, <1>1, <1>11
<1>24. ReleasesSound'
    <2>1. ASSUME NEW r \in releases'
          PROVE  /\ r.item \in created'
                 /\ Active(r.item)' => r.generation <= items'[r.item].generation
                 /\ r.since # Never => r.at <= clock'
        <3>1. CASE r = action
            BY <3>1, <1>2, <1>8, <1>10, <1>15
        <3>2. CASE r \in releases
            <4>1. r.item \in Items /\ r.item # i
                BY <3>2, <1>1, <1>15 DEF SpaceShape, ReleaseRow
            <4>2. QED
                BY <3>2, <4>1, <1>2, <1>10, <1>11 DEF SpaceInv, ReleasesSound
        <3>3. QED
            BY <3>1, <3>2, <1>15
    <2>2. QED
        BY <2>1 DEF ReleasesSound
<1>25. ArmedSound'
    <2> SUFFICES ASSUME ~ ended', NEW j \in Items \ dropped', Awaiting(j)' PROVE ArmedOnce(j)'
        BY DEF ArmedSound
    <2>1. clock' \in Nat /\ clock <= clock' /\ Pending' = Pending
        BY <1>1, <1>2 DEF SpaceShape, Pending
    <2>2. CASE j # i
        <3>1. Awaiting(j)
            BY <2>2, <1>10, <1>11 DEF Awaiting
        <3>2. ArmedOnce(j)
            BY <3>1, <1>2 DEF SpaceInv, ArmedSound
        <3>3. \A r \in releases \cup releases' : r.item = j => (r \in releases' <=> r \in releases)
            BY <2>2, <1>15
        <3>4. QED
            BY <3>2, <3>3, <2>1, <2>2, <1>1, <1>10, ArmedKept
    <2>3. CASE j = i
        <3>1. mode = "scheduled"
            BY <2>3, <1>8, <1>10 DEF Awaiting
        <3>2. action \in releases' /\ \A s \in releases' : s.item = i => s = action
            BY <3>1, <1>15
        <3>3. action.at <= Later(items'[i].unlock, clock')
            BY <3>1, <2>1, <1>4, <1>8, <1>10, <1>15 DEF Later
        <3>4. QED
            BY <3>2, <3>3, <2>3, <1>8, <1>10, <1>15 DEF ArmedOnce
    <2>4. QED
        BY <2>2, <2>3
<1>26. QED
    BY <1>18, <1>19, <1>20, <1>21, <1>22, <1>23, <1>24, <1>25 DEF SpaceInv

LEMMA SameReleaseSame == ASSUME items' = items PROVE \A j \in Items : SameRelease(items'[j], items[j])
    BY DEF SameRelease

LEMMA ItemsAlone ==
    ASSUME SpaceInv, UNCHANGED <<items, links, references, binding, itemKeys, events, created, required,
                                 requiring, unsealed>>,
           ~ ended' => ~ ended
    PROVE  ItemsSound' /\ EventsSound' /\ LinksSound' /\ BindingSound' /\ KeysSound'
<1>1. ItemsSound' /\ LinksSound'
    BY DEF SpaceInv, ItemsSound, LinksSound, Active, CanBeLinked
<1>2. EventsSound'
    BY DEF SpaceInv, EventsSound, EventsOf, Active
<1>3. BindingSound' /\ KeysSound'
    BY BindingKept, KeysKept DEF SpaceInv
<1>4. QED
    BY <1>1, <1>2, <1>3

\* The actions are moved, and no further than their items wait.
LEMMA ActionsMoved ==
    ASSUME SpaceInv, NEW f \in [releases -> ReleaseRow], releases' = {f[r] : r \in releases},
           UNCHANGED <<items, links, references, binding, itemKeys, events, created, required, requiring,
                       unsealed, breakupAt, ended, clock>>,
           dropped \subseteq dropped', deletions' \in [Partners -> Nat \cup {Never}],
           \A r \in releases : /\ f[r].item = r.item /\ f[r].generation = r.generation
                               /\ f[r].since # Never => f[r].at <= clock,
           ~ ended /\ Pending' = {} => \A r \in releases :
               Awaiting(r.item) /\ r.generation = items[r.item].generation =>
                   \/ Pending = {} /\ f[r].at <= r.at
                   \/ f[r].at <= Later(items[r.item].unlock, clock)
    PROVE  SpaceInv'
<1>1. SpaceShape
    BY DEF SpaceInv
<1>2. ItemsSound' /\ EventsSound' /\ LinksSound' /\ BindingSound' /\ KeysSound'
    BY ItemsAlone
<1>3. SpaceShape'
    <2>1. releases' \subseteq ReleaseRow
        OBVIOUS
    <2>2. QED
        BY <2>1, <1>1 DEF SpaceShape
<1>4. ReleasesSound'
    <2>1. ASSUME NEW q \in releases'
          PROVE  /\ q.item \in created'
                 /\ Active(q.item)' => q.generation <= items'[q.item].generation
                 /\ q.since # Never => q.at <= clock'
        <3>1. PICK r \in releases : q = f[r]
            OBVIOUS
        <3>2. QED
            BY <3>1 DEF SpaceInv, ReleasesSound, Active
    <2>2. QED
        BY <2>1 DEF ReleasesSound
<1>5. ArmedSound'
    <2> SUFFICES ASSUME ~ ended, NEW j \in Items \ dropped', Awaiting(j)' PROVE ArmedOnce(j)'
        BY DEF ArmedSound
    <2>1. Awaiting(j)
        BY DEF Awaiting, Active
    <2>2. ArmedOnce(j)
        BY <2>1 DEF SpaceInv, ArmedSound
    <2>3. PICK r \in releases :
              /\ r.item = j /\ r.generation = items[j].generation
              /\ \A s \in releases : s.item = j /\ s.generation = r.generation => s = r
              /\ Pending = {} => r.at <= Later(items[j].unlock, clock)
        BY <2>2 DEF ArmedOnce
    <2>4. f[r] \in releases' /\ f[r].item = j /\ f[r].generation = items'[j].generation
        BY <2>3
    <2>5. \A s \in releases' : s.item = j /\ s.generation = f[r].generation => s = f[r]
        <3>1. ASSUME NEW s \in releases', s.item = j, s.generation = f[r].generation PROVE s = f[r]
            <4>1. PICK q \in releases : s = f[q]
                OBVIOUS
            <4>2. q.item = j /\ q.generation = r.generation
                BY <3>1, <4>1
            <4>3. QED
                BY <4>1, <4>2, <2>3
        <3>2. QED
            BY <3>1
    <2>6. Pending' = {} => f[r].at <= Later(items[j].unlock, clock)
        <3>1. f[r].at \in Int /\ r.at \in Int /\ Later(items[j].unlock, clock) \in Int
            BY <1>1 DEF SpaceShape, ReleaseRow, ItemRow, Later
        <3>2. QED
            BY <3>1, <2>1, <2>3
    <2>7. QED
        BY <2>4, <2>5, <2>6 DEF ArmedOnce
<1>6. QED
    BY <1>2, <1>3, <1>4, <1>5 DEF SpaceInv

\* One action becomes another one for the same release.
LEMMA ActionReplaced ==
    ASSUME SpaceInv, NEW r \in releases, NEW q \in ReleaseRow, releases' = (releases \ {r}) \cup {q},
           UNCHANGED <<items, links, references, binding, itemKeys, events, created, required, requiring,
                       unsealed, deletions, breakupAt, ended, clock>>,
           dropped \subseteq dropped', q.item = r.item /\ q.generation = r.generation,
           q.since # Never => q.at <= clock,
           Pending = {} => q.at <= r.at \/ q.at <= Later(items[r.item].unlock, clock)
    PROVE  SpaceInv'
<1>1. SpaceShape /\ ReleasesSound
    BY DEF SpaceInv
<1> DEFINE f == [s \in releases |-> IF s = r THEN q ELSE s]
<1>2. \A s \in releases : f[s] = IF s = r THEN q ELSE s
    OBVIOUS
<1>3. f \in [releases -> ReleaseRow] /\ releases' = {f[s] : s \in releases}
    BY <1>1 DEF SpaceShape
<1> HIDE DEF f
<1>4. Pending' = Pending /\ deletions' \in [Partners -> Nat \cup {Never}]
    BY <1>1 DEF Pending, SpaceShape
<1>5. \A s \in releases : /\ f[s].item = s.item /\ f[s].generation = s.generation
                          /\ f[s].since # Never => f[s].at <= clock
    BY <1>1, <1>2 DEF ReleasesSound
<1>6. ASSUME Pending = {}, NEW s \in releases
      PROVE  f[s].at <= s.at \/ f[s].at <= Later(items[s.item].unlock, clock)
    <2>1. CASE s = r
        BY <2>1, <1>2, <1>6
    <2>2. CASE s # r
        <3>1. s.at \in Int
            BY <1>1 DEF SpaceShape, ReleaseRow
        <3>2. QED
            BY <3>1, <2>2, <1>2
    <2>3. QED
        BY <2>1, <2>2
<1>7. QED
    BY <1>3, <1>4, <1>5, <1>6, ActionsMoved

LEMMA ClaimStep ==
    ASSUME SpaceInv, NEW r \in releases, ClaimRelease(r) PROVE SpaceInv'
<1>1. r \in ReleaseRow /\ clock \in Nat
    BY DEF SpaceInv, SpaceShape
<1>2. PICK q : q = [r EXCEPT !.since = clock]
    OBVIOUS
<1>3. q \in ReleaseRow /\ q.item = r.item /\ q.generation = r.generation /\ q.at = r.at /\ q.at \in Int
    BY <1>1, <1>2 DEF ReleaseRow
<1>4. releases' = (releases \ {r}) \cup {q} /\ q.at <= clock /\ q.at <= r.at
    BY <1>1, <1>2, <1>3 DEF ClaimRelease
<1>5. UNCHANGED <<items, links, references, binding, itemKeys, events, dropped, created, required, requiring,
                  unsealed, deletions, breakupAt, ended, clock>>
    BY DEF ClaimRelease
<1>6. QED
    BY <1>3, <1>4, <1>5, ActionReplaced

\* An action is given up that is no longer of its item, or whose partnership is at its end.
LEMMA ActionDropped ==
    ASSUME SpaceInv, NEW r \in releases, releases' = releases \ {r},
           UNCHANGED <<items, links, references, binding, itemKeys, events, created, required, requiring,
                       unsealed, deletions, breakupAt, ended, clock>>,
           dropped \subseteq dropped', ended \/ ~ CurrentGeneration(r) \/ r.item \in dropped'
    PROVE  SpaceInv'
<1>1. SpaceShape /\ clock' \in Nat /\ clock <= clock'
    BY DEF SpaceInv, SpaceShape
<1>2. ItemsSound' /\ EventsSound' /\ LinksSound' /\ BindingSound' /\ KeysSound'
    BY ItemsAlone
<1>3. ReleasesSound'
    BY <1>1, SameReleaseSame, ReleasesKept DEF SpaceInv
<1>4. SpaceShape'
    BY <1>1 DEF SpaceShape
<1>5. ArmedSound'
    <2> SUFFICES ASSUME ~ ended, NEW j \in Items \ dropped', Awaiting(j)' PROVE ArmedOnce(j)'
        BY DEF ArmedSound
    <2>1. Awaiting(j) /\ Pending' = Pending
        BY DEF Awaiting, Active, Pending
    <2>2. ArmedOnce(j)
        BY <2>1 DEF SpaceInv, ArmedSound
    <2>3. PICK q \in releases :
              /\ q.item = j /\ q.generation = items[j].generation
              /\ \A s \in releases : s.item = j /\ s.generation = q.generation => s = q
              /\ Pending = {} => q.at <= Later(items[j].unlock, clock)
        BY <2>2 DEF ArmedOnce
    <2>4. q # r
        BY <2>1, <2>3 DEF CurrentGeneration, Awaiting
    <2>5. QED
        BY <2>1, <2>3, <2>4 DEF ArmedOnce
<1>6. QED
    BY <1>2, <1>3, <1>4, <1>5 DEF SpaceInv

LEMMA ExecuteStep ==
    ASSUME SpaceInv, NEW now \in BeganAt, NEW r \in releases, ExecuteRelease(r, now) PROVE SpaceInv'
<1>1. SpaceShape /\ r \in ReleaseRow /\ r.item \in Items /\ now \in Nat /\ now <= clock
    BY NowPast DEF SpaceInv, SpaceShape, ReleaseRow
<1>2. UNCHANGED <<links, references, binding, itemKeys, created, required, requiring, unsealed, deletions,
                  breakupAt, ended, clock>>
    BY DEF ExecuteRelease
<1>3. CASE ScheduledDecision(r, now) = "stale"
    <2>1. releases' = releases \ {r} /\ UNCHANGED <<items, events>> /\ dropped \subseteq dropped'
        BY <1>3 DEF ExecuteRelease
    <2>2. ended \/ ~ CurrentGeneration(r)
        BY <1>3 DEF ScheduledDecision
    <2>3. QED
        BY <2>1, <2>2, <1>2, ActionDropped
<1>4. CASE ScheduledDecision(r, now) = "deadline"
    <2>1. releases' = releases \ {r} /\ UNCHANGED <<items, events>> /\ dropped \subseteq dropped' /\ r.item \in dropped'
        BY <1>4 DEF ExecuteRelease
    <2>2. QED
        BY <2>1, <1>2, ActionDropped
<1>5. CASE ScheduledDecision(r, now) = "too_early"
    <2>1. PICK at : at = items[r.item].unlock
        OBVIOUS
    <2>2. PICK q : q = [r EXCEPT !.at = at, !.since = Never]
        OBVIOUS
    <2>3. at \in Int /\ clock \in Nat /\ Never \in Int
        BY <1>1, <2>1 DEF SpaceShape, ItemRow, Never
    <2>4. q \in ReleaseRow /\ q.item = r.item /\ q.generation = r.generation /\ q.at = at /\ q.since = Never
        BY <1>1, <2>2, <2>3 DEF ReleaseRow
    <2>5. releases' = (releases \ {r}) \cup {q} /\ UNCHANGED <<items, events>> /\ dropped \subseteq dropped'
        BY <1>5, <2>1, <2>2 DEF ExecuteRelease, Reschedule
    <2>6. q.at <= Later(items[r.item].unlock, clock)
        BY <2>1, <2>3, <2>4 DEF Later
    <2>7. QED
        BY <2>4, <2>5, <2>6, <1>2, ActionReplaced
<1>6. CASE ScheduledDecision(r, now) = "pause"
    <2>1. Pending # {}
        BY <1>6 DEF ScheduledDecision
    <2>2. PICK at : at = EarliestOf(Pending)
        OBVIOUS
    <2>3. PICK q : q = [r EXCEPT !.at = at, !.since = Never]
        OBVIOUS
    <2>4. at \in Int /\ Never \in Int
        <3>1. at \in Nat
            BY <1>1, <2>1, <2>2, EarliestPending
        <3>2. QED
            BY <3>1 DEF Never
    <2>5. q \in ReleaseRow /\ q.item = r.item /\ q.generation = r.generation /\ q.since = Never
        BY <1>1, <2>3, <2>4 DEF ReleaseRow
    <2>6. releases' = (releases \ {r}) \cup {q} /\ UNCHANGED <<items, events>> /\ dropped \subseteq dropped'
        BY <1>6, <2>2, <2>3 DEF ExecuteRelease, Reschedule
    <2>7. QED
        BY <2>1, <2>5, <2>6, <1>2, ActionReplaced
<1>7. CASE ScheduledDecision(r, now) = "release"
    <2>1. MarkReleased(r, now) /\ dropped' = dropped
        BY <1>7 DEF ExecuteRelease
    <2>2. CurrentGeneration(r) /\ ~ (now < items[r.item].unlock)
        BY <1>7 DEF ScheduledDecision
    <2>3. Active(r.item) /\ items[r.item].released = Never /\ items[r.item].unlock \in Int
        BY <2>2, <1>1 DEF CurrentGeneration, SpaceShape, ItemRow
    <2>4. items[r.item].unlock <= now
        BY <2>2, <2>3, <1>1
    <2>5. PICK i : i = r.item
        OBVIOUS
    <2>6. /\ items' = [items EXCEPT ![i].released = now, ![i].version = @ + 1]
          /\ events' = AppendEvent(events, i, "released", items[i].version + 1)
          /\ releases' \subseteq releases /\ \A s \in releases : s.item # i => s \in releases'
        BY <2>1, <2>5 DEF MarkReleased
    <2>7. i \in Items /\ Active(i) /\ items[i].released = Never /\ items[i].unlock <= now
        BY <2>3, <2>4, <2>5, <1>1
    <2>8. QED
        BY <2>1, <2>6, <2>7, <1>1, <1>2, ReleasedNow
<1>8. ScheduledDecision(r, now) \in {"stale", "deadline", "too_early", "pause", "release"}
    BY DEF ScheduledDecision
<1>9. QED
    BY <1>3, <1>4, <1>5, <1>6, <1>7, <1>8

LEMMA StartDeletionStep ==
    ASSUME SpaceInv, NEW now \in BeganAt, NEW a \in Leavers, StartDeletion(a, now) PROVE SpaceInv'
<1>1. SpaceShape /\ ReleasesSound /\ now \in Nat /\ a \in Partners
    BY NowPast, SpaceAssumption DEF SpaceInv
<1>2. PICK until : until = now + Grace
    OBVIOUS
<1>3. until \in Nat /\ until # Never
    BY <1>1, <1>2, SpaceAssumption DEF Never
<1>4. deletions' = [deletions EXCEPT ![a] = until] /\ releases' = PauseReleases(until)
    BY <1>2 DEF StartDeletion
<1>5. deletions' \in [Partners -> Nat \cup {Never}] /\ deletions'[a] = until
    BY <1>1, <1>3, <1>4 DEF SpaceShape
<1>6. Pending' # {}
    BY <1>1, <1>3, <1>5 DEF Pending
<1> DEFINE f == [r \in releases |-> IF ReleasePending(r) THEN [r EXCEPT !.at = Later(@, until)] ELSE r]
<1>7. releases' = {f[r] : r \in releases}
    BY <1>4 DEF PauseReleases
<1>8. ASSUME NEW r \in releases
      PROVE  /\ f[r] \in ReleaseRow /\ f[r].item = r.item /\ f[r].generation = r.generation
             /\ f[r].since # Never => f[r].at <= clock
    <2>1. r \in ReleaseRow /\ r.at \in Int
        BY <1>1 DEF SpaceShape, ReleaseRow
    <2>2. PICK at : at = Later(r.at, until)
        OBVIOUS
    <2>3. at \in Int
        BY <2>1, <2>2, <1>3 DEF Later
    <2>4. CASE ReleasePending(r)
        <3>1. f[r] = [r EXCEPT !.at = at]
            BY <2>2, <2>4
        <3>2. QED
            BY <3>1, <2>1, <2>3, <2>4 DEF ReleaseRow, ReleasePending
    <2>5. CASE ~ ReleasePending(r)
        BY <2>1, <2>5, <1>1 DEF ReleasesSound
    <2>6. QED
        BY <2>4, <2>5
<1>9. f \in [releases -> ReleaseRow]
    BY <1>8
<1> HIDE DEF f
<1>10. UNCHANGED <<items, links, references, binding, itemKeys, events, dropped, created, required, requiring,
                   unsealed, breakupAt, ended, clock>>
    BY DEF StartDeletion
<1>11. QED
    BY <1>5, <1>6, <1>7, <1>8, <1>9, <1>10, ActionsMoved

LEMMA UndoDeletionStep ==
    ASSUME SpaceInv, NEW now \in BeganAt, NEW a \in Leavers, UndoDeletion(a, now) PROVE SpaceInv'
<1>1. SpaceShape /\ ReleasesSound /\ now \in Nat /\ now <= clock /\ clock \in Nat
    BY NowPast DEF SpaceInv, SpaceShape
<1>2. deletions' = [deletions EXCEPT ![a] = Never] /\ releases' = WakeReleases(now)
    BY DEF UndoDeletion
<1>3. deletions' \in [Partners -> Nat \cup {Never}]
    BY <1>1, <1>2 DEF SpaceShape
<1> DEFINE wakes(r) == /\ ReleasePending(r) /\ r.generation = items[r.item].generation
                       /\ r.at > Later(items[r.item].unlock, now)
           f == [r \in releases |-> IF wakes(r) THEN [r EXCEPT !.at = Later(items[r.item].unlock, now)] ELSE r]
<1>4. releases' = {f[r] : r \in releases}
    BY <1>2 DEF WakeReleases
<1>5. ASSUME NEW r \in releases
      PROVE  /\ f[r] \in ReleaseRow /\ f[r].item = r.item /\ f[r].generation = r.generation
             /\ f[r].since # Never => f[r].at <= clock
             /\ Awaiting(r.item) /\ r.generation = items[r.item].generation
                    => f[r].at <= Later(items[r.item].unlock, clock)
    <2>1. r \in ReleaseRow /\ r.at \in Int /\ items[r.item].unlock \in Int
        BY <1>1 DEF SpaceShape, ReleaseRow, ItemRow
    <2>2. PICK at : at = Later(items[r.item].unlock, now)
        OBVIOUS
    <2>3. at \in Int /\ at <= Later(items[r.item].unlock, clock) /\ clock <= Later(items[r.item].unlock, clock)
        BY <1>1, <2>1, <2>2 DEF Later
    <2>4. Later(items[r.item].unlock, clock) \in Int
        BY <1>1, <2>1 DEF Later
    <2>5. CASE wakes(r)
        <3>1. f[r] = [r EXCEPT !.at = at]
            BY <2>2, <2>5
        <3>2. f[r] \in ReleaseRow /\ f[r].item = r.item /\ f[r].generation = r.generation /\ f[r].at = at
              /\ f[r].since = r.since
            BY <3>1, <2>1, <2>3 DEF ReleaseRow
        <3>3. r.since = Never
            BY <2>5 DEF ReleasePending
        <3>4. QED
            BY <3>2, <3>3, <2>3
    <2>6. CASE ~ wakes(r)
        <3>1. f[r] = r /\ (r.since # Never => r.at <= clock)
            BY <2>6, <1>1 DEF ReleasesSound
        <3>2. ASSUME Awaiting(r.item), r.generation = items[r.item].generation
              PROVE  r.at <= Later(items[r.item].unlock, clock)
            <4>1. CASE r.since = Never
                <5>1. ReleasePending(r)
                    BY <3>2, <4>1 DEF ReleasePending, Awaiting
                <5>2. ~ (r.at > at)
                    BY <5>1, <3>2, <2>2, <2>6
                <5>3. QED
                    BY <5>2, <2>1, <2>3, <2>4
            <4>2. CASE r.since # Never
                BY <4>2, <3>1, <2>1, <2>3, <2>4, <1>1
            <4>3. QED
                BY <4>1, <4>2
        <3>3. QED
            BY <3>1, <3>2, <2>1
    <2>7. QED
        BY <2>5, <2>6
<1>6. f \in [releases -> ReleaseRow]
    BY <1>5
<1> HIDE DEF f
<1>7. UNCHANGED <<items, links, references, binding, itemKeys, events, dropped, created, required, requiring,
                  unsealed, breakupAt, ended, clock>>
    BY DEF UndoDeletion
<1>8. QED
    BY <1>3, <1>4, <1>5, <1>6, <1>7, ActionsMoved

\* The partnership or the clock moves on; the actions that are claimed stay.
LEMMA PartnershipStep ==
    ASSUME SpaceInv,
           (\E now \in BeganAt : StartBreakup(now) \/ EndBreakup(now)) \/ Dissolve \/ Tick \/ UNCHANGED spaceVars
    PROVE  SpaceInv'
<1>1. SpaceShape
    BY DEF SpaceInv
<1>2. /\ UNCHANGED <<items, links, references, binding, itemKeys, events, dropped, created, required,
                     requiring, unsealed>>
      /\ ended' \in BOOLEAN /\ (~ ended' => ~ ended) /\ releases' \subseteq releases
      /\ ended' \/ UNCHANGED <<ended, releases, deletions>>
    BY <1>1 DEF StartBreakup, EndBreakup, Dissolve, Tick, spaceVars, SpaceShape
<1>3. clock' \in Nat /\ clock <= clock' /\ breakupAt' \in Int /\ deletions' \in [Partners -> Nat \cup {Never}]
    <2>1. CASE \E now \in BeganAt : StartBreakup(now) \/ EndBreakup(now)
        <3>1. PICK now \in BeganAt : StartBreakup(now) \/ EndBreakup(now)
            BY <2>1
        <3>2. now \in Nat /\ Grace \in Nat
            BY <1>1, NowPast, SpaceAssumption
        <3>3. QED
            BY <3>1, <3>2, <1>1 DEF StartBreakup, EndBreakup, SpaceShape, Never
    <2>2. CASE Dissolve
        BY <2>2, <1>1 DEF Dissolve, SpaceShape, Never
    <2>3. CASE Tick
        BY <2>3, <1>1 DEF Tick, SpaceShape
    <2>4. CASE UNCHANGED spaceVars
        BY <2>4, <1>1 DEF spaceVars, SpaceShape
    <2>5. QED
        BY <2>1, <2>2, <2>3, <2>4
<1>4. ItemsSound' /\ EventsSound' /\ LinksSound' /\ BindingSound' /\ KeysSound'
    BY <1>2, ItemsAlone
<1>5. SpaceShape'
    BY <1>1, <1>2, <1>3 DEF SpaceShape
<1>6. ReleasesSound'
    BY <1>1, <1>2, <1>3, SameReleaseSame, ReleasesKept DEF SpaceInv
<1>7. ArmedSound'
    <2>1. CASE ended'
        BY <2>1 DEF ArmedSound
    <2>2. CASE ~ ended'
        BY <2>2, <1>1, <1>2, <1>3, SameReleaseSame, ArmedSoundKept DEF SpaceInv
    <2>3. QED
        BY <2>1, <2>2
<1>8. QED
    BY <1>4, <1>5, <1>6, <1>7 DEF SpaceInv

LEMMA ContentGoneStep ==
    ASSUME SpaceInv, DeleteRelationshipContent PROVE SpaceInv'
<1>1. SpaceShape
    BY DEF SpaceInv
<1>2. NoItem \in ItemRow /\ NoItem.state = "absent"
    BY DEF NoItem, ItemRow, Kinds, Modes, Never, Empty
<1>3. /\ UNCHANGED <<binding, itemKeys, releases, dropped, created, required, requiring, deletions, breakupAt,
                     ended, clock>>
      /\ ended /\ unsealed' = {}
    BY DEF DeleteRelationshipContent
<1>4. /\ items' = [i \in Items |-> NoItem] /\ events' = {} /\ links' = {} /\ references' = {}
    BY DEF DeleteRelationshipContent
<1>5. \A i \in Items : ~ Active(i)'
    BY <1>2, <1>4 DEF Active
<1>6. SpaceShape'
    BY <1>1, <1>2, <1>3, <1>4 DEF SpaceShape
<1>7. ItemsSound' /\ EventsSound' /\ LinksSound' /\ BindingSound' /\ KeysSound' /\ ArmedSound'
    BY <1>3, <1>4, <1>5 DEF ItemsSound, EventsSound, EventsOf, LinksSound, BindingSound, KeysSound, ArmedSound
<1>8. ReleasesSound'
    BY <1>1, <1>3, <1>5 DEF SpaceInv, ReleasesSound, SpaceShape, ReleaseRow
<1>9. QED
    BY <1>6, <1>7, <1>8 DEF SpaceInv

\* What was created while the statement waited is what may be plain when it has required encryption.
LEMMA RequiringStep ==
    ASSUME SpaceInv, BeginRequiring \/ RequireCrypto \/ AbandonRequiring PROVE SpaceInv'
<1>1. SpaceShape /\ ItemsSound
    BY DEF SpaceInv
<1>2. UNCHANGED <<items, links, references, binding, itemKeys, events, releases, dropped, created, deletions,
                  breakupAt, ended, clock>>
    BY DEF BeginRequiring, RequireCrypto, AbandonRequiring
<1>3. clock' \in Nat /\ clock <= clock' /\ SpaceShape'
    <2>1. CASE BeginRequiring
        <3>1. required' = required /\ requiring' = TRUE /\ unsealed' = unsealed /\ ~ required
            BY <2>1 DEF BeginRequiring
        <3>2. QED
            BY <3>1, <1>1, <1>2 DEF SpaceShape
    <2>2. CASE RequireCrypto
        <3>1. required' \in BOOLEAN /\ requiring' \in BOOLEAN /\ ~ requiring' /\ unsealed' = unsealed
            BY <2>2 DEF RequireCrypto
        <3>2. QED
            BY <3>1, <1>1, <1>2 DEF SpaceShape
    <2>3. CASE AbandonRequiring
        <3>1. required' = required /\ requiring' \in BOOLEAN /\ ~ requiring' /\ unsealed' = {}
            BY <2>3 DEF AbandonRequiring
        <3>2. QED
            BY <3>1, <1>1, <1>2 DEF SpaceShape
    <2>4. QED
        BY <2>1, <2>2, <2>3
<1>4. \A j \in Items : Active(j)' <=> Active(j)
    BY <1>2 DEF Active
<1>5. ItemsSound'
    <2>1. CASE BeginRequiring
        BY <2>1, <1>2, <1>4 DEF BeginRequiring, ItemsSound
    <2>2. CASE RequireCrypto
        BY <2>2, <1>1, <1>2, <1>4 DEF RequireCrypto, ItemsSound
    <2>3. CASE AbandonRequiring
        <3>1. requiring' = FALSE /\ required' = FALSE
            BY <2>3, <1>1 DEF AbandonRequiring, SpaceShape
        <3>2. QED
            BY <3>1, <1>1, <1>2, <1>4 DEF ItemsSound
    <2>4. QED
        BY <2>1, <2>2, <2>3
<1>6. LinksSound'
    BY <1>2 DEF SpaceInv, LinksSound, Active, CanBeLinked
<1>7. EventsSound'
    BY <1>2 DEF SpaceInv, EventsSound, EventsOf, Active
<1>8. BindingSound' /\ KeysSound'
    BY <1>1, <1>2, BindingKept, KeysKept DEF SpaceInv
<1>9. ReleasesSound'
    BY <1>1, <1>2, <1>3, SameReleaseSame, ReleasesKept DEF SpaceInv
<1>10. ArmedSound'
    BY <1>1, <1>2, <1>3, SameReleaseSame, ArmedSoundKept DEF SpaceInv
<1>11. QED
    BY <1>3, <1>5, <1>6, <1>7, <1>8, <1>9, <1>10 DEF SpaceInv

LEMMA CreatesStep ==
    ASSUME SpaceInv, NEW now \in BeganAt, NEW i \in Creatable, CreateSomething(i, now) PROVE SpaceInv'
<1>1. i \in Items \ created
    BY DEF Creatable
<1>2. PICK kind \in KindsOf(i), preview \in BOOLEAN, refs \in ReferencesTo(i), targets \in TargetSets :
          \E mode \in ReleaseModes(kind) :
              \E unlock \in IF mode = "scheduled" THEN 1 .. MaxTime ELSE {1} :
                  CreateItem(i, kind, mode, unlock, preview, refs, targets, now)
    BY DEF CreateSomething
<1>3. PICK mode \in ReleaseModes(kind) :
          \E unlock \in IF mode = "scheduled" THEN 1 .. MaxTime ELSE {1} :
              CreateItem(i, kind, mode, unlock, preview, refs, targets, now)
    BY <1>2
<1>4. PICK unlock \in Int : CreateItem(i, kind, mode, unlock, preview, refs, targets, now)
    BY <1>3, SpaceAssumption
<1>5. QED
    BY <1>1, <1>4, CreateItemStep

LEMMA ChangesStep ==
    ASSUME SpaceInv, NEW i \in Editable, NEW a \in Partners, ChangeSomething(a, i) PROVE SpaceInv'
<1>1. i \in Items /\ Active(i)
    BY DEF Editable
<1>2. CASE \E role \in KeyRoles, erase \in BOOLEAN : PatchContent(a, i, role, erase)
    BY <1>1, <1>2, PatchContentStep
<1>3. CASE \E refs \in ReferencesTo(i) : PatchReferences(a, i, refs)
    BY <1>1, <1>3, PatchReferencesStep
<1>4. CASE \E targets \in TargetSets : PatchLinks(a, i, targets)
    BY <1>1, <1>4, PatchLinksStep
<1>5. CASE DeleteItem(a, i)
    BY <1>1, <1>5, DeleteItemStep
<1>6. QED
    BY <1>2, <1>3, <1>4, <1>5 DEF ChangeSomething

LEMMA ReleasesStep ==
    ASSUME SpaceInv, NEW now \in BeganAt, NEW i \in Editable, NEW a \in Partners, ReleaseSomething(a, i, now)
    PROVE  SpaceInv'
<1>1. i \in Items /\ Active(i)
    BY DEF Editable
<1>2. CASE \E mode \in Modes \ {"none"} : \E unlock \in IF mode = "scheduled" THEN 1 .. MaxTime ELSE {1} :
               PatchRelease(a, i, mode, unlock, now)
    <2>1. PICK mode \in Modes : \E unlock \in Int : PatchRelease(a, i, mode, unlock, now)
        BY <1>2, SpaceAssumption
    <2>2. QED
        BY <1>1, <2>1, PatchReleaseStep
<1>3. CASE Release(a, i, now)
    BY <1>1, <1>3, ReleaseStep
<1>4. QED
    BY <1>2, <1>3 DEF ReleaseSomething

LEMMA SpaceInvStep == SpaceInv /\ [SpaceNext]_spaceVars => SpaceInv'
<1> SUFFICES ASSUME SpaceInv, [SpaceNext]_spaceVars PROVE SpaceInv'
    OBVIOUS
<1>1. CASE \E i \in Editable, a \in Partners : ChangeSomething(a, i)
    BY <1>1, ChangesStep
<1>2. ASSUME NEW now \in BeganAt,
             \/ \E i \in Creatable : CreateSomething(i, now)
             \/ \E i \in Editable, a \in Partners : ReleaseSomething(a, i, now)
      PROVE  SpaceInv'
    BY <1>2, CreatesStep, ReleasesStep
<1>3. ASSUME NEW now \in BeganAt, NEW a \in Leavers, StartDeletion(a, now) \/ UndoDeletion(a, now) PROVE SpaceInv'
    BY <1>3, StartDeletionStep, UndoDeletionStep
<1>4. ASSUME NEW now \in BeganAt, NEW r \in releases, ExecuteRelease(r, now) PROVE SpaceInv'
    BY <1>4, ExecuteStep
<1>5. ASSUME NEW r \in releases, ClaimRelease(r) PROVE SpaceInv'
    BY <1>5, ClaimStep
<1>6. CASE (\E now \in BeganAt : StartBreakup(now) \/ EndBreakup(now)) \/ Dissolve \/ Tick \/ UNCHANGED spaceVars
    BY <1>6, PartnershipStep
<1>7. CASE DeleteRelationshipContent
    BY <1>7, ContentGoneStep
<1>8. CASE BeginRequiring \/ RequireCrypto \/ AbandonRequiring
    BY <1>8, RequiringStep
<1>9. QED
    BY <1>1, <1>2, <1>3, <1>4, <1>5, <1>6, <1>7, <1>8 DEF SpaceNext

LEMMA SpaceInvAlways == SpaceSpec => []SpaceInv
    BY SpaceInvInit, SpaceInvStep, PTL DEF SpaceSpec

\* The items of a partnership are consistent: what is scheduled is armed once and released
\* neither before its time nor twice, links lead to what both can read, and each item has the
\* keys, the media and the events of what it stores (RelationshipSpaceService).
THEOREM SpaceHoldsTogether == SpaceSpec => []SpaceAccounted
    BY SpaceInvAlways, SpaceInvAccounted, PTL

\* The steps that could release something need a partnership that is writable.
LEMMA DeletionHolds ==
    ASSUME [SpaceNext]_spaceVars PROVE DeletionHoldsReleases
<1> SUFFICES ASSUME Pending # {}, NEW i \in Items, items'[i].released # Never
             PROVE  items'[i].released = items[i].released
    BY DEF DeletionHoldsReleases
<1>1. ~ SpaceWritable
    BY DEF SpaceWritable
<1>2. Creatable = {} /\ Editable = {}
    BY <1>1 DEF Creatable, Editable
<1>3. ASSUME NEW now \in BeganAt, NEW r \in releases, ExecuteRelease(r, now) PROVE items' = items
    <2>1. ScheduledDecision(r, now) \in {"stale", "deadline", "too_early", "pause"}
        BY DEF ScheduledDecision
    <2>2. QED
        BY <1>3, <2>1 DEF ExecuteRelease, Reschedule
<1>4. CASE DeleteRelationshipContent
    <2>1. items'[i] = NoItem
        BY <1>4 DEF DeleteRelationshipContent
    <2>2. QED
        BY <2>1 DEF NoItem
<1>5. CASE \/ \E now \in BeganAt : StartBreakup(now) \/ EndBreakup(now)
           \/ \E now \in BeganAt, a \in Leavers : StartDeletion(a, now) \/ UndoDeletion(a, now)
           \/ \E r \in releases : ClaimRelease(r)
           \/ Dissolve \/ Tick \/ BeginRequiring \/ RequireCrypto \/ AbandonRequiring \/ UNCHANGED spaceVars
    <2>1. items' = items
        BY <1>5 DEF StartBreakup, EndBreakup, StartDeletion, UndoDeletion, ClaimRelease, Dissolve, Tick,
                    BeginRequiring, RequireCrypto, AbandonRequiring, spaceVars
    <2>2. QED
        BY <2>1
<1>6. QED
    BY <1>2, <1>3, <1>4, <1>5 DEF SpaceNext

\* Nothing is released while an account is being deleted, however the deletion, its recovery, a
\* claimed release and a late worker interleave (relationshipItemReleaseHandler).
THEOREM ReleasesWaitForDeletions == SpaceSpec => [][DeletionHoldsReleases]_spaceVars
    BY DeletionHolds, PTL DEF SpaceSpec

-----------------------------------------------------------------------------
(* CryptoRuntime: what holds in every state, besides CryptoAccounted.         *)

Founders == {"bootstrap", "reset"}
Commits  == {"add", "remove"}

OpRecord ==
    [id : Nat, from : Devices, kind : Founders \cup Commits, generation : Nat, epoch : Nat,
     target : Devices, path : Seq(Nat), package : Nat, version : Nat]
EntryRecord == [id : Nat, kind : Founders \cup Commits, target : Devices, path : Seq(Nat)]
GroupRecord ==
    [id : Nat, path : Seq(Nat), members : SUBSET Devices, rekey : BOOLEAN, log : Seq(EntryRecord),
     unvouched : SUBSET Devices]
CopyRecord  == [generation : Nat, path : Seq(Nat), epoch : Nat, cursor : Nat]
SeenRecord  == [generation : Nat, epoch : Nat, removals : SUBSET Devices, additions : SUBSET Devices]
ReplyRecord == [outcome : {"none", "accepted", "conflict", "refused"}, sequence : Nat]
EnvelopeRecord == [from : Devices, generation : Nat, epoch : Nat, path : Seq(Nat), checked : BOOLEAN]
SetupRecord == [owner : Accounts, device : Devices, version : Nat, generation : Nat]
EnsurePlaces == {"idle", "loaded", "waiting"}
TrustStates == {"absent", "pending", "trusted", "revoked"}

ServerShape ==
    /\ trust \in [Devices -> TrustStates] /\ spent \in [Devices -> Nat] /\ challenge \in [Devices -> Nat]
    /\ groups \in Seq(GroupRecord)
    /\ cryptoPolicy \in [required : BOOLEAN, generation : Nat]
    /\ recovery \in [Accounts -> Nat] /\ setup \in SetupRecord \cup {NoSetup}
    /\ contentKeys \subseteq EnvelopeRecord
ClientShape ==
    /\ vault \in [Devices -> CopyRecord] /\ held \in [Devices -> Nat]
    /\ operations \in [Devices -> SUBSET OpRecord]
    /\ \A d \in Devices : \A op \in operations[d] : op.from = d
    /\ ensuring \in [Devices -> EnsurePlaces]
    /\ seen \in [Devices -> SeenRecord] /\ reply \in [Devices -> ReplyRecord]
    /\ wire \subseteq [op : OpRecord, admitted : BOOLEAN]
    /\ sealed \subseteq EnvelopeRecord /\ staged \in Nat /\ staged <= MaxSteps

\* A generation after the first begins with the reset in its log.
Offset(g) == IF g = 1 THEN 0 ELSE 1

AllOps == {op \in OpRecord : (\E d \in Devices : op \in operations[d]) \/ (\E w \in wire : op = w.op)}

\* The log of a generation is the commits it went through, one more epoch each.
GroupSound(g) ==
    /\ Len(groups[g].path) \in 1 .. staged
    /\ groups[g].path[1] = groups[g].id /\ groups[g].id \in 1 .. staged
    /\ Len(groups[g].log) = Len(groups[g].path) - 1 + Offset(g)
    /\ \A i \in 1 .. Len(groups[g].log) :
          /\ groups[g].log[i].path = SubSeq(groups[g].path, 1, i + 1 - Offset(g))
          /\ groups[g].log[i].id = groups[g].path[i + 1 - Offset(g)]
          /\ groups[g].log[i].kind \in (IF i = Offset(g) THEN {"reset"} ELSE Commits)
          /\ groups[g].log[i].id <= staged
GroupsSound == \A g \in 1 .. Newest : GroupSound(g)

\* A commit for the active generation continues a state that it had.
OpSound(op) ==
    /\ op.id \in 1 .. staged /\ op.generation <= Newest
    /\ op.kind = "bootstrap" <=> op.generation = 0
    /\ op.kind \in Founders => op.path = <<op.id>>
    /\ op.kind # "bootstrap" /\ op.generation = Newest => op.epoch + 1 <= Len(ActiveGroup.path)
    /\ op.kind \in Commits /\ op.generation = Newest =>
          /\ op.epoch + 2 <= op.id
          /\ op.path = Append(SubSeq(ActiveGroup.path, 1, op.epoch + 1), op.id)
OpsSound == \A op \in AllOps : OpSound(op)

\* An id is that of one request, which is sent once; foundings come first.
OnceStaged ==
    /\ \A one, other \in AllOps : one.id = other.id => one = other
    /\ \A one, other \in wire : one.op.id = other.op.id => one = other
    /\ \A b, c \in AllOps : b.kind = "bootstrap" /\ c.kind # "bootstrap" => b.id < c.id

\* What the server has of a request is what was staged.
OpLogged(op, g) ==
    /\ groups[g].id = op.id =>
          /\ op.kind \in Founders /\ g = op.generation + 1
          /\ g > 1 => op.epoch = EpochOf(groups[op.generation])
    /\ \A i \in 1 .. Len(groups[g].log) : groups[g].log[i].id = op.id =>
          /\ groups[g].log[i] = Entry(op)
          /\ g = IF op.kind = "reset" THEN op.generation + 1 ELSE op.generation
OpsLogged == \A op \in AllOps : \A g \in 1 .. Newest : OpLogged(op, g)

CopySound(copy, g) ==
    /\ copy.cursor \in Offset(g) .. Len(groups[g].log) /\ copy.epoch = copy.cursor - Offset(g)
    /\ copy.path = SubSeq(groups[g].path, 1, copy.epoch + 1)
CopyFits(copy) ==
    /\ copy \in CopyRecord /\ copy.generation <= Newest
    /\ copy # NoGroup => copy.generation > 0 /\ Len(copy.path) > 0
    /\ Newest > 0 /\ copy.generation = Newest => CopySound(copy, Newest)
CopiesSound == \A d \in Devices : CopyFits(vault[d])

\* What an answer says was done is done.
Done(op, sequence) ==
    IF op.kind \in Founders
    THEN /\ op.generation < Newest /\ groups[op.generation + 1].id = op.id
         /\ sequence = Offset(op.generation + 1)
    ELSE /\ sequence \in 1 .. Len(groups[op.generation].log)
         /\ groups[op.generation].log[sequence].id = op.id

Newer(d, op) == \A other \in operations[d] : other.id <= op.id
AwaitSound(d, op) ==
    /\ op.kind \in Commits => vault[d].generation = op.generation
    /\ op.kind = "bootstrap" => vault[d] = NoGroup
    /\ reply[d].outcome # "none" => \A w \in wire : w.op # op
    /\ reply[d].outcome = "accepted" => Done(op, reply[d].sequence)
    /\ reply[d].outcome = "conflict" => Newest > 0 /\ \A g \in 1 .. Newest : groups[g].id # op.id
WaitSound(d) ==
    IF ensuring[d] = "waiting" THEN \E op \in operations[d] : Newer(d, op) /\ AwaitSound(d, op)
    ELSE reply[d].outcome = "none"
WaitingSound == \A d \in Devices : WaitSound(d)

\* What a device has loaded may be old, but is of no other device's making.
LoadedFor(view, ops, copy) ==
    /\ view.generation \in 1 .. Newest /\ view.epoch <= EpochOf(groups[view.generation])
    /\ copy.generation <= view.generation
    /\ \A op \in ops : op.generation <= view.generation
LoadedSound == \A d \in Devices : ensuring[d] = "loaded" => LoadedFor(seen[d], operations[d], vault[d])

\* A founding that may still be accepted is not forgotten by its device.
AtStake(op) ==
    op.kind \in Founders /\ op.generation = Newest /\ (Newest > 0 => op.epoch = EpochOf(ActiveGroup))
WireSound ==
    \A w \in wire :
        /\ \A g \in 1 .. Newest : groups[g].id # w.op.id
        /\ AtStake(w.op) => w.op \in operations[w.op.from]

\* Nor is it by a device that holds a copy of the group it replaced.
ResetKept(d, r, ops, copy) ==
    /\ r.generation = Newest => copy = NoGroup \/ (copy.generation = Newest /\ copy.cursor > 0)
    /\ r.generation = Newest - 1 /\ groups[Newest].id = r.id =>
          \/ copy = NoGroup \/ Welcomes(d) # {} \/ Matches(copy, Newest)
          \/ (Matches(copy, r.generation) /\ copy.cursor > 0)
    /\ r.generation = 1 => \A b \in ops : b.kind = "bootstrap" => b.id # groups[1].id
ResetsKept ==
    \A d \in Devices : \A r \in operations[d] :
        r.kind = "reset" => ResetKept(d, r, operations[d], vault[d])

CanJoin(d, ops, copy) ==
    \/ Matches(copy, Newest) \/ Welcomes(d) # {}
    \/ \E op \in ops : op.kind \in Founders /\ op.id = groups[Newest].id
JoinSound == Newest > 0 => \A d \in ActiveGroup.members : CanJoin(d, operations[d], vault[d])

\* The additions of a device, over all generations.
Additions(d) ==
    {at \in (1 .. Newest) \X (1 .. MaxSteps) :
        LET log == groups[at[1]].log
        IN  at[2] <= Len(log) /\ log[at[2]].kind = "add" /\ log[at[2]].target = d}
SpentSound == \A d \in Devices : spent[d] = Cardinality(Additions(d))

KeySound(key) ==
    /\ key.epoch + 1 <= Len(groups[key.generation].path)
    /\ key.path = SubSeq(groups[key.generation].path, 1, key.epoch + 1)
EnvelopesSound ==
    /\ \A key \in contentKeys : key.generation \in 1 .. Newest /\ KeySound(key)
    /\ \A e \in sealed : e.generation \in 1 .. Newest /\ (e.checked \/ e.generation = Newest => KeySound(e))

SetupSound == setup # NoSetup => setup.generation <= Newest

RequestsSound == OpsSound /\ OnceStaged /\ OpsLogged /\ WireSound /\ ResetsKept
DevicesSound  == CopiesSound /\ WaitingSound /\ LoadedSound /\ JoinSound /\ EnvelopesSound
PolicySound   == SpentSound /\ SetupSound /\ RekeyTracked /\ PolicyFollows

CryptoInv == ServerShape /\ ClientShape /\ GroupsSound /\ RequestsSound /\ DevicesSound /\ PolicySound


-----------------------------------------------------------------------------
(* CryptoRuntime: the controls after a cursor, one after another.             *)

\* A set of numbers has a least one.
LEMMA LeastNumber ==
    ASSUME NEW T, T \subseteq Nat, T # {}
    PROVE  \E x \in T : \A y \in T : x <= y
<1>1. PICK R : R = OpToRel(<, Nat)
    OBVIOUS
<1>2. IsWellFoundedOn(R, Nat)
    BY <1>1, NatLessThanWellFounded
<1>3. PICK x \in T : \A y \in T : ~ (<<y, x>> \in R)
    BY <1>2, WFMin
<1>4. ASSUME NEW y \in T PROVE x <= y
    <2>1. x \in Nat /\ y \in Nat /\ ~ (<<y, x>> \in R)
        BY <1>3
    <2>2. y < x => <<y, x>> \in R
        BY <1>1, <2>1 DEF OpToRel
    <2>3. QED
        BY <2>1, <2>2
<1>5. QED
    BY <1>4

WalkStep(k, local, controls, m) == IF m = 0 THEN local ELSE Follow(k[m - 1], controls[m])
Walks(k, local, controls, n) == k = [m \in 0 .. n |-> WalkStep(k, local, controls, m)]

LEMMA WalkExists ==
    ASSUME NEW local, NEW controls, NEW last \in Nat
    PROVE  \E k : Walks(k, local, controls, last)
<1> DEFINE T == {n \in Nat : ~ \E k : Walks(k, local, controls, n)}
<1>1. SUFFICES ASSUME T # {} PROVE FALSE
    OBVIOUS
<1>2. PICK n \in T : \A y \in T : n <= y
    BY <1>1, LeastNumber
<1>3. n \in Nat /\ ~ \E k : Walks(k, local, controls, n)
    BY <1>2
<1>4. CASE n = 0
    <2>1. PICK k : k = [m \in 0 .. 0 |-> local]
        OBVIOUS
    <2>2. \A m \in 0 .. 0 : WalkStep(k, local, controls, m) = local
        BY DEF WalkStep
    <2>3. k = [m \in 0 .. 0 |-> WalkStep(k, local, controls, m)]
        BY <2>1, <2>2
    <2>4. QED
        BY <1>3, <1>4, <2>3 DEF Walks
<1>5. CASE n # 0
    <2>1. n - 1 \in Nat /\ ~ (n <= n - 1)
        BY <1>3, <1>5
    <2>2. n - 1 \notin T
        BY <1>2, <2>1
    <2>3. PICK k : Walks(k, local, controls, n - 1)
        BY <2>1, <2>2
    <2>4. PICK h : h = [m \in 0 .. n |-> IF m = n THEN Follow(k[n - 1], controls[n]) ELSE k[m]]
        OBVIOUS
    <2>5. ASSUME NEW m \in 0 .. n PROVE h[m] = WalkStep(h, local, controls, m)
        <3>1. CASE m = 0
            <4>1. h[m] = k[m] /\ m \in 0 .. n - 1
                BY <2>1, <2>4, <3>1, <1>3, <1>5
            <4>2. k[m] = WalkStep(k, local, controls, m)
                BY <2>3, <4>1 DEF Walks
            <4>3. QED
                BY <3>1, <4>1, <4>2 DEF WalkStep
        <3>2. CASE m = n
            <4>1. h[n - 1] = k[n - 1] /\ h[n] = Follow(k[n - 1], controls[n])
                BY <2>1, <2>4, <1>3
            <4>2. QED
                BY <1>5, <3>2, <4>1 DEF WalkStep
        <3>3. CASE m # 0 /\ m # n
            <4>1. m \in 0 .. n - 1 /\ m - 1 \in 0 .. n /\ m - 1 # n
                BY <1>3, <3>3
            <4>2. h[m] = k[m] /\ h[m - 1] = k[m - 1]
                BY <2>4, <3>3, <4>1
            <4>3. k[m] = WalkStep(k, local, controls, m)
                BY <2>3, <4>1 DEF Walks
            <4>4. QED
                BY <3>3, <4>2, <4>3 DEF WalkStep
        <3>4. QED
            BY <3>1, <3>2, <3>3
    <2>6. h = [m \in 0 .. n |-> WalkStep(h, local, controls, m)]
        BY <2>4, <2>5
    <2>7. QED
        BY <1>3, <2>6 DEF Walks
<1>6. QED
    BY <1>4, <1>5

LEMMA FollowedWalks ==
    ASSUME NEW S, NEW local, NEW controls \in Seq(S)
    PROVE  \E k : /\ Followed(local, controls) = k[Len(controls)] /\ k[0] = local
                  /\ \A m \in 1 .. Len(controls) : k[m] = Follow(k[m - 1], controls[m])
<1>1. Len(controls) \in Nat
    OBVIOUS
<1>2. PICK h : h = CHOOSE g : g = [n \in 0 .. Len(controls) |->
                                      IF n = 0 THEN local ELSE Follow(g[n - 1], controls[n])]
    OBVIOUS
<1>3. Followed(local, controls) = h[Len(controls)]
    BY <1>2, Zenon DEF Followed
<1>4. \E g : g = [n \in 0 .. Len(controls) |-> IF n = 0 THEN local ELSE Follow(g[n - 1], controls[n])]
    <2>1. PICK g : Walks(g, local, controls, Len(controls))
        BY <1>1, WalkExists
    <2>2. g = [n \in 0 .. Len(controls) |-> IF n = 0 THEN local ELSE Follow(g[n - 1], controls[n])]
        BY <2>1, Zenon DEF Walks, WalkStep
    <2>3. QED
        BY <2>2, Zenon
<1>5. h = [n \in 0 .. Len(controls) |-> IF n = 0 THEN local ELSE Follow(h[n - 1], controls[n])]
    BY <1>2, <1>4, Zenon
<1>6. h[0] = local
    BY <1>1, <1>5
<1>7. ASSUME NEW m \in 1 .. Len(controls) PROVE h[m] = Follow(h[m - 1], controls[m])
    <2>1. m \in 0 .. Len(controls) /\ m # 0
        BY <1>1
    <2>2. QED
        BY <1>5, <2>1
<1>8. QED
    BY <1>3, <1>6, <1>7

FollowRecord == [generation : Nat, path : Seq(Nat), epoch : Nat, cursor : Nat, sound : BOOLEAN]
KeepsCopy(from, to) ==
    /\ to \in FollowRecord /\ to.generation = from.generation /\ to.cursor >= from.cursor
    /\ Len(from.path) > 0 => Len(to.path) > 0 /\ to.path[1] = from.path[1]

LEMMA FollowKeeps ==
    ASSUME NEW local \in FollowRecord, NEW entry \in EntryRecord
    PROVE  KeepsCopy(local, Follow(local, entry))
<1>0. /\ local.generation \in Nat /\ local.path \in Seq(Nat) /\ local.epoch \in Nat /\ local.cursor \in Nat
      /\ local.sound \in BOOLEAN /\ entry.path \in Seq(Nat) /\ entry.id \in Nat
    BY DEF FollowRecord, EntryRecord
<1>1. CASE ~local.sound
    <2>1. Follow(local, entry) = local
        BY <1>1, Zenon DEF Follow
    <2>2. QED
        BY <1>0, <2>1 DEF KeepsCopy
<1>9. PICK next \in Nat : next = local.cursor + 1
    BY <1>0
<1>2. CASE local.sound /\ entry.kind = "reset"
    <2>1. PICK r : r = [local EXCEPT !.cursor = next]
        OBVIOUS
    <2>2. Follow(local, entry) = r
        BY <1>2, <1>9, <2>1, Zenon DEF Follow
    <2>3. r \in FollowRecord /\ r.generation = local.generation /\ r.cursor = next /\ r.path = local.path
        BY <1>0, <2>1 DEF FollowRecord
    <2>4. QED
        BY <1>0, <1>9, <2>2, <2>3 DEF KeepsCopy
<1>3. CASE local.sound /\ entry.kind # "reset" /\ entry.path = Append(local.path, entry.id)
    <2>3. Len(entry.path) = Len(local.path) + 1 /\ (Len(local.path) > 0 => entry.path[1] = local.path[1])
        BY <1>0, <1>3
    <2>4. PICK epoch \in Nat : epoch = Len(entry.path) - 1
        BY <1>0, <2>3
    <2>1. PICK r : r = [local EXCEPT !.path = entry.path, !.epoch = epoch, !.cursor = next]
        OBVIOUS
    <2>2. Follow(local, entry) = r
        BY <1>3, <1>9, <2>1, <2>4, Zenon DEF Follow
    <2>5. r \in FollowRecord /\ r.generation = local.generation /\ r.cursor = next /\ r.path = entry.path
        BY <1>0, <2>1, <2>4 DEF FollowRecord
    <2>6. QED
        BY <1>0, <1>9, <2>2, <2>3, <2>5 DEF KeepsCopy
<1>4. CASE local.sound /\ entry.kind # "reset" /\ entry.path # Append(local.path, entry.id)
    <2>1. PICK r : r = [local EXCEPT !.sound = FALSE]
        OBVIOUS
    <2>2. Follow(local, entry) = r
        BY <1>4, <2>1 DEF Follow
    <2>3. r \in FollowRecord /\ r.generation = local.generation /\ r.cursor = local.cursor /\ r.path = local.path
        BY <1>0, <2>1 DEF FollowRecord
    <2>4. QED
        BY <1>0, <2>2, <2>3 DEF KeepsCopy
<1>5. QED
    BY <1>0, <1>1, <1>2, <1>3, <1>4

LEMMA FollowedKeeps ==
    ASSUME NEW local \in FollowRecord, NEW controls \in Seq(EntryRecord)
    PROVE  KeepsCopy(local, Followed(local, controls))
<1>1. PICK k : /\ Followed(local, controls) = k[Len(controls)] /\ k[0] = local
               /\ \A m \in 1 .. Len(controls) : k[m] = Follow(k[m - 1], controls[m])
    BY FollowedWalks
<1> DEFINE T == {m \in 0 .. Len(controls) : ~ KeepsCopy(local, k[m])}
<1>2. Len(controls) \in Nat
    OBVIOUS
<1>3. ASSUME T # {} PROVE FALSE
    <2>0. T \subseteq Nat
        BY <1>2
    <2>1. PICK m \in T : \A y \in T : m <= y
        BY <1>3, <2>0, LeastNumber
    <2>2. m \in 0 .. Len(controls) /\ ~ KeepsCopy(local, k[m])
        BY <2>1
    <2>3. m # 0
        BY <1>1, <2>2 DEF KeepsCopy, FollowRecord
    <2>4. m - 1 \in 0 .. Len(controls) /\ ~ (m <= m - 1) /\ m \in 1 .. Len(controls)
        BY <1>2, <2>2, <2>3
    <2>5. KeepsCopy(local, k[m - 1])
        BY <2>1, <2>4
    <2>6. k[m - 1] \in FollowRecord /\ controls[m] \in EntryRecord
        BY <2>4, <2>5 DEF KeepsCopy
    <2>7. KeepsCopy(k[m - 1], k[m])
        BY <1>1, <2>4, <2>6, FollowKeeps
    <2>8. k[m - 1].cursor \in Nat /\ k[m].cursor \in Nat /\ local.cursor \in Nat
        BY <2>6, <2>7 DEF KeepsCopy, FollowRecord
    <2>9. KeepsCopy(local, k[m])
        BY <2>5, <2>7, <2>8 DEF KeepsCopy
    <2>10. QED
        BY <2>2, <2>9
<1>4. Len(controls) \in 0 .. Len(controls)
    BY <1>2
<1>5. QED
    BY <1>1, <1>3, <1>4

-----------------------------------------------------------------------------
(* CryptoRuntime: a generation and its log.                                   *)

LEMMA NewestNat ==
    ASSUME ServerShape
    PROVE  Newest \in Nat /\ \A g \in 1 .. Newest : groups[g] \in GroupRecord
BY DEF ServerShape, Newest

LEMMA GroupParts ==
    ASSUME ServerShape, NEW g \in 1 .. Newest
    PROVE  /\ groups[g].id \in Nat /\ groups[g].path \in Seq(Nat) /\ groups[g].log \in Seq(EntryRecord)
           /\ groups[g].members \subseteq Devices /\ groups[g].rekey \in BOOLEAN /\ groups[g].unvouched \subseteq Devices
           /\ \A i \in 1 .. Len(groups[g].log) :
                 groups[g].log[i] \in EntryRecord /\ groups[g].log[i].id \in Nat /\ groups[g].log[i].path \in Seq(Nat)
<1>1. groups[g] \in GroupRecord
    BY NewestNat
<1>2. groups[g].log \in Seq(EntryRecord)
    BY <1>1 DEF GroupRecord
<1>3. \A i \in 1 .. Len(groups[g].log) : groups[g].log[i] \in EntryRecord
    BY <1>2
<1>4. QED
    BY <1>1, <1>2, <1>3 DEF GroupRecord, EntryRecord

LEMMA OffsetBound == ASSUME NEW g PROVE Offset(g) \in {0, 1}
BY DEF Offset

\* A copy that is at some entry of the log can go on with the next.
LEMMA FollowOne ==
    ASSUME ServerShape, NEW g \in 1 .. Newest, staged \in Nat, GroupSound(g), NEW local \in FollowRecord,
           local.sound, CopySound(local, g), local.cursor < Len(groups[g].log),
           NEW entry, entry = groups[g].log[local.cursor + 1]
    PROVE  LET next == Follow(local, entry)
           IN  next \in FollowRecord /\ next.sound /\ CopySound(next, g) /\ next.cursor = local.cursor + 1
<1>1. PICK o : o = Offset(g)
    OBVIOUS
<1>2. PICK path : path = groups[g].path
    OBVIOUS
<1>3. PICK c, e, n, q : c = local.cursor /\ e = local.epoch /\ n = Len(groups[g].log) /\ q = local.path
    OBVIOUS
<1>4. /\ path \in Seq(Nat) /\ o \in {0, 1} /\ c \in Nat /\ e \in Nat /\ n \in Nat /\ c < n
      /\ Len(path) \in Nat /\ Len(path) >= 1 /\ n = Len(path) - 1 + o
    <2>1. path \in Seq(Nat) /\ n \in Nat /\ c \in Nat /\ e \in Nat
        BY <1>2, <1>3, GroupParts DEF FollowRecord
    <2>2. Len(path) >= 1 /\ n = Len(path) - 1 + o
        BY <1>1, <1>2, <1>3, <2>1 DEF GroupSound
    <2>3. QED
        BY <1>1, <1>3, <2>1, <2>2, OffsetBound
<1>5. c >= o /\ e = c - o /\ q = SubSeq(path, 1, e + 1)
    <2>1. c \in o .. n /\ e = c - o /\ q = SubSeq(path, 1, e + 1)
        BY <1>1, <1>2, <1>3 DEF CopySound
    <2>2. QED
        BY <1>4, <2>1
<1>6. PICK i \in Nat : i = c + 1
    BY <1>4
<1>7. i \in 1 .. n /\ i # o /\ i \in o .. n /\ i + 1 - o = (e + 1) + 1 /\ i + 1 - o <= Len(path) /\ e + 1 \in 1 .. Len(path)
    BY <1>4, <1>5, <1>6
<1>8. entry.path = SubSeq(path, 1, i + 1 - o) /\ entry.id = path[i + 1 - o] /\ entry.kind \in Commits
      /\ entry.path \in Seq(Nat) /\ entry \in EntryRecord
    <2>1. i \in 1 .. Len(groups[g].log) /\ entry = groups[g].log[i]
        BY <1>3, <1>6, <1>7
    <2>2. entry \in EntryRecord /\ entry.path \in Seq(Nat)
        BY <2>1, GroupParts
    <2>3. QED
        BY <1>1, <1>2, <1>7, <2>1, <2>2 DEF GroupSound
<1>9. SubSeq(path, 1, (e + 1) + 1) = Append(SubSeq(path, 1, e + 1), path[(e + 1) + 1])
    <2>1. ASSUME NEW m \in Nat, m + 1 <= Len(path) PROVE SubSeq(path, 1, m + 1) = Append(SubSeq(path, 1, m), path[m + 1])
        BY <1>4, <2>1, SMTT(20)
    <2>2. PICK m \in Nat : m = e + 1 /\ m + 1 <= Len(path)
        BY <1>4, <1>7
    <2>3. QED
        BY <2>1, <2>2
<1>10. entry.path = Append(q, entry.id)
    BY <1>5, <1>7, <1>8, <1>9
<1>11. Len(entry.path) = i + 1 - o
    <2>1. PICK m \in Nat : m = i + 1 - o /\ m <= Len(path)
        BY <1>7, <1>4
    <2>2. Len(SubSeq(path, 1, m)) = m
        BY <1>4, <2>1
    <2>3. QED
        BY <1>8, <2>1, <2>2
<1>12. PICK epoch \in Nat : epoch = i - o
    BY <1>4, <1>6, <1>7
<1>15. epoch = Len(entry.path) - 1 /\ epoch + 1 = i + 1 - o
    BY <1>4, <1>6, <1>11, <1>12
<1>13. PICK r : r = [local EXCEPT !.path = entry.path, !.epoch = epoch, !.cursor = i]
    OBVIOUS
<1>14. Follow(local, entry) = r
    <2>1. entry.kind # "reset" /\ entry.path = Append(local.path, entry.id)
        BY <1>3, <1>8, <1>10 DEF Commits
    <2>2. QED
        BY <1>3, <1>6, <1>13, <1>15, <2>1, Zenon DEF Follow
<1>16. r.path = entry.path /\ r.epoch = epoch /\ r.cursor = i /\ r.sound = local.sound
    BY <1>13 DEF FollowRecord
<1>17. CopySound(r, g)
    <2>2. r.path = SubSeq(path, 1, epoch + 1)
        BY <1>8, <1>15, <1>16
    <2>3. QED
        BY <1>1, <1>2, <1>3, <1>7, <1>12, <1>16, <2>2 DEF CopySound
<1>18. r \in FollowRecord
    BY <1>8, <1>14, FollowKeeps DEF KeepsCopy
<1>19. QED
    BY <1>3, <1>6, <1>14, <1>16, <1>17, <1>18

\* So it can go on to the end.
LEMMA FollowedToTheEnd ==
    ASSUME ServerShape, Newest > 0, staged \in Nat, GroupSound(Newest), NEW copy \in FollowRecord, copy.sound,
           CopySound(copy, Newest)
    PROVE  LET reached == Followed(copy, ControlsAfter(copy.cursor))
           IN  reached.sound /\ CopySound(reached, Newest)
<1>1. PICK g : g = Newest
    OBVIOUS
<1>2. PICK log : log = groups[g].log
    OBVIOUS
<1>3. PICK c : c = copy.cursor
    OBVIOUS
<1>4. g \in 1 .. Newest /\ log \in Seq(EntryRecord) /\ c \in 0 .. Len(log)
    <2>1. g \in 1 .. Newest
        BY <1>1, NewestNat
    <2>2. log \in Seq(EntryRecord)
        BY <1>2, <2>1, GroupParts
    <2>3. c \in Offset(g) .. Len(log)
        BY <1>1, <1>2, <1>3 DEF CopySound
    <2>4. QED
        BY <2>1, <2>2, <2>3, OffsetBound
<1>5. PICK controls : controls = ControlsAfter(c)
    OBVIOUS
<1>6. controls = SubSeq(log, c + 1, Len(log))
    BY <1>1, <1>2, <1>5 DEF ControlsAfter, ActiveGroup
<1>7. controls \in Seq(EntryRecord) /\ Len(controls) = Len(log) - c
    BY <1>4, <1>6
<1>8. \A m \in 1 .. Len(controls) : controls[m] = log[c + m]
    BY <1>4, <1>6, <1>7
<1>9. PICK k : /\ Followed(copy, controls) = k[Len(controls)] /\ k[0] = copy
               /\ \A m \in 1 .. Len(controls) : k[m] = Follow(k[m - 1], controls[m])
    BY <1>7, FollowedWalks
<1> DEFINE At(m) == k[m] \in FollowRecord /\ k[m].sound /\ CopySound(k[m], g) /\ k[m].cursor = c + m
<1> DEFINE T == {m \in 0 .. Len(controls) : ~ At(m)}
<1>10. ASSUME T # {} PROVE FALSE
    <2>0. T \subseteq Nat
        BY <1>4, <1>7
    <2>1. PICK m \in T : \A y \in T : m <= y
        BY <1>10, <2>0, LeastNumber
    <2>2. m \in 0 .. Len(controls) /\ ~ At(m)
        BY <2>1
    <2>3. At(0)
        BY <1>1, <1>3, <1>4, <1>9
    <2>4. m - 1 \in 0 .. Len(controls) /\ ~ (m <= m - 1) /\ m \in 1 .. Len(controls)
        BY <1>7, <2>2, <2>3
    <2>5. At(m - 1)
        BY <2>1, <2>4
    <2>6. PICK before : before = k[m - 1]
        OBVIOUS
    <2>7. before \in FollowRecord /\ before.sound /\ CopySound(before, g) /\ before.cursor = c + (m - 1)
        BY <2>5, <2>6
    <2>8. before.cursor + 1 = c + m /\ before.cursor < Len(log)
        BY <1>4, <1>7, <2>4, <2>7
    <2>13. PICK entry : entry = groups[g].log[before.cursor + 1]
        OBVIOUS
    <2>9. k[m] = Follow(before, log[before.cursor + 1])
        BY <1>8, <1>9, <2>4, <2>6, <2>8
    <2>10. GroupSound(g)
        BY <1>1
    <2>14. k[m] = Follow(before, entry)
        BY <1>2, <2>9, <2>13
    <2>15. before.cursor < Len(groups[g].log)
        BY <1>2, <2>8
    <2>11. k[m] \in FollowRecord /\ k[m].sound /\ CopySound(k[m], g) /\ k[m].cursor = before.cursor + 1
        BY <1>4, <2>7, <2>10, <2>13, <2>14, <2>15, FollowOne, SMTT(20)
    <2>12. QED
        BY <2>2, <2>8, <2>11
<1>11. At(Len(controls))
    BY <1>7, <1>10
<1>12. QED
    BY <1>1, <1>3, <1>5, <1>9, <1>11

-----------------------------------------------------------------------------
(* CryptoRuntime: the server accepts a request, or marks the group: what was  *)
(* there stays.                                                               *)

\* A generation goes on from an earlier state of itself.
GrownFrom(grown, id, path, log) ==
    /\ grown.id = id
    /\ grown.path \in Seq(Nat) /\ Len(grown.path) >= Len(path)
    /\ \A i \in 1 .. Len(path) : grown.path[i] = path[i]
    /\ grown.log \in Seq(EntryRecord) /\ Len(grown.log) >= Len(log)
    /\ \A i \in 1 .. Len(log) : grown.log[i] = log[i]

GroupsGrow ==
    /\ Newest' \in Nat /\ Newest' >= Newest
    /\ \A g \in 1 .. Newest :
          /\ GrownFrom(groups'[g], groups[g].id, groups[g].path, groups[g].log)
          /\ g # Newest' => groups'[g].path = groups[g].path /\ groups'[g].log = groups[g].log

LEMMA PathKept ==
    ASSUME ServerShape, GroupsGrow, NEW g \in 1 .. Newest, NEW k \in Nat, k <= Len(groups[g].path)
    PROVE  SubSeq(groups'[g].path, 1, k) = SubSeq(groups[g].path, 1, k)
<1>1. PICK p : p = groups[g].path
    OBVIOUS
<1>2. PICK q : q = groups'[g].path
    OBVIOUS
<1>3. p \in Seq(Nat) /\ q \in Seq(Nat) /\ k <= Len(p) /\ Len(p) <= Len(q)
    BY <1>1, <1>2, GroupParts DEF GroupsGrow, GrownFrom
<1>4. \A i \in 1 .. k : q[i] = p[i]
    <2>1. \A i \in 1 .. Len(p) : q[i] = p[i]
        BY <1>1, <1>2 DEF GroupsGrow, GrownFrom
    <2>2. Len(p) \in Nat
        BY <1>3
    <2>3. 1 .. k \subseteq 1 .. Len(p)
        BY <1>3, <2>2
    <2>4. QED
        BY <2>1, <2>3
<1>5. SubSeq(q, 1, k) = SubSeq(p, 1, k)
    <2>1. Len(SubSeq(q, 1, k)) = k /\ Len(SubSeq(p, 1, k)) = k
        BY <1>3
    <2>2. \A i \in 1 .. k : SubSeq(q, 1, k)[i] = q[i] /\ SubSeq(p, 1, k)[i] = p[i]
        BY <1>3
    <2>3. SubSeq(q, 1, k) \in Seq(Nat) /\ SubSeq(p, 1, k) \in Seq(Nat)
        BY <1>3, SMTT(20)
    <2>4. QED
        BY <1>4, <2>1, <2>2, <2>3
<1>6. QED
    BY <1>1, <1>2, <1>5

LEMMA CopyFitsKept ==
    ASSUME ServerShape, GroupsSound, GroupsGrow, staged \in Nat, NEW copy, CopyFits(copy)
    PROVE  CopyFits(copy)'
<1>1. copy \in CopyRecord /\ copy.generation \in Nat /\ copy.generation <= Newest /\ Newest \in Nat /\ Newest' >= Newest
      /\ Newest' \in Nat
    BY NewestNat DEF CopyFits, CopyRecord, GroupsGrow, GrownFrom
<1>2. ASSUME Newest' > 0, copy.generation = Newest' PROVE CopySound(copy, Newest)'
    <2>1. Newest' = Newest /\ Newest > 0 /\ copy.generation = Newest
        BY <1>1, <1>2
    <2>2. PICK g : g = Newest
        OBVIOUS
    <2>3. g \in 1 .. Newest /\ CopySound(copy, g)
        BY <1>1, <2>1, <2>2 DEF CopyFits
    <2>4. GroupSound(g) /\ Len(groups[g].path) \in Nat /\ Len(groups[g].log) \in Nat /\ Offset(g) \in {0, 1}
        BY <2>3, GroupParts, OffsetBound DEF GroupsSound
    <2>5. /\ copy.cursor \in Nat /\ copy.epoch \in Nat
          /\ copy.cursor >= Offset(g) /\ copy.cursor <= Len(groups[g].log) /\ copy.epoch = copy.cursor - Offset(g)
          /\ Len(groups[g].log) = Len(groups[g].path) - 1 + Offset(g)
          /\ copy.path = SubSeq(groups[g].path, 1, copy.epoch + 1)
        BY <1>1, <2>3, <2>4 DEF CopySound, GroupSound, CopyRecord
    <2>6. copy.epoch + 1 <= Len(groups[g].path) /\ copy.epoch + 1 \in Nat
        BY <2>4, <2>5, SMTT(20)
    <2>7. SubSeq(groups'[g].path, 1, copy.epoch + 1) = SubSeq(groups[g].path, 1, copy.epoch + 1)
        BY <2>3, <2>6, PathKept
    <2>8. Len(groups'[g].log) \in Nat /\ Len(groups'[g].log) >= Len(groups[g].log)
        BY <2>3 DEF GroupsGrow, GrownFrom
    <2>9. copy.cursor \in Offset(g) .. Len(groups'[g].log)
        <3>1. PICK c, o, n, m : c = copy.cursor /\ o = Offset(g) /\ n = Len(groups[g].log) /\ m = Len(groups'[g].log)
            OBVIOUS
        <3>2. c \in Nat /\ o \in {0, 1} /\ n \in Nat /\ m \in Nat /\ o <= c /\ c <= n /\ n <= m
            BY <2>4, <2>5, <2>8, <3>1
        <3>3. c \in o .. m
            BY <3>2
        <3>4. QED
            BY <3>1, <3>3
    <2>10. QED
        BY <2>1, <2>2, <2>5, <2>7, <2>9 DEF CopySound, Offset
<1>3. QED
    BY <1>1, <1>2 DEF CopyFits

LEMMA OpSoundKept ==
    ASSUME ServerShape, GroupsSound, GroupsGrow, staged \in Nat, staged' \in Nat, staged' >= staged,
           NEW op \in OpRecord, OpSound(op)
    PROVE  OpSound(op)'
<1>1. /\ op.id \in Nat /\ op.generation \in Nat /\ op.epoch \in Nat /\ op.generation <= Newest /\ Newest \in Nat
      /\ Newest' >= Newest /\ Newest' \in Nat /\ op.id \in 1 .. staged'
    BY NewestNat DEF OpSound, OpRecord, GroupsGrow, GrownFrom
<1>2. ASSUME op.kind # "bootstrap", op.generation = Newest'
      PROVE  op.epoch + 1 <= Len(groups'[Newest'].path)
             /\ (op.kind \in Commits => op.epoch + 2 <= op.id
                    /\ op.path = Append(SubSeq(groups'[Newest'].path, 1, op.epoch + 1), op.id))
    <2>1. Newest' = Newest /\ op.generation = Newest
        BY <1>1, <1>2
    <2>2. op.generation # 0
        BY <1>2 DEF OpSound
    <2>3. PICK g : g = Newest
        OBVIOUS
    <2>4. g \in 1 .. Newest
        BY <1>1, <2>1, <2>2, <2>3
    <2>5. op.epoch + 1 <= Len(groups[g].path) /\ op.epoch + 1 \in Nat
        BY <1>1, <1>2, <2>1, <2>3 DEF OpSound, ActiveGroup
    <2>6. SubSeq(groups'[g].path, 1, op.epoch + 1) = SubSeq(groups[g].path, 1, op.epoch + 1)
        BY <2>4, <2>5, PathKept
    <2>7. Len(groups'[g].path) \in Nat /\ Len(groups'[g].path) >= Len(groups[g].path) /\ Len(groups[g].path) \in Nat
        BY <2>4, GroupParts, SMTT(20) DEF GroupsGrow, GrownFrom
    <2>8. op.kind \in Commits => op.epoch + 2 <= op.id /\ op.path = Append(SubSeq(groups[g].path, 1, op.epoch + 1), op.id)
        BY <2>1, <2>3 DEF OpSound, ActiveGroup
    <2>9. op.epoch + 1 <= Len(groups'[g].path)
        BY <1>1, <2>5, <2>7, SMTT(20)
    <2>10. QED
        BY <2>1, <2>3, <2>6, <2>8, <2>9
<1>3. op.generation <= Newest'
    BY <1>1
<1>4. (op.kind = "bootstrap" <=> op.generation = 0) /\ (op.kind \in Founders => op.path = <<op.id>>)
    BY DEF OpSound
<1>5. op.kind \in Commits => op.kind # "bootstrap"
    BY DEF Commits
<1>6. QED
    BY <1>1, <1>2, <1>3, <1>4, <1>5 DEF OpSound, ActiveGroup

LEMMA DoneKept ==
    ASSUME ServerShape, GroupsGrow, NEW op \in OpRecord, NEW sequence, OpSound(op), Done(op, sequence)
    PROVE  Done(op, sequence)'
<1>1. op.generation \in Nat /\ op.generation <= Newest /\ Newest \in Nat /\ Newest' >= Newest /\ Newest' \in Nat
    BY NewestNat DEF OpSound, OpRecord, GroupsGrow, GrownFrom
<1>2. CASE op.kind \in Founders
    <2>1. op.generation < Newest /\ groups[op.generation + 1].id = op.id /\ sequence = Offset(op.generation + 1)
        BY <1>2 DEF Done
    <2>2. op.generation + 1 \in 1 .. Newest
        BY <1>1, <2>1
    <2>3. groups'[op.generation + 1].id = op.id
        BY <2>1, <2>2 DEF GroupsGrow, GrownFrom
    <2>4. QED
        BY <1>1, <1>2, <2>1, <2>3 DEF Done, Offset
<1>3. CASE op.kind \notin Founders
    <2>1. sequence \in 1 .. Len(groups[op.generation].log) /\ groups[op.generation].log[sequence].id = op.id
        BY <1>3 DEF Done
    <2>2. op.generation \in 1 .. Newest
        BY <1>1, <1>3 DEF OpSound, Founders
    <2>3. Len(groups[op.generation].log) \in Nat /\ Len(groups'[op.generation].log) \in Nat
          /\ Len(groups'[op.generation].log) >= Len(groups[op.generation].log)
        BY <2>2, GroupParts, SMTT(20) DEF GroupsGrow, GrownFrom
    <2>4. groups'[op.generation].log[sequence] = groups[op.generation].log[sequence]
        BY <2>1, <2>2 DEF GroupsGrow, GrownFrom
    <2>5. sequence \in 1 .. Len(groups'[op.generation].log)
        BY <2>1, <2>3
    <2>6. QED
        BY <1>3, <2>1, <2>4, <2>5 DEF Done
<1>4. QED
    BY <1>2, <1>3

LEMMA KeySoundKept ==
    ASSUME ServerShape, GroupsGrow, NEW key \in EnvelopeRecord, key.generation \in 1 .. Newest, KeySound(key)
    PROVE  KeySound(key)'
<1>1. PICK g : g = key.generation
    OBVIOUS
<1>2. g \in 1 .. Newest /\ key.epoch \in Nat /\ key.epoch + 1 \in Nat /\ key.epoch + 1 <= Len(groups[g].path)
    BY <1>1 DEF KeySound, EnvelopeRecord
<1>3. SubSeq(groups'[g].path, 1, key.epoch + 1) = SubSeq(groups[g].path, 1, key.epoch + 1)
    BY <1>2, PathKept
<1>4. Len(groups'[g].path) \in Nat /\ Len(groups'[g].path) >= Len(groups[g].path) /\ Len(groups[g].path) \in Nat
    <2>1. groups[g].path \in Seq(Nat)
        BY <1>2, GroupParts
    <2>2. groups'[g].path \in Seq(Nat) /\ Len(groups'[g].path) >= Len(groups[g].path)
        BY <1>2 DEF GroupsGrow, GrownFrom
    <2>3. QED
        BY <2>1, <2>2
<1>5. key.epoch + 1 <= Len(groups'[g].path)
    BY <1>2, <1>4
<1>6. key.path = SubSeq(groups'[g].path, 1, key.epoch + 1)
    BY <1>1, <1>3 DEF KeySound
<1>7. QED
    BY <1>1, <1>5, <1>6 DEF KeySound

LEMMA WelcomesKept ==
    ASSUME ServerShape, GroupsGrow, Newest' = Newest, Newest > 0, NEW d, Welcomes(d) # {}
    PROVE  (Welcomes(d))' # {}
<1>1. PICK g : g = Newest
    OBVIOUS
<1>2. g \in 1 .. Newest
    BY <1>1, NewestNat
<1>3. PICK i \in Welcomes(d) : TRUE
    OBVIOUS
<1>4. i \in 1 .. Len(groups[g].log) /\ groups[g].log[i].kind = "add" /\ groups[g].log[i].target = d
    BY <1>1, <1>3 DEF Welcomes, ActiveGroup
<1>5. Len(groups[g].log) \in Nat /\ Len(groups'[g].log) \in Nat /\ Len(groups'[g].log) >= Len(groups[g].log)
    BY <1>2, GroupParts DEF GroupsGrow, GrownFrom
<1>6. i \in 1 .. Len(groups'[g].log) /\ groups'[g].log[i] = groups[g].log[i]
    BY <1>2, <1>4, <1>5 DEF GroupsGrow, GrownFrom
<1>7. QED
    BY <1>1, <1>4, <1>6 DEF Welcomes, ActiveGroup

LEMMA JoinKept ==
    ASSUME ServerShape, GroupsGrow, Newest' = Newest, Newest > 0, NEW d, NEW ops, NEW copy, CanJoin(d, ops, copy)
    PROVE  CanJoin(d, ops, copy)'
<1>1. PICK g : g = Newest
    OBVIOUS
<1>2. g \in 1 .. Newest /\ groups'[g].id = groups[g].id
    BY <1>1, NewestNat DEF GroupsGrow, GrownFrom
<1>3. Matches(copy, Newest) => Matches(copy, Newest)'
    BY <1>1, <1>2 DEF Matches
<1>4. QED
    BY <1>1, <1>2, <1>3, WelcomesKept DEF CanJoin

LEMMA ResetKeptKept ==
    ASSUME ServerShape, GroupsGrow, Newest' = Newest, Newest > 0, NEW d, NEW r \in OpRecord, NEW ops, NEW copy,
           ResetKept(d, r, ops, copy), copy # NoGroup => copy.generation \in 1 .. Newest
    PROVE  ResetKept(d, r, ops, copy)'
<1>1. PICK g : g = Newest
    OBVIOUS
<1>2. g \in 1 .. Newest /\ groups'[g].id = groups[g].id /\ 1 \in 1 .. Newest /\ groups'[1].id = groups[1].id
    BY <1>1, NewestNat DEF GroupsGrow, GrownFrom
<1>3. Matches(copy, Newest) => Matches(copy, Newest)'
    BY <1>1, <1>2 DEF Matches
<1>4. Matches(copy, r.generation) => Matches(copy, r.generation)'
    <2>1. ASSUME Matches(copy, r.generation) PROVE r.generation \in 1 .. Newest
        BY <2>1 DEF Matches
    <2>2. r.generation \in 1 .. Newest => groups'[r.generation].id = groups[r.generation].id
        BY DEF GroupsGrow, GrownFrom
    <2>3. QED
        BY <2>1, <2>2 DEF Matches
<1>5. Welcomes(d) # {} => (Welcomes(d))' # {}
    BY WelcomesKept
<1>6. r.generation = Newest' => copy = NoGroup \/ (copy.generation = Newest' /\ copy.cursor > 0)
    BY DEF ResetKept
<1>7. r.generation = Newest' - 1 /\ groups'[Newest'].id = r.id =>
          \/ copy = NoGroup \/ (Welcomes(d))' # {} \/ Matches(copy, Newest)'
          \/ (Matches(copy, r.generation)' /\ copy.cursor > 0)
    BY <1>1, <1>2, <1>3, <1>4, <1>5 DEF ResetKept
<1>8. r.generation = 1 => \A b \in ops : b.kind = "bootstrap" => b.id # groups'[1].id
    BY <1>2 DEF ResetKept
<1>9. QED
    BY <1>6, <1>7, <1>8 DEF ResetKept

-----------------------------------------------------------------------------
(* CryptoRuntime: a device goes on with what it keeps and the copy it has,    *)
(* and may stage a request.                                                   *)

KeptFor(d, kept, copy) ==
    /\ kept \subseteq operations[d] /\ CopyFits(copy)
    /\ \A w \in wire : w.op.from = d /\ AtStake(w.op) => w.op \in kept
    /\ \A r \in kept : r.kind = "reset" => ResetKept(d, r, kept, copy)
    /\ Newest > 0 /\ d \in ActiveGroup.members => CanJoin(d, kept, copy)

FreshFor(d, copy, op) ==
    /\ op \in OpRecord /\ op.from = d /\ op.id = staged + 1 /\ staged < MaxSteps
    /\ op.kind \in Founders => copy = NoGroup /\ op.path = <<op.id>>
    /\ op.kind = "bootstrap" => Newest = 0 /\ op.generation = 0
    /\ op.kind = "reset" =>
          /\ Newest > 0 /\ op.generation = Newest /\ op.epoch = EpochOf(ActiveGroup)
          /\ Recovered(d, Newest) = {}
    /\ op.kind \in Commits =>
          /\ copy # NoGroup /\ op.generation = copy.generation /\ op.epoch = copy.epoch
          /\ op.path = Append(copy.path, op.id)

DeviceOnly(d) ==
    /\ UNCHANGED serverVars /\ UNCHANGED sealed /\ UNCHANGED held /\ UNCHANGED lag
    /\ vault' \in [Devices -> CopyRecord] /\ operations' \in [Devices -> SUBSET OpRecord]
    /\ ensuring' \in [Devices -> EnsurePlaces] /\ seen' \in [Devices -> SeenRecord] /\ reply' \in [Devices -> ReplyRecord]
    /\ \A e \in Devices : e # d =>
          /\ vault'[e] = vault[e] /\ operations'[e] = operations[e] /\ ensuring'[e] = ensuring[e]
          /\ seen'[e] = seen[e] /\ reply'[e] = reply[e]
    /\ reply'[d].outcome = "none"

StaysQuiet(d, kept, copy) ==
    /\ vault'[d] = copy /\ operations'[d] = kept /\ wire' = wire /\ staged' = staged
    /\ \/ ensuring'[d] = "idle"
       \/ ensuring'[d] = "loaded" /\ LoadedFor(seen'[d], kept, copy)

Asks(d, kept, copy, op) ==
    /\ vault'[d] = copy /\ operations'[d] = kept \cup {op} /\ staged' = staged + 1
    /\ \E admitted \in BOOLEAN : wire' = wire \cup {[op |-> op, admitted |-> admitted]}
    /\ ensuring'[d] = "waiting"

\* What speaks of the server alone.
LEMMA ServerSame ==
    ASSUME UNCHANGED serverVars
    PROVE  /\ trust' = trust /\ spent' = spent /\ challenge' = challenge /\ groups' = groups
           /\ cryptoPolicy' = cryptoPolicy /\ recovery' = recovery /\ setup' = setup /\ contentKeys' = contentKeys
BY DEF serverVars

LEMMA GroupsStay ==
    ASSUME groups' = groups, staged' \in Nat, staged \in Nat, staged' >= staged
    PROVE  /\ Newest' = Newest
           /\ ServerShape => GroupsGrow
           /\ ServerShape /\ GroupsSound => (GroupsSound)'
           /\ \A copy : CopyFits(copy) => CopyFits(copy)'
           /\ \A op \in OpRecord : OpSound(op) => OpSound(op)'
           /\ \A op, g : OpLogged(op, g) => OpLogged(op, g)'
           /\ \A d, r, ops, copy : ResetKept(d, r, ops, copy) => ResetKept(d, r, ops, copy)'
           /\ \A d, ops, copy : CanJoin(d, ops, copy) => CanJoin(d, ops, copy)'
           /\ \A op, sequence : Done(op, sequence) => Done(op, sequence)'
           /\ \A op : AtStake(op)' <=> AtStake(op)
           /\ \A key : KeySound(key) => KeySound(key)'
           /\ \A view, ops, copy : LoadedFor(view, ops, copy) => LoadedFor(view, ops, copy)'
           /\ \A d : (Additions(d))' = Additions(d)
<1>1. Newest' = Newest
    BY DEF Newest
<1>2. (ActiveGroup)' = ActiveGroup
    BY <1>1 DEF ActiveGroup
<1>3. ASSUME ServerShape PROVE GroupsGrow
    BY <1>1, <1>3, NewestNat, GroupParts DEF GroupsGrow, GrownFrom
<1>4. ASSUME ServerShape, GroupsSound PROVE (GroupsSound)'
    <2>1. ASSUME NEW g \in 1 .. Newest PROVE GroupSound(g)'
        <3>1. GroupSound(g)
            BY <1>4, <2>1 DEF GroupsSound
        <3>2. \A i \in 1 .. Len(groups[g].log) : groups[g].log[i].id \in Nat
            BY <1>4, <2>1, GroupParts
        <3>3. ASSUME NEW i \in 1 .. Len(groups[g].log) PROVE groups[g].log[i].id <= staged'
            <4>1. groups[g].log[i].id \in Nat /\ groups[g].log[i].id <= staged
                BY <3>1, <3>2 DEF GroupSound
            <4>2. QED
                BY <4>1
        <3>4. Len(groups[g].path) \in 1 .. staged' /\ groups[g].id \in 1 .. staged'
            BY <3>1 DEF GroupSound
        <3>5. QED
            BY <3>1, <3>3, <3>4 DEF GroupSound, Offset
    <2>2. QED
        BY <1>1, <2>1 DEF GroupsSound
<1>5. \A copy : CopyFits(copy) => CopyFits(copy)'
    BY <1>1 DEF CopyFits, CopySound, Offset
<1>6. ASSUME NEW op \in OpRecord, OpSound(op) PROVE OpSound(op)'
    <2>1. op.id \in 1 .. staged'
        BY <1>6 DEF OpSound
    <2>2. QED
        BY <1>1, <1>2, <1>6, <2>1 DEF OpSound
<1>7. \A op, g : OpLogged(op, g) => OpLogged(op, g)'
    BY DEF OpLogged, EpochOf
<1>8. \A d : (Welcomes(d))' = Welcomes(d)
    BY <1>2 DEF Welcomes
<1>9. \A copy, g : Matches(copy, g) => Matches(copy, g)'
    BY DEF Matches
<1>10. \A d, r, ops, copy : ResetKept(d, r, ops, copy) => ResetKept(d, r, ops, copy)'
    BY <1>1, <1>8, <1>9 DEF ResetKept, Matches
<1>11. \A d, ops, copy : CanJoin(d, ops, copy) => CanJoin(d, ops, copy)'
    BY <1>1, <1>8, <1>9 DEF CanJoin, Matches
<1>12. \A op, sequence : Done(op, sequence) => Done(op, sequence)'
    BY <1>1 DEF Done, Offset
<1>13. \A op : AtStake(op)' <=> AtStake(op)
    BY <1>1, <1>2 DEF AtStake, EpochOf
<1>14. \A key : KeySound(key) => KeySound(key)'
    BY DEF KeySound
<1>15. \A view, ops, copy : LoadedFor(view, ops, copy) => LoadedFor(view, ops, copy)'
    BY <1>1 DEF LoadedFor, EpochOf
<1>16. \A d : (Additions(d))' = Additions(d)
    BY <1>1 DEF Additions
<1>17. QED
    BY <1>1, <1>3, <1>4, <1>5, <1>6, <1>7, <1>10, <1>11, <1>12, <1>13, <1>14, <1>15, <1>16

LEMMA OpTypes ==
    ASSUME ClientShape, NEW op \in AllOps
    PROVE  /\ op \in OpRecord /\ op.id \in Nat /\ op.generation \in Nat /\ op.epoch \in Nat /\ op.path \in Seq(Nat)
           /\ op.kind \in Founders \cup Commits /\ op.from \in Devices /\ op.target \in Devices
<1>1. op \in OpRecord
    BY DEF AllOps
<1>2. QED
    BY <1>1 DEF OpRecord

\* Every request there is.
LEMMA OpsThere ==
    ASSUME ClientShape
    PROVE  (\A w \in wire : w.op \in AllOps) /\ (\A d \in Devices : operations[d] \subseteq AllOps)
<1>1. ASSUME NEW w \in wire PROVE w.op \in OpRecord
    BY DEF ClientShape
<1>2. ASSUME NEW d \in Devices PROVE operations[d] \subseteq OpRecord
    BY DEF ClientShape
<1>3. QED
    BY <1>1, <1>2 DEF AllOps

\* What there is of a generation's ids was staged.
LEMMA IdsStaged ==
    ASSUME ServerShape, staged \in Nat, GroupsSound, NEW g \in 1 .. Newest
    PROVE  /\ groups[g].id \in 1 .. staged
           /\ \A i \in 1 .. Len(groups[g].log) : groups[g].log[i].id \in 0 .. staged
<1>1. GroupSound(g)
    BY DEF GroupsSound
<1>2. \A i \in 1 .. Len(groups[g].log) : groups[g].log[i].id \in Nat
    BY GroupParts
<1>3. QED
    BY <1>1, <1>2 DEF GroupSound

\* What does not depend on the step of a device.
LEMMA DeviceRest ==
    ASSUME CryptoInv, NEW d \in Devices, DeviceOnly(d), staged' \in Nat, staged' >= staged, staged' <= MaxSteps,
           wire' \subseteq [op : OpRecord, admitted : BOOLEAN],
           \A e \in Devices : \A op \in operations'[e] : op.from = e,
           CopyFits(vault'[d])
    PROVE  (ServerShape /\ ClientShape /\ GroupsSound /\ CopiesSound /\ EnvelopesSound /\ PolicySound)'
<1>1. /\ trust' = trust /\ spent' = spent /\ challenge' = challenge /\ groups' = groups /\ cryptoPolicy' = cryptoPolicy
      /\ recovery' = recovery /\ setup' = setup /\ contentKeys' = contentKeys /\ sealed' = sealed /\ held' = held
    BY ServerSame DEF DeviceOnly
<1>2. ServerShape /\ ClientShape /\ staged \in Nat
    BY DEF CryptoInv, ClientShape
<1>3. (ServerShape)'
    BY <1>1, <1>2 DEF ServerShape
<1>4. (ClientShape)'
    BY <1>1, <1>2 DEF ClientShape, DeviceOnly
<1>5. (GroupsSound)'
    BY <1>1, <1>2, GroupsStay DEF CryptoInv
<1>6. (CopiesSound)'
    <2>1. ASSUME NEW e \in Devices PROVE CopyFits(vault'[e])
        BY <2>1 DEF CryptoInv, DevicesSound, CopiesSound, DeviceOnly
    <2>2. ASSUME NEW e \in Devices PROVE CopyFits(vault[e])'
        <3>1. PICK copy : copy = vault'[e]
            OBVIOUS
        <3>2. CopyFits(copy)'
            BY <1>1, <1>2, <2>1, <3>1, GroupsStay
        <3>3. QED
            BY <3>1, <3>2 DEF CopyFits, CopySound
    <2>3. QED
        BY <2>2 DEF CopiesSound
<1>7. Newest' = Newest
    BY <1>1 DEF Newest
<1>8. (EnvelopesSound)'
    BY <1>1, <1>7 DEF CryptoInv, DevicesSound, EnvelopesSound, KeySound
<1>9. (PolicySound)'
    <2>2. SpentSound /\ SetupSound /\ RekeyTracked /\ PolicyFollows
        BY DEF CryptoInv, PolicySound
    <2>3. (SpentSound)'
        BY <1>1, <1>2, <2>2, GroupsStay DEF SpentSound
    <2>4. (SetupSound)'
        BY <1>1, <1>7, <2>2 DEF SetupSound
    <2>5. (RekeyTracked)'
        BY <1>1, <1>7, <2>2 DEF RekeyTracked, RekeyRequired, ActiveGroup
    <2>6. (PolicyFollows)'
        BY <1>1, <1>7, <2>2 DEF PolicyFollows, DeviceOnly
    <2>7. QED
        BY <2>3, <2>4, <2>5, <2>6 DEF PolicySound
<1>10. QED
    BY <1>3, <1>4, <1>5, <1>6, <1>8, <1>9

LEMMA OthersStay ==
    ASSUME CryptoInv, NEW d \in Devices, DeviceOnly(d), staged' \in Nat, staged' >= staged,
           \A w \in wire' : w \in wire \/ w.op.id = staged + 1, NEW e \in Devices, e # d
    PROVE  /\ WaitSound(e)'
           /\ \A r \in operations'[e] : r.kind = "reset" => ResetKept(e, r, operations[e], vault[e])'
           /\ ensuring'[e] = "loaded" => LoadedFor(seen[e], operations[e], vault[e])'
           /\ Newest > 0 /\ e \in ActiveGroup.members => CanJoin(e, operations[e], vault[e])'
<1>1. /\ vault'[e] = vault[e] /\ operations'[e] = operations[e] /\ ensuring'[e] = ensuring[e]
      /\ seen'[e] = seen[e] /\ reply'[e] = reply[e] /\ groups' = groups
    BY ServerSame DEF DeviceOnly
<1>2. PICK ops : ops = operations[e]
    OBVIOUS
<1>3. PICK copy : copy = vault[e]
    OBVIOUS
<1>4. PICK view : view = seen[e]
    OBVIOUS
<1>5. staged \in Nat /\ ServerShape /\ ClientShape
    BY DEF CryptoInv, ClientShape
<1>6. WaitSound(e)'
    <2>1. WaitSound(e)
        BY DEF CryptoInv, DevicesSound, WaitingSound
    <2>2. CASE ensuring[e] # "waiting"
        BY <1>1, <2>1, <2>2 DEF WaitSound
    <2>3. CASE ensuring[e] = "waiting"
        <3>1. PICK op \in operations[e] : Newer(e, op) /\ AwaitSound(e, op)
            BY <2>1, <2>3 DEF WaitSound
        <3>2. op \in AllOps
            BY <1>5, OpsThere
        <3>3. op \in OpRecord /\ OpSound(op)
            BY <1>5, <3>2, OpTypes DEF CryptoInv, RequestsSound, OpsSound
        <3>4. op.id # staged + 1
            BY <1>5, <3>3 DEF OpSound
        <3>5. reply[e].outcome # "none" => \A w \in wire' : w.op # op
            BY <3>1, <3>4 DEF AwaitSound
        <3>6. PICK sequence : sequence = reply[e].sequence
            OBVIOUS
        <3>7. reply[e].outcome = "accepted" => Done(op, sequence)'
            BY <1>1, <1>5, <3>1, <3>6, GroupsStay DEF AwaitSound
        <3>8. Newest' = Newest
            BY <1>1 DEF Newest
        <3>9. AwaitSound(e, op)'
            BY <1>1, <3>1, <3>5, <3>6, <3>7, <3>8 DEF AwaitSound, Done
        <3>10. Newer(e, op)'
            BY <1>1, <3>1 DEF Newer
        <3>11. QED
            BY <1>1, <2>3, <3>1, <3>9, <3>10 DEF WaitSound
    <2>4. QED
        BY <2>2, <2>3
<1>7. ASSUME NEW r \in operations'[e], r.kind = "reset" PROVE ResetKept(e, r, operations[e], vault[e])'
    <2>1. ResetKept(e, r, ops, copy)
        BY <1>1, <1>2, <1>3, <1>7 DEF CryptoInv, RequestsSound, ResetsKept
    <2>2. ResetKept(e, r, ops, copy)'
        BY <1>1, <1>5, <2>1, GroupsStay
    <2>3. QED
        BY <1>1, <1>2, <1>3, <2>2
<1>8. ASSUME ensuring'[e] = "loaded" PROVE LoadedFor(seen[e], operations[e], vault[e])'
    <2>1. LoadedFor(view, ops, copy)
        BY <1>1, <1>2, <1>3, <1>4, <1>8 DEF CryptoInv, DevicesSound, LoadedSound
    <2>2. LoadedFor(view, ops, copy)'
        BY <1>1, <1>5, <2>1, GroupsStay
    <2>3. QED
        BY <1>1, <1>2, <1>3, <1>4, <2>2
<1>9. ASSUME Newest > 0, e \in ActiveGroup.members PROVE CanJoin(e, operations[e], vault[e])'
    <2>1. CanJoin(e, ops, copy)
        BY <1>2, <1>3, <1>9 DEF CryptoInv, DevicesSound, JoinSound
    <2>2. CanJoin(e, ops, copy)'
        BY <1>1, <1>5, <2>1, GroupsStay
    <2>3. QED
        BY <1>1, <1>2, <1>3, <2>2
<1>10. QED
    BY <1>6, <1>7, <1>8, <1>9

\* All that a step of a device has to show for itself.
LEMMA DeviceKeeps ==
    ASSUME CryptoInv, NEW d \in Devices, DeviceOnly(d), staged' \in Nat, staged' >= staged, staged' <= MaxSteps,
           wire' \subseteq [op : OpRecord, admitted : BOOLEAN],
           \A w \in wire' : w \in wire \/ w.op.id = staged + 1,
           \A op \in operations'[d] : op.from = d, CopyFits(vault'[d]),
           (OpsSound /\ OnceStaged /\ OpsLogged /\ WireSound)',
           NEW kept, kept = operations'[d], NEW copy, copy = vault'[d], NEW view, view = seen'[d],
           WaitSound(d)', \A r \in kept : r.kind = "reset" => ResetKept(d, r, kept, copy)',
           ensuring'[d] = "loaded" => LoadedFor(view, kept, copy)',
           Newest > 0 /\ d \in ActiveGroup.members => CanJoin(d, kept, copy)'
    PROVE  CryptoInv'
<1>1. \A e \in Devices : \A op \in operations'[e] : op.from = e
    BY DEF DeviceOnly, CryptoInv, ClientShape
<1>2. (ServerShape /\ ClientShape /\ GroupsSound /\ CopiesSound /\ EnvelopesSound /\ PolicySound)'
    BY <1>1, DeviceRest
<1>3. groups' = groups /\ Newest' = Newest /\ (ActiveGroup)' = ActiveGroup
    BY ServerSame DEF DeviceOnly, Newest, ActiveGroup
<1>4. (WaitingSound)'
    BY OthersStay DEF WaitingSound
<1>5. ASSUME NEW e \in Devices, NEW r \in operations'[e], r.kind = "reset"
      PROVE  ResetKept(e, r, operations[e], vault[e])'
    <2>1. CASE e = d
        <3>1. ResetKept(d, r, kept, copy)'
            BY <1>5, <2>1
        <3>2. QED
            BY <2>1, <3>1
    <2>2. CASE e # d
        BY <1>5, <2>2, OthersStay
    <2>3. QED
        BY <2>1, <2>2
<1>6. ASSUME NEW e \in Devices, ensuring'[e] = "loaded" PROVE LoadedFor(seen[e], operations[e], vault[e])'
    <2>1. CASE e = d
        <3>1. LoadedFor(view, kept, copy)'
            BY <1>6, <2>1
        <3>2. QED
            BY <2>1, <3>1
    <2>2. CASE e # d
        BY <1>6, <2>2, OthersStay
    <2>3. QED
        BY <2>1, <2>2
<1>7. ASSUME NEW e \in Devices, Newest > 0, e \in ActiveGroup.members PROVE CanJoin(e, operations[e], vault[e])'
    <2>1. CASE e = d
        <3>1. CanJoin(d, kept, copy)'
            BY <1>7, <2>1
        <3>2. QED
            BY <2>1, <3>1
    <2>2. CASE e # d
        BY <1>7, <2>2, OthersStay
    <2>3. QED
        BY <2>1, <2>2
<1>8. (ResetsKept)'
    BY <1>5 DEF ResetsKept
<1>9. (LoadedSound)'
    BY <1>6 DEF LoadedSound
<1>10. (JoinSound)'
    <2>1. Newest > 0 => ActiveGroup.members \subseteq Devices
        BY NewestNat, GroupParts DEF CryptoInv, ActiveGroup
    <2>2. QED
        BY <1>3, <1>7, <2>1 DEF JoinSound
<1>11. (RequestsSound /\ DevicesSound)'
    BY <1>2, <1>4, <1>8, <1>9, <1>10 DEF RequestsSound, DevicesSound
<1>12. QED
    BY <1>2, <1>11 DEF CryptoInv

LEMMA QuietKeeps ==
    ASSUME CryptoInv, NEW d \in Devices, NEW kept, NEW copy, KeptFor(d, kept, copy), DeviceOnly(d), StaysQuiet(d, kept, copy)
    PROVE  CryptoInv'
<1>1. groups' = groups /\ wire' = wire /\ staged' = staged /\ vault'[d] = copy /\ operations'[d] = kept
    BY ServerSame DEF DeviceOnly, StaysQuiet
<1>2. ServerShape /\ ClientShape /\ staged \in Nat /\ staged <= MaxSteps /\ wire \subseteq [op : OpRecord, admitted : BOOLEAN]
      /\ \A w \in wire : w.op \in AllOps
    BY OpsThere DEF CryptoInv, ClientShape
<1>3. \A e \in Devices : operations'[e] \subseteq operations[e]
    BY <1>1 DEF DeviceOnly, KeptFor
<1>4. AllOps' \subseteq AllOps
    BY <1>1, <1>3 DEF AllOps
<1>5. (OpsSound)'
    BY <1>1, <1>2, <1>4, OpTypes, GroupsStay DEF OpsSound, CryptoInv, RequestsSound
<1>6. (OnceStaged)'
    BY <1>1, <1>4 DEF OnceStaged, CryptoInv, RequestsSound
<1>7. (OpsLogged)'
    BY <1>1, <1>2, <1>4, GroupsStay DEF OpsLogged, CryptoInv, RequestsSound
<1>8. (WireSound)'
    <2>1. ASSUME NEW w \in wire PROVE /\ \A g \in 1 .. Newest : groups[g].id # w.op.id
                                      /\ AtStake(w.op) => w.op \in operations'[w.op.from]
        <3>1. w.op.from \in Devices
            BY <1>2, OpTypes
        <3>2. WireSound
            BY DEF CryptoInv, RequestsSound
        <3>3. CASE w.op.from = d
            BY <1>1, <3>2, <3>3 DEF WireSound, KeptFor
        <3>4. CASE w.op.from # d
            BY <3>1, <3>2, <3>4 DEF WireSound, DeviceOnly
        <3>5. QED
            BY <3>3, <3>4
    <2>2. Newest' = Newest /\ \A w \in wire : AtStake(w.op)' <=> AtStake(w.op)
        BY <1>1, <1>2, GroupsStay
    <2>3. QED
        BY <1>1, <2>1, <2>2 DEF WireSound
<1>9. WaitSound(d)'
    BY DEF StaysQuiet, DeviceOnly, WaitSound
<1>10. \A r \in kept : r.kind = "reset" => ResetKept(d, r, kept, copy)'
    BY <1>1, <1>2, GroupsStay DEF KeptFor
<1>11. PICK view : view = seen'[d]
    OBVIOUS
<1>12. ensuring'[d] = "loaded" => LoadedFor(view, kept, copy)'
    <2>1. ensuring'[d] = "loaded" => LoadedFor(view, kept, copy)
        BY <1>11 DEF StaysQuiet
    <2>2. QED
        BY <1>1, <1>2, <2>1, GroupsStay
<1>13. Newest > 0 /\ d \in ActiveGroup.members => CanJoin(d, kept, copy)'
    BY <1>1, <1>2, GroupsStay DEF KeptFor
<1>14. CopyFits(vault'[d])
    BY <1>1 DEF KeptFor
<1>15. \A op \in operations'[d] : op.from = d
    BY <1>2, <1>3 DEF ClientShape
<1>16. QED
    BY <1>1, <1>2, <1>5, <1>6, <1>7, <1>8, <1>9, <1>10, <1>11, <1>12, <1>13, <1>14, <1>15, DeviceKeeps

LEMMA CopyIsAt ==
    ASSUME ServerShape, staged \in Nat, GroupsSound, NEW copy, CopyFits(copy), copy # NoGroup, copy.generation = Newest
    PROVE  /\ Newest \in 1 .. Newest /\ GroupSound(Newest) /\ CopySound(copy, Newest)
           /\ copy.epoch + 1 \in 1 .. Len(ActiveGroup.path) /\ copy.epoch + 1 <= staged
           /\ copy.path = SubSeq(ActiveGroup.path, 1, copy.epoch + 1) /\ Matches(copy, Newest)
<1>1. copy \in CopyRecord /\ copy.generation \in Nat /\ copy.epoch \in Nat /\ copy.cursor \in Nat /\ copy.path \in Seq(Nat)
      /\ copy.generation > 0 /\ Newest \in Nat
    BY NewestNat DEF CopyFits, CopyRecord
<1>2. PICK g : g = Newest
    OBVIOUS
<1>3. PICK path : path = groups[g].path
    OBVIOUS
<1>4. g \in 1 .. Newest /\ GroupSound(g) /\ CopySound(copy, g) /\ path \in Seq(Nat) /\ Offset(g) \in {0, 1}
    BY <1>1, <1>2, <1>3, GroupParts, OffsetBound DEF CopyFits, GroupsSound
<1>5. /\ copy.cursor >= Offset(g) /\ copy.cursor <= Len(groups[g].log) /\ copy.epoch = copy.cursor - Offset(g)
      /\ copy.path = SubSeq(path, 1, copy.epoch + 1) /\ Len(groups[g].log) = Len(path) - 1 + Offset(g)
      /\ path[1] = groups[g].id /\ Len(path) <= staged /\ Len(path) >= 1
    BY <1>1, <1>3, <1>4 DEF CopySound, GroupSound
<1>6. copy.epoch + 1 \in 1 .. Len(path) /\ copy.epoch + 1 <= staged
    <2>1. PICK e, c, o, n, m : e = copy.epoch /\ c = copy.cursor /\ o = Offset(g) /\ n = Len(groups[g].log) /\ m = Len(path)
        OBVIOUS
    <2>2. e \in Nat /\ c \in Nat /\ o \in {0, 1} /\ m \in Nat /\ n \in Nat
        BY <1>1, <1>4, <2>1, GroupParts
    <2>3. c <= n /\ e = c - o /\ n = m - 1 + o /\ m <= staged
        BY <1>5, <2>1
    <2>4. e + 1 \in 1 .. m /\ e + 1 <= staged
        BY <2>2, <2>3
    <2>5. QED
        BY <2>1, <2>4
<1>7. copy.path[1] = path[1]
    BY <1>4, <1>5, <1>6
<1>8. QED
    BY <1>1, <1>2, <1>3, <1>4, <1>5, <1>6, <1>7 DEF Matches, ActiveGroup

LEMMA FreshSound ==
    ASSUME CryptoInv, NEW d \in Devices, NEW copy, NEW op, CopyFits(copy), FreshFor(d, copy, op)
    PROVE  /\ op.generation <= Newest /\ (op.kind = "bootstrap" <=> op.generation = 0)
           /\ op.kind \in Founders => op.path = <<op.id>>
           /\ op.kind # "bootstrap" /\ op.generation = Newest => op.epoch + 1 <= Len(ActiveGroup.path)
           /\ op.kind \in Commits /\ op.generation = Newest =>
                 /\ op.epoch + 2 <= op.id
                 /\ op.path = Append(SubSeq(ActiveGroup.path, 1, op.epoch + 1), op.id)
<1>1. /\ ServerShape /\ staged \in Nat /\ GroupsSound /\ Newest \in Nat
      /\ op.id = staged + 1 /\ op.generation \in Nat /\ op.epoch \in Nat /\ op.kind \in Founders \cup Commits
    BY NewestNat DEF CryptoInv, ClientShape, FreshFor, OpRecord
<1>2. CASE op.kind = "bootstrap"
    BY <1>1, <1>2 DEF FreshFor, Founders, Commits
<1>3. CASE op.kind = "reset"
    <2>1. Newest \in 1 .. Newest /\ op.generation = Newest /\ op.epoch = Len(groups[Newest].path) - 1
        BY <1>1, <1>3 DEF FreshFor, EpochOf, ActiveGroup
    <2>2. Len(groups[Newest].path) \in Nat
        BY <1>1, <2>1, GroupParts
    <2>3. QED
        BY <1>1, <1>3, <2>1, <2>2 DEF FreshFor, Founders, Commits, ActiveGroup
<1>4. CASE op.kind \in Commits
    <2>1. copy # NoGroup /\ op.generation = copy.generation /\ op.epoch = copy.epoch /\ op.path = Append(copy.path, op.id)
        BY <1>4 DEF FreshFor
    <2>2. copy.generation <= Newest /\ copy.generation > 0
        BY <2>1 DEF CopyFits
    <2>3. ASSUME op.generation = Newest
          PROVE  copy.epoch + 1 \in 1 .. Len(ActiveGroup.path) /\ copy.epoch + 1 <= staged
                 /\ copy.path = SubSeq(ActiveGroup.path, 1, copy.epoch + 1)
        BY <1>1, <2>1, <2>3, CopyIsAt
    <2>4. op.generation = Newest => op.epoch + 1 <= Len(ActiveGroup.path)
        <3>1. op.generation = Newest => Newest \in 1 .. Newest
            BY <1>1, <2>1, <2>2
        <3>2. op.generation = Newest => Len(ActiveGroup.path) \in Nat
            BY <1>1, <3>1, GroupParts DEF ActiveGroup
        <3>3. QED
            BY <2>1, <2>3, <3>2
    <2>5. op.generation = Newest => op.epoch + 2 <= op.id
        BY <1>1, <2>1, <2>3
    <2>6. op.kind # "bootstrap" /\ op.kind \notin Founders /\ op.generation # 0 /\ op.generation <= Newest
        BY <1>4, <2>1, <2>2 DEF Commits, Founders
    <2>7. op.generation = Newest => op.path = Append(SubSeq(ActiveGroup.path, 1, op.epoch + 1), op.id)
        BY <2>1, <2>3
    <2>8. QED
        BY <1>4, <2>4, <2>5, <2>6, <2>7
<1>5. QED
    BY <1>1, <1>2, <1>3, <1>4 DEF Founders

LEMMA AsksKeeps ==
    ASSUME CryptoInv, NEW d \in Devices, NEW kept, NEW copy, NEW op, KeptFor(d, kept, copy), FreshFor(d, copy, op),
           DeviceOnly(d), Asks(d, kept, copy, op)
    PROVE  CryptoInv'
<1>1. groups' = groups /\ staged' = staged + 1 /\ vault'[d] = copy /\ operations'[d] = kept \cup {op}
    BY ServerSame DEF DeviceOnly, Asks
<1>2. PICK sent : sent \in [op : OpRecord, admitted : BOOLEAN] /\ sent.op = op /\ wire' = wire \cup {sent}
    <2>1. PICK admitted \in BOOLEAN : wire' = wire \cup {[op |-> op, admitted |-> admitted]}
        BY DEF Asks
    <2>2. PICK sent : sent = [op |-> op, admitted |-> admitted]
        OBVIOUS
    <2>3. QED
        BY <2>1, <2>2 DEF FreshFor
<1>3. /\ ServerShape /\ ClientShape /\ GroupsSound /\ staged \in Nat /\ staged' \in Nat /\ staged' <= MaxSteps
      /\ wire \subseteq [op : OpRecord, admitted : BOOLEAN] /\ \A w \in wire : w.op \in AllOps
      /\ op \in OpRecord /\ op.from = d /\ op.id = staged + 1 /\ Newest \in Nat
    BY <1>1, NewestNat, CryptoBounds, OpsThere DEF CryptoInv, ClientShape, FreshFor
<1>4. \A e \in Devices : operations'[e] \subseteq operations[e] \cup {op}
    BY <1>1 DEF DeviceOnly, KeptFor
<1>5. AllOps' \subseteq AllOps \cup {op}
    BY <1>1, <1>2, <1>4 DEF AllOps
<1>6. ASSUME NEW other \in AllOps
      PROVE  other \in OpRecord /\ OpSound(other) /\ other.id \in 1 .. staged /\ other.id < op.id /\ other.generation \in Nat
             /\ other.generation <= Newest
    <2>1. other \in OpRecord /\ OpSound(other) /\ other.generation \in Nat
        BY <1>3, <1>6, OpTypes DEF OpsSound, CryptoInv, RequestsSound
    <2>2. other.id \in 1 .. staged /\ other.generation <= Newest
        BY <2>1 DEF OpSound
    <2>3. other.id < op.id
        BY <1>3, <2>2
    <2>4. QED
        BY <2>1, <2>2, <2>3
<1>7. Newest' = Newest /\ (ActiveGroup)' = ActiveGroup
    BY <1>1 DEF Newest, ActiveGroup
<1>8. (OpsSound)'
    <2>1. CopyFits(copy)
        BY DEF KeptFor
    <2>2. OpSound(op)'
        <3>1. op.id \in 1 .. staged'
            BY <1>1, <1>3
        <3>2. /\ op.generation <= Newest /\ (op.kind = "bootstrap" <=> op.generation = 0)
              /\ op.kind \in Founders => op.path = <<op.id>>
              /\ op.kind # "bootstrap" /\ op.generation = Newest => op.epoch + 1 <= Len(ActiveGroup.path)
              /\ op.kind \in Commits /\ op.generation = Newest =>
                    /\ op.epoch + 2 <= op.id
                    /\ op.path = Append(SubSeq(ActiveGroup.path, 1, op.epoch + 1), op.id)
            BY <2>1, FreshSound
        <3>3. QED
            BY <1>7, <3>1, <3>2 DEF OpSound
    <2>3. \A other \in AllOps : OpSound(other)'
        BY <1>1, <1>3, <1>6, GroupsStay
    <2>4. QED
        BY <1>5, <2>2, <2>3 DEF OpsSound
<1>9. (OnceStaged)'
    <2>1. OnceStaged
        BY DEF CryptoInv, RequestsSound
    <2>2. \A one, other \in AllOps \cup {op} : one.id = other.id => one = other
        BY <1>6, <2>1, <1>3 DEF OnceStaged
    <2>3. \A one, other \in wire \cup {sent} : one.op.id = other.op.id => one = other
        BY <1>2, <1>3, <1>6, <2>1 DEF OnceStaged
    <2>4. \A b, c \in AllOps \cup {op} : b.kind = "bootstrap" /\ c.kind # "bootstrap" => b.id < c.id
        <3>1. ASSUME NEW c \in AllOps, op.kind = "bootstrap", c.kind # "bootstrap" PROVE FALSE
            <4>1. Newest = 0 /\ c.generation = 0
                BY <1>3, <1>6, <3>1 DEF FreshFor
            <4>2. QED
                BY <1>6, <3>1, <4>1 DEF OpSound
        <3>2. QED
            BY <1>6, <2>1, <3>1 DEF OnceStaged
    <2>5. QED
        BY <1>2, <1>5, <2>2, <2>3, <2>4 DEF OnceStaged
<1>10. (OpsLogged)'
    <2>1. ASSUME NEW g \in 1 .. Newest PROVE OpLogged(op, g)
        <3>1. groups[g].id # op.id /\ \A i \in 1 .. Len(groups[g].log) : groups[g].log[i].id # op.id
            BY <1>3, IdsStaged
        <3>2. QED
            BY <3>1 DEF OpLogged
    <2>2. \A other \in AllOps \cup {op} : \A g \in 1 .. Newest : OpLogged(other, g)
        BY <2>1 DEF OpsLogged, CryptoInv, RequestsSound
    <2>3. \A other \in AllOps \cup {op} : \A g \in 1 .. Newest : OpLogged(other, g)'
        BY <1>1, <1>3, <2>2, GroupsStay
    <2>4. QED
        BY <1>5, <1>7, <2>3 DEF OpsLogged
<1>11. (WireSound)'
    <2>1. WireSound
        BY DEF CryptoInv, RequestsSound
    <2>2. ASSUME NEW w \in wire', NEW g \in 1 .. Newest PROVE groups'[g].id # w.op.id
        <3>1. CASE w = sent
            BY <1>1, <1>2, <1>3, <3>1, IdsStaged
        <3>2. CASE w \in wire
            BY <1>1, <2>1, <3>2 DEF WireSound
        <3>3. QED
            BY <1>2, <3>1, <3>2
    <2>3. ASSUME NEW w \in wire', AtStake(w.op)' PROVE w.op \in operations'[w.op.from]
        <3>1. PICK o : o = w.op
            OBVIOUS
        <3>2. AtStake(o)'
            BY <2>3, <3>1
        <3>3. AtStake(o)
            BY <1>1, <1>3, <3>2, GroupsStay
        <3>4. CASE w = sent
            BY <1>1, <1>2, <1>3, <3>4
        <3>5. CASE w \in wire /\ o.from = d
            BY <1>1, <3>1, <3>3, <3>5 DEF KeptFor
        <3>6. CASE w \in wire /\ o.from # d
            <4>1. o.from \in Devices
                BY <1>3, <3>1, <3>6, OpTypes
            <4>2. o \in operations[o.from]
                BY <2>1, <3>1, <3>3, <3>6 DEF WireSound
            <4>3. QED
                BY <3>1, <3>6, <4>1, <4>2 DEF DeviceOnly
        <3>7. QED
            BY <1>2, <3>1, <3>4, <3>5, <3>6
    <2>4. QED
        BY <1>7, <2>2, <2>3 DEF WireSound
<1>12. WaitSound(d)'
    <2>1. Newer(d, op)'
        <3>1. \A other \in kept : other \in AllOps
            BY <1>3, OpsThere DEF KeptFor
        <3>2. \A other \in kept : other.id <= op.id
            BY <1>3, <1>6, <3>1
        <3>3. QED
            BY <1>1, <1>3, <3>2 DEF Newer
    <2>2. AwaitSound(d, op)'
        <3>1. op.kind \in Commits => vault'[d].generation = op.generation
            BY <1>1 DEF FreshFor
        <3>2. op.kind = "bootstrap" => vault'[d] = NoGroup
            BY <1>1 DEF FreshFor, Founders
        <3>3. reply'[d].outcome = "none"
            BY DEF DeviceOnly
        <3>4. QED
            BY <3>1, <3>2, <3>3 DEF AwaitSound
    <2>3. op \in operations'[d] /\ ensuring'[d] = "waiting"
        BY <1>1 DEF Asks
    <2>4. QED
        BY <2>1, <2>2, <2>3 DEF WaitSound
<1>13. PICK ops : ops = operations'[d]
    OBVIOUS
<1>14. \A r \in ops : r.kind = "reset" => ResetKept(d, r, ops, copy)'
    <2>1. ops = kept \cup {op}
        BY <1>1, <1>13
    <2>2. ASSUME NEW r \in kept, r.kind = "reset" PROVE ResetKept(d, r, ops, copy)
        <3>1. ResetKept(d, r, kept, copy)
            BY <2>2 DEF KeptFor
        <3>2. r \in AllOps
            BY <1>3, <2>2, OpsThere DEF KeptFor
        <3>3. r.generation = 1 => groups[1].id # op.id
            <4>1. r.generation = 1 => 1 \in 1 .. Newest
                BY <1>3, <1>6, <3>2
            <4>2. QED
                BY <1>3, <4>1, IdsStaged
        <3>4. QED
            BY <2>1, <3>1, <3>3 DEF ResetKept
    <2>3. ASSUME op.kind = "reset" PROVE ResetKept(d, op, ops, copy)
        <3>1. copy = NoGroup /\ op.generation = Newest /\ Recovered(d, Newest) = {} /\ Newest > 0
            BY <2>3 DEF FreshFor, Founders
        <3>2. Newest # Newest - 1
            BY <1>3
        <3>3. ASSUME NEW b \in ops, b.kind = "bootstrap", Newest = 1 PROVE b.id # groups[1].id
            <4>1. b \in operations[d]
                BY <2>1, <2>3, <3>3 DEF KeptFor
            <4>2. QED
                BY <3>1, <3>3, <4>1 DEF Recovered
        <3>4. QED
            BY <3>1, <3>2, <3>3 DEF ResetKept
    <2>4. \A r \in ops : r.kind = "reset" => ResetKept(d, r, ops, copy)
        BY <2>1, <2>2, <2>3
    <2>5. QED
        BY <1>1, <1>3, <2>4, GroupsStay
<1>15. Newest > 0 /\ d \in ActiveGroup.members => CanJoin(d, ops, copy)'
    <2>1. Newest > 0 /\ d \in ActiveGroup.members => CanJoin(d, ops, copy)
        BY <1>1, <1>13 DEF KeptFor, CanJoin
    <2>2. QED
        BY <1>1, <1>3, <2>1, GroupsStay
<1>16. PICK view : view = seen'[d]
    OBVIOUS
<1>17. ensuring'[d] # "loaded"
    BY DEF Asks
<1>18. CopyFits(vault'[d])
    BY <1>1 DEF KeptFor
<1>19. \A o \in operations'[d] : o.from = d
    BY <1>1, <1>3 DEF ClientShape, KeptFor
<1>20. wire' \subseteq [op : OpRecord, admitted : BOOLEAN] /\ \A w \in wire' : w \in wire \/ w.op.id = staged + 1
    BY <1>2, <1>3
<1>21. staged' >= staged /\ \A o \in operations'[d] : o.from = d
    BY <1>1, <1>3, <1>19
<1>22. ensuring'[d] = "loaded" => LoadedFor(view, ops, copy)'
    BY <1>17
<1>23. copy = vault'[d]
    BY <1>1
<1>24. QED
    BY <1>21, <1>22, <1>23, <1>3, <1>8, <1>9, <1>10, <1>11, <1>12, <1>13, <1>14, <1>15, <1>16, <1>17, <1>18, <1>19, <1>20, DeviceKeeps

-----------------------------------------------------------------------------
(* CryptoRuntime: the steps of a device.                                      *)

\* What a step leaves alone, but for the requests and the place of the device.
FrameFor(d, copy) ==
    /\ UNCHANGED serverVars /\ UNCHANGED sealed /\ UNCHANGED held /\ UNCHANGED lag
    /\ vault' \in [Devices -> CopyRecord] /\ seen' \in [Devices -> SeenRecord] /\ reply' \in [Devices -> ReplyRecord]
    /\ \A e \in Devices : e # d => vault'[e] = vault[e] /\ seen'[e] = seen[e] /\ reply'[e] = reply[e]
    /\ vault'[d] = copy /\ reply'[d].outcome = "none"

LEMMA StageAsks ==
    ASSUME CryptoInv, NEW d \in Devices, NEW kept, NEW copy, KeptFor(d, kept, copy), FrameFor(d, copy),
           NEW kind \in Founders \cup Commits, NEW local, local.generation \in Nat, local.epoch \in Nat,
           NEW target \in Devices, NEW base \in Seq(Nat), Stage(d, kept, kind, local, target, base),
           kind = "bootstrap" => Newest = 0 /\ local.generation = 0 /\ base = <<>> /\ copy = NoGroup,
           kind = "reset" =>
              /\ Newest > 0 /\ local.generation = Newest /\ local.epoch = EpochOf(ActiveGroup)
              /\ Recovered(d, Newest) = {} /\ base = <<>> /\ copy = NoGroup,
           kind \in Commits => copy # NoGroup /\ local = copy /\ base = copy.path
    PROVE  CryptoInv'
<1>1. staged \in Nat /\ ServerShape /\ ClientShape /\ spent \in [Devices -> Nat] /\ held \in [Devices -> Nat]
    BY DEF CryptoInv, ClientShape, ServerShape
<1>2. PICK id : id = staged + 1
    OBVIOUS
<1>3. PICK op : op = [id |-> id, from |-> d, kind |-> kind, generation |-> local.generation,
               epoch |-> local.epoch, target |-> target, path |-> Append(base, id),
               package |-> IF kind = "add" THEN spent[target] + 1 ELSE 0,
               version |-> IF kind = "reset" THEN held[d] ELSE 0]
    OBVIOUS
<1>4. /\ staged < MaxSteps /\ staged' = staged + 1 /\ operations' = [operations EXCEPT ![d] = kept \cup {op}]
      /\ wire' = wire \cup {[op |-> op, admitted |-> d \in Trusted]} /\ ensuring' = [ensuring EXCEPT ![d] = "waiting"]
    BY <1>2, <1>3 DEF Stage
<1>5. op \in OpRecord
    <2>1. id \in Nat /\ Append(base, id) \in Seq(Nat)
        BY <1>1, <1>2
    <2>2. (IF kind = "add" THEN spent[target] + 1 ELSE 0) \in Nat /\ (IF kind = "reset" THEN held[d] ELSE 0) \in Nat
        BY <1>1
    <2>3. QED
        BY <1>3, <2>1, <2>2 DEF OpRecord
<1>6. op.id = staged + 1 /\ op.from = d /\ op.kind = kind /\ op.generation = local.generation /\ op.epoch = local.epoch
      /\ op.path = Append(base, op.id)
    BY <1>2, <1>3
<1>7. base = <<>> => op.path = <<op.id>>
    BY <1>6
<1>8. FreshFor(d, copy, op)
    BY <1>4, <1>5, <1>6, <1>7 DEF FreshFor, Founders, Commits
<1>9. operations' \in [Devices -> SUBSET OpRecord] /\ ensuring' \in [Devices -> EnsurePlaces]
      /\ operations'[d] = kept \cup {op} /\ ensuring'[d] = "waiting"
      /\ \A e \in Devices : e # d => operations'[e] = operations[e] /\ ensuring'[e] = ensuring[e]
    BY <1>1, <1>4, <1>5 DEF ClientShape, KeptFor, EnsurePlaces
<1>10. DeviceOnly(d)
    BY <1>9 DEF DeviceOnly, FrameFor
<1>11. (d \in Trusted) \in BOOLEAN
    OBVIOUS
<1>12. Asks(d, kept, copy, op)
    BY <1>4, <1>9, <1>11 DEF Asks, FrameFor
<1>13. QED
    BY <1>8, <1>10, <1>12, AsksKeeps

LEMMA RestKeeps ==
    ASSUME CryptoInv, NEW d \in Devices, NEW kept, NEW copy, KeptFor(d, kept, copy), FrameFor(d, copy),
           NEW place, ensuring' = [ensuring EXCEPT ![d] = place], operations' = [operations EXCEPT ![d] = kept],
           wire' = wire, staged' = staged,
           place = "idle" \/ (place = "loaded" /\ LoadedFor(seen'[d], kept, copy))
    PROVE  CryptoInv'
<1>1. ClientShape
    BY DEF CryptoInv
<1>2. operations' \in [Devices -> SUBSET OpRecord] /\ ensuring' \in [Devices -> EnsurePlaces]
      /\ operations'[d] = kept /\ ensuring'[d] = place
      /\ \A e \in Devices : e # d => operations'[e] = operations[e] /\ ensuring'[e] = ensuring[e]
    BY <1>1 DEF ClientShape, KeptFor, EnsurePlaces
<1>3. DeviceOnly(d)
    BY <1>2 DEF DeviceOnly, FrameFor
<1>4. StaysQuiet(d, kept, copy)
    BY <1>2 DEF StaysQuiet, FrameFor
<1>5. QED
    BY <1>3, <1>4, QuietKeeps

LEMMA CommitKeeps ==
    ASSUME CryptoInv, NEW d \in Devices, NEW kept, NEW copy, KeptFor(d, kept, copy), FrameFor(d, copy),
           NEW lists \in SeenRecord, NEW local, CommitControl(d, kept, lists, local),
           lists.removals # {} \/ lists.additions # {} => local = copy /\ copy # NoGroup
    PROVE  CryptoInv'
<1>1. lists.removals \subseteq Devices /\ lists.additions \subseteq Devices /\ copy \in CopyRecord
    BY DEF SeenRecord, KeptFor, CopyFits
<1>2. copy.generation \in Nat /\ copy.epoch \in Nat /\ copy.path \in Seq(Nat)
    BY <1>1 DEF CopyRecord
<1>3. ASSUME NEW target \in lists.removals, Stage(d, kept, "remove", local, target, local.path) PROVE CryptoInv'
    <2>1. local = copy /\ copy # NoGroup /\ target \in Devices
        BY <1>1, <1>3
    <2>2. "remove" \in Commits /\ "remove" \in Founders \cup Commits
        BY DEF Commits
    <2>3. QED
        BY <1>2, <1>3, <2>1, <2>2, StageAsks
<1>4. ASSUME NEW target \in lists.additions, Stage(d, kept, "add", local, target, local.path) PROVE CryptoInv'
    <2>1. local = copy /\ copy # NoGroup /\ target \in Devices
        BY <1>1, <1>4
    <2>2. "add" \in Commits /\ "add" \in Founders \cup Commits
        BY DEF Commits
    <2>3. QED
        BY <1>2, <1>4, <2>1, <2>2, StageAsks
<1>5. ASSUME ensuring' = [ensuring EXCEPT ![d] = "idle"], operations' = [operations EXCEPT ![d] = kept],
             UNCHANGED <<wire, staged>>
      PROVE  CryptoInv'
    BY <1>5, RestKeeps
<1>6. QED
    BY <1>3, <1>4, <1>5 DEF CommitControl

\* Nothing is given up.
LEMMA KeepsAll ==
    ASSUME CryptoInv, NEW d \in Devices
    PROVE  KeptFor(d, operations[d], vault[d])
<1>1. WireSound /\ ResetsKept /\ CopiesSound /\ JoinSound
    BY DEF CryptoInv, RequestsSound, DevicesSound
<1>2. QED
    BY <1>1 DEF WireSound, ResetsKept, CopiesSound, JoinSound, KeptFor

LEMMA SummaryOf ==
    ASSUME CryptoInv
    PROVE  /\ Summary \in SeenRecord /\ Summary.removals = {} /\ Summary.additions = {}
           /\ Summary.generation = Newest /\ Newest \in Nat /\ Summary.epoch \in Nat
           /\ Newest > 0 => Summary.epoch = EpochOf(ActiveGroup) /\ Newest \in 1 .. Newest
           /\ Nothing \in SeenRecord /\ Nothing.removals = {} /\ Nothing.additions = {}
<1>1. ServerShape /\ Newest \in Nat /\ GroupsSound
    BY NewestNat DEF CryptoInv
<1>2. ASSUME Newest > 0 PROVE EpochOf(ActiveGroup) \in Nat
    <2>1. Newest \in 1 .. Newest
        BY <1>1, <1>2
    <2>2. Len(groups[Newest].path) \in Nat /\ Len(groups[Newest].path) \in 1 .. staged
        BY <1>1, <2>1, GroupParts DEF GroupsSound, GroupSound
    <2>3. QED
        BY <2>2 DEF EpochOf, ActiveGroup
<1>3. PICK epoch : epoch = (IF Newest = 0 THEN 0 ELSE EpochOf(ActiveGroup)) /\ epoch \in Nat
    BY <1>1, <1>2
<1>4. Summary = [Nothing EXCEPT !.generation = Newest, !.epoch = epoch]
    BY <1>3 DEF Summary
<1>5. Summary = [generation |-> Newest, epoch |-> epoch, removals |-> {}, additions |-> {}]
    BY <1>4 DEF Nothing
<1>6. Newest > 0 => epoch = EpochOf(ActiveGroup) /\ Newest \in 1 .. Newest
    BY <1>1, <1>3
<1>7. Summary \in SeenRecord /\ Nothing \in SeenRecord
    BY <1>1, <1>3, <1>5 DEF Nothing, SeenRecord
<1>8. QED
    BY <1>1, <1>3, <1>5, <1>6, <1>7 DEF Nothing

LEMMA SurveyOf ==
    ASSUME CryptoInv, Newest > 0, NEW d \in Devices
    PROVE  Survey(d) \in SeenRecord
<1>1. PICK removals : removals = ActiveGroup.members \ (Trusted \cup {d})
    OBVIOUS
<1>2. PICK additions : additions = IF ActiveGroup.rekey THEN {} ELSE Offered \ ActiveGroup.members
    OBVIOUS
<1>3. Survey(d) = [Summary EXCEPT !.removals = removals, !.additions = additions]
    BY <1>1, <1>2 DEF Survey
<1>4. removals \subseteq Devices
    BY <1>1, SummaryOf, GroupParts DEF CryptoInv, ActiveGroup
<1>5. additions \subseteq Devices
    BY <1>2 DEF Offered, Trusted
<1>6. QED
    BY <1>3, <1>4, <1>5, SummaryOf DEF SeenRecord

LEMMA OpsBound ==
    ASSUME CryptoInv, NEW d \in Devices, NEW op \in operations[d]
    PROVE  /\ op \in AllOps /\ op \in OpRecord /\ OpSound(op) /\ op.from = d /\ op.id \in 1 .. staged /\ op.id \in Nat
           /\ op.generation \in Nat /\ op.epoch \in Nat /\ op.generation <= Newest /\ op.kind \in Founders \cup Commits
           /\ op.path \in Seq(Nat) /\ op.target \in Devices
<1>1. ClientShape
    BY DEF CryptoInv
<1>2. op \in AllOps
    BY <1>1, OpsThere
<1>3. OpSound(op)
    BY <1>2 DEF CryptoInv, RequestsSound, OpsSound
<1>4. op.from = d
    BY <1>1 DEF ClientShape
<1>5. QED
    BY <1>1, <1>2, <1>3, <1>4, OpTypes DEF OpSound

LEMMA AwaitedIs ==
    ASSUME CryptoInv, NEW d \in Devices, ensuring[d] = "waiting"
    PROVE  /\ Awaited(d) \in operations[d] /\ Newer(d, Awaited(d)) /\ AwaitSound(d, Awaited(d))
           /\ \A op \in operations[d] : Newer(d, op) => op = Awaited(d)
<1>1. PICK op \in operations[d] : Newer(d, op) /\ AwaitSound(d, op)
    BY DEF CryptoInv, DevicesSound, WaitingSound, WaitSound
<1>2. Awaited(d) \in operations[d] /\ \A other \in operations[d] : other.id <= Awaited(d).id
    BY <1>1 DEF Awaited, Newer
<1>3. ASSUME NEW one \in operations[d], NEW other \in operations[d], Newer(d, one), Newer(d, other) PROVE one = other
    <2>1. one \in AllOps /\ other \in AllOps
        BY OpsBound
    <2>2. one.id \in Nat /\ other.id \in Nat
        BY OpsBound
    <2>3. one.id <= other.id /\ other.id <= one.id
        BY <1>3 DEF Newer
    <2>4. one.id = other.id
        BY <2>2, <2>3
    <2>5. QED
        BY <2>1, <2>4 DEF OnceStaged, CryptoInv, RequestsSound
<1>4. Newer(d, Awaited(d))
    BY <1>2 DEF Newer
<1>5. Awaited(d) = op
    BY <1>1, <1>2, <1>3, <1>4
<1>6. QED
    BY <1>1, <1>2, <1>3, <1>4, <1>5

LEMMA EnsureStep ==
    ASSUME CryptoInv, NEW d \in Devices, EnsurePartnership(d) PROVE CryptoInv'
<1>1. ClientShape /\ KeptFor(d, operations[d], vault[d])
    BY KeepsAll DEF CryptoInv
<1>2. reply[d].outcome = "none"
    BY DEF EnsurePartnership, CryptoInv, DevicesSound, WaitingSound, WaitSound
<1>3. CASE Newest = 0
    <2>1. Stage(d, operations[d], "bootstrap", NoGroup, d, <<>>) /\ UNCHANGED <<serverVars, vault, held,
                                                                                reply, sealed, aux, seen>>
        BY <1>3 DEF EnsurePartnership
    <2>2. FrameFor(d, vault[d])
        BY <1>1, <1>2, <2>1 DEF FrameFor, ClientShape, aux
    <2>3. vault[d] = NoGroup
        <3>1. CopyFits(vault[d]) /\ vault[d] \in CopyRecord
            BY DEF CryptoInv, DevicesSound, CopiesSound, CopyFits
        <3>2. QED
            BY <1>3, <3>1 DEF CopyFits, CopyRecord
    <2>5. PICK local : local = NoGroup
        OBVIOUS
    <2>4. local.generation = 0 /\ local.epoch = 0 /\ "bootstrap" \in Founders \cup Commits /\ "bootstrap" \notin Commits
          /\ <<>> \in Seq(Nat)
        BY <2>5 DEF NoGroup, Founders, Commits
    <2>6. Stage(d, operations[d], "bootstrap", local, d, <<>>)
        BY <2>1, <2>5
    <2>7. local.generation \in Nat /\ local.epoch \in Nat
        BY <2>4
    <2>8. PICK kind : kind = "bootstrap"
        OBVIOUS
    <2>9. PICK base : base = <<>>
        OBVIOUS
    <2>10. kind \in Founders \cup Commits /\ kind \notin Commits /\ kind # "reset" /\ base \in Seq(Nat)
        BY <2>4, <2>8, <2>9
    <2>11. Stage(d, operations[d], kind, local, d, base)
        BY <2>6, <2>8, <2>9
    <2>12. QED
        BY <1>1, <1>3, <2>2, <2>3, <2>4, <2>7, <2>9, <2>10, <2>11, StageAsks
<1>4. CASE Newest # 0
    <2>1. /\ Newest > 0 /\ ensuring' = [ensuring EXCEPT ![d] = "loaded"] /\ seen' = [seen EXCEPT ![d] = Summary]
          /\ UNCHANGED <<operations, wire, staged, serverVars, vault, held, reply, sealed, aux>>
        BY <1>4 DEF EnsurePartnership
    <2>2. seen' \in [Devices -> SeenRecord] /\ seen'[d] = Summary /\ \A e \in Devices : e # d => seen'[e] = seen[e]
        BY <1>1, <2>1, SummaryOf DEF ClientShape
    <2>3. FrameFor(d, vault[d])
        BY <1>1, <1>2, <2>1, <2>2 DEF FrameFor, ClientShape, aux
    <2>4. LoadedFor(seen'[d], operations[d], vault[d])
        <3>1. \A op \in operations[d] : op.generation <= Newest
            BY OpsBound
        <3>2. vault[d].generation <= Newest
            BY DEF CryptoInv, DevicesSound, CopiesSound, CopyFits
        <3>3. EpochOf(ActiveGroup) \in Nat
            BY <2>1, SummaryOf
        <3>4. QED
            BY <2>1, <2>2, <3>1, <3>2, <3>3, SummaryOf DEF LoadedFor, ActiveGroup
    <2>5. operations' = [operations EXCEPT ![d] = operations[d]]
        BY <1>1, <2>1 DEF ClientShape
    <2>6. QED
        BY <1>1, <2>1, <2>3, <2>4, <2>5, RestKeeps
<1>5. QED
    BY <1>3, <1>4

LEMMA ResetGroupStep ==
    ASSUME CryptoInv, NEW d \in Devices, ResetPartnershipGroup(d) PROVE CryptoInv'
<1>1. ClientShape /\ KeptFor(d, operations[d], vault[d])
    BY KeepsAll DEF CryptoInv
<1>2. /\ ensuring[d] = "idle" /\ Newest > 0 /\ vault[d] = NoGroup /\ Recovered(d, Newest) = {}
      /\ Stage(d, operations[d], "reset", Summary, d, <<>>)
      /\ UNCHANGED <<serverVars, vault, held, seen, reply, sealed, aux>>
    BY DEF ResetPartnershipGroup
<1>3. reply[d].outcome = "none"
    BY <1>2 DEF CryptoInv, DevicesSound, WaitingSound, WaitSound
<1>4. FrameFor(d, vault[d])
    BY <1>1, <1>2, <1>3 DEF FrameFor, ClientShape, aux
<1>5. "reset" \in Founders \cup Commits /\ "reset" \notin Commits /\ <<>> \in Seq(Nat)
    BY DEF Founders, Commits
<1>6. PICK local : local = Summary
    OBVIOUS
<1>7. QED
    BY <1>1, <1>2, <1>4, <1>5, <1>6, SummaryOf, StageAsks

LEMMA StoppedStep ==
    ASSUME CryptoInv, NEW d \in Devices, Stopped(d) PROVE CryptoInv'
<1>1. ClientShape /\ KeptFor(d, operations[d], vault[d])
    BY KeepsAll DEF CryptoInv
<1>2. /\ ensuring' = [ensuring EXCEPT ![d] = "idle"] /\ reply' = [reply EXCEPT ![d] = NoReply]
      /\ seen' = [seen EXCEPT ![d] = Nothing]
      /\ UNCHANGED <<serverVars, vault, held, operations, wire, sealed, staged, lag>>
    BY DEF Stopped
<1>3. NoReply \in ReplyRecord /\ NoReply.outcome = "none" /\ Nothing \in SeenRecord
    BY SummaryOf DEF NoReply, ReplyRecord
<1>4. FrameFor(d, vault[d])
    BY <1>1, <1>2, <1>3 DEF FrameFor, ClientShape
<1>5. operations' = [operations EXCEPT ![d] = operations[d]]
    BY <1>1, <1>2 DEF ClientShape
<1>6. QED
    BY <1>1, <1>2, <1>4, <1>5, RestKeeps

LEMMA ConflictedStep ==
    ASSUME CryptoInv, NEW d \in Devices, Conflicted(d) PROVE CryptoInv'
<1>1. PICK op : op = Awaited(d)
    OBVIOUS
<1>2. PICK again : again = (op.kind = "bootstrap" /\ d \in Trusted)
    OBVIOUS
<1>3. /\ ensuring[d] = "waiting" /\ reply[d].outcome = "conflict" /\ reply' = [reply EXCEPT ![d] = NoReply]
      /\ operations' = [operations EXCEPT ![d] = @ \ {op}]
      /\ ensuring' = [ensuring EXCEPT ![d] = IF again THEN "loaded" ELSE "idle"]
      /\ seen' = [seen EXCEPT ![d] = IF again THEN Summary ELSE Nothing]
      /\ UNCHANGED <<serverVars, vault, held, wire, sealed, staged, aux>>
    BY <1>1, <1>2 DEF Conflicted
<1>4. op \in operations[d] /\ AwaitSound(d, op)
    BY <1>1, <1>3, AwaitedIs
<1>5. Newest > 0 /\ (\A g \in 1 .. Newest : groups[g].id # op.id) /\ (\A w \in wire : w.op # op)
    BY <1>3, <1>4 DEF AwaitSound
<1>6. ClientShape /\ KeptFor(d, operations[d], vault[d]) /\ Newest \in 1 .. Newest
    BY <1>5, KeepsAll, SummaryOf DEF CryptoInv
<1>7. PICK kept : kept = operations[d] \ {op}
    OBVIOUS
<1>8. KeptFor(d, kept, vault[d])
    <2>1. ASSUME NEW r \in kept, r.kind = "reset" PROVE ResetKept(d, r, kept, vault[d])
        BY <1>6, <1>7, <2>1 DEF KeptFor, ResetKept
    <2>2. Newest > 0 /\ d \in ActiveGroup.members => CanJoin(d, kept, vault[d])
        BY <1>5, <1>6, <1>7 DEF KeptFor, CanJoin
    <2>3. QED
        BY <1>5, <1>6, <1>7, <2>1, <2>2 DEF KeptFor
<1>9. NoReply \in ReplyRecord /\ NoReply.outcome = "none" /\ Nothing \in SeenRecord /\ Summary \in SeenRecord
    BY SummaryOf DEF NoReply, ReplyRecord
<1>10. FrameFor(d, vault[d])
    BY <1>3, <1>6, <1>9 DEF FrameFor, ClientShape, aux
<1>11. operations' = [operations EXCEPT ![d] = kept] /\ wire' = wire /\ staged' = staged
    BY <1>3, <1>6, <1>7 DEF ClientShape
<1>12. CASE ~again
    BY <1>3, <1>8, <1>10, <1>11, <1>12, RestKeeps
<1>13. CASE again
    <2>1. seen'[d] = Summary
        BY <1>3, <1>6, <1>13 DEF ClientShape
    <2>2. \A o \in kept : o.generation <= Newest
        BY <1>7, OpsBound
    <2>3. vault[d].generation <= Newest
        BY DEF CryptoInv, DevicesSound, CopiesSound, CopyFits
    <2>4. EpochOf(ActiveGroup) \in Nat
        BY <1>5, SummaryOf
    <2>5. LoadedFor(seen'[d], kept, vault[d])
        BY <1>5, <2>1, <2>2, <2>3, <2>4, SummaryOf DEF LoadedFor, ActiveGroup
    <2>6. QED
        BY <1>3, <1>8, <1>10, <1>11, <1>13, <2>5, RestKeeps
<1>14. QED
    BY <1>12, <1>13

\* The state after an entry of the log.
LEMMA LogPath ==
    ASSUME CryptoInv, NEW g \in 1 .. Newest, NEW i \in 1 .. Len(groups[g].log)
    PROVE  \E m \in Nat :
              /\ m >= 1 /\ m <= Len(groups[g].path) /\ m - 1 = i - Offset(g) /\ i >= Offset(g) /\ i \in Nat
              /\ groups[g].log[i].path = SubSeq(groups[g].path, 1, m) /\ Len(groups[g].log[i].path) = m
              /\ groups[g].log[i].path[1] = groups[g].id /\ groups[g].log[i].path \in Seq(Nat)
<1>1. ServerShape /\ GroupSound(g)
    BY DEF CryptoInv, GroupsSound
<1>2. PICK o, n, path : o = Offset(g) /\ n = Len(groups[g].log) /\ path = groups[g].path
    OBVIOUS
<1>3. o \in {0, 1} /\ n \in Nat /\ path \in Seq(Nat) /\ Len(path) \in Nat
    BY <1>1, <1>2, GroupParts, OffsetBound
<1>4. n = Len(path) - 1 + o /\ Len(path) >= 1 /\ path[1] = groups[g].id
    BY <1>1, <1>2 DEF GroupSound
<1>5. i \in Nat /\ i >= 1 /\ i <= n
    BY <1>2, <1>3
<1>6. PICK m \in Nat : m = i + 1 - o /\ m >= 1 /\ m <= Len(path) /\ m - 1 = i - o /\ i >= o
    BY <1>3, <1>4, <1>5
<1>7. groups[g].log[i].path = SubSeq(path, 1, m)
    BY <1>1, <1>2, <1>6 DEF GroupSound
<1>8. Len(SubSeq(path, 1, m)) = m /\ SubSeq(path, 1, m)[1] = path[1] /\ SubSeq(path, 1, m) \in Seq(Nat)
    BY <1>3, <1>6
<1>9. QED
    BY <1>2, <1>4, <1>5, <1>6, <1>7, <1>8

\* The copy of a device that has read the log up to an entry, or is the founder.
LEMMA LogCopy ==
    ASSUME CryptoInv, NEW g \in 1 .. Newest, NEW i \in 1 .. Len(groups[g].log), NEW q \in Seq(Nat), q = groups[g].log[i].path,
           NEW epoch \in Nat, Len(q) = epoch + 1,
           NEW copy, copy = [generation |-> g, path |-> q, epoch |-> epoch, cursor |-> i]
    PROVE  CopyFits(copy) /\ CopySound(copy, g) /\ copy # NoGroup /\ Matches(copy, g) /\ copy.cursor > 0
           /\ copy.generation = g /\ copy.path = q
<1>1. ServerShape /\ Newest \in Nat /\ g \in Nat /\ g > 0 /\ g <= Newest
    BY NewestNat DEF CryptoInv
<1>2. PICK o, n, path : o = Offset(g) /\ n = Len(groups[g].log) /\ path = groups[g].path
    OBVIOUS
<1>3. o \in {0, 1} /\ n \in Nat
    BY <1>1, <1>2, GroupParts, OffsetBound
<1>4. PICK m \in Nat : /\ m >= 1 /\ m - 1 = i - o /\ i >= o /\ i \in Nat
                       /\ q = SubSeq(path, 1, m) /\ Len(q) = m /\ q[1] = groups[g].id /\ q \in Seq(Nat)
    BY <1>2, LogPath
<1>5. m = epoch + 1 /\ epoch = i - o
    BY <1>3, <1>4
<1>6. i \in o .. n /\ i > 0
    BY <1>2, <1>3, <1>4
<1>12. copy \in CopyRecord /\ copy.generation = g /\ copy.path = q /\ copy.epoch = epoch /\ copy.cursor = i
    BY <1>1, <1>4 DEF CopyRecord
<1>14. CopySound(copy, g)
    BY <1>2, <1>4, <1>5, <1>6, <1>12 DEF CopySound
<1>15. copy # NoGroup
    BY <1>1, <1>12 DEF NoGroup
<1>16. Len(copy.path) > 0
    BY <1>4, <1>12
<1>17. CopyFits(copy)
    BY <1>1, <1>12, <1>14, <1>16 DEF CopyFits
<1>18. Matches(copy, g)
    BY <1>4, <1>12, <1>15 DEF Matches
<1>19. QED
    BY <1>6, <1>12, <1>14, <1>15, <1>17, <1>18

LEMMA FoundCopy ==
    ASSUME CryptoInv, NEW g \in 1 .. Newest, NEW copy, NEW n, n = Offset(g),
           copy = [generation |-> g, path |-> <<groups[g].id>>, epoch |-> 0, cursor |-> n]
    PROVE  CopyFits(copy) /\ CopySound(copy, g) /\ copy # NoGroup /\ Matches(copy, g)
           /\ copy.generation = g /\ copy.cursor = n
<1>1. ServerShape /\ GroupSound(g) /\ Newest \in Nat /\ g \in Nat /\ g > 0 /\ g <= Newest /\ staged \in Nat
    BY NewestNat DEF CryptoInv, GroupsSound, ClientShape
<1>2. PICK m, path, id : m = Len(groups[g].log) /\ path = groups[g].path /\ id = groups[g].id
    OBVIOUS
<1>3. n \in {0, 1} /\ m \in Nat /\ path \in Seq(Nat) /\ Len(path) \in Nat /\ id \in Nat
    BY <1>1, <1>2, GroupParts, OffsetBound
<1>4. m = Len(path) - 1 + n /\ Len(path) >= 1 /\ path[1] = id
    BY <1>1, <1>2 DEF GroupSound
<1>5. n \in n .. m /\ n \in Nat /\ 0 = n - n
    BY <1>3, <1>4
<1>6. SubSeq(path, 1, 1) = <<path[1]>>
    <2>1. PICK s : s = SubSeq(path, 1, 1)
        OBVIOUS
    <2>2. s \in Seq(Nat) /\ Len(s) = 1 /\ s[1] = path[1]
        BY <1>3, <1>4, <2>1
    <2>3. s = <<s[1]>>
        BY <2>2
    <2>4. QED
        BY <2>1, <2>2, <2>3
<1>7. copy \in CopyRecord /\ copy.generation = g /\ copy.path = <<id>> /\ copy.epoch = 0 /\ copy.cursor = n
    BY <1>1, <1>2, <1>3, <1>5 DEF CopyRecord
<1>8. copy.path = SubSeq(path, 1, copy.epoch + 1)
    BY <1>4, <1>6, <1>7
<1>9. CopySound(copy, g)
    BY <1>2, <1>5, <1>7, <1>8 DEF CopySound
<1>10. copy # NoGroup /\ copy.path[1] = id /\ Len(copy.path) > 0
    BY <1>1, <1>7 DEF NoGroup
<1>11. CopyFits(copy)
    BY <1>1, <1>7, <1>9, <1>10 DEF CopyFits
<1>12. QED
    BY <1>2, <1>7, <1>9, <1>10, <1>11 DEF Matches

LEMMA LoggedOps ==
    ASSUME CryptoInv, NEW d \in Devices, NEW op \in operations[d], NEW g \in 1 .. Newest
    PROVE  OpLogged(op, g)
BY OpsBound DEF CryptoInv, RequestsSound, OpsLogged

LEMMA KeptResets ==
    ASSUME CryptoInv, NEW d \in Devices, NEW r \in operations[d], r.kind = "reset"
    PROVE  ResetKept(d, r, operations[d], vault[d]) /\ r.generation >= 1
<1>1. ResetKept(d, r, operations[d], vault[d])
    BY DEF CryptoInv, RequestsSound, ResetsKept
<1>2. r.generation \in Nat /\ r.generation # 0
    BY OpsBound DEF OpSound
<1>3. QED
    BY <1>1, <1>2

\* A founding that was accepted.
LEMMA FounderKept ==
    ASSUME CryptoInv, NEW d \in Devices, NEW op \in operations[d], Newer(d, op), AwaitSound(d, op),
           reply[d].outcome = "accepted", op.kind \in Founders,
           NEW n, n = reply[d].sequence, NEW local,
           local = [generation |-> op.generation + 1, path |-> op.path, epoch |-> 0, cursor |-> n],
           op.kind = "reset" => groups[Newest].id = op.id
    PROVE  KeptFor(d, operations[d] \ {op}, local) /\ local # NoGroup
<1>1. Done(op, n) /\ \A w \in wire : w.op # op
    BY DEF AwaitSound
<1>2. PICK g : g = op.generation + 1
    OBVIOUS
<1>3. Newest \in Nat /\ op.generation \in Nat /\ op.path = <<op.id>>
    BY NewestNat, OpsBound DEF CryptoInv, OpSound
<1>4. op.generation < Newest /\ groups[g].id = op.id /\ n = Offset(g)
    BY <1>1, <1>2 DEF Done
<1>5. g \in 1 .. Newest /\ Newest > 0 /\ Newest \in 1 .. Newest /\ g - 1 = op.generation
    BY <1>2, <1>3, <1>4
<1>6. local = [generation |-> g, path |-> <<groups[g].id>>, epoch |-> 0, cursor |-> n]
    BY <1>2, <1>3, <1>4
<1>7. CopyFits(local) /\ local # NoGroup /\ Matches(local, g) /\ local.generation = g /\ local.cursor = n
    BY <1>4, <1>5, <1>6, FoundCopy
<1>8. groups[Newest].id = op.id => g = Newest
    BY <1>2, <1>5, LoggedOps DEF OpLogged
<1>9. PICK kept : kept = operations[d] \ {op}
    OBVIOUS
<1>10. KeptFor(d, operations[d], vault[d])
    BY KeepsAll
<1>11. ASSUME NEW r \in kept, r.kind = "reset" PROVE ResetKept(d, r, kept, local)
    <2>0. r \in operations[d]
        BY <1>9
    <2>1. ResetKept(d, r, operations[d], vault[d]) /\ r.generation >= 1 /\ r.generation \in Nat
        BY <1>11, <2>0, KeptResets, OpsBound
    <2>2. CASE op.kind = "bootstrap"
        <3>1. op.id < r.id
            BY <1>11, <2>0, <2>2, OpsBound DEF CryptoInv, RequestsSound, OnceStaged
        <3>2. r.id <= op.id
            BY <2>0 DEF Newer
        <3>3. QED
            BY <2>0, <3>1, <3>2, OpsBound
    <2>3. CASE op.kind = "reset"
        <3>1. g = Newest /\ Matches(local, Newest) /\ op.generation # 0
            BY <1>7, <1>8, <2>3, OpsBound DEF OpSound
        <3>2. n = 1
            BY <1>2, <1>3, <1>4, <3>1 DEF Offset
        <3>3. local.generation = Newest /\ local.cursor > 0
            BY <1>7, <3>1, <3>2
        <3>4. r.generation = 1 => \A b \in kept : b.kind = "bootstrap" => b.id # groups[1].id
            BY <1>9, <2>1 DEF ResetKept
        <3>5. QED
            BY <3>1, <3>3, <3>4 DEF ResetKept
    <2>4. QED
        BY <2>2, <2>3 DEF Founders
<1>12. ASSUME d \in ActiveGroup.members PROVE CanJoin(d, kept, local)
    <2>1. CanJoin(d, operations[d], vault[d])
        BY <1>5, <1>10, <1>12 DEF KeptFor
    <2>2. CASE g = Newest
        BY <1>7, <2>2 DEF CanJoin
    <2>3. CASE g # Newest
        <3>1. op.kind = "bootstrap" /\ groups[Newest].id # op.id
            BY <1>8, <2>3 DEF Founders
        <3>2. vault[d] = NoGroup
            BY <3>1 DEF AwaitSound
        <3>3. ~ Matches(vault[d], Newest)
            BY <3>2 DEF Matches
        <3>4. QED
            BY <1>9, <2>1, <3>1, <3>3 DEF CanJoin
    <2>4. QED
        BY <2>2, <2>3
<1>13. KeptFor(d, kept, local)
    BY <1>1, <1>7, <1>9, <1>10, <1>11, <1>12 DEF KeptFor
<1>14. QED
    BY <1>7, <1>9, <1>13

\* A commit that was accepted.
LEMMA CommitLogged ==
    ASSUME CryptoInv, NEW d \in Devices, NEW op \in operations[d], op.kind \in Commits, NEW n, Done(op, n)
    PROVE  /\ op.generation \in 1 .. Newest /\ n \in 1 .. Len(groups[op.generation].log)
           /\ groups[op.generation].log[n].path = op.path
           /\ \E epoch \in Nat : epoch = Len(op.path) - 1 /\ Len(op.path) = epoch + 1
<1>1. PICK g : g = op.generation
    OBVIOUS
<1>3. op.kind \notin Founders /\ op.kind # "bootstrap"
    BY DEF Founders, Commits
<1>4. n \in 1 .. Len(groups[g].log) /\ groups[g].log[n].id = op.id
    BY <1>1, <1>3 DEF Done
<1>5. g \in 1 .. Newest
    <2>1. g \in Nat /\ g # 0 /\ g <= Newest /\ Newest \in Nat
        BY <1>1, <1>3, NewestNat, OpsBound DEF CryptoInv, OpSound
    <2>2. QED
        BY <2>1
<1>6. groups[g].log[n] = Entry(op)
    BY <1>4, <1>5, LoggedOps DEF OpLogged
<1>7. groups[g].log[n].path = op.path
    BY <1>6 DEF Entry
<1>8. Len(groups[g].log[n].path) \in Nat /\ Len(groups[g].log[n].path) >= 1
    BY <1>4, <1>5, LogPath, SMTT(20)
<1>9. PICK m \in Nat : m = Len(op.path) /\ m >= 1
    BY <1>7, <1>8
<1>10. PICK epoch \in Nat : epoch = m - 1 /\ m = epoch + 1
    BY <1>9
<1>11. QED
    BY <1>1, <1>4, <1>5, <1>7, <1>9, <1>10

LEMMA CommitKept ==
    ASSUME CryptoInv, NEW d \in Devices, NEW op \in operations[d], Newer(d, op), AwaitSound(d, op),
           reply[d].outcome = "accepted", op.kind \in Commits,
           NEW n, n = reply[d].sequence, NEW local, NEW epoch \in Nat, Len(op.path) = epoch + 1,
           local = [generation |-> vault[d].generation, path |-> op.path, epoch |-> epoch, cursor |-> n]
    PROVE  KeptFor(d, operations[d] \ {op}, local) /\ local # NoGroup
<1>1. Done(op, n) /\ (\A w \in wire : w.op # op) /\ vault[d].generation = op.generation
    BY DEF AwaitSound
<1>2. PICK g : g = op.generation
    OBVIOUS
<1>3. op.kind \notin Founders /\ op.kind # "bootstrap"
    BY DEF Founders, Commits
<1>4. g \in 1 .. Newest /\ n \in 1 .. Len(groups[g].log) /\ groups[g].log[n].path = op.path
    BY <1>1, <1>2, CommitLogged
<1>5. Newest > 0 /\ Newest \in 1 .. Newest /\ g # 0
    BY <1>4, NewestNat DEF CryptoInv
<1>8. CopyFits(local) /\ local # NoGroup /\ Matches(local, g) /\ local.generation = g /\ local.cursor > 0
    <2>1. PICK q : q = op.path
        OBVIOUS
    <2>2. local = [generation |-> g, path |-> q, epoch |-> epoch, cursor |-> n]
        BY <1>1, <1>2, <2>1
    <2>3. q = groups[g].log[n].path /\ Len(q) = epoch + 1 /\ q \in Seq(Nat)
        BY <1>4, <2>1, OpsBound
    <2>4. QED
        BY ONLY CryptoInv, <1>4, <2>2, <2>3, LogCopy, SMTT(60)
<1>9. PICK kept : kept = operations[d] \ {op}
    OBVIOUS
<1>10. KeptFor(d, operations[d], vault[d])
    BY KeepsAll
<1>11. vault[d] # NoGroup
    BY <1>1, <1>2, <1>5 DEF NoGroup
<1>12. \A h : Matches(vault[d], h) => h = g
    BY <1>1, <1>2 DEF Matches
<1>13. ASSUME NEW r \in kept, r.kind = "reset" PROVE ResetKept(d, r, kept, local)
    <2>1. ResetKept(d, r, operations[d], vault[d])
        BY <1>9, <1>13, KeptResets
    <2>2. r.generation = Newest => local.generation = Newest /\ local.cursor > 0
        BY <1>1, <1>2, <1>8, <1>11, <2>1 DEF ResetKept
    <2>3. r.generation = Newest - 1 /\ groups[Newest].id = r.id =>
             Welcomes(d) # {} \/ Matches(local, Newest) \/ (Matches(local, r.generation) /\ local.cursor > 0)
        BY <1>8, <1>11, <1>12, <2>1 DEF ResetKept
    <2>4. r.generation = 1 => \A b \in kept : b.kind = "bootstrap" => b.id # groups[1].id
        BY <1>9, <2>1 DEF ResetKept
    <2>5. QED
        BY <2>2, <2>3, <2>4 DEF ResetKept
<1>14. ASSUME d \in ActiveGroup.members PROVE CanJoin(d, kept, local)
    <2>1. CanJoin(d, operations[d], vault[d])
        BY <1>5, <1>10, <1>14 DEF KeptFor
    <2>2. Matches(vault[d], Newest) => Matches(local, Newest)
        BY <1>8, <1>12
    <2>3. QED
        BY <1>3, <1>9, <2>1, <2>2 DEF CanJoin
<1>15. KeptFor(d, kept, local)
    BY <1>1, <1>8, <1>9, <1>10, <1>13, <1>14 DEF KeptFor
<1>16. QED
    BY <1>8, <1>9, <1>15

LEMMA AcceptedStep ==
    ASSUME CryptoInv, NEW d \in Devices, Accepted(d) PROVE CryptoInv'
<1>1. PICK op : op = Awaited(d)
    OBVIOUS
<1>2. PICK n : n = reply[d].sequence
    OBVIOUS
<1>3. PICK local : local = [generation |-> CASE op.kind = "bootstrap" -> 1
                                   [] op.kind = "reset" -> op.generation + 1
                                   [] OTHER -> vault[d].generation,
                  path |-> op.path, epoch |-> Len(op.path) - 1, cursor |-> n]
    OBVIOUS
<1>4. PICK superseded \in BOOLEAN : superseded = (op.kind = "reset" /\ ActiveGroup.id # op.id)
    OBVIOUS
<1>5. PICK kept : kept = IF superseded THEN operations[d] ELSE operations[d] \ {op}
    OBVIOUS
<1>6. PICK left : left = CASE d \notin Trusted \/ op.kind = "reset" -> Nothing
                  [] d \in Trusted /\ op.kind = "bootstrap" -> Survey(d)
                  [] d \in Trusted /\ op.kind = "remove" ->
                        [Survey(d) EXCEPT !.removals = seen[d].removals \ {op.target}]
                  [] OTHER -> [seen[d] EXCEPT !.additions = @ \ {op.target}]
    OBVIOUS
<1>7. /\ ensuring[d] = "waiting" /\ reply[d].outcome = "accepted"
      /\ reply' = [reply EXCEPT ![d] = NoReply]
      /\ vault' = IF superseded THEN vault ELSE [vault EXCEPT ![d] = local]
      /\ CommitControl(d, kept, left, local)
      /\ seen' = [seen EXCEPT ![d] = left]
      /\ UNCHANGED <<serverVars, held, sealed, aux>>
    BY <1>1, <1>2, <1>3, <1>4, <1>5, <1>6 DEF Accepted
<1>8. op \in operations[d] /\ Newer(d, op) /\ AwaitSound(d, op)
    BY <1>1, <1>7, AwaitedIs
<1>9. ClientShape /\ op.kind \in {"bootstrap", "reset", "add", "remove"} /\ op.generation \in Nat
    BY <1>8, OpsBound DEF CryptoInv, Founders, Commits
<1>10. Done(op, n)
    BY <1>2, <1>7, <1>8 DEF AwaitSound
<1>11. Newest > 0
    <2>1. Newest \in Nat /\ op.generation <= Newest /\ (op.kind \notin Founders => op.generation # 0)
        BY <1>8, NewestNat, OpsBound DEF CryptoInv, OpSound, Founders
    <2>2. op.kind \in Founders => op.generation < Newest
        BY <1>10 DEF Done
    <2>3. QED
        BY <1>9, <2>1, <2>2
<1>12. left \in SeenRecord /\ (op.kind = "reset" => left = Nothing)
    <2>1. Survey(d) \in SeenRecord /\ Nothing \in SeenRecord /\ seen[d] \in SeenRecord
        BY <1>9, <1>11, SurveyOf, SummaryOf DEF ClientShape
    <2>2. PICK removals, additions : removals = seen[d].removals \ {op.target} /\ additions = seen[d].additions \ {op.target}
        OBVIOUS
    <2>3. removals \subseteq Devices /\ additions \subseteq Devices
        BY <2>1, <2>2 DEF SeenRecord
    <2>4. [Survey(d) EXCEPT !.removals = removals] \in SeenRecord /\ [seen[d] EXCEPT !.additions = additions] \in SeenRecord
        BY <2>1, <2>3 DEF SeenRecord
    <2>5. CASE d \notin Trusted \/ op.kind = "reset"
        BY <1>6, <2>1, <2>5
    <2>6. CASE d \in Trusted /\ op.kind = "bootstrap"
        BY <1>6, <2>1, <2>6
    <2>7. CASE d \in Trusted /\ op.kind = "remove"
        BY <1>6, <2>2, <2>4, <2>7
    <2>8. CASE d \in Trusted /\ op.kind = "add"
        BY <1>6, <2>2, <2>4, <2>8
    <2>9. QED
        BY <1>9, <2>5, <2>6, <2>7, <2>8
<1>13. NoReply \in ReplyRecord /\ NoReply.outcome = "none"
    BY DEF NoReply, ReplyRecord
<1>14. CASE superseded
    <2>1. op.kind = "reset" /\ left.removals = {} /\ left.additions = {}
        BY <1>4, <1>12, <1>14, SummaryOf
    <2>2. KeptFor(d, kept, vault[d])
        BY <1>5, <1>14, KeepsAll
    <2>3. FrameFor(d, vault[d])
        BY <1>7, <1>9, <1>12, <1>13, <1>14 DEF FrameFor, ClientShape, aux
    <2>4. QED
        BY <1>7, <1>12, <2>1, <2>2, <2>3, CommitKeeps
<1>15. CASE ~superseded
    <2>1. KeptFor(d, kept, local) /\ local # NoGroup
        <3>1. kept = operations[d] \ {op}
            BY <1>5, <1>15
        <3>2. CASE op.kind \in Founders
            <4>1. op.kind = "reset" => groups[Newest].id = op.id
                BY <1>4, <1>15 DEF ActiveGroup
            <4>2. op.path = <<op.id>> /\ (op.kind = "bootstrap" <=> op.generation = 0)
                BY <1>8, <3>2, OpsBound DEF OpSound
            <4>3. Len(op.path) - 1 = 0
                BY <4>2
            <4>4. CASE op.kind = "bootstrap"
                <5>1. local = [generation |-> 1, path |-> op.path, epoch |-> 0, cursor |-> n]
                    BY <1>3, <4>3, <4>4
                <5>2. local = [generation |-> op.generation + 1, path |-> op.path, epoch |-> 0, cursor |-> n]
                    BY <4>2, <4>4, <5>1
                <5>3. QED
                    BY <1>2, <1>7, <1>8, <3>1, <3>2, <4>1, <5>2, FounderKept
            <4>5. CASE op.kind = "reset"
                <5>1. local = [generation |-> op.generation + 1, path |-> op.path, epoch |-> 0, cursor |-> n]
                    BY <1>3, <4>3, <4>5
                <5>2. QED
                    BY <1>2, <1>7, <1>8, <3>1, <3>2, <4>1, <5>1, FounderKept
            <4>6. QED
                BY <3>2, <4>4, <4>5 DEF Founders
        <3>3. CASE op.kind \in Commits
            <4>1. op.kind # "bootstrap" /\ op.kind # "reset"
                BY <3>3 DEF Commits
            <4>2. PICK epoch \in Nat : epoch = Len(op.path) - 1 /\ Len(op.path) = epoch + 1
                BY <1>8, <1>10, <3>3, CommitLogged
            <4>3. local = [generation |-> vault[d].generation, path |-> op.path, epoch |-> epoch, cursor |-> n]
                BY <1>3, <4>1, <4>2
            <4>4. QED
                BY <1>2, <1>7, <1>8, <3>1, <3>3, <4>2, <4>3, CommitKept
        <3>4. QED
            BY <1>9, <3>2, <3>3 DEF Founders, Commits
    <2>2. local \in CopyRecord
        BY <2>1 DEF KeptFor, CopyFits
    <2>3. FrameFor(d, local)
        BY <1>7, <1>9, <1>12, <1>13, <1>15, <2>2 DEF FrameFor, ClientShape, aux
    <2>4. QED
        BY <1>7, <1>12, <2>1, <2>3, CommitKeeps
<1>16. QED
    BY <1>14, <1>15

-----------------------------------------------------------------------------
(* CryptoRuntime: a device reads the log.                                     *)

\* The four ways in which ensurePartnership gets a copy, or finds none.
OwnCopy(d, g, opened) ==
    Matches(vault[d], g) /\ opened.local = vault[d] /\ opened.left = operations[d]
LostFounding(d, g, opened) ==
    /\ ~ Matches(vault[d], g)
    /\ \E op \in operations[d] :
          /\ op.kind \in Founders /\ op.id = groups[g].id /\ (op.kind = "reset" \/ vault[d] = NoGroup)
          /\ opened.local = [generation |-> g, path |-> op.path, epoch |-> 0,
                             cursor |-> IF op.kind = "reset" THEN 1 ELSE 0]
          /\ opened.left = operations[d] \ {op}
Welcomed(d, g, opened) ==
    /\ ~ Matches(vault[d], g) /\ opened.left = IF vault[d] = NoGroup THEN operations[d] ELSE {}
    /\ \E i \in Welcomes(d) :
          opened.local = [generation |-> g, path |-> ActiveGroup.log[i].path,
                          epoch |-> Len(ActiveGroup.log[i].path) - 1, cursor |-> i]
NothingFound(d, g, opened) ==
    /\ ~ Matches(vault[d], g) /\ Welcomes(d) = {}
    /\ \A op \in operations[d] : op.kind \in Founders /\ op.id = groups[g].id => op.kind # "reset" /\ vault[d] # NoGroup
    /\ opened.local = NoGroup /\ opened.left = IF vault[d] = NoGroup THEN operations[d] ELSE {}

LEMMA ReopenedCases ==
    ASSUME NEW d, NEW g, NEW opened, opened = Reopened(d, g)
    PROVE  OwnCopy(d, g, opened) \/ LostFounding(d, g, opened) \/ Welcomed(d, g, opened) \/ NothingFound(d, g, opened)
<1>1. PICK lost : lost = {op \in Recovered(d, g) : op.kind = "reset" \/ vault[d] = NoGroup}
    OBVIOUS
<1>2. PICK op : op = CHOOSE each \in lost : TRUE
    OBVIOUS
<1>3. PICK at : at = CHOOSE i \in Welcomes(d) : \A j \in Welcomes(d) : i <= j
    OBVIOUS
<1>4. PICK left : left = IF vault[d] = NoGroup THEN operations[d] ELSE {}
    OBVIOUS
<1>5. PICK same \in BOOLEAN : same = Matches(vault[d], g)
    BY DEF Matches
<1>6. opened = CASE same -> [local |-> vault[d], left |-> operations[d]]
          [] ~same /\ lost # {} ->
                [local |-> [generation |-> g, path |-> op.path, epoch |-> 0,
                            cursor |-> IF op.kind = "reset" THEN 1 ELSE 0],
                 left |-> operations[d] \ {op}]
          [] ~same /\ lost = {} /\ Welcomes(d) # {} ->
                [local |-> [generation |-> g, path |-> ActiveGroup.log[at].path,
                            epoch |-> Len(ActiveGroup.log[at].path) - 1, cursor |-> at],
                 left |-> left]
          [] OTHER -> [local |-> NoGroup, left |-> left]
    BY <1>1, <1>2, <1>3, <1>4, <1>5, Zenon DEF Reopened
<1>7. CASE same
    <2>1. opened = [local |-> vault[d], left |-> operations[d]]
        BY <1>6, <1>7, Zenon
    <2>2. QED
        BY <1>5, <1>7, <2>1 DEF OwnCopy
<1>8. CASE ~same /\ lost # {}
    <2>1. opened = [local |-> [generation |-> g, path |-> op.path, epoch |-> 0,
                               cursor |-> IF op.kind = "reset" THEN 1 ELSE 0],
                    left |-> operations[d] \ {op}]
        BY <1>6, <1>8, Zenon
    <2>2. op \in lost
        BY <1>2, <1>8
    <2>3. op \in operations[d] /\ op.kind \in Founders /\ op.id = groups[g].id /\ (op.kind = "reset" \/ vault[d] = NoGroup)
        BY <1>1, <2>2 DEF Recovered, Founders
    <2>4. opened.local = [generation |-> g, path |-> op.path, epoch |-> 0, cursor |-> IF op.kind = "reset" THEN 1 ELSE 0]
          /\ opened.left = operations[d] \ {op}
        BY <2>1
    <2>5. QED
        BY <1>5, <1>8, <2>3, <2>4 DEF LostFounding
<1>9. CASE ~same /\ lost = {} /\ Welcomes(d) # {}
    <2>1. PICK q, e : q = ActiveGroup.log[at].path /\ e = Len(ActiveGroup.log[at].path) - 1
        OBVIOUS
    <2>2. opened = [local |-> [generation |-> g, path |-> q, epoch |-> e, cursor |-> at], left |-> left]
        BY <1>6, <1>9, <2>1, Zenon
    <2>3. at \in Welcomes(d)
        <3>1. Welcomes(d) \subseteq Nat
            BY DEF Welcomes
        <3>2. QED
            BY <1>3, <1>9, <3>1, LeastNumber
    <2>4. ~ Matches(vault[d], g)
        BY <1>5, <1>9
    <2>5. opened.local = [generation |-> g, path |-> q, epoch |-> e, cursor |-> at] /\ opened.left = left
        BY <2>2
    <2>6. QED
        BY <1>4, <2>1, <2>3, <2>4, <2>5, Zenon DEF Welcomed
<1>10. CASE ~same /\ lost = {} /\ Welcomes(d) = {}
    <2>1. opened = [local |-> NoGroup, left |-> left]
        BY <1>6, <1>10, Zenon
    <2>2. opened.local = NoGroup /\ opened.left = left
        BY <2>1
    <2>3. \A o \in operations[d] : o.kind \in Founders /\ o.id = groups[g].id => o.kind # "reset" /\ vault[d] # NoGroup
        BY <1>1, <1>10 DEF Recovered, Founders
    <2>4. QED
        BY <1>4, <1>5, <1>10, <2>2, <2>3 DEF NothingFound
<1>11. QED
    BY <1>7, <1>8, <1>9, <1>10

LEMMA LeftThere ==
    ASSUME NEW d, NEW g, NEW opened, opened = Reopened(d, g)
    PROVE  opened.left \subseteq operations[d]
<1>1. PICK left : left = opened.left
    OBVIOUS
<1>2. CASE OwnCopy(d, g, opened)
    BY <1>2 DEF OwnCopy
<1>3. CASE LostFounding(d, g, opened)
    <2>1. PICK op \in operations[d] : left = operations[d] \ {op}
        BY <1>1, <1>3, Zenon DEF LostFounding
    <2>2. QED
        BY <1>1, <2>1
<1>4. CASE Welcomed(d, g, opened)
    <2>1. left = IF vault[d] = NoGroup THEN operations[d] ELSE {}
        BY <1>1, <1>4, Zenon DEF Welcomed
    <2>2. QED
        BY <1>1, <2>1
<1>5. CASE NothingFound(d, g, opened)
    <2>1. left = IF vault[d] = NoGroup THEN operations[d] ELSE {}
        BY <1>1, <1>5, Zenon DEF NothingFound
    <2>2. QED
        BY <1>1, <2>1
<1>6. QED
    BY <1>2, <1>3, <1>4, <1>5, ReopenedCases

LEMMA WelcomeAt ==
    ASSUME CryptoInv, Newest > 0, NEW d, NEW i \in Welcomes(d)
    PROVE  /\ Newest \in 1 .. Newest /\ i \in 1 .. Len(groups[Newest].log) /\ i \in Nat /\ i >= 1
           /\ ActiveGroup.log[i].path = groups[Newest].log[i].path
           /\ \E epoch \in Nat : epoch = Len(ActiveGroup.log[i].path) - 1 /\ Len(ActiveGroup.log[i].path) = epoch + 1
<1>1. Newest \in 1 .. Newest /\ i \in 1 .. Len(groups[Newest].log)
    BY NewestNat DEF CryptoInv, Welcomes, ActiveGroup
<1>2. PICK q : q = ActiveGroup.log[i].path
    OBVIOUS
<1>3. q = groups[Newest].log[i].path
    BY <1>2 DEF ActiveGroup
<1>4. PICK m \in Nat : m >= 1 /\ Len(q) = m /\ i \in Nat
    BY <1>1, <1>3, LogPath
<1>5. PICK epoch \in Nat : epoch = m - 1 /\ m = epoch + 1
    BY <1>4
<1>6. i >= 1
    BY <1>1, <1>4
<1>7. QED
    BY <1>1, <1>2, <1>3, <1>4, <1>5, <1>6

\* What is opened fits, and begins as its generation did unless it is a welcome.
LEMMA ReopenedFits ==
    ASSUME CryptoInv, NEW d \in Devices, NEW g \in 1 .. Newest, NEW opened, opened = Reopened(d, g),
           opened.local # NoGroup, vault[d].generation <= g
    PROVE  /\ CopyFits(opened.local) /\ opened.local.generation = g
           /\ Welcomes(d) = {} => Matches(opened.local, g)
<1>1. Newest \in Nat /\ g \in Nat /\ g > 0 /\ g <= Newest /\ Newest > 0
    BY NewestNat DEF CryptoInv
<1>2. PICK local : local = opened.local
    OBVIOUS
<1>3. CASE OwnCopy(d, g, opened)
    <2>1. CopyFits(vault[d])
        BY DEF CryptoInv, DevicesSound, CopiesSound
    <2>2. QED
        BY <1>3, <2>1 DEF OwnCopy, Matches
<1>4. CASE LostFounding(d, g, opened)
    <2>1. PICK op \in operations[d] : /\ op.kind \in Founders /\ op.id = groups[g].id
                                      /\ local = [generation |-> g, path |-> op.path, epoch |-> 0,
                                                  cursor |-> IF op.kind = "reset" THEN 1 ELSE 0]
        BY <1>2, <1>4 DEF LostFounding
    <2>2. op.path = <<op.id>> /\ (op.kind = "bootstrap" <=> op.generation = 0) /\ op.generation \in Nat
        BY <2>1, OpsBound DEF OpSound
    <2>3. g = op.generation + 1
        BY <2>1, LoggedOps DEF OpLogged
    <2>4. PICK n : n = Offset(g)
        OBVIOUS
    <2>5. (IF op.kind = "reset" THEN 1 ELSE 0) = n
        BY <2>1, <2>2, <2>3, <2>4 DEF Offset, Founders
    <2>6. local = [generation |-> g, path |-> <<groups[g].id>>, epoch |-> 0, cursor |-> n]
        BY <2>1, <2>2, <2>5
    <2>7. CopyFits(local) /\ Matches(local, g) /\ local.generation = g
        BY <2>4, <2>6, FoundCopy
    <2>8. QED
        BY <1>2, <2>7
<1>5. CASE Welcomed(d, g, opened)
    <2>1. PICK i \in Welcomes(d) : local = [generation |-> g, path |-> ActiveGroup.log[i].path,
                          epoch |-> Len(ActiveGroup.log[i].path) - 1, cursor |-> i]
        BY <1>2, <1>5 DEF Welcomed
    <2>2. PICK q : q = ActiveGroup.log[i].path
        OBVIOUS
    <2>3. PICK epoch \in Nat : epoch = Len(q) - 1 /\ Len(q) = epoch + 1
        BY <1>1, <2>2, WelcomeAt
    <2>4. local = [generation |-> g, path |-> q, epoch |-> epoch, cursor |-> i]
        BY <2>1, <2>2, <2>3
    <2>5. Newest \in 1 .. Newest /\ i \in 1 .. Len(groups[Newest].log) /\ q = groups[Newest].log[i].path /\ i \in Nat
        BY <1>1, <2>2, WelcomeAt
    <2>6. q \in Seq(Nat)
        BY <2>5, GroupParts DEF CryptoInv
    <2>7. CASE g = Newest
        <3>0. i \in 1 .. Len(groups[g].log) /\ q = groups[g].log[i].path /\ Len(q) = epoch + 1 /\ g \in 1 .. Newest
            BY <2>3, <2>5, <2>7
        <3>1. CopyFits(local) /\ local.generation = g
            <4>1. CopyFits(local) /\ CopySound(local, g) /\ local # NoGroup /\ Matches(local, g) /\ local.cursor > 0
                  /\ local.generation = g /\ local.path = q
                BY ONLY CryptoInv, epoch \in Nat, <2>4, <2>6, <3>0, LogCopy, SMTT(60)
            <4>2. QED
                BY <4>1
        <3>2. QED
            BY <1>2, <1>5, <2>1, <3>1
    <2>8. CASE g # Newest
        <3>1. local \in CopyRecord /\ local.generation = g /\ local.path = q
            BY <1>1, <2>4, <2>5, <2>6 DEF CopyRecord
        <3>2. Len(local.path) > 0
            BY <2>3, <3>1
        <3>3. CopyFits(local)
            BY <1>1, <2>8, <3>1, <3>2 DEF CopyFits
        <3>4. QED
            BY <1>2, <1>5, <2>1, <3>1, <3>3
    <2>9. QED
        BY <2>7, <2>8
<1>6. CASE NothingFound(d, g, opened)
    BY <1>6 DEF NothingFound
<1>7. QED
    BY <1>3, <1>4, <1>5, <1>6, ReopenedCases

\* Only then is there no copy.
LEMMA NoneFound ==
    ASSUME NEW d, NEW g, g # 0, NEW opened, opened = Reopened(d, g), opened.local = NoGroup
    PROVE  NothingFound(d, g, opened)
<1>1. CASE OwnCopy(d, g, opened)
    BY <1>1 DEF OwnCopy, Matches
<1>2. CASE LostFounding(d, g, opened)
    <2>1. opened.local.generation = g
        BY <1>2 DEF LostFounding
    <2>2. QED
        BY <2>1 DEF NoGroup
<1>3. CASE Welcomed(d, g, opened)
    <2>1. PICK i, q, e : opened.local = [generation |-> g, path |-> q, epoch |-> e, cursor |-> i]
        BY <1>3, Zenon DEF Welcomed
    <2>2. opened.local.generation = g
        BY <2>1
    <2>3. QED
        BY <2>2 DEF NoGroup
<1>4. QED
    BY <1>1, <1>2, <1>3, ReopenedCases

\* The request promoted is the last one staged of those in the log.
LEMMA LatestOf ==
    ASSUME CryptoInv, NEW d \in Devices, NEW mine, mine \subseteq operations[d], mine # {}
    PROVE  \E own \in mine : \A other \in mine : other.id <= own.id
<1>1. staged \in Nat /\ \A op \in mine : op.id \in 1 .. staged
    BY OpsBound DEF CryptoInv, ClientShape
<1> DEFINE T == {staged - op.id : op \in mine}
<1>2. T \subseteq Nat /\ T # {}
    BY <1>1
<1>3. PICK x \in T : \A y \in T : x <= y
    BY <1>2, LeastNumber
<1>4. PICK own \in mine : x = staged - own.id
    BY <1>3
<1>5. ASSUME NEW other \in mine PROVE other.id <= own.id
    <2>1. staged - other.id \in T
        OBVIOUS
    <2>2. staged - own.id <= staged - other.id
        BY <1>3, <1>4, <2>1
    <2>3. own.id \in Nat /\ other.id \in Nat
        BY <1>1
    <2>4. QED
        BY <1>1, <2>2, <2>3
<1>6. QED
    BY <1>5

LEMMA OwnAt ==
    ASSUME CryptoInv, Newest > 0, NEW d \in Devices, NEW op \in operations[d], op.kind # "bootstrap",
           NEW i \in 1 .. Len(groups[Newest].log), groups[Newest].log[i].id = op.id
    PROVE  /\ Newest \in 1 .. Newest /\ groups[Newest].log[i] = Entry(op) /\ groups[Newest].log[i].path = op.path
           /\ Newest = IF op.kind = "reset" THEN op.generation + 1 ELSE op.generation
           /\ \E epoch \in Nat : epoch = Len(op.path) - 1 /\ Len(op.path) = epoch + 1
<1>1. Newest \in 1 .. Newest
    BY NewestNat DEF CryptoInv
<1>2. groups[Newest].log[i] = Entry(op) /\ Newest = IF op.kind = "reset" THEN op.generation + 1 ELSE op.generation
    BY <1>1, LoggedOps DEF OpLogged
<1>3. groups[Newest].log[i].path = op.path
    BY <1>2 DEF Entry
<1>4. PICK m \in Nat : m >= 1 /\ Len(groups[Newest].log[i].path) = m
    BY <1>1, LogPath
<1>5. PICK epoch \in Nat : epoch = m - 1 /\ m = epoch + 1
    BY <1>4
<1>6. PICK q : q = op.path
    OBVIOUS
<1>7. Len(q) = m
    BY <1>3, <1>4, <1>6
<1>8. epoch = Len(q) - 1 /\ Len(q) = epoch + 1
    BY <1>5, <1>7
<1>9. QED
    BY <1>1, <1>2, <1>3, <1>6, <1>8

LEMMA PromotedFits ==
    ASSUME CryptoInv, NEW d \in Devices, NEW g \in 1 .. Newest, NEW own \in operations[d], own.kind # "bootstrap",
           NEW at \in 1 .. Len(groups[Newest].log), groups[Newest].log[at].id = own.id,
           NEW q \in Seq(Nat), q = own.path, NEW epoch \in Nat, Len(q) = epoch + 1,
           NEW promoted, promoted = [generation |-> g, path |-> q, epoch |-> epoch, cursor |-> at]
    PROVE  CopyFits(promoted) /\ promoted.generation = g /\ promoted.cursor > 0 /\ promoted # NoGroup
<1>1. Newest \in Nat /\ g \in Nat /\ g > 0 /\ g <= Newest /\ Newest > 0 /\ Newest \in 1 .. Newest
    BY NewestNat DEF CryptoInv
<1>3. q \in Seq(Nat) /\ q = groups[Newest].log[at].path /\ Len(q) = epoch + 1
    BY <1>1, OwnAt
<1>4. promoted = [generation |-> g, path |-> q, epoch |-> epoch, cursor |-> at]
    OBVIOUS
<1>5. at \in Nat /\ at > 0
    <2>1. Len(groups[Newest].log) \in Nat
        BY <1>1, GroupParts DEF CryptoInv
    <2>2. QED
        BY <2>1
<1>6. promoted \in CopyRecord /\ promoted.generation = g /\ promoted.cursor = at /\ promoted.path = q
    BY <1>1, <1>3, <1>4, <1>5 DEF CopyRecord
<1>7. promoted # NoGroup
    BY <1>1, <1>6 DEF NoGroup
<1>8. CASE g = Newest
    <2>1. at \in 1 .. Len(groups[g].log) /\ q = groups[g].log[at].path
        BY <1>3, <1>8
    <2>2. CopyFits(promoted)
        BY ONLY CryptoInv, g \in 1 .. Newest, epoch \in Nat, <1>3, <1>4, <2>1, LogCopy, SMTT(60)
    <2>3. QED
        BY <1>5, <1>6, <1>7, <2>2
<1>9. CASE g # Newest
    <2>1. Len(promoted.path) > 0
        BY <1>3, <1>6
    <2>2. CopyFits(promoted)
        BY <1>1, <1>6, <1>9, <2>1 DEF CopyFits
    <2>3. QED
        BY <1>5, <1>6, <1>7, <2>2
<1>10. QED
    BY <1>8, <1>9

LEMMA ReachedFits ==
    ASSUME CryptoInv, Newest > 0, NEW copy, CopyFits(copy), copy # NoGroup,
           NEW reached, reached = Followed(Sound(copy, TRUE), ControlsAfter(copy.cursor)),
           NEW stored, stored = Stored(reached)
    PROVE  /\ CopyFits(stored) /\ stored # NoGroup /\ stored.generation = copy.generation
           /\ stored.cursor \in Nat /\ copy.cursor \in Nat /\ stored.cursor >= copy.cursor
           /\ stored.path[1] = copy.path[1]
<1>1. /\ ServerShape /\ GroupsSound /\ staged \in Nat /\ Newest \in 1 .. Newest
      /\ copy \in CopyRecord /\ copy.generation <= Newest /\ copy.generation > 0 /\ Len(copy.path) > 0
    BY NewestNat DEF CryptoInv, ClientShape, CopyFits
<1>2. PICK g, c : g = copy.generation /\ c = copy.cursor
    OBVIOUS
<1>3. g \in Nat /\ g > 0 /\ copy.path \in Seq(Nat) /\ copy.epoch \in Nat /\ c \in Nat
    BY <1>1, <1>2 DEF CopyRecord
<1>4. PICK start : start = Sound(copy, TRUE)
    OBVIOUS
<1>5. start \in FollowRecord /\ start.sound /\ start.generation = g /\ start.cursor = c /\ start.path = copy.path
      /\ start.epoch = copy.epoch
    BY <1>2, <1>3, <1>4 DEF Sound, FollowRecord
<1>6. PICK controls : controls = ControlsAfter(c)
    OBVIOUS
<1>7. controls \in Seq(EntryRecord)
    <2>1. PICK log : log = groups[Newest].log
        OBVIOUS
    <2>2. log \in Seq(EntryRecord) /\ controls = SubSeq(log, c + 1, Len(log))
        BY <1>1, <1>6, <2>1, GroupParts DEF ControlsAfter, ActiveGroup
    <2>3. CASE c + 1 > Len(log)
        <3>1. controls = <<>>
            BY <1>3, <2>2, <2>3
        <3>2. <<>> \in Seq(EntryRecord)
            OBVIOUS
        <3>3. QED
            BY <3>1, <3>2
    <2>4. CASE ~ (c + 1 > Len(log))
        <3>1. c + 1 \in 1 .. Len(log) /\ Len(log) \in Nat
            BY <1>3, <2>2, <2>4
        <3>2. QED
            BY <2>2, <3>1
    <2>5. QED
        BY <2>3, <2>4
<1>8. reached = Followed(start, controls)
    BY <1>2, <1>4, <1>6
<1>9. KeepsCopy(start, reached)
    BY <1>5, <1>7, <1>8, FollowedKeeps
<1>10. /\ reached \in FollowRecord /\ reached.generation = g /\ reached.cursor >= c
       /\ Len(reached.path) > 0 /\ reached.path[1] = copy.path[1]
    BY <1>1, <1>5, <1>9 DEF KeepsCopy
<1>11. /\ stored \in CopyRecord /\ stored.generation = g /\ stored.cursor = reached.cursor /\ stored.path = reached.path
       /\ stored.epoch = reached.epoch /\ stored.cursor \in Nat
    BY <1>10 DEF Stored, FollowRecord, CopyRecord
<1>12. stored # NoGroup
    <2>1. stored.generation = g /\ g \in Nat /\ g > 0
        BY <1>3, <1>11
    <2>2. NoGroup.generation = 0
        BY DEF NoGroup
    <2>3. ASSUME stored = NoGroup PROVE FALSE
        <3>1. g = 0
            BY <2>1, <2>2, <2>3
        <3>2. QED
            BY <2>1, <3>1
    <2>4. QED
        BY <2>3
<1>13. ASSUME stored.generation = Newest PROVE CopySound(stored, Newest)
    <2>1. CopySound(copy, Newest)
        BY <1>1, <1>2, <1>11, <1>13 DEF CopyFits
    <2>2. CopySound(start, Newest)
        BY <1>2, <1>5, <2>1 DEF CopySound
    <2>3. GroupSound(Newest)
        BY <1>1 DEF GroupsSound
    <2>4. reached.sound /\ CopySound(reached, Newest)
        BY <1>1, <1>5, <1>6, <1>8, <2>2, <2>3, FollowedToTheEnd
    <2>5. QED
        BY <1>11, <2>4 DEF CopySound
<1>14. CopyFits(stored)
    BY <1>1, <1>2, <1>10, <1>11, <1>13 DEF CopyFits
<1>15. QED
    BY <1>2, <1>3, <1>10, <1>11, <1>12, <1>14

\* What a device has read, and what it keeps of what it staged.
CopyRead(g, opened, mine, copy) ==
    /\ CopyFits(copy)
    /\ opened.local = NoGroup => copy = NoGroup
    /\ opened.local # NoGroup =>
          /\ copy # NoGroup /\ copy.generation = g
          /\ mine # {} \/ opened.local.cursor > 0 => copy.cursor > 0
          /\ mine = {} => copy.path[1] = opened.local.path[1]
Reading(d, g, view, opened, mine, kept, copy) ==
    /\ LoadedFor(view, operations[d], vault[d]) /\ view.epoch \in Nat /\ g = view.generation
    /\ opened = Reopened(d, g) /\ mine = Landed(opened)
    /\ kept = opened.left \ IF opened.local = NoGroup THEN {} ELSE mine \cup Outdated(opened, view.epoch)
    /\ CopyRead(g, opened, mine, copy)

LEMMA ReadBasics ==
    ASSUME CryptoInv, NEW d \in Devices, NEW g, NEW view, NEW opened, NEW mine, NEW kept, NEW copy,
           Reading(d, g, view, opened, mine, kept, copy)
    PROVE  /\ g \in 1 .. Newest /\ g \in Nat /\ g > 0 /\ g <= Newest /\ Newest \in Nat /\ Newest \in 1 .. Newest
           /\ opened = Reopened(d, g) /\ opened.left \subseteq operations[d] /\ kept \subseteq opened.left
           /\ vault[d].generation <= g /\ vault[d].generation \in Nat
           /\ \A op \in operations[d] : op.generation <= g /\ op.generation \in Nat
           /\ CopyFits(copy) /\ CopyFits(vault[d])
<1>1. g \in 1 .. Newest /\ opened = Reopened(d, g) /\ vault[d].generation <= g /\ \A op \in operations[d] : op.generation <= g
    BY DEF Reading, LoadedFor
<1>2. Newest \in Nat /\ g \in Nat /\ g > 0 /\ g <= Newest /\ Newest \in 1 .. Newest
    BY <1>1, NewestNat DEF CryptoInv
<1>3. opened.left \subseteq operations[d]
    BY <1>1, LeftThere
<1>4. kept \subseteq opened.left
    BY DEF Reading
<1>5. \A op \in operations[d] : op.generation \in Nat
    BY OpsBound
<1>6. CopyFits(vault[d]) /\ vault[d].generation \in Nat
    BY DEF CryptoInv, DevicesSound, CopiesSound, CopyFits, CopyRecord
<1>7. CopyFits(copy)
    BY DEF Reading, CopyRead
<1>8. QED
    BY <1>1, <1>2, <1>3, <1>4, <1>5, <1>6, <1>7

\* A device that has staged the replacement of its generation is past its start.
LEMMA CursorPast ==
    ASSUME CryptoInv, NEW d \in Devices, NEW g \in 1 .. Newest, NEW opened, opened = Reopened(d, g),
           opened.local # NoGroup, NEW r \in operations[d], r.kind = "reset", r.generation = g,
           Newest = g \/ (Newest = g + 1 /\ groups[Newest].id = r.id /\ Welcomes(d) = {})
    PROVE  opened.local.cursor > 0
<1>1. Newest \in Nat /\ g \in Nat /\ Newest > 0 /\ (Newest = g + 1 => r.generation = Newest - 1 /\ Newest # g)
    BY NewestNat DEF CryptoInv
<1>2. ResetKept(d, r, operations[d], vault[d])
    BY KeptResets
<1>3. CASE OwnCopy(d, g, opened)
    <2>1. opened.local = vault[d] /\ vault[d] # NoGroup /\ vault[d].generation = g
        BY <1>3 DEF OwnCopy, Matches
    <2>2. CASE Newest = g
        BY <1>2, <2>1, <2>2 DEF ResetKept
    <2>3. CASE Newest = g + 1 /\ groups[Newest].id = r.id /\ Welcomes(d) = {}
        <3>1. ~ Matches(vault[d], Newest)
            BY <1>1, <2>1, <2>3 DEF Matches
        <3>2. QED
            BY <1>1, <1>2, <2>1, <2>3, <3>1 DEF ResetKept
    <2>4. QED
        BY <2>2, <2>3
<1>4. CASE LostFounding(d, g, opened)
    <2>1. PICK op \in operations[d] : /\ op.kind \in Founders /\ op.id = groups[g].id
                                      /\ opened.local = [generation |-> g, path |-> op.path, epoch |-> 0,
                                                         cursor |-> IF op.kind = "reset" THEN 1 ELSE 0]
        BY <1>4, Zenon DEF LostFounding
    <2>2. op.kind = "bootstrap" => op.generation = 0 /\ op.generation \in Nat
        BY <2>1, OpsBound DEF OpSound
    <2>3. g = op.generation + 1
        BY <2>1, LoggedOps DEF OpLogged
    <2>4. ASSUME op.kind = "bootstrap" PROVE FALSE
        <3>1. g = 1 /\ r.generation = 1
            BY <2>2, <2>3, <2>4
        <3>2. op.id # groups[1].id
            BY <1>2, <2>4, <3>1 DEF ResetKept
        <3>3. op.id = groups[1].id
            BY <2>1, <3>1
        <3>4. QED
            BY <3>2, <3>3
    <2>5. op.kind = "reset"
        BY <2>1, <2>4 DEF Founders
    <2>6. QED
        BY <2>1, <2>5
<1>5. CASE Welcomed(d, g, opened)
    <2>1. PICK i \in Welcomes(d) : \E q, e : opened.local = [generation |-> g, path |-> q, epoch |-> e, cursor |-> i]
        BY <1>5, Zenon DEF Welcomed
    <2>2. i \in Nat /\ i >= 1
        BY <1>1, WelcomeAt
    <2>3. QED
        BY <2>1, <2>2
<1>6. CASE NothingFound(d, g, opened)
    BY <1>6 DEF NothingFound
<1>7. QED
    BY <1>3, <1>4, <1>5, <1>6, ReopenedCases

\* Nothing of an older generation is found in the log of the newest.
LEMMA NoneMine ==
    ASSUME CryptoInv, NEW d \in Devices, NEW g, NEW view, NEW opened, NEW mine, NEW kept, NEW copy,
           Reading(d, g, view, opened, mine, kept, copy), g # Newest, Welcomes(d) = {}, opened.local # NoGroup
    PROVE  mine = {}
<1>1. /\ g \in 1 .. Newest /\ g \in Nat /\ g <= Newest /\ Newest \in Nat /\ Newest > 0 /\ Newest \in 1 .. Newest
      /\ opened = Reopened(d, g) /\ opened.left \subseteq operations[d]
      /\ \A op \in operations[d] : op.generation <= g /\ op.generation \in Nat
    BY ReadBasics
<1>2. SUFFICES ASSUME NEW op \in mine PROVE FALSE
    OBVIOUS
<1>3. PICK c : c = opened.local.cursor
    OBVIOUS
<1>4. op \in operations[d] /\ op.kind # "bootstrap" /\ \E i \in c + 1 .. Len(ActiveGroup.log) : ActiveGroup.log[i].id = op.id
    BY <1>1, <1>2, <1>3 DEF Reading, Landed
<1>5. PICK i \in c + 1 .. Len(groups[Newest].log) : groups[Newest].log[i].id = op.id
    BY <1>4 DEF ActiveGroup
<1>6. c \in Nat
    <2>1. CopyFits(opened.local)
        BY <1>1, ReopenedFits DEF Reading, LoadedFor
    <2>2. QED
        BY <1>3, <2>1 DEF CopyFits, CopyRecord
<1>7. PICK n : n = Len(groups[Newest].log)
    OBVIOUS
<1>8. n \in Nat
    BY <1>1, <1>7, GroupParts DEF CryptoInv
<1>9. i \in 1 .. n /\ i > c /\ i \in Nat
    BY <1>5, <1>6, <1>7, <1>8
<1>10. /\ groups[Newest].log[i] = Entry(op)
       /\ Newest = IF op.kind = "reset" THEN op.generation + 1 ELSE op.generation
    BY <1>1, <1>4, <1>5, <1>7, <1>9, OwnAt
<1>11. op.kind = "reset" /\ op.generation = g /\ Newest = g + 1
    BY <1>1, <1>4, <1>10
<1>12. groups[Newest].log[i].kind = "reset"
    BY <1>10, <1>11 DEF Entry
<1>13. GroupSound(Newest)
    BY <1>1 DEF CryptoInv, GroupsSound
<1>14. Offset(Newest) = 1
    BY <1>1, <1>11 DEF Offset
<1>15. i = 1
    <2>1. groups[Newest].log[i].kind \in (IF i = 1 THEN {"reset"} ELSE Commits)
        BY <1>7, <1>9, <1>13, <1>14 DEF GroupSound
    <2>2. QED
        BY <1>12, <2>1 DEF Commits
<1>16. groups[Newest].id = op.id
    <2>1. groups[Newest].log[i].id = groups[Newest].path[i + 1 - 1]
        BY <1>7, <1>9, <1>13, <1>14 DEF GroupSound
    <2>2. i + 1 - 1 = 1
        BY <1>15
    <2>3. groups[Newest].path[1] = groups[Newest].id
        BY <1>13 DEF GroupSound
    <2>4. QED
        BY <1>5, <2>1, <2>2, <2>3
<1>17. c > 0
    BY <1>1, <1>3, <1>4, <1>11, <1>16, CursorPast
<1>18. QED
    BY <1>6, <1>9, <1>15, <1>17

LEMMA StaysKept ==
    ASSUME CryptoInv, NEW d \in Devices, NEW g, NEW view, NEW opened, NEW mine, NEW kept, NEW copy,
           Reading(d, g, view, opened, mine, kept, copy), NEW op \in opened.left, op \notin mine,
           op.epoch \in Nat, op.epoch >= view.epoch
    PROVE  op \in kept
<1>1. op \notin Outdated(opened, view.epoch)
    BY DEF Reading, Outdated
<1>2. QED
    BY <1>1 DEF Reading

\* A reset that may still be accepted is not dropped.
LEMMA ReadWire ==
    ASSUME CryptoInv, NEW d \in Devices, NEW g, NEW view, NEW opened, NEW mine, NEW kept, NEW copy,
           Reading(d, g, view, opened, mine, kept, copy), NEW w \in wire, w.op.from = d, AtStake(w.op)
    PROVE  w.op \in kept
<1>1. /\ g \in 1 .. Newest /\ g \in Nat /\ g <= Newest /\ Newest \in Nat /\ Newest > 0 /\ Newest \in 1 .. Newest
      /\ opened = Reopened(d, g) /\ CopyFits(vault[d]) /\ ServerShape /\ GroupsSound /\ staged \in Nat
      /\ \A op \in operations[d] : op.generation <= g /\ op.generation \in Nat
    BY ReadBasics DEF CryptoInv, ClientShape
<1>2. PICK op : op = w.op
    OBVIOUS
<1>3. op \in operations[d] /\ \A h \in 1 .. Newest : groups[h].id # op.id
    BY <1>2 DEF CryptoInv, RequestsSound, WireSound
<1>4. op.kind \in Founders /\ op.generation = Newest /\ op.epoch = EpochOf(ActiveGroup) /\ g = Newest
    BY <1>1, <1>2, <1>3 DEF AtStake
<1>5. op.kind = "reset" /\ op.epoch \in Nat
    BY <1>1, <1>3, <1>4, OpsBound DEF OpSound, Founders
<1>6. ResetKept(d, op, operations[d], vault[d])
    BY <1>3, <1>5, KeptResets
<1>7. vault[d] # NoGroup => Matches(vault[d], g)
    <2>1. vault[d] # NoGroup => vault[d].generation = Newest
        BY <1>4, <1>6 DEF ResetKept
    <2>2. QED
        BY <1>1, <1>4, <2>1, CopyIsAt
<1>8. op \in opened.left
    <2>1. CASE OwnCopy(d, g, opened)
        BY <1>3, <2>1 DEF OwnCopy
    <2>2. CASE LostFounding(d, g, opened)
        <3>1. PICK other \in operations[d] : other.id = groups[g].id /\ opened.left = operations[d] \ {other}
            BY <2>2, Zenon DEF LostFounding
        <3>2. other # op
            BY <1>1, <1>3, <3>1
        <3>3. QED
            BY <1>3, <3>1, <3>2
    <2>3. CASE Welcomed(d, g, opened)
        <3>1. vault[d] = NoGroup
            BY <1>7, <2>3 DEF Welcomed
        <3>2. opened.left = operations[d]
            BY <2>3, <3>1, Zenon DEF Welcomed
        <3>3. QED
            BY <1>3, <3>2
    <2>4. CASE NothingFound(d, g, opened)
        <3>1. vault[d] = NoGroup
            BY <1>7, <2>4 DEF NothingFound
        <3>2. opened.left = operations[d]
            BY <2>4, <3>1, Zenon DEF NothingFound
        <3>3. QED
            BY <1>3, <3>2
    <2>5. QED
        BY <1>1, <2>1, <2>2, <2>3, <2>4, ReopenedCases
<1>9. op \notin mine
    <2>1. SUFFICES ASSUME op \in mine PROVE FALSE
        OBVIOUS
    <2>2. PICK i \in opened.local.cursor + 1 .. Len(groups[Newest].log) : groups[Newest].log[i].id = op.id
        BY <2>1 DEF Reading, Landed, ActiveGroup
    <2>3. opened.local.cursor \in Nat
        <3>1. CASE opened.local = NoGroup
            BY <3>1 DEF NoGroup
        <3>2. CASE opened.local # NoGroup
            <4>1. CopyFits(opened.local)
                BY <1>1, <3>2, ReopenedFits DEF Reading, LoadedFor
            <4>2. QED
                BY <4>1 DEF CopyFits, CopyRecord
        <3>3. QED
            BY <3>1, <3>2
    <2>4. PICK c, n : c = opened.local.cursor /\ n = Len(groups[Newest].log)
        OBVIOUS
    <2>5. n \in Nat /\ c \in Nat /\ i \in c + 1 .. n
        BY <1>1, <2>2, <2>3, <2>4, GroupParts
    <2>6. i \in 1 .. Len(groups[Newest].log)
        BY <2>4, <2>5
    <2>7. Newest = op.generation + 1
        BY <1>1, <1>3, <1>5, <2>2, <2>6, OwnAt
    <2>8. QED
        BY <1>1, <1>4, <2>7
<1>10. op.epoch >= view.epoch
    <2>1. view.epoch <= EpochOf(groups[g])
        BY DEF Reading, LoadedFor
    <2>2. QED
        BY <1>4, <2>1 DEF ActiveGroup
<1>11. QED
    BY <1>2, <1>5, <1>8, <1>9, <1>10, StaysKept

\* What a kept reset asks of the copy of its device.
LEMMA ReadResets ==
    ASSUME CryptoInv, NEW d \in Devices, NEW g, NEW view, NEW opened, NEW mine, NEW kept, NEW copy,
           Reading(d, g, view, opened, mine, kept, copy), NEW r \in kept, r.kind = "reset"
    PROVE  ResetKept(d, r, kept, copy)
<1>1. /\ g \in 1 .. Newest /\ g \in Nat /\ g <= Newest /\ Newest \in Nat /\ Newest > 0 /\ Newest \in 1 .. Newest
      /\ opened = Reopened(d, g) /\ CopyFits(copy) /\ ServerShape /\ GroupsSound /\ staged \in Nat
      /\ r \in operations[d] /\ kept \subseteq operations[d] /\ r.generation <= g /\ r.generation \in Nat
    BY ReadBasics DEF CryptoInv, ClientShape
<1>2. ResetKept(d, r, operations[d], vault[d])
    BY <1>1, KeptResets
<1>3. /\ opened.local = NoGroup => copy = NoGroup
      /\ opened.local # NoGroup =>
            /\ copy # NoGroup /\ copy.generation = g
            /\ mine # {} \/ opened.local.cursor > 0 => copy.cursor > 0
            /\ mine = {} => copy.path[1] = opened.local.path[1]
    BY DEF Reading, CopyRead
<1>4. ASSUME r.generation = Newest PROVE copy = NoGroup \/ (copy.generation = Newest /\ copy.cursor > 0)
    <2>1. g = Newest
        BY <1>1, <1>4
    <2>2. opened.local # NoGroup => opened.local.cursor > 0
        BY <1>1, <1>4, <2>1, CursorPast
    <2>3. QED
        BY <1>3, <2>1, <2>2
<1>5. ASSUME r.generation = Newest - 1, groups[Newest].id = r.id, copy # NoGroup, Welcomes(d) = {}
      PROVE  Matches(copy, Newest) \/ (Matches(copy, r.generation) /\ copy.cursor > 0)
    <2>1. opened.local # NoGroup /\ copy.generation = g
        BY <1>3, <1>5
    <2>2. CASE g = Newest
        BY <1>1, <1>5, <2>1, <2>2, CopyIsAt
    <2>3. CASE g # Newest
        <3>1. r.generation = g /\ Newest = g + 1
            BY <1>1, <1>5, <2>3
        <3>2. opened.local.cursor > 0
            BY <1>1, <1>5, <2>1, <3>1, CursorPast
        <3>3. mine = {}
            BY <1>5, <2>1, <2>3, NoneMine
        <3>4. Matches(opened.local, g)
            BY <1>1, <1>5, <2>1, ReopenedFits DEF Reading, LoadedFor
        <3>5. copy.path[1] = groups[g].id
            BY <1>3, <2>1, <3>3, <3>4 DEF Matches
        <3>6. Matches(copy, g)
            BY <1>5, <2>1, <3>5 DEF Matches
        <3>7. QED
            BY <1>3, <2>1, <3>1, <3>2, <3>6
    <2>4. QED
        BY <2>2, <2>3
<1>6. r.generation = 1 => \A b \in kept : b.kind = "bootstrap" => b.id # groups[1].id
    BY <1>1, <1>2 DEF ResetKept
<1>7. QED
    BY <1>4, <1>5, <1>6 DEF ResetKept

\* A member can still join.
LEMMA ReadJoin ==
    ASSUME CryptoInv, NEW d \in Devices, NEW g, NEW view, NEW opened, NEW mine, NEW kept, NEW copy,
           Reading(d, g, view, opened, mine, kept, copy), d \in ActiveGroup.members
    PROVE  CanJoin(d, kept, copy)
<1>1. /\ g \in 1 .. Newest /\ g \in Nat /\ g > 0 /\ g <= Newest /\ Newest \in Nat /\ Newest > 0 /\ Newest \in 1 .. Newest
      /\ opened = Reopened(d, g) /\ CopyFits(copy) /\ CopyFits(vault[d]) /\ ServerShape /\ GroupsSound /\ staged \in Nat
      /\ vault[d].generation <= g /\ vault[d].generation \in Nat
      /\ \A op \in operations[d] : op.generation <= g /\ op.generation \in Nat
    BY ReadBasics DEF CryptoInv, ClientShape
<1>2. CanJoin(d, operations[d], vault[d])
    BY <1>1 DEF CryptoInv, DevicesSound, JoinSound
<1>3. opened.local # NoGroup => copy # NoGroup /\ copy.generation = g
    BY DEF Reading, CopyRead
<1>4. SUFFICES ASSUME Welcomes(d) = {} PROVE CanJoin(d, kept, copy)
    BY DEF CanJoin
<1>5. CASE g = Newest
    <2>1. CASE opened.local # NoGroup
        <3>1. Matches(copy, Newest)
            BY <1>1, <1>3, <1>5, <2>1, CopyIsAt
        <3>2. QED
            BY <3>1 DEF CanJoin
    <2>2. CASE opened.local = NoGroup
        <3>1. NothingFound(d, g, opened)
            BY <1>1, <2>2, NoneFound
        <3>2. ~ Matches(vault[d], Newest)
            BY <1>5, <3>1 DEF NothingFound
        <3>3. PICK op \in operations[d] : op.kind \in Founders /\ op.id = groups[Newest].id
            BY <1>2, <1>4, <3>2 DEF CanJoin
        <3>4. op.kind # "reset" /\ vault[d] # NoGroup
            BY <1>5, <3>1, <3>3 DEF NothingFound
        <3>5. op.generation = 0
            BY <3>3, <3>4, OpsBound DEF OpSound, Founders
        <3>6. Newest = op.generation + 1
            BY <1>1, <3>3, LoggedOps DEF OpLogged
        <3>7. vault[d].generation = Newest
            <4>1. vault[d].generation > 0
                BY <1>1, <3>4 DEF CopyFits
            <4>2. QED
                BY <1>1, <1>5, <3>5, <3>6, <4>1
        <3>8. QED
            BY <1>1, <3>2, <3>4, <3>7, CopyIsAt
    <2>3. QED
        BY <2>1, <2>2
<1>6. CASE g # Newest
    <2>1. ~ Matches(vault[d], Newest)
        BY <1>1, <1>6 DEF Matches
    <2>2. PICK op \in operations[d] : op.kind \in Founders /\ op.id = groups[Newest].id
        BY <1>2, <1>4, <2>1 DEF CanJoin
    <2>3. Newest = op.generation + 1 /\ (Newest > 1 => op.epoch = EpochOf(groups[op.generation]))
        BY <1>1, <2>2, LoggedOps DEF OpLogged
    <2>4. op.generation = g /\ Newest = g + 1 /\ op.epoch = EpochOf(groups[g]) /\ op.epoch \in Nat
        BY <1>1, <1>6, <2>2, <2>3, OpsBound
    <2>5. op.kind = "reset"
        BY <1>1, <2>2, <2>4, OpsBound DEF OpSound, Founders
    <2>6. ResetKept(d, op, operations[d], vault[d])
        BY <2>5, KeptResets
    <2>7. vault[d] # NoGroup => Matches(vault[d], g)
        <3>1. op.generation = Newest - 1
            BY <1>1, <2>4
        <3>2. QED
            BY <1>4, <2>1, <2>2, <2>4, <2>6, <3>1 DEF ResetKept
    <2>8. op \in opened.left
        <3>1. CASE OwnCopy(d, g, opened)
            BY <2>2, <3>1 DEF OwnCopy
        <3>2. CASE LostFounding(d, g, opened)
            <4>1. PICK other \in operations[d] : other.id = groups[g].id /\ opened.left = operations[d] \ {other}
                BY <3>2, Zenon DEF LostFounding
            <4>2. op # other
                <5>1. op.id = groups[g].id => g = op.generation + 1
                    BY <1>1, <2>2, LoggedOps DEF OpLogged
                <5>2. QED
                    BY <1>1, <2>4, <4>1, <5>1
            <4>3. QED
                BY <2>2, <4>1, <4>2
        <3>3. CASE Welcomed(d, g, opened)
            BY <1>4, <3>3 DEF Welcomed
        <3>4. CASE NothingFound(d, g, opened)
            <4>1. vault[d] = NoGroup
                BY <2>7, <3>4 DEF NothingFound
            <4>2. opened.left = operations[d]
                BY <3>4, <4>1, Zenon DEF NothingFound
            <4>3. QED
                BY <2>2, <4>2
        <3>5. QED
            BY <1>1, <3>1, <3>2, <3>3, <3>4, ReopenedCases
    <2>9. op \in kept
        <3>1. CASE opened.local = NoGroup
            BY <2>8, <3>1 DEF Reading
        <3>2. CASE opened.local # NoGroup
            <4>1. mine = {}
                BY <1>4, <1>6, <3>2, NoneMine
            <4>2. view.epoch <= EpochOf(groups[g])
                BY DEF Reading, LoadedFor
            <4>3. op \notin mine /\ op.epoch >= view.epoch
                BY <2>4, <4>1, <4>2
            <4>4. QED
                BY <2>4, <2>8, <4>3, StaysKept
        <3>3. QED
            BY <3>1, <3>2
    <2>10. QED
        BY <2>2, <2>9 DEF CanJoin
<1>7. QED
    BY <1>5, <1>6

LEMMA ReadKeeps ==
    ASSUME CryptoInv, NEW d \in Devices, NEW g, NEW view, NEW opened, NEW mine, NEW kept, NEW copy,
           Reading(d, g, view, opened, mine, kept, copy)
    PROVE  KeptFor(d, kept, copy)
<1>1. kept \subseteq operations[d] /\ CopyFits(copy)
    BY ReadBasics
<1>2. \A w \in wire : w.op.from = d /\ AtStake(w.op) => w.op \in kept
    BY ReadWire
<1>3. \A r \in kept : r.kind = "reset" => ResetKept(d, r, kept, copy)
    BY ReadResets
<1>4. d \in ActiveGroup.members => CanJoin(d, kept, copy)
    BY ReadJoin
<1>5. QED
    BY <1>1, <1>2, <1>3, <1>4 DEF KeptFor

\* The request that is promoted is in the log.
LEMMA LandedFits ==
    ASSUME CryptoInv, NEW d \in Devices, NEW g \in 1 .. Newest, NEW opened, opened.left \subseteq operations[d],
           opened.local.cursor \in Nat, Landed(opened) # {}, NEW promoted, promoted = Promoted(opened, g)
    PROVE  promoted.generation = g /\ CopyFits(promoted) /\ promoted.cursor > 0 /\ promoted # NoGroup
<1>1. ServerShape /\ Newest \in Nat /\ Newest > 0 /\ Newest \in 1 .. Newest
    BY NewestNat DEF CryptoInv
<1>2. PICK mine : mine = Landed(opened)
    OBVIOUS
<1>3. PICK own : own = CHOOSE op \in mine : \A other \in mine : other.id <= op.id
    OBVIOUS
<1>4. PICK log : log = groups[Newest].log
    OBVIOUS
<1>5. PICK at : at = CHOOSE i \in 1 .. Len(log) : log[i].id = own.id
    OBVIOUS
<1>6. PICK c, m : c = opened.local.cursor /\ m = Len(log)
    OBVIOUS
<1>7. c \in Nat /\ m \in Nat
    BY <1>1, <1>4, <1>6, GroupParts
<1>8. mine = {op \in opened.left : op.kind # "bootstrap" /\ \E i \in c + 1 .. m : log[i].id = op.id}
    BY <1>2, <1>4, <1>6 DEF Landed, ActiveGroup
<1>9. mine \subseteq operations[d] /\ mine # {}
    BY <1>2, <1>8
<1>10. own \in mine
    <2>1. \E op \in mine : \A other \in mine : other.id <= op.id
        BY <1>9, LatestOf
    <2>2. QED
        BY <1>3, <2>1
<1>11. own \in operations[d] /\ own.kind # "bootstrap" /\ \E i \in c + 1 .. m : log[i].id = own.id
    BY <1>8, <1>9, <1>10
<1>12. \E i \in 1 .. m : log[i].id = own.id
    BY <1>7, <1>11
<1>13. at \in 1 .. Len(log) /\ log[at].id = own.id
    BY <1>5, <1>6, <1>12
<1>14. at \in 1 .. Len(groups[Newest].log) /\ groups[Newest].log[at].id = own.id
    BY <1>4, <1>13
<1>15. groups[Newest].log[at].path = own.path /\ \E epoch \in Nat : epoch = Len(own.path) - 1 /\ Len(own.path) = epoch + 1
    BY <1>1, <1>11, <1>14, OwnAt
<1>16. PICK q \in Seq(Nat) : q = own.path
    BY <1>11, OpsBound
<1>17. PICK epoch \in Nat : epoch = Len(q) - 1 /\ Len(q) = epoch + 1
    BY <1>15, <1>16
<1>18. promoted = [generation |-> g, path |-> own.path, epoch |-> Len(log[at].path) - 1, cursor |-> at]
    BY <1>2, <1>3, <1>4, <1>5, <1>9 DEF Promoted, ActiveGroup
<1>19. promoted = [generation |-> g, path |-> q, epoch |-> epoch, cursor |-> at]
    BY <1>4, <1>15, <1>16, <1>17, <1>18
<1>20. Len(q) = epoch + 1
    BY <1>17
<1>21. QED
    BY ONLY CryptoInv, d \in Devices, g \in 1 .. Newest, <1>11, <1>14, q \in Seq(Nat), <1>16, epoch \in Nat, <1>19, <1>20, PromotedFits, SMTT(60)

LEMMA ProcessStep ==
    ASSUME CryptoInv, NEW d \in Devices, ProcessControls(d) PROVE CryptoInv'
<1>1. PICK view : view = seen[d]
    OBVIOUS
<1>2. PICK g, n : g = view.generation /\ n = view.epoch
    OBVIOUS
<1>4. PICK opened : opened = Reopened(d, g)
    OBVIOUS
<1>5. PICK local : local = opened.local
    OBVIOUS
<1>6. PICK mine : mine = Landed(opened)
    OBVIOUS
<1>9. PICK promoted : promoted = Promoted(opened, g)
    OBVIOUS
<1>10. PICK reached : reached = Followed(Sound(promoted, TRUE), ControlsAfter(promoted.cursor))
    OBVIOUS
<1>12. PICK useless \in BOOLEAN : useless = (local = NoGroup \/ ~reached.sound)
    OBVIOUS
<1>13. PICK kept : kept = opened.left \ IF local = NoGroup THEN {} ELSE mine \cup Outdated(opened, n)
    OBVIOUS
<1>14. PICK lists : lists = IF useless THEN Nothing ELSE Survey(d)
    OBVIOUS
<1>15. PICK copy : copy = IF local = NoGroup THEN NoGroup ELSE Stored(reached)
    OBVIOUS
<1>16. /\ ensuring[d] = "loaded" /\ d \in Trusted
       /\ vault' = [vault EXCEPT ![d] = copy]
       /\ CommitControl(d, kept, lists, vault'[d])
       /\ seen' = [seen EXCEPT ![d] = lists]
       /\ UNCHANGED <<serverVars, held, reply, sealed, aux>>
    BY <1>1, <1>2, <1>4, <1>5, <1>6, <1>9, <1>10, <1>12, <1>13, <1>14, <1>15
       DEF ProcessControls
<1>17. LoadedFor(view, operations[d], vault[d]) /\ ClientShape /\ ServerShape /\ reply[d].outcome = "none"
    <2>1. LoadedFor(view, operations[d], vault[d])
        BY <1>1, <1>16 DEF CryptoInv, DevicesSound, LoadedSound
    <2>2. reply[d].outcome = "none"
        BY <1>16 DEF CryptoInv, DevicesSound, WaitingSound, WaitSound
    <2>3. QED
        BY <2>1, <2>2 DEF CryptoInv
<1>18. n \in Nat /\ view \in SeenRecord
    BY <1>1, <1>2, <1>17 DEF ClientShape, SeenRecord
<1>19. g \in 1 .. Newest /\ Newest \in Nat /\ Newest > 0 /\ g \in Nat /\ g > 0 /\ Newest \in 1 .. Newest
    BY <1>2, <1>17, NewestNat DEF LoadedFor
<1>20. opened.left \subseteq operations[d]
    BY <1>4, LeftThere
<1>21. ASSUME local # NoGroup PROVE CopyFits(local) /\ local.generation = g /\ local.cursor \in Nat
    <2>1. CopyFits(local) /\ local.generation = g
        BY <1>2, <1>4, <1>5, <1>17, <1>19, <1>21, ReopenedFits DEF LoadedFor
    <2>2. QED
        BY <2>1 DEF CopyFits, CopyRecord
<1>22. ASSUME local # NoGroup
       PROVE  CopyFits(promoted) /\ promoted.generation = g /\ promoted # NoGroup /\ (mine # {} => promoted.cursor > 0)
              /\ (mine = {} => promoted = local)
    <2>1. CASE mine = {}
        <3>1. promoted = local
            BY <1>5, <1>6, <1>9, <2>1 DEF Promoted
        <3>2. QED
            BY <1>21, <1>22, <2>1, <3>1
    <2>2. CASE mine # {}
        <3>1. promoted.generation = g /\ CopyFits(promoted) /\ promoted.cursor > 0 /\ promoted # NoGroup
            BY <1>5, <1>6, <1>9, <1>17, <1>19, <1>20, <1>21, <1>22, <2>2, LandedFits
        <3>2. QED
            BY <2>2, <3>1
    <2>3. QED
        BY <2>1, <2>2
<1>23. ASSUME local # NoGroup
       PROVE  /\ copy = Stored(reached) /\ CopyFits(copy) /\ copy # NoGroup /\ copy.generation = g
              /\ mine # {} \/ local.cursor > 0 => copy.cursor > 0
              /\ mine = {} => copy.path[1] = local.path[1]
    <2>1. CopyFits(promoted) /\ promoted.generation = g /\ promoted # NoGroup /\ (mine # {} => promoted.cursor > 0)
          /\ (mine = {} => promoted = local)
        BY <1>22, <1>23
    <2>2. copy = Stored(reached)
        BY <1>15, <1>23
    <2>3. /\ CopyFits(copy) /\ copy # NoGroup /\ copy.generation = promoted.generation
          /\ copy.cursor \in Nat /\ promoted.cursor \in Nat /\ copy.cursor >= promoted.cursor
          /\ copy.path[1] = promoted.path[1]
        BY <1>10, <1>19, <2>1, <2>2, ReachedFits
    <2>4. mine # {} \/ local.cursor > 0 => promoted.cursor > 0
        BY <2>1
    <2>5. mine # {} \/ local.cursor > 0 => copy.cursor > 0
        BY <2>3, <2>4
    <2>6. mine = {} => copy.path[1] = local.path[1]
        BY <2>1, <2>3
    <2>7. QED
        BY <2>1, <2>2, <2>3, <2>5, <2>6
<1>24. local = NoGroup => copy = NoGroup
    BY <1>15
<1>25. CopyFits(copy)
    <2>1. CASE local # NoGroup
        BY <1>23, <2>1
    <2>2. CASE local = NoGroup
        <3>1. copy = NoGroup
            BY <1>24, <2>2
        <3>2. NoGroup \in CopyRecord /\ NoGroup.generation = 0
            <4>1. <<>> \in Seq(Nat)
                OBVIOUS
            <4>2. QED
                BY <4>1 DEF NoGroup, CopyRecord
        <3>3. QED
            BY <1>19, <3>1, <3>2 DEF CopyFits
    <2>3. QED
        BY <2>1, <2>2
<1>27. Reading(d, g, view, opened, mine, kept, copy)
    <2>1. CopyRead(g, opened, mine, copy)
        BY <1>5, <1>23, <1>24, <1>25 DEF CopyRead
    <2>2. view.epoch \in Nat
        BY <1>2, <1>18
    <2>3. kept = opened.left \ IF opened.local = NoGroup THEN {} ELSE mine \cup Outdated(opened, view.epoch)
        BY <1>2, <1>5, <1>13
    <2>4. QED
        BY <1>2, <1>4, <1>6, <1>17, <2>1, <2>2, <2>3 DEF Reading
<1>28. KeptFor(d, kept, copy)
    BY <1>27, ReadKeeps
<1>29. lists \in SeenRecord
    BY <1>14, <1>19, SurveyOf, SummaryOf
<1>30. copy \in CopyRecord /\ vault'[d] = copy
    BY <1>16, <1>17, <1>25 DEF ClientShape, CopyFits
<1>31. FrameFor(d, copy)
    BY <1>16, <1>17, <1>29, <1>30 DEF FrameFor, ClientShape, aux
<1>32. lists.removals # {} \/ lists.additions # {} => copy # NoGroup
    <2>1. useless => lists.removals = {} /\ lists.additions = {}
        BY <1>14, SummaryOf
    <2>2. ~useless => copy # NoGroup
        BY <1>12, <1>23
    <2>3. QED
        BY <2>1, <2>2
<1>33. CommitControl(d, kept, lists, copy)
    BY <1>16, <1>30
<1>34. QED
    BY <1>28, <1>29, <1>31, <1>32, <1>33, CommitKeeps

-----------------------------------------------------------------------------
(* CryptoRuntime: the server serves a request.                                *)

Serves(w) ==
    /\ wire' = wire \ {w}
    /\ UNCHANGED <<vault, held, operations, ensuring, seen, sealed, staged, aux>>

\* What is new in the list of generations is the request's.
GrowsBy(op) ==
    GroupsGrow /\ \A g \in 1 .. Newest' : g \in 1 .. Newest \/ groups'[g].id = op.id

LEMMA WireOps ==
    ASSUME CryptoInv, NEW w \in wire
    PROVE  /\ w.op \in AllOps /\ w.op \in OpRecord /\ OpSound(w.op) /\ w.op.id \in Nat /\ w.op.id \in 1 .. staged
           /\ w.op.from \in Devices /\ w.op.target \in Devices /\ w.op.path \in Seq(Nat) /\ w.op.epoch \in Nat
           /\ w.op.generation \in Nat /\ w.op.generation <= Newest /\ w.op.kind \in Founders \cup Commits
           /\ \A other \in AllOps : other.id = w.op.id => other = w.op
           /\ \A v \in wire \ {w} : v.op.id # w.op.id
           /\ \A g \in 1 .. Newest : groups[g].id # w.op.id
<1>1. PICK op : op = w.op
    OBVIOUS
<1>2. ClientShape /\ OpsSound /\ OnceStaged /\ WireSound
    BY DEF CryptoInv, RequestsSound
<1>3. op \in AllOps
    BY <1>1, <1>2, OpsThere
<1>4. /\ op \in OpRecord /\ op.id \in Nat /\ op.generation \in Nat /\ op.epoch \in Nat /\ op.path \in Seq(Nat)
      /\ op.kind \in Founders \cup Commits /\ op.from \in Devices /\ op.target \in Devices
    BY <1>2, <1>3, OpTypes
<1>5. OpSound(op)
    BY <1>2, <1>3 DEF OpsSound
<1>6. op.id \in 1 .. staged /\ op.generation <= Newest
    BY <1>5 DEF OpSound
<1>7. \A other \in AllOps : other.id = op.id => other = op
    BY <1>2, <1>3 DEF OnceStaged
<1>8. \A v \in wire \ {w} : v.op.id # op.id
    BY <1>1, <1>2 DEF OnceStaged
<1>9. \A g \in 1 .. Newest : groups[g].id # op.id
    BY <1>1, <1>2 DEF WireSound
<1>10. QED
    BY <1>1, <1>3, <1>4, <1>5, <1>6, <1>7, <1>8, <1>9

\* The device that waits for the answer has it, the others wait on.
LEMMA AnswerSound ==
    ASSUME CryptoInv, NEW w \in wire, Serves(w), NEW op, op = w.op, GrowsBy(op),
           NEW outcome \in {"accepted", "conflict", "refused"}, NEW sequence \in Nat, Answer(op, outcome, sequence),
           outcome = "accepted" => Done(op, sequence)',
           outcome = "conflict" => Newest > 0 /\ groups' = groups
    PROVE  reply' \in [Devices -> ReplyRecord] /\ (WaitingSound)'
<1>1. /\ ServerShape /\ ClientShape /\ vault' = vault /\ operations' = operations /\ ensuring' = ensuring
      /\ wire' = wire \ {w} /\ GroupsGrow
    BY DEF CryptoInv, Serves, GrowsBy
<1>2. /\ op \in AllOps /\ op \in OpRecord /\ op.from \in Devices
      /\ \A other \in AllOps : other.id = op.id => other = op
      /\ \A v \in wire \ {w} : v.op.id # op.id
      /\ \A g \in 1 .. Newest : groups[g].id # op.id
    BY WireOps
<1>3. PICK answer : answer = [outcome |-> outcome, sequence |-> sequence]
    OBVIOUS
<1>4. answer \in ReplyRecord /\ answer.outcome = outcome /\ answer.sequence = sequence
    BY <1>3 DEF ReplyRecord
<1>5. reply' = IF Waits(op) THEN [reply EXCEPT ![op.from] = answer] ELSE reply
    BY <1>3, Zenon DEF Answer
<1>6. reply' \in [Devices -> ReplyRecord]
    BY <1>1, <1>2, <1>4, <1>5 DEF ClientShape
<1>7. ASSUME NEW e \in Devices PROVE WaitSound(e)'
    <2>1. CASE ensuring[e] # "waiting"
        <3>1. reply[e].outcome = "none"
            BY <2>1 DEF CryptoInv, DevicesSound, WaitingSound, WaitSound
        <3>2. Waits(op) => op.from # e
            BY <2>1 DEF Waits
        <3>3. reply'[e] = reply[e]
            BY <1>1, <1>2, <1>5, <3>2 DEF ClientShape
        <3>4. QED
            BY <1>1, <2>1, <3>1, <3>3 DEF WaitSound
    <2>2. CASE ensuring[e] = "waiting"
        <3>1. PICK o : o = Awaited(e)
            OBVIOUS
        <3>2. o \in operations[e] /\ Newer(e, o) /\ AwaitSound(e, o)
            BY <2>2, <3>1, AwaitedIs
        <3>3. o \in AllOps /\ o \in OpRecord /\ OpSound(o)
            BY <3>2, OpsBound
        <3>4. Newer(e, o)'
            BY <1>1, <3>2 DEF Newer
        <3>5. CASE Waits(op) /\ op.from = e
            <4>1. o = op /\ reply'[e] = answer
                BY <1>1, <1>2, <1>5, <3>1, <3>5 DEF Waits, ClientShape
            <4>2. \A v \in wire' : v.op # op
                BY <1>1, <1>2
            <4>3. reply'[e].outcome = outcome /\ reply'[e].sequence = sequence
                BY <1>4, <4>1
            <4>4. outcome = "conflict" => Newest' > 0 /\ \A g \in 1 .. Newest' : groups'[g].id # op.id
                BY <1>2 DEF Newest
            <4>5. (o.kind \in Commits => vault'[e].generation = o.generation) /\ (o.kind = "bootstrap" => vault'[e] = NoGroup)
                BY <1>1, <3>2 DEF AwaitSound
            <4>6. reply'[e].outcome = "accepted" => Done(o, sequence)'
                BY <4>1, <4>3 DEF Done
            <4>7. AwaitSound(e, o)'
                BY <4>1, <4>2, <4>3, <4>4, <4>5, <4>6 DEF AwaitSound, Done
            <4>8. QED
                BY <1>1, <2>2, <3>2, <3>4, <4>7 DEF WaitSound
        <3>6. CASE ~ (Waits(op) /\ op.from = e)
            <4>1. reply'[e] = reply[e]
                BY <1>1, <1>2, <1>5, <3>6 DEF ClientShape
            <4>2. reply'[e].outcome # "none" => \A v \in wire' : v.op # o
                BY <1>1, <3>2, <4>1 DEF AwaitSound
            <4>3. PICK n : n = reply[e].sequence
                OBVIOUS
            <4>4. reply[e].outcome = "accepted" => Done(o, n)'
                BY <1>1, <3>2, <3>3, <4>3, DoneKept DEF AwaitSound
            <4>5. reply[e].outcome = "conflict" => Newest' > 0 /\ \A g \in 1 .. Newest' : groups'[g].id # o.id
                <5>1. SUFFICES ASSUME reply[e].outcome = "conflict"
                               PROVE  Newest' > 0 /\ \A g \in 1 .. Newest' : groups'[g].id # o.id
                    OBVIOUS
                <5>2. Newest > 0 /\ \A g \in 1 .. Newest : groups[g].id # o.id
                    BY <3>2, <5>1 DEF AwaitSound
                <5>3. op # o
                    BY <3>2, <5>1 DEF AwaitSound
                <5>4. op.id # o.id
                    BY <1>2, <3>3, <5>3
                <5>5. Newest' \in Nat /\ Newest \in Nat /\ Newest' >= Newest
                    BY <1>1, NewestNat DEF GroupsGrow, GrownFrom
                <5>6. ASSUME NEW g \in 1 .. Newest' PROVE groups'[g].id # o.id
                    <6>1. CASE g \in 1 .. Newest
                        BY <1>1, <5>2, <6>1 DEF GroupsGrow, GrownFrom
                    <6>2. CASE groups'[g].id = op.id
                        BY <5>4, <6>2
                    <6>3. QED
                        BY <6>1, <6>2 DEF GrowsBy
                <5>7. QED
                    BY <5>2, <5>5, <5>6
            <4>6. (o.kind \in Commits => vault'[e].generation = o.generation) /\ (o.kind = "bootstrap" => vault'[e] = NoGroup)
                BY <1>1, <3>2 DEF AwaitSound
            <4>7. AwaitSound(e, o)'
                BY <4>1, <4>2, <4>3, <4>4, <4>5, <4>6 DEF AwaitSound, Done
            <4>8. QED
                BY <1>1, <2>2, <3>2, <3>4, <4>7 DEF WaitSound
        <3>7. QED
            BY <3>5, <3>6
    <2>3. QED
        BY <2>1, <2>2
<1>8. QED
    BY <1>6, <1>7 DEF WaitingSound

\* What the groups growing leaves as it was.
LEMMA ServeRest ==
    ASSUME CryptoInv, NEW w \in wire, Serves(w), (ServerShape)', GroupsGrow, contentKeys' = contentKeys, setup' = setup,
           reply' \in [Devices -> ReplyRecord]
    PROVE  (ClientShape /\ OpsSound /\ OnceStaged /\ CopiesSound /\ LoadedSound /\ EnvelopesSound /\ SetupSound)'
           /\ AllOps' \subseteq AllOps
<1>1. /\ ServerShape /\ ClientShape /\ GroupsSound /\ vault' = vault /\ operations' = operations /\ ensuring' = ensuring
      /\ seen' = seen /\ held' = held /\ sealed' = sealed /\ staged' = staged /\ wire' = wire \ {w}
      /\ staged \in Nat /\ staged <= MaxSteps /\ Newest \in Nat /\ Newest' \in Nat /\ Newest' >= Newest
    BY NewestNat DEF CryptoInv, ClientShape, Serves, GroupsGrow, GrownFrom
<1>2. (ClientShape)'
    BY <1>1 DEF ClientShape
<1>3. AllOps' \subseteq AllOps
    BY <1>1 DEF AllOps
<1>4. (OpsSound)'
    <2>1. ASSUME NEW op \in AllOps PROVE OpSound(op)'
        <3>1. op \in OpRecord /\ OpSound(op)
            BY <1>1, OpTypes DEF CryptoInv, RequestsSound, OpsSound
        <3>2. staged' \in Nat /\ staged' >= staged
            BY <1>1
        <3>3. QED
            BY <1>1, <3>1, <3>2, OpSoundKept
    <2>2. QED
        BY <1>3, <2>1 DEF OpsSound
<1>5. (OnceStaged)'
    BY <1>1, <1>3 DEF OnceStaged, CryptoInv, RequestsSound
<1>6. (CopiesSound)'
    <2>1. ASSUME NEW e \in Devices PROVE CopyFits(vault[e])'
        <3>1. PICK copy : copy = vault[e]
            OBVIOUS
        <3>2. CopyFits(copy)
            BY <3>1 DEF CryptoInv, DevicesSound, CopiesSound
        <3>3. CopyFits(copy)'
            BY <1>1, <3>2, CopyFitsKept
        <3>4. QED
            BY <1>1, <3>1, <3>3 DEF CopyFits, CopySound
    <2>2. QED
        BY <2>1 DEF CopiesSound
<1>7. (LoadedSound)'
    <2>1. ASSUME NEW e \in Devices, ensuring[e] = "loaded"
          PROVE  /\ seen[e].generation \in 1 .. Newest' /\ seen[e].epoch <= EpochOf(groups'[seen[e].generation])
                 /\ vault[e].generation <= seen[e].generation
                 /\ \A op \in operations[e] : op.generation <= seen[e].generation
        <3>1. PICK g, n : g = seen[e].generation /\ n = seen[e].epoch
            OBVIOUS
        <3>2. /\ g \in 1 .. Newest /\ n <= EpochOf(groups[g]) /\ vault[e].generation <= g
              /\ \A op \in operations[e] : op.generation <= g
            BY <2>1, <3>1 DEF CryptoInv, DevicesSound, LoadedSound, LoadedFor
        <3>3. n \in Nat
            BY <1>1, <3>1 DEF ClientShape, SeenRecord
        <3>8. ServerShape /\ g \in 1 .. Newest
            BY <1>1, <3>2
        <3>9. groups[g].path \in Seq(Nat)
            BY <3>8, GroupParts
        <3>10. groups'[g].path \in Seq(Nat) /\ Len(groups'[g].path) >= Len(groups[g].path)
            BY <3>8 DEF GroupsGrow, GrownFrom
        <3>4. Len(groups[g].path) \in Nat /\ Len(groups'[g].path) \in Nat /\ Len(groups'[g].path) >= Len(groups[g].path)
            BY <3>9, <3>10
        <3>5. n <= EpochOf(groups'[g])
            BY <3>2, <3>3, <3>4 DEF EpochOf
        <3>6. g \in 1 .. Newest'
            BY <1>1, <3>2
        <3>7. QED
            BY <3>1, <3>2, <3>5, <3>6
    <2>2. QED
        BY <1>1, <2>1 DEF LoadedSound, LoadedFor
<1>8. (EnvelopesSound)'
    <2>1. ASSUME NEW key \in EnvelopeRecord, key.generation \in 1 .. Newest, KeySound(key)
          PROVE  KeySound(key)'
        BY <1>1, <2>1, KeySoundKept
    <2>2. contentKeys \subseteq EnvelopeRecord /\ sealed \subseteq EnvelopeRecord
        BY <1>1 DEF ServerShape, ClientShape
    <2>3. EnvelopesSound
        BY DEF CryptoInv, DevicesSound
    <2>4. ASSUME NEW key \in contentKeys PROVE key.generation \in 1 .. Newest' /\ KeySound(key)'
        <3>1. key.generation \in 1 .. Newest /\ KeySound(key)
            BY <2>3 DEF EnvelopesSound
        <3>2. key.generation \in 1 .. Newest'
            BY <1>1, <3>1
        <3>3. QED
            BY <2>1, <2>2, <3>1, <3>2
    <2>5. ASSUME NEW e \in sealed
          PROVE  e.generation \in 1 .. Newest' /\ (e.checked \/ e.generation = Newest' => KeySound(e)')
        <3>1. e.generation \in 1 .. Newest /\ (e.checked \/ e.generation = Newest => KeySound(e))
            BY <2>3 DEF EnvelopesSound
        <3>2. e.generation \in 1 .. Newest' /\ (e.generation = Newest' => e.generation = Newest)
            BY <1>1, <3>1
        <3>3. QED
            BY <2>1, <2>2, <3>1, <3>2
    <2>6. QED
        BY <1>1, <2>4, <2>5 DEF EnvelopesSound
<1>9. (SetupSound)'
    <2>1. ASSUME setup # NoSetup PROVE setup.generation <= Newest'
        <3>1. setup.generation \in Nat /\ setup.generation <= Newest
            BY <1>1, <2>1 DEF ServerShape, SetupRecord, CryptoInv, PolicySound, SetupSound
        <3>2. QED
            BY <1>1, <3>1
    <2>2. QED
        BY <2>1 DEF SetupSound
<1>10. QED
    BY <1>2, <1>3, <1>4, <1>5, <1>6, <1>7, <1>8, <1>9

LEMMA ConflictNewest ==
    ASSUME CryptoInv, NEW op, Conflicts(op) PROVE Newest > 0
BY DEF Conflicts, AtHead, MayCommit

\* A request that is refused changes nothing but the answer.
LEMMA RejectedStep ==
    ASSUME CryptoInv, NEW w \in wire, Serves(w), UNCHANGED serverVars, NEW op, op = w.op,
           NEW outcome \in {"conflict", "refused"}, Answer(op, outcome, 0), outcome = "conflict" => Newest > 0
    PROVE  CryptoInv'
<1>1. /\ trust' = trust /\ spent' = spent /\ challenge' = challenge /\ groups' = groups /\ cryptoPolicy' = cryptoPolicy
      /\ recovery' = recovery /\ setup' = setup /\ contentKeys' = contentKeys
    BY ServerSame
<1>2. /\ ServerShape /\ ClientShape /\ GroupsSound /\ staged' = staged /\ staged \in Nat /\ operations' = operations
      /\ vault' = vault /\ wire' = wire \ {w} /\ lag' = lag /\ staged' \in Nat /\ staged' >= staged
    BY DEF CryptoInv, ClientShape, Serves, aux
<1>3. Newest' = Newest /\ GroupsGrow /\ (GroupsSound)'
    BY <1>1, <1>2, GroupsStay
<1>4. (ServerShape)'
    BY <1>1, <1>2 DEF ServerShape
<1>5. GrowsBy(op)
    BY <1>3 DEF GrowsBy
<1>6. outcome \in {"accepted", "conflict", "refused"} /\ outcome # "accepted" /\ 0 \in Nat
    OBVIOUS
<1>7. reply' \in [Devices -> ReplyRecord] /\ (WaitingSound)'
    <2>1. PICK none \in Nat : none = 0
        OBVIOUS
    <2>2. Answer(op, outcome, none)
        BY <2>1
    <2>3. outcome = "accepted" => Done(op, none)'
        BY <1>6
    <2>4. outcome = "conflict" => Newest > 0 /\ groups' = groups
        BY <1>1
    <2>5. QED
        BY <1>5, <1>6, <2>2, <2>3, <2>4, AnswerSound
<1>8. (ClientShape /\ OpsSound /\ OnceStaged /\ CopiesSound /\ LoadedSound /\ EnvelopesSound /\ SetupSound)'
      /\ AllOps' \subseteq AllOps
    BY <1>1, <1>3, <1>4, <1>7, ServeRest
<1>9. (OpsLogged)'
    BY <1>1, <1>2, <1>3, <1>8, GroupsStay DEF OpsLogged, CryptoInv, RequestsSound
<1>10. (WireSound)'
    <2>1. \A o : AtStake(o)' <=> AtStake(o)
        BY <1>1, <1>2, GroupsStay
    <2>2. ASSUME NEW v \in wire, AtStake(v.op)' PROVE v.op \in operations[v.op.from]
        <3>1. PICK o : o = v.op
            OBVIOUS
        <3>2. AtStake(o)'
            BY <2>2, <3>1
        <3>3. AtStake(o)
            BY <2>1, <3>2
        <3>4. QED
            BY <3>1, <3>3 DEF CryptoInv, RequestsSound, WireSound
    <2>3. \A v \in wire : \A g \in 1 .. Newest : groups[g].id # v.op.id
        BY DEF CryptoInv, RequestsSound, WireSound
    <2>4. QED
        BY <1>1, <1>2, <1>3, <2>2, <2>3 DEF WireSound
<1>11. (ResetsKept)'
    <2>1. ASSUME NEW e \in Devices, NEW r \in operations[e], r.kind = "reset" PROVE ResetKept(e, r, operations[e], vault[e])'
        <3>1. PICK ops, copy : ops = operations[e] /\ copy = vault[e]
            OBVIOUS
        <3>2. ResetKept(e, r, ops, copy)
            BY <2>1, <3>1 DEF CryptoInv, RequestsSound, ResetsKept
        <3>3. ResetKept(e, r, ops, copy)'
            BY <1>1, <1>2, <3>2, GroupsStay
        <3>4. QED
            BY <1>2, <3>1, <3>3
    <2>2. QED
        BY <1>2, <2>1 DEF ResetsKept
<1>12. (JoinSound)'
    <2>1. (ActiveGroup)' = ActiveGroup
        BY <1>1, <1>3 DEF ActiveGroup
    <2>2. ASSUME Newest > 0, NEW e \in ActiveGroup.members PROVE CanJoin(e, operations[e], vault[e])'
        <3>1. PICK ops, copy : ops = operations[e] /\ copy = vault[e]
            OBVIOUS
        <3>2. CanJoin(e, ops, copy)
            BY <2>2, <3>1 DEF CryptoInv, DevicesSound, JoinSound
        <3>3. CanJoin(e, ops, copy)'
            BY <1>1, <1>2, <3>2, GroupsStay
        <3>4. QED
            BY <1>2, <3>1, <3>3
    <2>3. QED
        BY <1>3, <2>1, <2>2 DEF JoinSound
<1>13. (PolicySound)'
    <2>1. SpentSound /\ RekeyTracked /\ PolicyFollows
        BY DEF CryptoInv, PolicySound
    <2>2. (SpentSound)'
        BY <1>1, <1>2, <2>1, GroupsStay DEF SpentSound
    <2>3. (RekeyTracked)'
        BY <1>1, <1>3, <2>1 DEF RekeyTracked, RekeyRequired, ActiveGroup
    <2>4. (PolicyFollows)'
        BY <1>1, <1>2, <1>3, <2>1 DEF PolicyFollows
    <2>5. QED
        BY <1>8, <2>2, <2>3, <2>4 DEF PolicySound
<1>14. QED
    BY <1>3, <1>4, <1>7, <1>8, <1>9, <1>10, <1>11, <1>12, <1>13 DEF CryptoInv, RequestsSound, DevicesSound

-----------------------------------------------------------------------------
(* CryptoRuntime: a generation is founded.                                    *)

Founds(op) ==
    /\ groups' = Append(groups, NewGroup(op, IF Newest = 0 THEN <<>> ELSE <<Entry(op)>>))
    /\ op.generation = Newest /\ op.kind = (IF Newest = 0 THEN "bootstrap" ELSE "reset")
    /\ Newest > 0 => op.epoch = EpochOf(ActiveGroup)

\* The generation founded.
FoundedAt(op, g) ==
    /\ Newest' = g /\ g \in Nat /\ Newest \in Nat /\ g \notin 1 .. Newest /\ g \in 1 .. g
    /\ (\A h \in 1 .. Newest : groups'[h] = groups[h]) /\ groups' \in Seq(GroupRecord)
    /\ groups'[g].id = op.id /\ groups'[g].path = <<op.id>> /\ groups'[g].members = {op.from}
    /\ groups'[g].rekey = FALSE /\ groups'[g].unvouched = {op.from} \ Trusted
    /\ groups'[g].log = IF Newest = 0 THEN <<>> ELSE <<Entry(op)>>
    /\ Offset(g) = IF Newest = 0 THEN 0 ELSE 1

LEMMA FoundedGroup ==
    ASSUME CryptoInv, NEW w \in wire, NEW op, op = w.op, Founds(op), NEW g, g = Newest + 1
    PROVE  FoundedAt(op, g)
<1>1. ServerShape /\ groups \in Seq(GroupRecord) /\ Newest \in Nat
    BY NewestNat DEF CryptoInv, ServerShape
<1>2. /\ op \in OpRecord /\ op.id \in Nat /\ op.from \in Devices /\ op.kind \in Founders \cup Commits
      /\ op.path \in Seq(Nat) /\ op.target \in Devices /\ OpSound(op)
    BY WireOps
<1>3. PICK log : log = IF Newest = 0 THEN <<>> ELSE <<Entry(op)>>
    OBVIOUS
<1>4. Entry(op) \in EntryRecord
    BY <1>2 DEF Entry, EntryRecord
<1>5. log \in Seq(EntryRecord)
    <2>1. <<>> \in Seq(EntryRecord) /\ <<Entry(op)>> \in Seq(EntryRecord)
        BY <1>4
    <2>2. QED
        BY <1>3, <2>1
<1>6. PICK group : group = NewGroup(op, log)
    OBVIOUS
<1>7. /\ group.id = op.id /\ group.path = op.path /\ group.members = {op.from} /\ group.rekey = FALSE
      /\ group.log = log /\ group.unvouched = {op.from} \ Trusted /\ group \in GroupRecord
    BY <1>2, <1>5, <1>6 DEF NewGroup, GroupRecord
<1>8. groups' = Append(groups, group)
    BY <1>3, <1>6 DEF Founds
<1>9. PICK all : all = groups
    OBVIOUS
<1>10. all \in Seq(GroupRecord) /\ Len(all) \in Nat /\ groups' = Append(all, group) /\ Newest = Len(all) /\ g = Len(all) + 1
    BY <1>1, <1>8, <1>9 DEF Newest
<1>11. groups' \in Seq(GroupRecord) /\ Len(groups') = g /\ groups'[g] = group /\ \A h \in 1 .. Newest : groups'[h] = all[h]
    BY <1>7, <1>10
<1>12. op.path = <<op.id>>
    BY <1>2 DEF OpSound, Founds, Founders
<1>13. Offset(g) = IF Newest = 0 THEN 0 ELSE 1
    BY <1>1 DEF Offset
<1>14. Newest' = g
    BY <1>11 DEF Newest
<1>15. QED
    BY <1>1, <1>3, <1>7, <1>9, <1>11, <1>12, <1>13, <1>14 DEF FoundedAt

LEMMA FoundedGrows ==
    ASSUME CryptoInv, NEW w \in wire, NEW op, op = w.op, Founds(op)
    PROVE  GrowsBy(op)
<1>1. PICK g : g = Newest + 1
    OBVIOUS
<1>g. FoundedAt(op, g)
    BY <1>1, FoundedGroup
<1>2. /\ Newest' = g /\ g \in Nat /\ Newest \in Nat /\ g \notin 1 .. Newest
      /\ (\A h \in 1 .. Newest : groups'[h] = groups[h]) /\ groups'[g].id = op.id
    BY <1>g DEF FoundedAt
<1>3. ServerShape
    BY DEF CryptoInv
<1>4. GroupsGrow
    <2>1. ASSUME NEW h \in 1 .. Newest
          PROVE  groups'[h] = groups[h] /\ groups[h].path \in Seq(Nat) /\ groups[h].log \in Seq(EntryRecord)
        BY <1>2, <1>3, GroupParts
    <2>2. Newest' \in Nat /\ Newest' >= Newest
        BY <1>1, <1>2
    <2>3. ASSUME NEW h \in 1 .. Newest PROVE Len(groups[h].path) \in Nat /\ Len(groups[h].log) \in Nat
        BY <2>1
    <2>4. QED
        BY <2>1, <2>2, <2>3 DEF GroupsGrow, GrownFrom
<1>5. \A h \in 1 .. Newest' : h \in 1 .. Newest \/ groups'[h].id = op.id
    <2>1. \A h \in 1 .. Newest' : h \in 1 .. Newest \/ h = g
        BY <1>1, <1>2
    <2>2. QED
        BY <1>2, <2>1
<1>6. QED
    BY <1>4, <1>5 DEF GrowsBy

LEMMA FoundedSound ==
    ASSUME CryptoInv, NEW w \in wire, NEW op, op = w.op, Founds(op), staged' = staged
    PROVE  (GroupsSound)'
<1>1. PICK g : g = Newest + 1
    OBVIOUS
<1>g. FoundedAt(op, g)
    BY <1>1, FoundedGroup
<1>2. /\ Newest' = g /\ g \in Nat /\ Newest \in Nat
      /\ (\A h \in 1 .. Newest : groups'[h] = groups[h])
      /\ groups'[g].id = op.id /\ groups'[g].path = <<op.id>>
      /\ groups'[g].log = IF Newest = 0 THEN <<>> ELSE <<Entry(op)>>
      /\ Offset(g) = IF Newest = 0 THEN 0 ELSE 1
    BY <1>g DEF FoundedAt
<1>3. op.id \in 1 .. staged /\ staged \in Nat /\ op.id \in Nat
    BY WireOps DEF CryptoInv, ClientShape
<1>4. ASSUME NEW h \in 1 .. Newest PROVE GroupSound(h)'
    <2>1. GroupSound(h)
        BY DEF CryptoInv, GroupsSound
    <2>2. QED
        BY <1>2, <2>1 DEF GroupSound, Offset
<1>5. GroupSound(g)'
    <2>1. PICK log, path, id : log = groups'[g].log /\ path = groups'[g].path /\ id = op.id
        OBVIOUS
    <2>2. path = <<id>> /\ Len(path) = 1 /\ path[1] = id
        BY <1>2, <2>1
    <2>3. CASE Newest = 0
        <3>1. log = <<>> /\ Len(log) = 0 /\ Offset(g) = 0
            BY <1>2, <2>1, <2>3
        <3>2. QED
            BY <1>2, <1>3, <2>1, <2>2, <3>1 DEF GroupSound, Offset
    <2>4. CASE Newest # 0
        <3>1. log = <<Entry(op)>> /\ Len(log) = 1 /\ log[1] = Entry(op) /\ Offset(g) = 1
            BY <1>2, <2>1, <2>4
        <3>2. op.kind = "reset" /\ OpSound(op)
            BY <2>4, WireOps DEF Founds
        <3>3. op.path = <<op.id>>
            BY <3>2 DEF OpSound, Founders
        <3>4. log[1].id = id /\ log[1].kind = "reset" /\ log[1].path = <<id>>
            BY <2>1, <3>1, <3>2, <3>3 DEF Entry
        <3>5. SubSeq(path, 1, 1) = <<id>>
            <4>1. ASSUME NEW q \in Seq(Nat), Len(q) = 1 PROVE SubSeq(q, 1, 1) = <<q[1]>>
                <5>1. PICK s : s = SubSeq(q, 1, 1)
                    OBVIOUS
                <5>2. s \in Seq(Nat) /\ Len(s) = 1 /\ s[1] = q[1]
                    BY <4>1, <5>1
                <5>3. s = <<s[1]>>
                    BY <5>2
                <5>4. QED
                    BY <5>1, <5>2, <5>3
            <4>2. path \in Seq(Nat)
                BY <1>3, <2>1, <2>2
            <4>3. QED
                BY <2>2, <4>1, <4>2
        <3>6. ASSUME NEW i \in 1 .. Len(log)
              PROVE  /\ log[i].path = SubSeq(path, 1, i + 1 - 1) /\ log[i].id = path[i + 1 - 1]
                     /\ log[i].kind \in (IF i = 1 THEN {"reset"} ELSE Commits) /\ log[i].id <= staged
            <4>1. i = 1 /\ i + 1 - 1 = 1
                BY <3>1
            <4>2. QED
                BY <1>3, <2>1, <2>2, <3>4, <3>5, <4>1
        <3>7. QED
            BY <1>2, <1>3, <2>1, <2>2, <3>1, <3>6 DEF GroupSound, Offset
    <2>5. QED
        BY <2>3, <2>4
<1>6. \A h \in 1 .. Newest' : h \in 1 .. Newest \/ h = g
    BY <1>1, <1>2
<1>7. QED
    BY <1>4, <1>5, <1>6 DEF GroupsSound

\* What is left to see of a request that the server has accepted.
LEMMA AppliedKeeps ==
    ASSUME CryptoInv, NEW w \in wire, Serves(w), NEW op, op = w.op, (ServerShape)', GrowsBy(op), (GroupsSound)',
           contentKeys' = contentKeys, setup' = setup, NEW sequence \in Nat, Answer(op, "accepted", sequence),
           Done(op, sequence)', (OpsLogged /\ WireSound /\ ResetsKept /\ JoinSound)',
           (SpentSound /\ RekeyTracked /\ PolicyFollows)'
    PROVE  CryptoInv'
<1>1. GroupsGrow
    BY DEF GrowsBy
<1>2. PICK outcome : outcome = "accepted"
    OBVIOUS
<1>3. reply' \in [Devices -> ReplyRecord] /\ (WaitingSound)'
    <2>1. outcome \in {"accepted", "conflict", "refused"} /\ outcome # "conflict" /\ Answer(op, outcome, sequence)
        BY <1>2
    <2>2. outcome = "accepted" => Done(op, sequence)'
        OBVIOUS
    <2>3. outcome = "conflict" => Newest > 0 /\ groups' = groups
        BY <2>1
    <2>4. QED
        BY <2>1, <2>2, <2>3, AnswerSound
<1>4. (ClientShape /\ OpsSound /\ OnceStaged /\ CopiesSound /\ LoadedSound /\ EnvelopesSound /\ SetupSound)'
    BY <1>1, <1>3, ServeRest
<1>5. QED
    BY <1>3, <1>4 DEF CryptoInv, RequestsSound, DevicesSound, PolicySound

\* The requests that are left do not found what was just founded.
LEMMA FoundedLogged ==
    ASSUME CryptoInv, NEW w \in wire, NEW op, op = w.op, Founds(op), AllOps' \subseteq AllOps
    PROVE  (OpsLogged)'
<1>1. PICK g : g = Newest + 1
    OBVIOUS
<1>2. FoundedAt(op, g)
    BY <1>1, FoundedGroup
<1>3. ASSUME NEW o \in AllOps, NEW h \in 1 .. Newest PROVE OpLogged(o, h)'
    <2>1. OpLogged(o, h)
        BY DEF CryptoInv, RequestsSound, OpsLogged
    <2>2. groups'[h] = groups[h] /\ h \in Nat /\ Newest \in Nat
        BY <1>2 DEF FoundedAt
    <2>3. o.generation \in Nat
        BY OpTypes DEF CryptoInv
    <2>4. ASSUME h = o.generation + 1, h > 1 PROVE groups'[o.generation] = groups[o.generation]
        BY <1>2, <2>2, <2>3, <2>4 DEF FoundedAt
    <2>5. QED
        BY <2>1, <2>2, <2>4 DEF OpLogged
<1>4. ASSUME NEW o \in AllOps PROVE OpLogged(o, g)'
    <2>1. o.id = op.id => o = op
        BY WireOps
    <2>2. op.kind \in Founders /\ op.generation + 1 = g /\ op.generation = Newest /\ Newest \in Nat
        BY <1>1, <1>2 DEF Founds, Founders, FoundedAt
    <2>3. g > 1 => op.epoch = EpochOf(groups'[op.generation])
        <3>1. ASSUME g > 1 PROVE Newest > 0 /\ Newest \in 1 .. Newest
            BY <1>1, <2>2, <3>1
        <3>2. g > 1 => groups'[Newest] = ActiveGroup
            BY <1>2, <3>1 DEF FoundedAt, ActiveGroup
        <3>3. QED
            BY <2>2, <3>1, <3>2 DEF Founds
    <2>4. groups'[g].id = op.id /\ groups'[g].log = IF Newest = 0 THEN <<>> ELSE <<Entry(op)>>
        BY <1>2 DEF FoundedAt
    <2>5. ASSUME NEW i \in 1 .. Len(groups'[g].log), groups'[g].log[i].id = o.id
          PROVE  groups'[g].log[i] = Entry(o) /\ g = IF o.kind = "reset" THEN o.generation + 1 ELSE o.generation
        <3>1. Newest # 0 /\ groups'[g].log = <<Entry(op)>>
            BY <2>4, <2>5
        <3>2. groups'[g].log[i] = Entry(op)
            BY <2>5, <3>1
        <3>3. Entry(op).id = op.id
            BY DEF Entry
        <3>4. o = op
            BY <2>1, <2>5, <3>2, <3>3
        <3>5. op.kind = "reset"
            BY <3>1 DEF Founds
        <3>6. QED
            BY <2>2, <3>2, <3>4, <3>5
    <2>6. groups'[g].id = o.id =>
              o.kind \in Founders /\ g = o.generation + 1 /\ (g > 1 => o.epoch = EpochOf(groups'[o.generation]))
        BY <2>1, <2>2, <2>3, <2>4
    <2>7. QED
        BY <2>5, <2>6 DEF OpLogged
<1>5. \A h \in 1 .. Newest' : h \in 1 .. Newest \/ h = g
    BY <1>1, <1>2 DEF FoundedAt
<1>6. QED
    BY <1>3, <1>4, <1>5 DEF OpsLogged

LEMMA FoundedWire ==
    ASSUME CryptoInv, NEW w \in wire, Serves(w), NEW op, op = w.op, Founds(op)
    PROVE  (WireSound)'
<1>1. PICK g : g = Newest + 1
    OBVIOUS
<1>2. FoundedAt(op, g)
    BY <1>1, FoundedGroup
<1>3. wire' = wire \ {w} /\ operations' = operations
    BY DEF Serves
<1>4. ASSUME NEW v \in wire, v # w, NEW h \in 1 .. Newest' PROVE groups'[h].id # v.op.id
    <2>1. h \in 1 .. Newest \/ h = g
        BY <1>1, <1>2 DEF FoundedAt
    <2>2. CASE h \in 1 .. Newest
        BY <1>2, <2>2, WireOps DEF FoundedAt
    <2>3. CASE h = g
        <3>1. v.op.id # op.id
            BY <1>4, WireOps
        <3>2. QED
            BY <1>2, <2>3, <3>1 DEF FoundedAt
    <2>4. QED
        BY <2>1, <2>2, <2>3
<1>5. ASSUME NEW v \in wire PROVE ~ (v.op.generation = Newest')
    <2>1. v.op.generation \in Nat /\ v.op.generation <= Newest
        BY WireOps
    <2>2. QED
        BY <1>1, <1>2, <2>1 DEF FoundedAt
<1>6. \A v \in wire : ~ AtStake(v.op)'
    BY <1>5 DEF AtStake
<1>7. QED
    BY <1>3, <1>4, <1>6 DEF WireSound

LEMMA FoundedResets ==
    ASSUME CryptoInv, NEW w \in wire, Serves(w), NEW op, op = w.op, Founds(op)
    PROVE  (ResetsKept)'
<1>1. PICK g : g = Newest + 1
    OBVIOUS
<1>2. FoundedAt(op, g)
    BY <1>1, FoundedGroup
<1>3. operations' = operations /\ vault' = vault
    BY DEF Serves
<1>4. ASSUME NEW d \in Devices, NEW r \in operations[d], r.kind = "reset", NEW ops, ops = operations[d],
             NEW copy, copy = vault[d]
      PROVE  ResetKept(d, r, ops, copy)'
    <2>1. ResetKept(d, r, ops, copy) /\ r.generation >= 1
        BY <1>4, KeptResets
    <2>2. r.generation \in Nat /\ r.generation <= Newest /\ Newest \in Nat /\ Newest' = Newest + 1
        BY <1>1, <1>2, OpsBound DEF FoundedAt
    <2>3. r.generation # Newest'
        BY <2>2
    <2>4. ASSUME r.generation = Newest' - 1, copy # NoGroup
          PROVE  Matches(copy, r.generation)' /\ copy.cursor > 0
        <3>1. r.generation = Newest /\ Newest \in 1 .. Newest
            BY <2>1, <2>2, <2>4
        <3>2. copy.generation = Newest /\ copy.cursor > 0
            BY <2>1, <2>4, <3>1 DEF ResetKept
        <3>3. CopyFits(copy)
            BY <1>4 DEF CryptoInv, DevicesSound, CopiesSound
        <3>4. Matches(copy, Newest)
            BY <2>4, <3>2, <3>3, CopyIsAt DEF CryptoInv, ClientShape
        <3>5. groups'[Newest] = groups[Newest]
            BY <1>2, <3>1 DEF FoundedAt
        <3>6. QED
            BY <3>1, <3>2, <3>4, <3>5 DEF Matches
    <2>5. groups'[1] = groups[1]
        BY <1>2, <2>1, <2>2 DEF FoundedAt
    <2>6. QED
        BY <2>1, <2>3, <2>4, <2>5 DEF ResetKept
<1>5. ASSUME NEW d \in Devices, NEW r \in operations[d], r.kind = "reset"
      PROVE  ResetKept(d, r, operations[d], vault[d])'
    <2>1. PICK ops, copy : ops = operations[d] /\ copy = vault[d]
        OBVIOUS
    <2>2. ResetKept(d, r, ops, copy)'
        BY <1>4, <1>5, <2>1
    <2>3. QED
        BY <1>3, <2>1, <2>2
<1>6. QED
    BY <1>3, <1>5 DEF ResetsKept

LEMMA FoundedJoin ==
    ASSUME CryptoInv, NEW w \in wire, Serves(w), NEW op, op = w.op, Founds(op)
    PROVE  (JoinSound)'
<1>1. PICK g : g = Newest + 1
    OBVIOUS
<1>2. FoundedAt(op, g)
    BY <1>1, FoundedGroup
<1>3. operations' = operations /\ vault' = vault
    BY DEF Serves
<1>4. (ActiveGroup)' = groups'[g] /\ Newest' = g /\ groups'[g].members = {op.from} /\ groups'[g].id = op.id
    BY <1>2 DEF FoundedAt, ActiveGroup
<1>5. op.kind \in Founders
    BY DEF Founds, Founders
<1>6. op \in operations[op.from]
    <2>1. AtStake(op)
        BY <1>5 DEF Founds, AtStake
    <2>2. QED
        BY <2>1 DEF CryptoInv, RequestsSound, WireSound
<1>7. ASSUME NEW d \in {op.from} PROVE CanJoin(d, operations[d], vault[d])'
    <2>1. PICK ops, copy : ops = operations[d] /\ copy = vault[d]
        OBVIOUS
    <2>2. op \in ops /\ op.kind \in Founders /\ op.id = groups'[Newest'].id
        BY <1>4, <1>5, <1>6, <2>1
    <2>3. CanJoin(d, ops, copy)'
        BY <2>2 DEF CanJoin
    <2>4. QED
        BY <1>3, <2>1, <2>3
<1>8. QED
    BY <1>4, <1>7 DEF JoinSound

LEMMA FoundedSpent ==
    ASSUME CryptoInv, NEW w \in wire, NEW op, op = w.op, Founds(op), spent' = spent
    PROVE  (SpentSound)'
<1>1. PICK g : g = Newest + 1
    OBVIOUS
<1>2. FoundedAt(op, g)
    BY <1>1, FoundedGroup
<1>3. ASSUME NEW d PROVE (Additions(d))' = Additions(d)
    <2>1. ASSUME NEW h \in 1 .. Newest', NEW i \in 1 .. MaxSteps, i <= Len(groups'[h].log), groups'[h].log[i].kind = "add"
          PROVE  h \in 1 .. Newest
        <3>1. h \in 1 .. Newest \/ h = g
            BY <1>1, <1>2 DEF FoundedAt
        <3>2. ASSUME h = g PROVE FALSE
            <4>1. groups'[g].log = IF Newest = 0 THEN <<>> ELSE <<Entry(op)>>
                BY <1>2 DEF FoundedAt
            <4>2. Newest # 0 /\ groups'[g].log = <<Entry(op)>> /\ i = 1
                BY <2>1, <3>2, <4>1, CryptoBounds
            <4>3. op.kind = "reset"
                BY <4>2 DEF Founds
            <4>4. groups'[g].log[i] = Entry(op)
                BY <4>2
            <4>5. QED
                BY <2>1, <3>2, <4>3, <4>4 DEF Entry
        <3>3. QED
            BY <3>1, <3>2
    <2>2. \A h \in 1 .. Newest : groups'[h] = groups[h] /\ h \in 1 .. Newest'
        BY <1>1, <1>2 DEF FoundedAt
    <2>3. (Additions(d))' \subseteq Additions(d)
        <3>1. ASSUME NEW at \in (Additions(d))' PROVE at \in Additions(d)
            <4>1. /\ at \in (1 .. Newest') \X (1 .. MaxSteps) /\ at[2] <= Len(groups'[at[1]].log)
                  /\ groups'[at[1]].log[at[2]].kind = "add" /\ groups'[at[1]].log[at[2]].target = d
                BY <3>1 DEF Additions
            <4>2. at[1] \in 1 .. Newest' /\ at[2] \in 1 .. MaxSteps
                BY <4>1
            <4>3. at[1] \in 1 .. Newest
                BY <2>1, <4>1, <4>2
            <4>4. at \in (1 .. Newest) \X (1 .. MaxSteps) /\ groups'[at[1]] = groups[at[1]]
                BY <2>2, <4>1, <4>2, <4>3
            <4>5. QED
                BY <4>1, <4>4 DEF Additions
        <3>2. QED
            BY <3>1
    <2>4. Additions(d) \subseteq (Additions(d))'
        <3>1. ASSUME NEW at \in Additions(d) PROVE at \in (Additions(d))'
            <4>1. /\ at \in (1 .. Newest) \X (1 .. MaxSteps) /\ at[2] <= Len(groups[at[1]].log)
                  /\ groups[at[1]].log[at[2]].kind = "add" /\ groups[at[1]].log[at[2]].target = d
                BY <3>1 DEF Additions
            <4>2. at \in (1 .. Newest') \X (1 .. MaxSteps) /\ groups'[at[1]] = groups[at[1]]
                BY <2>2, <4>1
            <4>3. QED
                BY <4>1, <4>2 DEF Additions
        <3>2. QED
            BY <3>1
    <2>5. QED
        BY <2>3, <2>4
<1>4. SpentSound
    BY DEF CryptoInv, PolicySound
<1>5. QED
    BY <1>3, <1>4 DEF SpentSound

LEMMA BootstrapFounds ==
    ASSUME CryptoInv, NEW w \in wire, NEW op, op = w.op, Bootstrap(op)
    PROVE  Founds(op) /\ spent' = spent /\ cryptoPolicy' = cryptoPolicy /\ Newest = 0
<1>1. op.kind = "bootstrap" /\ Newest = 0 /\ groups' = <<NewGroup(op, <<>>)>> /\ spent' = spent /\ cryptoPolicy' = cryptoPolicy
    BY DEF Bootstrap, MayBootstrap
<1>2. op.generation = 0
    BY <1>1, WireOps DEF OpSound
<1>3. groups = <<>>
    BY <1>1 DEF CryptoInv, ServerShape, Newest
<1>4. groups' = Append(groups, NewGroup(op, <<>>))
    BY <1>1, <1>3
<1>5. QED
    BY <1>1, <1>2, <1>4 DEF Founds

LEMMA ResetFounds ==
    ASSUME CryptoInv, NEW w \in wire, NEW op, op = w.op, Reset(op)
    PROVE  /\ Founds(op) /\ spent' = spent /\ Newest > 0
           /\ cryptoPolicy' = [cryptoPolicy EXCEPT !.generation = Newest + 1]
<1>1. /\ op.kind = "reset" /\ Newest > 0 /\ op.generation = Newest /\ op.epoch = EpochOf(ActiveGroup) /\ spent' = spent
      /\ groups' = Append(groups, NewGroup(op, <<Entry(op)>>))
      /\ cryptoPolicy' = [cryptoPolicy EXCEPT !.generation = Newest + 1]
    BY DEF Reset, MayReset, AtHead, ActivateReset
<1>2. Newest # 0
    BY <1>1
<1>3. QED
    BY <1>1, <1>2 DEF Founds

LEMMA FoundedStep ==
    ASSUME CryptoInv, NEW w \in wire, Serves(w), NEW op, op = w.op, Bootstrap(op) \/ Reset(op),
           UNCHANGED <<trust, challenge, recovery, setup, contentKeys>>,
           Answer(op, "accepted", Len(groups'[Len(groups')].log))
    PROVE  CryptoInv'
<1>1. /\ Founds(op) /\ spent' = spent
      /\ \/ Newest = 0 /\ cryptoPolicy' = cryptoPolicy
         \/ Newest > 0 /\ cryptoPolicy' = [cryptoPolicy EXCEPT !.generation = Newest + 1]
    BY BootstrapFounds, ResetFounds
<1>2. PICK g : g = Newest + 1
    OBVIOUS
<1>3. FoundedAt(op, g)
    BY <1>1, <1>2, FoundedGroup
<1>4. ServerShape /\ staged' = staged /\ Newest \in Nat /\ g \in Nat /\ Newest' = g /\ groups' \in Seq(GroupRecord) /\ lag' = lag
    BY <1>3 DEF CryptoInv, Serves, FoundedAt, aux
<1>5. /\ cryptoPolicy' \in [required : BOOLEAN, generation : Nat]
      /\ Newest > 0 => cryptoPolicy'.generation = g
    BY <1>1, <1>2, <1>4 DEF ServerShape
<1>6. (ServerShape)'
    BY <1>1, <1>4, <1>5 DEF ServerShape
<1>7. GrowsBy(op) /\ (GroupsSound)' /\ (SpentSound)' /\ (WireSound)' /\ (ResetsKept)' /\ (JoinSound)'
    BY <1>1, <1>4, FoundedGrows, FoundedSound, FoundedSpent, FoundedWire, FoundedResets, FoundedJoin
<1>8. (OpsLogged)'
    <2>1. AllOps' \subseteq AllOps
        BY DEF AllOps, Serves
    <2>2. QED
        BY <1>1, <2>1, FoundedLogged
<1>9. (RekeyTracked)'
    <2>1. (ActiveGroup)' = groups'[g]
        BY <1>4 DEF ActiveGroup
    <2>2. groups'[g].members = {op.from} /\ groups'[g].rekey = FALSE /\ groups'[g].unvouched = {op.from} \ Trusted
        BY <1>3 DEF FoundedAt
    <2>3. ASSUME NEW d \in {op.from} \ ({op.from} \ Trusted) PROVE trust'[d] # "revoked"
        BY DEF Trusted
    <2>4. ~ RekeyRequired(ActiveGroup.members \ ActiveGroup.unvouched)'
        BY <2>1, <2>2, <2>3 DEF RekeyRequired
    <2>5. (ActiveGroup.rekey)' = FALSE
        BY <2>1, <2>2
    <2>6. QED
        BY <2>4, <2>5 DEF RekeyTracked
<1>10. (PolicyFollows)'
    <2>1. CASE Newest = 0
        <3>1. ~ cryptoPolicy.required
            BY <2>1 DEF CryptoInv, PolicySound, PolicyFollows
        <3>2. cryptoPolicy' = cryptoPolicy
            BY <1>1, <2>1
        <3>3. QED
            BY <3>1, <3>2 DEF PolicyFollows
    <2>2. CASE Newest > 0
        <3>1. cryptoPolicy'.generation = g /\ g \in 1 .. Newest'
            BY <1>4, <1>2, <1>5, <2>2
        <3>2. QED
            BY <1>4, <3>1 DEF PolicyFollows
    <2>3. QED
        BY <1>4, <2>1, <2>2
<1>11. PICK n : n = Offset(g)
    OBVIOUS
<1>12. n \in Nat /\ Len(groups'[Len(groups')].log) = n
    <2>1. groups'[Len(groups')].log = IF Newest = 0 THEN <<>> ELSE <<Entry(op)>>
        BY <1>3, <1>4 DEF FoundedAt, Newest
    <2>2. n = IF Newest = 0 THEN 0 ELSE 1
        BY <1>3, <1>11 DEF FoundedAt
    <2>3. QED
        BY <2>1, <2>2
<1>13. Answer(op, "accepted", n)
    BY <1>12
<1>14. Done(op, n)'
    <2>1. op.kind \in Founders /\ op.generation = Newest
        BY <1>1 DEF Founds, Founders
    <2>2. op.generation < Newest' /\ op.generation + 1 = g /\ groups'[g].id = op.id
        BY <1>2, <1>3, <1>4, <2>1 DEF FoundedAt
    <2>3. n = Offset(op.generation + 1)
        BY <1>11, <2>2
    <2>4. QED
        BY <2>1, <2>2, <2>3 DEF Done, Offset
<1>15. QED
    BY <1>6, <1>7, <1>8, <1>9, <1>10, <1>12, <1>13, <1>14, AppliedKeeps

-----------------------------------------------------------------------------
(* CryptoRuntime: the active generation goes through a commit.                *)

CommittedAs(op, g) ==
    /\ g = Newest /\ g \in 1 .. Newest /\ Newest' = Newest /\ g \in Nat /\ groups' \in Seq(GroupRecord)
    /\ op.kind \in Commits /\ op.generation = g
    /\ \A h \in 1 .. Newest : h # g => groups'[h] = groups[h]
    /\ groups'[g].id = groups[g].id /\ groups'[g].unvouched = groups[g].unvouched
    /\ groups'[g].path = Append(groups[g].path, op.id) /\ op.path = Append(groups[g].path, op.id)
    /\ groups'[g].log = Append(groups[g].log, Entry(op))
    /\ op.epoch + 1 = Len(groups[g].path) /\ Len(groups[g].path) + 1 <= op.id

\* A commit that is accepted continues the state the group is in.
LEMMA CommitPath ==
    ASSUME CryptoInv, NEW w \in wire, NEW op, op = w.op, op.kind \in Commits, AtHead(op)
    PROVE  /\ op.path = Append(ActiveGroup.path, op.id) /\ op.epoch + 1 = Len(ActiveGroup.path)
           /\ Len(ActiveGroup.path) + 1 <= op.id /\ Newest \in 1 .. Newest /\ Newest \in Nat /\ op.generation = Newest
<1>1. Newest \in 1 .. Newest /\ Newest \in Nat /\ op.generation = Newest /\ op.epoch = Len(ActiveGroup.path) - 1
    BY NewestNat DEF AtHead, EpochOf, CryptoInv
<1>2. /\ op.id \in Nat /\ op.epoch \in Nat /\ op.epoch + 2 <= op.id
      /\ op.path = Append(SubSeq(ActiveGroup.path, 1, op.epoch + 1), op.id)
    BY <1>1, WireOps DEF OpSound
<1>3. PICK path : path = ActiveGroup.path
    OBVIOUS
<1>4. path \in Seq(Nat)
    BY <1>1, <1>3, GroupParts DEF ActiveGroup, CryptoInv
<1>5. SubSeq(path, 1, Len(path)) = path
    BY <1>4
<1>6. op.epoch + 1 = Len(path)
    BY <1>1, <1>2, <1>3, <1>4
<1>7. QED
    BY <1>1, <1>2, <1>3, <1>5, <1>6

\* What an addition and a removal do to the generation.
Member(op, members) == IF op.kind = "add" THEN members \cup {op.target} ELSE members \ {op.target}

LEMMA AddCommits ==
    ASSUME CryptoInv, NEW w \in wire, NEW op, op = w.op, AddMember(op), NEW g, g = Newest
    PROVE  /\ CommittedAs(op, g) /\ groups'[g].members = Member(op, groups[g].members)
           /\ groups'[g].rekey = groups[g].rekey /\ ~ groups[g].rekey
<1>1. /\ op.kind = "add" /\ AtHead(op) /\ ~ ActiveGroup.rekey /\ op.target \in Trusted
      /\ groups' = [groups EXCEPT ![Newest] = WithMember(Advanced(@, op), op.target)]
    BY DEF AddMember, MayAdd, MayCommit
<1>2. op.kind \in Commits /\ op.kind \in Founders \cup Commits /\ op \in OpRecord
    BY <1>1, WireOps DEF Commits
<1>3. /\ op.path = Append(ActiveGroup.path, op.id) /\ op.epoch + 1 = Len(ActiveGroup.path)
      /\ Len(ActiveGroup.path) + 1 <= op.id /\ Newest \in 1 .. Newest /\ Newest \in Nat /\ op.generation = Newest
    BY <1>1, <1>2, CommitPath
<1>4. PICK all : all = groups
    OBVIOUS
<1>5. all \in Seq(GroupRecord) /\ Len(all) = Newest /\ all[g] \in GroupRecord /\ all[g] = ActiveGroup
    BY <1>3, <1>4 DEF CryptoInv, ServerShape, Newest, ActiveGroup
<1>6. PICK group : group = all[g]
    OBVIOUS
<1>7. PICK log : log = Append(group.log, Entry(op))
    OBVIOUS
<1>8. Entry(op) \in EntryRecord
    BY <1>2 DEF Entry, EntryRecord, OpRecord
<1>9. log \in Seq(EntryRecord) /\ op.path \in Seq(Nat)
    BY <1>5, <1>6, <1>7, <1>8, WireOps DEF GroupRecord
<1>10. PICK next : next = WithMember(Advanced(group, op), op.target)
    OBVIOUS
<1>11. /\ next.id = group.id /\ next.path = op.path /\ next.log = log /\ next.rekey = group.rekey
       /\ next.unvouched = group.unvouched /\ next.members = group.members \cup {op.target} /\ next \in GroupRecord
    <2>1. PICK path, one : path = op.path /\ one = Advanced(group, op)
        OBVIOUS
    <2>2. /\ one.id = group.id /\ one.path = path /\ one.log = log /\ one.rekey = group.rekey
          /\ one.unvouched = group.unvouched /\ one.members = group.members /\ one \in GroupRecord
        <3>1. /\ group \in GroupRecord /\ log \in Seq(EntryRecord) /\ log = Append(group.log, Entry(op))
              /\ path \in Seq(Nat) /\ path = op.path /\ one = Advanced(group, op)
            BY <1>5, <1>6, <1>7, <1>9, <2>1
        <3>2. one = [group EXCEPT !.path = path, !.log = log]
            BY <3>1 DEF Advanced
        <3>3. QED
            BY <3>1, <3>2 DEF GroupRecord
    <2>3. PICK members \in SUBSET Devices : members = group.members \cup {op.target}
        BY <1>5, <1>6, WireOps DEF GroupRecord
    <2>4. next = [one EXCEPT !.members = members]
        BY <1>10, <2>1, <2>2, <2>3 DEF WithMember
    <2>5. QED
        BY <2>1, <2>2, <2>3, <2>4 DEF GroupRecord
<1>12. groups' = [all EXCEPT ![g] = next]
    BY <1>1, <1>4, <1>6, <1>10
<1>13. groups' \in Seq(GroupRecord) /\ Len(groups') = Len(all) /\ groups'[g] = next /\ \A h \in 1 .. Newest : h # g => groups'[h] = all[h]
    BY <1>3, <1>5, <1>11, <1>12
<1>14. Newest' = Newest
    BY <1>5, <1>13 DEF Newest
<1>15. CommittedAs(op, g)
    BY <1>2, <1>3, <1>4, <1>5, <1>6, <1>7, <1>11, <1>13, <1>14 DEF CommittedAs
<1>16. QED
    BY <1>1, <1>4, <1>5, <1>6, <1>11, <1>13, <1>15 DEF Member

LEMMA RemoveCommits ==
    ASSUME CryptoInv, NEW w \in wire, NEW op, op = w.op, RemoveMember(op), NEW g, g = Newest
    PROVE  /\ CommittedAs(op, g) /\ groups'[g].members = Member(op, groups[g].members)
           /\ groups'[g].rekey = RekeyRequired(Member(op, groups[g].members)) /\ trust[op.target] = "revoked"
<1>1. PICK left : left = WithoutMember(Advanced(ActiveGroup, op), op.target)
    OBVIOUS
<1>2. /\ op.kind = "remove" /\ AtHead(op) /\ trust[op.target] = "revoked"
      /\ groups' = [groups EXCEPT ![Newest] = [left EXCEPT !.rekey = RekeyRequired(left.members)]]
    BY <1>1 DEF RemoveMember, MayRemove, MayCommit
<1>3. op.kind \in Commits /\ op.kind \in Founders \cup Commits /\ op \in OpRecord
    BY <1>2, WireOps DEF Commits
<1>4. /\ op.path = Append(ActiveGroup.path, op.id) /\ op.epoch + 1 = Len(ActiveGroup.path)
      /\ Len(ActiveGroup.path) + 1 <= op.id /\ Newest \in 1 .. Newest /\ Newest \in Nat /\ op.generation = Newest
    BY <1>2, <1>3, CommitPath
<1>5. PICK all : all = groups
    OBVIOUS
<1>6. all \in Seq(GroupRecord) /\ Len(all) = Newest /\ all[g] \in GroupRecord /\ all[g] = ActiveGroup
    BY <1>4, <1>5 DEF CryptoInv, ServerShape, Newest, ActiveGroup
<1>7. PICK group : group = all[g]
    OBVIOUS
<1>8. PICK log : log = Append(group.log, Entry(op))
    OBVIOUS
<1>9. Entry(op) \in EntryRecord
    BY <1>3 DEF Entry, EntryRecord, OpRecord
<1>10. log \in Seq(EntryRecord) /\ op.path \in Seq(Nat)
    BY <1>6, <1>7, <1>8, <1>9, WireOps DEF GroupRecord
<1>11. PICK rekey \in BOOLEAN : rekey = RekeyRequired(left.members)
    BY DEF RekeyRequired
<1>12. PICK next : next = [left EXCEPT !.rekey = rekey]
    OBVIOUS
<1>13. /\ next.id = group.id /\ next.path = op.path /\ next.log = log /\ next.rekey = rekey
       /\ next.unvouched = group.unvouched /\ next.members = group.members \ {op.target}
       /\ left.members = group.members \ {op.target} /\ next \in GroupRecord
    <2>1. PICK path, one : path = op.path /\ one = Advanced(group, op)
        OBVIOUS
    <2>2. /\ one.id = group.id /\ one.path = path /\ one.log = log /\ one.rekey = group.rekey
          /\ one.unvouched = group.unvouched /\ one.members = group.members /\ one \in GroupRecord
        <3>1. /\ group \in GroupRecord /\ log \in Seq(EntryRecord) /\ log = Append(group.log, Entry(op))
              /\ path \in Seq(Nat) /\ path = op.path /\ one = Advanced(group, op)
            BY <1>6, <1>7, <1>8, <1>10, <2>1
        <3>2. one = [group EXCEPT !.path = path, !.log = log]
            BY <3>1 DEF Advanced
        <3>3. QED
            BY <3>1, <3>2 DEF GroupRecord
    <2>3. PICK members \in SUBSET Devices : members = group.members \ {op.target}
        BY <1>6, <1>7 DEF GroupRecord
    <2>4. left = [one EXCEPT !.members = members]
        BY <1>1, <1>6, <1>7, <2>1, <2>2, <2>3 DEF WithoutMember
    <2>5. next = [one EXCEPT !.members = members, !.rekey = rekey] /\ left.members = members
        BY <1>12, <2>2, <2>4 DEF GroupRecord
    <2>6. QED
        BY <1>11, <2>1, <2>2, <2>3, <2>5 DEF GroupRecord
<1>14. groups' = [all EXCEPT ![g] = next]
    BY <1>2, <1>5, <1>11, <1>12
<1>15. groups' \in Seq(GroupRecord) /\ Len(groups') = Len(all) /\ groups'[g] = next /\ \A h \in 1 .. Newest : h # g => groups'[h] = all[h]
    BY <1>4, <1>6, <1>13, <1>14
<1>16. Newest' = Newest
    BY <1>6, <1>15 DEF Newest
<1>17. CommittedAs(op, g)
    BY <1>3, <1>4, <1>5, <1>6, <1>7, <1>8, <1>13, <1>15, <1>16 DEF CommittedAs
<1>18. Member(op, groups[g].members) = left.members
    BY <1>2, <1>5, <1>7, <1>13 DEF Member
<1>19. QED
    BY <1>2, <1>11, <1>13, <1>15, <1>17, <1>18

LEMMA CommittedGrows ==
    ASSUME CryptoInv, NEW op, NEW g, CommittedAs(op, g)
    PROVE  GrowsBy(op)
<1>1. ServerShape /\ g \in 1 .. Newest /\ g = Newest /\ Newest \in Nat /\ Newest' = Newest
    BY DEF CryptoInv, CommittedAs
<1>2. ASSUME NEW h \in 1 .. Newest, NEW id, NEW path, NEW log, id = groups[h].id, path = groups[h].path, log = groups[h].log
      PROVE  GrownFrom(groups'[h], id, path, log) /\ (h # g => groups'[h].path = path /\ groups'[h].log = log)
    <2>1. path \in Seq(Nat) /\ log \in Seq(EntryRecord) /\ groups'[h] \in GroupRecord
        <3>1. path \in Seq(Nat) /\ log \in Seq(EntryRecord)
            BY <1>1, <1>2, GroupParts
        <3>2. groups' \in Seq(GroupRecord) /\ h \in 1 .. Newest'
            BY <1>1 DEF CommittedAs
        <3>3. QED
            BY <3>1, <3>2 DEF Newest
    <2>2. groups'[h].path \in Seq(Nat) /\ groups'[h].log \in Seq(EntryRecord)
        BY <2>1 DEF GroupRecord
    <2>3. CASE h # g
        <3>1. groups'[h] = groups[h]
            BY <2>3 DEF CommittedAs
        <3>2. groups'[h].id = id /\ groups'[h].path = path /\ groups'[h].log = log
            BY <1>2, <3>1
        <3>3. Len(path) >= Len(path) /\ Len(log) >= Len(log)
            BY <2>1
        <3>4. QED
            BY <2>1, <3>2, <3>3 DEF GrownFrom
    <2>4. CASE h = g
        <3>1. PICK next, entry, grown, longer : next = op.id /\ entry = Entry(op) /\ grown = groups'[h].path /\ longer = groups'[h].log
            OBVIOUS
        <3>2. grown = Append(path, next) /\ longer = Append(log, entry) /\ groups'[h].id = id
            BY <1>2, <2>4, <3>1 DEF CommittedAs
        <3>3. Len(grown) >= Len(path) /\ Len(longer) >= Len(log)
            BY <2>1, <3>2
        <3>4. /\ \A i \in 1 .. Len(path) : grown[i] = path[i]
              /\ \A i \in 1 .. Len(log) : longer[i] = log[i]
            BY <2>1, <3>2
        <3>5. QED
            BY <2>2, <2>4, <3>1, <3>2, <3>3, <3>4 DEF GrownFrom
    <2>5. QED
        BY <2>3, <2>4
<1>3. GroupsGrow
    <2>1. ASSUME NEW h \in 1 .. Newest
          PROVE  /\ GrownFrom(groups'[h], groups[h].id, groups[h].path, groups[h].log)
                 /\ h # g => groups'[h].path = groups[h].path /\ groups'[h].log = groups[h].log
        <3>1. PICK id, path, log : id = groups[h].id /\ path = groups[h].path /\ log = groups[h].log
            OBVIOUS
        <3>2. GrownFrom(groups'[h], id, path, log) /\ (h # g => groups'[h].path = path /\ groups'[h].log = log)
            BY <1>2, <3>1
        <3>3. QED
            BY <3>1, <3>2
    <2>2. QED
        BY <1>1, <2>1 DEF GroupsGrow
<1>4. QED
    BY <1>1, <1>3 DEF GrowsBy

LEMMA CommittedSound ==
    ASSUME CryptoInv, NEW w \in wire, NEW op, op = w.op, NEW g, CommittedAs(op, g), staged' = staged
    PROVE  (GroupsSound)'
<1>1. /\ ServerShape /\ g \in 1 .. Newest /\ g \in Nat /\ g = Newest /\ Newest \in Nat /\ Newest' = Newest
      /\ staged \in Nat
    BY DEF CryptoInv, CommittedAs, ClientShape
<1>2. GroupsGrow
    BY CommittedGrows DEF GrowsBy
<1>3. ASSUME NEW h \in 1 .. Newest, h # g PROVE GroupSound(h)'
    <2>1. GroupSound(h)
        BY DEF CryptoInv, GroupsSound
    <2>2. groups'[h] = groups[h]
        BY <1>3 DEF CommittedAs
    <2>3. QED
        BY <1>1, <2>1, <2>2 DEF GroupSound, Offset
<1>4. GroupSound(g)'
    <2>1. PICK path, log, entry, id, next : path = groups[g].path /\ log = groups[g].log /\ entry = Entry(op)
                                            /\ id = groups[g].id /\ next = op.id
        OBVIOUS
    <2>2. PICK grown, longer : grown = groups'[g].path /\ longer = groups'[g].log
        OBVIOUS
    <2>3. PICK n : n = Offset(g)
        OBVIOUS
    <2>4. n \in {0, 1}
        BY <2>3, OffsetBound
    <2>5. /\ path \in Seq(Nat) /\ log \in Seq(EntryRecord) /\ next \in Nat /\ next \in 1 .. staged /\ id \in Nat
          /\ entry.kind \in Commits /\ entry.id = next /\ entry.path = Append(path, next)
        BY <1>1, <2>1, GroupParts, WireOps DEF Entry, CommittedAs
    <2>6. /\ grown = Append(path, next) /\ longer = Append(log, entry) /\ groups'[g].id = id
          /\ Len(path) + 1 <= next
        BY <2>1, <2>2 DEF CommittedAs
    <2>7. /\ Len(path) \in 1 .. staged /\ path[1] = id /\ id \in 1 .. staged /\ Len(log) = Len(path) - 1 + n
          /\ \A i \in 1 .. Len(log) :
                /\ log[i].path = SubSeq(path, 1, i + 1 - n) /\ log[i].id = path[i + 1 - n]
                /\ log[i].kind \in (IF i = n THEN {"reset"} ELSE Commits) /\ log[i].id <= staged
        BY <1>1, <2>1, <2>3 DEF CryptoInv, GroupsSound, GroupSound
    <2>8. /\ Len(grown) = Len(path) + 1 /\ grown[1] = id /\ Len(longer) = Len(log) + 1 /\ Len(grown) \in 1 .. staged
          /\ Len(path) \in Nat /\ Len(log) \in Nat /\ grown \in Seq(Nat)
        BY <1>1, <2>5, <2>6, <2>7, SMTT(20)
    <2>9. ASSUME NEW i \in 1 .. Len(longer)
          PROVE  /\ longer[i].path = SubSeq(grown, 1, i + 1 - n) /\ longer[i].id = grown[i + 1 - n]
                 /\ longer[i].kind \in (IF i = n THEN {"reset"} ELSE Commits) /\ longer[i].id <= staged
        <3>1. CASE i \in 1 .. Len(log)
            <4>1. PICK k \in Nat : k = i + 1 - n
                BY <2>4
            <4>2. k <= Len(path) /\ k >= 1
                <5>1. PICK l, m : l = Len(path) /\ m = Len(log)
                    OBVIOUS
                <5>2. l \in Nat /\ m = l - 1 + n /\ i \in 1 .. m
                    BY <2>7, <2>8, <3>1, <5>1
                <5>3. k <= l /\ k >= 1
                    BY <2>4, <4>1, <5>2
                <5>4. QED
                    BY <5>1, <5>3
            <4>3. SubSeq(grown, 1, k) = SubSeq(path, 1, k)
                BY <1>1, <1>2, <2>1, <2>2, <4>2, PathKept
            <4>4. grown[k] = path[k] /\ longer[i] = log[i]
                BY <2>5, <2>6, <3>1, <4>2
            <4>5. QED
                BY <2>7, <3>1, <4>1, <4>3, <4>4
        <3>2. CASE i = Len(log) + 1
            <4>1. i + 1 - n = Len(grown) /\ i # n
                BY <2>4, <2>7, <2>8, <3>2
            <4>2. longer[i] = entry
                BY <2>5, <2>6, <3>2
            <4>3. SubSeq(grown, 1, Len(grown)) = grown
                BY <2>8
            <4>4. grown[Len(grown)] = next
                BY <2>5, <2>6
            <4>5. next <= staged
                BY <1>1, <2>5
            <4>6. QED
                BY <2>5, <2>6, <4>1, <4>2, <4>3, <4>4, <4>5
        <3>3. QED
            BY <2>8, <3>1, <3>2
    <2>10. Offset(g)' = n
        BY <2>3 DEF Offset
    <2>11. /\ Len(groups'[g].path) \in 1 .. staged /\ groups'[g].path[1] = groups'[g].id /\ groups'[g].id \in 1 .. staged
           /\ Len(groups'[g].log) = Len(groups'[g].path) - 1 + n
           /\ \A i \in 1 .. Len(groups'[g].log) :
                 /\ groups'[g].log[i].path = SubSeq(groups'[g].path, 1, i + 1 - n)
                 /\ groups'[g].log[i].id = groups'[g].path[i + 1 - n]
                 /\ groups'[g].log[i].kind \in (IF i = n THEN {"reset"} ELSE Commits)
                 /\ groups'[g].log[i].id <= staged
        <3>1. Len(longer) = Len(grown) - 1 + n
            BY <2>4, <2>7, <2>8
        <3>2. QED
            BY <2>2, <2>6, <2>7, <2>8, <2>9, <3>1
    <2>12. QED
        BY <2>3, <2>10, <2>11 DEF GroupSound, Offset
<1>5. QED
    BY <1>1, <1>3, <1>4 DEF GroupsSound

LEMMA CommittedLogged ==
    ASSUME CryptoInv, NEW w \in wire, NEW op, op = w.op, NEW g, CommittedAs(op, g), AllOps' \subseteq AllOps
    PROVE  (OpsLogged)'
<1>1. g \in 1 .. Newest /\ g \in Nat /\ g = Newest /\ Newest' = Newest /\ op.kind \in Commits /\ op.generation = g
    BY DEF CommittedAs
<1>2. ASSUME NEW o \in AllOps, NEW h \in 1 .. Newest PROVE OpLogged(o, h)'
    <2>1. OpLogged(o, h)
        BY DEF CryptoInv, RequestsSound, OpsLogged
    <2>2. h \in Nat /\ h <= g /\ o.generation \in Nat
        BY <1>1, OpTypes DEF CryptoInv
    <2>3. groups'[h].id = groups[h].id
        BY <1>1 DEF CommittedAs
    <2>4. groups'[h].id = o.id =>
              o.kind \in Founders /\ h = o.generation + 1 /\ (h > 1 => o.epoch = EpochOf(groups'[o.generation]))
        <3>1. ASSUME h = o.generation + 1, h > 1 PROVE groups'[o.generation] = groups[o.generation]
            <4>1. o.generation \in 1 .. Newest /\ o.generation # g
                BY <1>1, <2>2, <3>1
            <4>2. QED
                BY <4>1 DEF CommittedAs
        <3>2. QED
            BY <2>1, <2>3, <3>1 DEF OpLogged
    <2>5. ASSUME NEW i \in 1 .. Len(groups'[h].log), groups'[h].log[i].id = o.id
          PROVE  groups'[h].log[i] = Entry(o) /\ h = IF o.kind = "reset" THEN o.generation + 1 ELSE o.generation
        <3>1. CASE h # g
            <4>1. groups'[h] = groups[h]
                BY <3>1 DEF CommittedAs
            <4>2. QED
                BY <2>1, <2>5, <4>1 DEF OpLogged
        <3>2. CASE h = g
            <4>1. PICK log, entry, longer : log = groups[g].log /\ entry = Entry(op) /\ longer = groups'[g].log
                OBVIOUS
            <4>2. log \in Seq(EntryRecord) /\ longer = Append(log, entry)
                BY <1>1, <4>1, GroupParts DEF CryptoInv, CommittedAs
            <4>3. i \in 1 .. Len(longer) /\ longer[i].id = o.id
                BY <2>5, <3>2, <4>1
            <4>4. (i \in 1 .. Len(log) /\ longer[i] = log[i]) \/ (i = Len(log) + 1 /\ longer[i] = entry)
                BY <4>2, <4>3
            <4>5. CASE i \in 1 .. Len(log) /\ longer[i] = log[i]
                BY <2>1, <3>2, <4>1, <4>3, <4>5 DEF OpLogged
            <4>6. CASE longer[i] = entry
                <5>1. entry.id = op.id
                    BY <4>1 DEF Entry
                <5>2. o = op
                    BY <4>3, <4>6, <5>1, WireOps
                <5>3. op.kind # "reset"
                    BY <1>1 DEF Commits
                <5>4. QED
                    BY <1>1, <3>2, <4>1, <4>6, <5>2, <5>3
            <4>7. QED
                BY <4>4, <4>5, <4>6
        <3>3. QED
            BY <3>1, <3>2
    <2>6. QED
        BY <2>4, <2>5 DEF OpLogged
<1>3. QED
    BY <1>1, <1>2 DEF OpsLogged

LEMMA CommittedWire ==
    ASSUME CryptoInv, NEW w \in wire, Serves(w), NEW op, op = w.op, NEW g, CommittedAs(op, g)
    PROVE  (WireSound)'
<1>1. g \in 1 .. Newest /\ g \in Nat /\ g = Newest /\ Newest' = Newest /\ wire' = wire \ {w} /\ operations' = operations
    BY DEF CommittedAs, Serves
<1>2. \A h \in 1 .. Newest : groups'[h].id = groups[h].id
    BY <1>1 DEF CommittedAs
<1>3. ASSUME NEW v \in wire PROVE \A h \in 1 .. Newest : groups[h].id # v.op.id
    BY WireOps
<1>4. ASSUME NEW v \in wire, NEW o, o = v.op, o.kind \in Founders, o.generation = g PROVE o.epoch # EpochOf(groups'[g])
    <2>1. o.epoch \in Nat /\ o.kind # "bootstrap" /\ o.epoch + 1 <= Len(groups[g].path)
        BY <1>1, <1>4, WireOps DEF OpSound, ActiveGroup
    <2>2. PICK path, id, grown : path = groups[g].path /\ id = op.id /\ grown = groups'[g].path
        OBVIOUS
    <2>3. path \in Seq(Nat) /\ grown = Append(path, id)
        BY <1>1, <2>2, GroupParts DEF CryptoInv, CommittedAs
    <2>4. Len(grown) = Len(path) + 1 /\ Len(path) \in Nat
        BY <2>3
    <2>5. EpochOf(groups'[g]) = Len(grown) - 1
        BY <2>2 DEF EpochOf
    <2>6. QED
        BY <2>1, <2>2, <2>4, <2>5
<1>5. ASSUME NEW v \in wire PROVE ~ AtStake(v.op)'
    <2>1. PICK o : o = v.op
        OBVIOUS
    <2>2. (ActiveGroup)' = groups'[g] /\ g > 0
        BY <1>1 DEF ActiveGroup
    <2>3. ~ AtStake(o)'
        BY <1>1, <1>4, <2>1, <2>2 DEF AtStake
    <2>4. QED
        BY <2>1, <2>3 DEF AtStake
<1>6. QED
    BY <1>1, <1>2, <1>3, <1>5 DEF WireSound

LEMMA CommittedResets ==
    ASSUME CryptoInv, NEW w \in wire, Serves(w), NEW op, op = w.op, NEW g, CommittedAs(op, g)
    PROVE  (ResetsKept)'
<1>1. /\ g \in 1 .. Newest /\ g \in Nat /\ g = Newest /\ Newest' = Newest /\ Newest > 0 /\ operations' = operations
      /\ vault' = vault /\ ServerShape
    BY DEF CommittedAs, Serves, CryptoInv
<1>2. GroupsGrow
    BY CommittedGrows DEF GrowsBy
<1>3. ASSUME NEW d \in Devices, NEW r \in operations[d], r.kind = "reset"
      PROVE  ResetKept(d, r, operations[d], vault[d])'
    <2>1. PICK ops, copy : ops = operations[d] /\ copy = vault[d]
        OBVIOUS
    <2>2. ResetKept(d, r, ops, copy) /\ r \in OpRecord
        BY <1>3, <2>1, KeptResets, OpsBound
    <2>3. CopyFits(copy)
        BY <2>1 DEF CryptoInv, DevicesSound, CopiesSound
    <2>4. copy # NoGroup => copy.generation \in 1 .. Newest
        BY <1>1, <2>3 DEF CopyFits, CopyRecord
    <2>5. ResetKept(d, r, ops, copy)'
        BY <1>1, <1>2, <2>2, <2>4, ResetKeptKept
    <2>6. QED
        BY <1>1, <2>1, <2>5
<1>4. QED
    BY <1>1, <1>3 DEF ResetsKept

LEMMA CommittedJoin ==
    ASSUME CryptoInv, NEW w \in wire, Serves(w), NEW op, op = w.op, NEW g, CommittedAs(op, g),
           groups'[g].members = Member(op, groups[g].members)
    PROVE  (JoinSound)'
<1>1. /\ g \in 1 .. Newest /\ g \in Nat /\ g = Newest /\ Newest' = Newest /\ Newest > 0 /\ operations' = operations
      /\ vault' = vault /\ ServerShape
    BY DEF CommittedAs, Serves, CryptoInv
<1>2. GroupsGrow
    BY CommittedGrows DEF GrowsBy
<1>3. (ActiveGroup)' = groups'[g]
    BY <1>1 DEF ActiveGroup
<1>4. ASSUME NEW d \in groups'[g].members PROVE CanJoin(d, operations[d], vault[d])'
    <2>1. PICK ops, copy : ops = operations[d] /\ copy = vault[d]
        OBVIOUS
    <2>2. d \in groups[g].members \/ (op.kind = "add" /\ d = op.target)
        BY <1>4 DEF Member
    <2>3. CASE d \in groups[g].members
        <3>1. d \in ActiveGroup.members /\ d \in Devices
            BY <1>1, <2>3, GroupParts DEF ActiveGroup
        <3>2. CanJoin(d, ops, copy)
            BY <1>1, <2>1, <3>1 DEF CryptoInv, DevicesSound, JoinSound
        <3>3. CanJoin(d, ops, copy)'
            BY <1>1, <1>2, <3>2, JoinKept
        <3>4. QED
            BY <1>1, <2>1, <3>3
    <2>4. CASE op.kind = "add" /\ d = op.target
        <3>1. PICK log, entry, longer : log = groups[g].log /\ entry = Entry(op) /\ longer = groups'[g].log
            OBVIOUS
        <3>2. log \in Seq(EntryRecord) /\ longer = Append(log, entry)
            BY <1>1, <3>1, GroupParts DEF CommittedAs
        <3>3. Len(log) + 1 \in 1 .. Len(longer) /\ longer[Len(log) + 1] = entry
            BY <3>2
        <3>4. entry.kind = "add" /\ entry.target = d
            BY <2>4, <3>1 DEF Entry
        <3>5. (Welcomes(d))' # {}
            BY <1>3, <3>1, <3>3, <3>4 DEF Welcomes
        <3>6. CanJoin(d, ops, copy)'
            BY <3>5 DEF CanJoin
        <3>7. QED
            BY <1>1, <2>1, <3>6
    <2>5. QED
        BY <2>2, <2>3, <2>4
<1>5. QED
    BY <1>1, <1>3, <1>4 DEF JoinSound

\* The entries of an addition are those that the log has, and the new one.
LEMMA CommittedAdditions ==
    ASSUME CryptoInv, NEW w \in wire, NEW op, op = w.op, NEW g, CommittedAs(op, g), NEW d,
           NEW last, last = Len(groups[g].log) + 1
    PROVE  /\ (Additions(d))' = Additions(d) \cup (IF op.kind = "add" /\ op.target = d THEN {<<g, last>>} ELSE {})
           /\ <<g, last>> \notin Additions(d) /\ IsFiniteSet(Additions(d))
<1>1. /\ g \in 1 .. Newest /\ g \in Nat /\ g = Newest /\ Newest' = Newest /\ Newest \in Nat /\ ServerShape
      /\ staged \in Nat /\ staged <= MaxSteps /\ GroupSound(g) /\ MaxSteps \in Nat
    BY CryptoBounds DEF CommittedAs, CryptoInv, ClientShape, GroupsSound
<1>2. PICK log, entry, longer, n : log = groups[g].log /\ entry = Entry(op) /\ longer = groups'[g].log /\ n = Offset(g)
    OBVIOUS
<1>3. log \in Seq(EntryRecord) /\ longer = Append(log, entry) /\ entry.kind = op.kind /\ entry.target = op.target
    BY <1>1, <1>2, GroupParts DEF CommittedAs, Entry
<1>4. last \in 1 .. MaxSteps /\ last \in Nat /\ last = Len(log) + 1 /\ Len(log) \in Nat
    <2>1. PICK l, m : l = Len(groups[g].path) /\ m = Len(log)
        OBVIOUS
    <2>2. l \in Nat /\ m \in Nat
        BY <1>1, <1>3, <2>1, GroupParts
    <2>3. l + 1 <= op.id /\ op.id \in Nat /\ op.id <= staged
        BY <2>1, WireOps DEF CommittedAs
    <2>4. m = l - 1 + n /\ n \in {0, 1} /\ last = m + 1
        BY <1>1, <1>2, <2>1, OffsetBound DEF GroupSound
    <2>5. staged \in Nat /\ MaxSteps \in Nat /\ staged <= MaxSteps
        BY <1>1
    <2>6. m + 1 \in 1 .. MaxSteps
        BY <2>2, <2>3, <2>4, <2>5
    <2>7. QED
        BY <2>1, <2>2, <2>4, <2>6
<1>5. /\ Len(longer) = last /\ longer[last] = entry /\ \A i \in 1 .. MaxSteps : i <= Len(log) => longer[i] = log[i]
    BY <1>1, <1>3, <1>4
<1>6. ASSUME NEW h \in 1 .. Newest, NEW i \in 1 .. MaxSteps
      PROVE  (i <= Len(groups'[h].log) /\ groups'[h].log[i].kind = "add" /\ groups'[h].log[i].target = d)
                <=> \/ i <= Len(groups[h].log) /\ groups[h].log[i].kind = "add" /\ groups[h].log[i].target = d
                    \/ h = g /\ i = last /\ op.kind = "add" /\ op.target = d
    <2>1. CASE h # g
        BY <2>1 DEF CommittedAs
    <2>2. CASE h = g
        <3>1. groups'[h].log = longer /\ groups[h].log = log
            BY <1>2, <2>2
        <3>2. i <= Len(longer) <=> i <= Len(log) \/ i = last
            BY <1>1, <1>4, <1>5
        <3>3. i <= Len(log) => longer[i] = log[i] /\ i # last
            BY <1>1, <1>4, <1>5
        <3>4. i = last => longer[i] = entry
            BY <1>5
        <3>5. QED
            BY <1>3, <2>2, <3>1, <3>2, <3>3, <3>4
    <2>3. QED
        BY <2>1, <2>2
<1>7. ASSUME NEW at
      PROVE  at \in (Additions(d))' <=> at \in Additions(d) \/ (at = <<g, last>> /\ op.kind = "add" /\ op.target = d)
    <2>1. CASE at \in (1 .. Newest) \X (1 .. MaxSteps)
        <3>1. at[1] \in 1 .. Newest /\ at[2] \in 1 .. MaxSteps /\ (at = <<g, last>> <=> at[1] = g /\ at[2] = last)
            BY <2>1
        <3>2. PICK h, i, new, old : h = at[1] /\ i = at[2] /\ new = groups'[h].log /\ old = groups[h].log
            OBVIOUS
        <3>3. at \in (Additions(d))' <=> i <= Len(new) /\ new[i].kind = "add" /\ new[i].target = d
            BY <1>1, <2>1, <3>2 DEF Additions
        <3>4. at \in Additions(d) <=> i <= Len(old) /\ old[i].kind = "add" /\ old[i].target = d
            BY <2>1, <3>2 DEF Additions
        <3>5. h \in 1 .. Newest /\ i \in 1 .. MaxSteps
            BY <3>1, <3>2
        <3>6. (i <= Len(new) /\ new[i].kind = "add" /\ new[i].target = d)
                  <=> \/ i <= Len(old) /\ old[i].kind = "add" /\ old[i].target = d
                      \/ h = g /\ i = last /\ op.kind = "add" /\ op.target = d
            BY ONLY <1>6, <3>2, <3>5
        <3>7. at = <<g, last>> <=> h = g /\ i = last
            BY <3>1, <3>2
        <3>8. QED
            BY <3>3, <3>4, <3>6, <3>7
    <2>2. CASE at \notin (1 .. Newest) \X (1 .. MaxSteps)
        <3>1. at # <<g, last>>
            BY <1>1, <1>4, <2>2
        <3>2. QED
            BY <1>1, <2>2, <3>1 DEF Additions
    <2>3. QED
        BY <2>1, <2>2
<1>8. <<g, last>> \notin Additions(d)
    <2>1. <<g, last>>[1] = g /\ <<g, last>>[2] = last
        OBVIOUS
    <2>2. ~ (last <= Len(groups[g].log))
        BY <1>2, <1>4
    <2>3. QED
        BY <2>1, <2>2 DEF Additions
<1>9. IsFiniteSet(Additions(d))
    <2>1. IsFiniteSet(1 .. Newest) /\ IsFiniteSet(1 .. MaxSteps)
        BY <1>1, FS_Interval
    <2>2. IsFiniteSet((1 .. Newest) \X (1 .. MaxSteps))
        BY <2>1, FS_Product
    <2>3. Additions(d) \subseteq (1 .. Newest) \X (1 .. MaxSteps)
        BY DEF Additions
    <2>4. QED
        BY <2>2, <2>3, FS_Subset
<1>10. QED
    BY <1>7, <1>8, <1>9

LEMMA CommittedSpent ==
    ASSUME CryptoInv, NEW w \in wire, NEW op, op = w.op, NEW g, CommittedAs(op, g),
           spent' = IF op.kind = "add" THEN [spent EXCEPT ![op.target] = op.package] ELSE spent,
           op.kind = "add" => op.package = spent[op.target] + 1
    PROVE  (SpentSound)'
<1>1. /\ spent \in [Devices -> Nat] /\ \A d \in Devices : spent[d] = Cardinality(Additions(d))
    BY DEF CryptoInv, PolicySound, SpentSound, ServerShape
<1>2. ASSUME NEW d \in Devices PROVE spent'[d] = Cardinality((Additions(d))')
    <2>1. PICK last, old : last = Len(groups[g].log) + 1 /\ old = Additions(d)
        OBVIOUS
    <2>2. /\ (Additions(d))' = old \cup (IF op.kind = "add" /\ op.target = d THEN {<<g, last>>} ELSE {})
          /\ <<g, last>> \notin old /\ IsFiniteSet(old)
        BY <2>1, CommittedAdditions
    <2>3. CASE op.kind = "add" /\ op.target = d
        <3>1. Cardinality(old \cup {<<g, last>>}) = Cardinality(old) + 1
            BY <2>2, FS_AddElement
        <3>2. spent'[d] = spent[d] + 1
            BY <1>1, <2>3
        <3>3. (Additions(d))' = old \cup {<<g, last>>}
            BY <2>2, <2>3
        <3>4. QED
            BY <1>1, <2>1, <3>1, <3>2, <3>3
    <2>4. CASE ~ (op.kind = "add" /\ op.target = d)
        <3>1. (Additions(d))' = old
            BY <2>2, <2>4
        <3>2. spent'[d] = spent[d]
            BY <1>1, <2>4, WireOps
        <3>3. QED
            BY <1>1, <2>1, <3>1, <3>2
    <2>5. QED
        BY <2>3, <2>4
<1>3. QED
    BY <1>2 DEF SpentSound

LEMMA CommittedStep ==
    ASSUME CryptoInv, NEW w \in wire, Serves(w), NEW op, op = w.op, NEW g, CommittedAs(op, g),
           UNCHANGED <<trust, challenge, recovery, setup, contentKeys>>,
           groups'[g].members = Member(op, groups[g].members),
           spent' = IF op.kind = "add" THEN [spent EXCEPT ![op.target] = op.package] ELSE spent,
           op.kind = "add" => op.package = spent[op.target] + 1,
           cryptoPolicy' \in {cryptoPolicy, [required |-> TRUE, generation |-> Newest]},
           (RekeyTracked)', Answer(op, "accepted", Len(groups'[Len(groups')].log))
    PROVE  CryptoInv'
<1>1. /\ g \in 1 .. Newest /\ g \in Nat /\ g = Newest /\ Newest' = Newest /\ Newest \in Nat /\ ServerShape
      /\ staged' = staged /\ lag' = lag /\ groups' \in Seq(GroupRecord) /\ op.kind \in Commits /\ op.generation = g
    BY DEF CommittedAs, Serves, CryptoInv, aux
<1>2. GrowsBy(op) /\ (GroupsSound)' /\ (WireSound)' /\ (ResetsKept)' /\ (JoinSound)' /\ (SpentSound)'
    BY <1>1, CommittedGrows, CommittedSound, CommittedWire, CommittedResets, CommittedJoin, CommittedSpent
<1>3. (OpsLogged)'
    <2>1. AllOps' \subseteq AllOps
        BY DEF AllOps, Serves
    <2>2. QED
        BY <2>1, CommittedLogged
<1>4. cryptoPolicy' \in [required : BOOLEAN, generation : Nat]
    <2>1. PICK n \in Nat : n = Newest
        BY <1>1
    <2>2. [required |-> TRUE, generation |-> n] \in [required : BOOLEAN, generation : Nat]
        OBVIOUS
    <2>3. cryptoPolicy \in [required : BOOLEAN, generation : Nat]
        BY <1>1 DEF ServerShape
    <2>4. QED
        BY <2>1, <2>2, <2>3
<1>5. spent' \in [Devices -> Nat]
    <2>1. op.package \in Nat /\ op.target \in Devices
        BY WireOps DEF OpRecord
    <2>2. QED
        BY <1>1, <2>1 DEF ServerShape
<1>6. (ServerShape)'
    BY <1>1, <1>4, <1>5 DEF ServerShape
<1>7. (PolicyFollows)'
    <2>1. PolicyFollows
        BY DEF CryptoInv, PolicySound
    <2>2. CASE cryptoPolicy' = cryptoPolicy
        BY <1>1, <2>1, <2>2 DEF PolicyFollows
    <2>3. CASE cryptoPolicy' = [required |-> TRUE, generation |-> Newest]
        BY <1>1, <2>3 DEF PolicyFollows
    <2>4. QED
        BY <2>2, <2>3
<1>8. PICK log, entry, longer : log = groups[g].log /\ entry = Entry(op) /\ longer = groups'[g].log
    OBVIOUS
<1>9. log \in Seq(EntryRecord) /\ longer = Append(log, entry) /\ entry.id = op.id
    BY <1>1, <1>8, GroupParts DEF CommittedAs, Entry
<1>10. PICK n \in Nat : n = Len(log) + 1
    BY <1>9
<1>11. n \in 1 .. Len(longer) /\ longer[n] = entry /\ Len(longer) = n
    BY <1>9, <1>10
<1>12. Answer(op, "accepted", n)
    <2>1. Len(groups'[Len(groups')].log) = n
        BY <1>1, <1>8, <1>11 DEF Newest
    <2>2. QED
        BY <2>1
<1>13. Done(op, n)'
    <2>1. op.kind \notin Founders
        BY <1>1 DEF Commits, Founders
    <2>2. n \in 1 .. Len(groups'[op.generation].log) /\ groups'[op.generation].log[n].id = op.id
        BY <1>1, <1>8, <1>9, <1>11
    <2>3. QED
        BY <2>1, <2>2 DEF Done
<1>14. QED
    BY <1>2, <1>3, <1>6, <1>7, <1>10, <1>12, <1>13, AppliedKeeps

LEMMA AddStep ==
    ASSUME CryptoInv, NEW w \in wire, Serves(w), NEW op, op = w.op, AddMember(op),
           UNCHANGED <<trust, challenge, recovery, setup, contentKeys>>,
           Answer(op, "accepted", Len(groups'[Len(groups')].log))
    PROVE  CryptoInv'
<1>1. PICK g : g = Newest
    OBVIOUS
<1>2. /\ CommittedAs(op, g) /\ groups'[g].members = Member(op, groups[g].members)
      /\ groups'[g].rekey = groups[g].rekey /\ ~ groups[g].rekey
    BY <1>1, AddCommits
<1>3. op.kind = "add" /\ op.target \in Trusted /\ op.package = spent[op.target] + 1
    BY DEF AddMember, MayAdd, Available
<1>4. spent' = IF op.kind = "add" THEN [spent EXCEPT ![op.target] = op.package] ELSE spent
    BY <1>3 DEF AddMember, Consume
<1>5. cryptoPolicy' \in {cryptoPolicy, [required |-> TRUE, generation |-> Newest]}
    BY DEF AddMember, ActivateIfReady
<1>6. (RekeyTracked)'
    <2>1. Newest' = Newest /\ g \in 1 .. Newest /\ (ActiveGroup)' = groups'[g] /\ ActiveGroup = groups[g] /\ Newest > 0
        BY <1>1, <1>2 DEF CommittedAs, ActiveGroup
    <2>2. RekeyTracked
        BY DEF CryptoInv, PolicySound
    <2>3. \A d \in groups[g].members \ groups[g].unvouched : trust[d] # "revoked"
        BY <1>2, <2>1, <2>2 DEF RekeyTracked, RekeyRequired
    <2>4. groups'[g].unvouched = groups[g].unvouched /\ groups'[g].members = groups[g].members \cup {op.target}
        BY <1>2, <1>3 DEF CommittedAs, Member
    <2>5. trust[op.target] # "revoked"
        BY <1>3 DEF Trusted
    <2>6. ~ RekeyRequired(ActiveGroup.members \ ActiveGroup.unvouched)'
        BY <2>1, <2>3, <2>4, <2>5 DEF RekeyRequired
    <2>7. ~ (ActiveGroup.rekey)'
        BY <1>2, <2>1
    <2>8. QED
        BY <2>6, <2>7 DEF RekeyTracked
<1>7. op.kind = "add" => op.package = spent[op.target] + 1
    BY <1>3
<1>8. QED
    BY <1>2, <1>4, <1>5, <1>6, <1>7, CommittedStep

LEMMA RemoveStep ==
    ASSUME CryptoInv, NEW w \in wire, Serves(w), NEW op, op = w.op, RemoveMember(op),
           UNCHANGED <<trust, challenge, recovery, setup, contentKeys>>,
           Answer(op, "accepted", Len(groups'[Len(groups')].log))
    PROVE  CryptoInv'
<1>1. PICK g : g = Newest
    OBVIOUS
<1>2. /\ CommittedAs(op, g) /\ groups'[g].members = Member(op, groups[g].members)
      /\ groups'[g].rekey = RekeyRequired(Member(op, groups[g].members))
    BY <1>1, RemoveCommits
<1>3. op.kind = "remove" /\ spent' = spent
    BY DEF RemoveMember, MayRemove
<1>4. /\ spent' = IF op.kind = "add" THEN [spent EXCEPT ![op.target] = op.package] ELSE spent
      /\ op.kind = "add" => op.package = spent[op.target] + 1
    BY <1>3
<1>5. cryptoPolicy' \in {cryptoPolicy, [required |-> TRUE, generation |-> Newest]}
    BY DEF RemoveMember, ActivateIfReady
<1>6. (RekeyTracked)'
    <2>1. Newest' = Newest /\ g \in 1 .. Newest /\ (ActiveGroup)' = groups'[g]
        BY <1>1, <1>2 DEF CommittedAs, ActiveGroup
    <2>2. PICK members : members = Member(op, groups[g].members)
        OBVIOUS
    <2>3. groups'[g].members = members /\ groups'[g].rekey = \E d \in members : trust[d] = "revoked"
        BY <1>2, <2>2 DEF RekeyRequired
    <2>4. (ActiveGroup.rekey)' <=> RekeyRequired(ActiveGroup.members)'
        BY <2>1, <2>3 DEF RekeyRequired
    <2>5. RekeyRequired(ActiveGroup.members \ ActiveGroup.unvouched)' => RekeyRequired(ActiveGroup.members)'
        BY DEF RekeyRequired
    <2>6. QED
        BY <2>4, <2>5 DEF RekeyTracked
<1>7. QED
    BY <1>2, <1>4, <1>5, <1>6, CommittedStep

\* A request is served, accepted or not.
LEMMA ServeStep ==
    ASSUME CryptoInv, NEW w \in wire, ServeControl(w)
    PROVE  CryptoInv'
<1>1. PICK op : op = w.op
    OBVIOUS
<1>2. Serves(w)
    BY DEF ServeControl, Serves
<1>3. CASE Apply(op) /\ Answer(op, "accepted", Len(groups'[Len(groups')].log))
    <2>1. UNCHANGED <<trust, challenge, recovery, setup, contentKeys>>
        BY <1>3 DEF Apply
    <2>2. CASE Bootstrap(op) \/ Reset(op)
        BY <1>1, <1>2, <1>3, <2>1, <2>2, FoundedStep
    <2>3. CASE AddMember(op)
        BY <1>1, <1>2, <1>3, <2>1, <2>3, AddStep
    <2>4. CASE RemoveMember(op)
        BY <1>1, <1>2, <1>3, <2>1, <2>4, RemoveStep
    <2>5. QED
        BY <1>3, <2>2, <2>3, <2>4 DEF Apply
<1>4. CASE /\ Answer(op, IF op.from \in Trusted /\ Conflicts(op) THEN "conflict" ELSE "refused", 0)
           /\ UNCHANGED serverVars
    <2>1. PICK outcome : outcome = IF op.from \in Trusted /\ Conflicts(op) THEN "conflict" ELSE "refused"
        OBVIOUS
    <2>2. outcome \in {"conflict", "refused"} /\ (outcome = "conflict" => Conflicts(op)) /\ Answer(op, outcome, 0)
        BY <1>4, <2>1
    <2>3. outcome = "conflict" => Newest > 0
        BY <2>2, ConflictNewest
    <2>4. QED
        BY <1>1, <1>2, <1>4, <2>2, <2>3, RejectedStep
<1>5. QED
    BY <1>1, <1>3, <1>4 DEF ServeControl

-----------------------------------------------------------------------------
(* CryptoRuntime: identities, recovery and content leave the history alone.   *)

SameHistory ==
    /\ Newest' = Newest
    /\ \A g \in 1 .. Newest :
          /\ groups'[g].id = groups[g].id /\ groups'[g].path = groups[g].path /\ groups'[g].log = groups[g].log
          /\ groups'[g].members = groups[g].members

SameDevices == UNCHANGED <<vault, operations, ensuring, seen, reply, wire, staged>>

LEMMA HistoryGrows ==
    ASSUME CryptoInv, SameHistory
    PROVE  GroupsGrow /\ ServerShape /\ GroupsSound /\ Newest \in Nat /\ staged \in Nat
<1>1. ServerShape /\ GroupsSound /\ staged \in Nat
    BY DEF CryptoInv, ClientShape
<1>2. Newest \in Nat
    BY <1>1, NewestNat
<1>3. ASSUME NEW g \in 1 .. Newest
      PROVE  /\ groups'[g].id = groups[g].id
             /\ groups'[g].path \in Seq(Nat) /\ Len(groups'[g].path) >= Len(groups[g].path)
             /\ \A i \in 1 .. Len(groups[g].path) : groups'[g].path[i] = groups[g].path[i]
             /\ groups'[g].log \in Seq(EntryRecord) /\ Len(groups'[g].log) >= Len(groups[g].log)
             /\ \A i \in 1 .. Len(groups[g].log) : groups'[g].log[i] = groups[g].log[i]
             /\ groups'[g].path = groups[g].path /\ groups'[g].log = groups[g].log
    <2>1. PICK path, log : path = groups[g].path /\ log = groups[g].log
        OBVIOUS
    <2>2. path \in Seq(Nat) /\ log \in Seq(EntryRecord)
        BY <1>1, <2>1, GroupParts
    <2>3. Len(path) >= Len(path) /\ Len(log) >= Len(log)
        BY <2>2
    <2>4. groups'[g].id = groups[g].id /\ groups'[g].path = path /\ groups'[g].log = log
        BY <2>1 DEF SameHistory
    <2>5. QED
        BY <2>1, <2>2, <2>3, <2>4
<1>4. GroupsGrow
    BY <1>2, <1>3 DEF GroupsGrow, GrownFrom, SameHistory
<1>5. QED
    BY <1>1, <1>2, <1>4

LEMMA HistorySame ==
    ASSUME CryptoInv, SameHistory, SameDevices
    PROVE  /\ (GroupsSound)'
           /\ \A op, g : g \in 1 .. Newest /\ OpLogged(op, g) /\ op.generation \in Nat => OpLogged(op, g)'
           /\ \A op : op.generation \in Nat => (AtStake(op)' <=> AtStake(op))
           /\ \A d : (Additions(d))' = Additions(d)
           /\ AllOps' = AllOps
<1>1. ServerShape /\ GroupsSound /\ Newest \in Nat /\ Newest' = Newest /\ staged' = staged
    BY HistoryGrows DEF SameHistory, SameDevices
<1>2. \A g \in 1 .. Newest : groups'[g].id = groups[g].id /\ groups'[g].path = groups[g].path /\ groups'[g].log = groups[g].log
    BY DEF SameHistory
<1>3. (GroupsSound)'
    <2>1. ASSUME NEW g \in 1 .. Newest PROVE GroupSound(g)'
        <3>1. PICK path, log, id, n : path = groups[g].path /\ log = groups[g].log /\ id = groups[g].id /\ n = Offset(g)
            OBVIOUS
        <3>2. groups'[g].path = path /\ groups'[g].log = log /\ groups'[g].id = id
            BY <1>2, <3>1
        <3>3. /\ Len(path) \in 1 .. staged /\ path[1] = id /\ id \in 1 .. staged /\ Len(log) = Len(path) - 1 + n
              /\ \A i \in 1 .. Len(log) :
                    /\ log[i].path = SubSeq(path, 1, i + 1 - n) /\ log[i].id = path[i + 1 - n]
                    /\ log[i].kind \in (IF i = n THEN {"reset"} ELSE Commits) /\ log[i].id <= staged
            BY <1>1, <3>1 DEF GroupsSound, GroupSound
        <3>4. QED
            BY <1>1, <3>1, <3>2, <3>3 DEF GroupSound, Offset
    <2>2. QED
        BY <1>1, <2>1 DEF GroupsSound
<1>4. ASSUME NEW op, NEW g \in 1 .. Newest, OpLogged(op, g), op.generation \in Nat PROVE OpLogged(op, g)'
    <2>1. groups'[g].id = groups[g].id /\ groups'[g].log = groups[g].log
        BY <1>2
    <2>2. ASSUME g = op.generation + 1, g > 1 PROVE EpochOf(groups'[op.generation]) = EpochOf(groups[op.generation])
        <3>1. op.generation \in 1 .. Newest
            BY <1>1, <1>4, <2>2
        <3>2. QED
            BY <1>2, <3>1 DEF EpochOf
    <2>3. QED
        BY <1>4, <2>1, <2>2 DEF OpLogged
<1>5. Newest > 0 => EpochOf(ActiveGroup)' = EpochOf(ActiveGroup)
    <2>1. ASSUME Newest > 0 PROVE Newest \in 1 .. Newest
        BY <1>1, <2>1
    <2>2. QED
        BY <1>1, <1>2, <2>1 DEF EpochOf, ActiveGroup
<1>6. \A op : op.generation \in Nat => (AtStake(op)' <=> AtStake(op))
    BY <1>1, <1>5 DEF AtStake
<1>7. ASSUME NEW d PROVE (Additions(d))' = Additions(d)
    <2>1. ASSUME NEW at \in (1 .. Newest) \X (1 .. MaxSteps) PROVE groups'[at[1]].log = groups[at[1]].log
        <3>1. at[1] \in 1 .. Newest
            OBVIOUS
        <3>2. QED
            BY <1>2, <3>1
    <2>2. QED
        BY <1>1, <2>1 DEF Additions
<1>8. AllOps' = AllOps
    BY DEF AllOps, SameDevices
<1>9. QED
    BY <1>3, <1>4, <1>6, <1>7, <1>8

LEMMA HistoryRequests ==
    ASSUME CryptoInv, SameHistory, SameDevices
    PROVE  (RequestsSound)'
<1>1. /\ ServerShape /\ ClientShape /\ GroupsSound /\ Newest \in Nat /\ Newest' = Newest /\ staged' = staged /\ staged \in Nat
      /\ GroupsGrow /\ wire' = wire /\ operations' = operations /\ vault' = vault
    BY HistoryGrows DEF SameHistory, SameDevices, CryptoInv
<1>2. \A g \in 1 .. Newest : groups'[g].id = groups[g].id
    BY DEF SameHistory
<1>3. AllOps' = AllOps
    BY HistorySame
<1>4. (OpsSound)'
    <2>1. ASSUME NEW op \in AllOps PROVE OpSound(op)'
        <3>1. OpSound(op) /\ op \in OpRecord
            BY <1>1, OpTypes DEF CryptoInv, RequestsSound, OpsSound
        <3>2. staged' \in Nat /\ staged' >= staged
            BY <1>1
        <3>3. QED
            BY <1>1, <3>1, <3>2, OpSoundKept
    <2>2. QED
        BY <1>3, <2>1 DEF OpsSound
<1>5. (OnceStaged)'
    BY <1>1, <1>3 DEF OnceStaged, CryptoInv, RequestsSound
<1>6. (OpsLogged)'
    <2>1. ASSUME NEW op \in AllOps, NEW g \in 1 .. Newest PROVE OpLogged(op, g)'
        <3>1. OpLogged(op, g) /\ op.generation \in Nat
            BY <1>1, OpTypes DEF CryptoInv, RequestsSound, OpsLogged
        <3>2. QED
            BY <3>1, HistorySame
    <2>2. QED
        BY <1>1, <1>3, <2>1 DEF OpsLogged
<1>7. (WireSound)'
    <2>1. ASSUME NEW w \in wire, AtStake(w.op)' PROVE w.op \in operations[w.op.from]
        <3>1. PICK op : op = w.op
            OBVIOUS
        <3>2. op.generation \in Nat
            BY <3>1, WireOps
        <3>3. AtStake(op)'
            BY <1>1, <2>1, <3>1
        <3>4. AtStake(op)
            BY <3>2, <3>3, HistorySame
        <3>5. QED
            BY <3>1, <3>4 DEF CryptoInv, RequestsSound, WireSound
    <2>2. \A w \in wire : \A g \in 1 .. Newest : groups'[g].id # w.op.id
        BY <1>2 DEF CryptoInv, RequestsSound, WireSound
    <2>3. QED
        BY <1>1, <2>1, <2>2 DEF WireSound
<1>8. (ResetsKept)'
    <2>1. ASSUME NEW d \in Devices, NEW r \in operations[d], r.kind = "reset"
          PROVE  ResetKept(d, r, operations[d], vault[d])'
        <3>1. PICK ops, copy : ops = operations[d] /\ copy = vault[d]
            OBVIOUS
        <3>2. ResetKept(d, r, ops, copy) /\ r \in OpRecord /\ r.generation >= 1 /\ r.generation \in Nat /\ r.generation <= Newest
            BY <2>1, <3>1, KeptResets, OpsBound
        <3>3. CopyFits(copy)
            BY <3>1 DEF CryptoInv, DevicesSound, CopiesSound
        <3>4. Newest > 0 /\ (copy # NoGroup => copy.generation \in 1 .. Newest)
            BY <1>1, <3>2, <3>3 DEF CopyFits, CopyRecord
        <3>5. ResetKept(d, r, ops, copy)'
            BY <1>1, <3>2, <3>4, ResetKeptKept
        <3>6. QED
            BY <1>1, <3>1, <3>5
    <2>2. QED
        BY <1>1, <2>1 DEF ResetsKept
<1>9. QED
    BY <1>4, <1>5, <1>6, <1>7, <1>8 DEF RequestsSound

LEMMA HistoryDevices ==
    ASSUME CryptoInv, SameHistory, SameDevices, (EnvelopesSound)'
    PROVE  (DevicesSound)'
<1>1. /\ ServerShape /\ ClientShape /\ GroupsSound /\ Newest \in Nat /\ Newest' = Newest /\ staged' = staged /\ staged \in Nat
      /\ GroupsGrow /\ wire' = wire /\ operations' = operations /\ vault' = vault /\ ensuring' = ensuring /\ seen' = seen
      /\ reply' = reply
    BY HistoryGrows DEF SameHistory, SameDevices, CryptoInv
<1>2. \A g \in 1 .. Newest : groups'[g].id = groups[g].id /\ groups'[g].path = groups[g].path /\ groups'[g].members = groups[g].members
    BY DEF SameHistory
<1>3. (CopiesSound)'
    <2>1. ASSUME NEW d \in Devices PROVE CopyFits(vault[d])'
        <3>1. PICK copy : copy = vault[d]
            OBVIOUS
        <3>2. CopyFits(copy)
            BY <3>1 DEF CryptoInv, DevicesSound, CopiesSound
        <3>3. CopyFits(copy)'
            BY <1>1, <3>2, CopyFitsKept
        <3>4. QED
            BY <1>1, <3>1, <3>3
    <2>2. QED
        BY <1>1, <2>1 DEF CopiesSound
<1>4. (WaitingSound)'
    <2>1. ASSUME NEW d \in Devices, ensuring[d] = "waiting"
          PROVE  \E op \in operations'[d] : (Newer(d, op) /\ AwaitSound(d, op))'
        <3>1. WaitSound(d)
            BY DEF CryptoInv, DevicesSound, WaitingSound
        <3>2. PICK op \in operations[d] : Newer(d, op) /\ AwaitSound(d, op)
            BY <2>1, <3>1 DEF WaitSound
        <3>3. Newer(d, op)'
            BY <1>1, <3>2 DEF Newer
        <3>4. PICK sequence : sequence = reply[d].sequence
            OBVIOUS
        <3>5. op \in OpRecord /\ OpSound(op)
            BY OpsBound
        <3>6. reply[d].outcome = "accepted" => Done(op, sequence)'
            BY <1>1, <3>2, <3>4, <3>5, DoneKept DEF AwaitSound
        <3>7. AwaitSound(d, op)'
            BY <1>1, <1>2, <3>2, <3>4, <3>6 DEF AwaitSound
        <3>8. QED
            BY <1>1, <3>3, <3>7
    <2>2. ASSUME NEW d \in Devices, ensuring[d] # "waiting" PROVE reply[d].outcome = "none"
        BY <2>2 DEF CryptoInv, DevicesSound, WaitingSound, WaitSound
    <2>3. ASSUME NEW d \in Devices PROVE WaitSound(d)'
        BY <1>1, <2>1, <2>2 DEF WaitSound
    <2>4. QED
        BY <2>3 DEF WaitingSound
<1>5. (LoadedSound)'
    <2>1. ASSUME NEW d \in Devices, ensuring[d] = "loaded" PROVE LoadedFor(seen[d], operations[d], vault[d])'
        <3>1. PICK view, ops, copy : view = seen[d] /\ ops = operations[d] /\ copy = vault[d]
            OBVIOUS
        <3>2. LoadedFor(view, ops, copy)
            BY <2>1, <3>1 DEF CryptoInv, DevicesSound, LoadedSound
        <3>3. EpochOf(groups'[view.generation]) = EpochOf(groups[view.generation])
            BY <1>2, <3>2 DEF EpochOf, LoadedFor
        <3>4. LoadedFor(view, ops, copy)'
            BY <1>1, <3>2, <3>3 DEF LoadedFor
        <3>5. QED
            BY <1>1, <3>1, <3>4
    <2>2. QED
        BY <1>1, <2>1 DEF LoadedSound
<1>6. (JoinSound)'
    <2>1. ASSUME Newest > 0 PROVE Newest \in 1 .. Newest /\ (ActiveGroup.members)' = ActiveGroup.members
        <3>1. Newest \in 1 .. Newest
            BY <1>1, <2>1
        <3>2. QED
            BY <1>1, <1>2, <3>1 DEF ActiveGroup
    <2>2. ASSUME Newest > 0, NEW d \in ActiveGroup.members PROVE CanJoin(d, operations[d], vault[d])'
        <3>1. PICK ops, copy : ops = operations[d] /\ copy = vault[d]
            OBVIOUS
        <3>2. CanJoin(d, ops, copy)
            BY <2>2, <3>1 DEF CryptoInv, DevicesSound, JoinSound
        <3>3. CanJoin(d, ops, copy)'
            BY <1>1, <2>2, <3>2, JoinKept
        <3>4. QED
            BY <1>1, <3>1, <3>3
    <2>3. QED
        BY <1>1, <2>1, <2>2 DEF JoinSound
<1>7. QED
    BY <1>3, <1>4, <1>5, <1>6 DEF DevicesSound

\* So a step of these kinds keeps the invariant if it keeps its own part of it.
LEMMA HistoryKeeps ==
    ASSUME CryptoInv, SameHistory, SameDevices, (ServerShape)', held' \in [Devices -> Nat], sealed' \subseteq EnvelopeRecord,
           spent' = spent, (EnvelopesSound)', (SetupSound)', (RekeyTracked)', (PolicyFollows)'
    PROVE  CryptoInv'
<1>1. (ClientShape)'
    BY DEF CryptoInv, ClientShape, SameDevices
<1>2. (SpentSound)'
    <2>1. SpentSound
        BY DEF CryptoInv, PolicySound
    <2>2. \A d : (Additions(d))' = Additions(d)
        BY HistorySame
    <2>3. QED
        BY <2>1, <2>2 DEF SpentSound
<1>3. (GroupsSound)' /\ (RequestsSound)' /\ (DevicesSound)'
    BY HistorySame, HistoryRequests, HistoryDevices
<1>4. QED
    BY <1>1, <1>2, <1>3 DEF CryptoInv, PolicySound

\* The parts that hang on nothing but the history.
LEMMA HistoryParts ==
    ASSUME CryptoInv, SameHistory
    PROVE  /\ contentKeys' = contentKeys /\ sealed' = sealed => (EnvelopesSound)'
           /\ setup' = setup => (SetupSound)'
           /\ cryptoPolicy' = cryptoPolicy /\ (lag => lag') => (PolicyFollows)'
<1>1. ServerShape /\ ClientShape /\ GroupsGrow /\ Newest' = Newest /\ EnvelopesSound /\ SetupSound /\ PolicyFollows
    BY HistoryGrows DEF CryptoInv, DevicesSound, PolicySound, SameHistory
<1>2. ASSUME NEW key \in EnvelopeRecord, key.generation \in 1 .. Newest, KeySound(key) PROVE KeySound(key)'
    BY <1>1, <1>2, KeySoundKept
<1>3. ASSUME contentKeys' = contentKeys, sealed' = sealed PROVE (EnvelopesSound)'
    <2>1. ASSUME NEW key \in contentKeys PROVE key.generation \in 1 .. Newest /\ KeySound(key)'
        BY <1>1, <1>2, <2>1 DEF EnvelopesSound, ServerShape
    <2>2. ASSUME NEW e \in sealed PROVE e.generation \in 1 .. Newest /\ (e.checked \/ e.generation = Newest => KeySound(e)')
        BY <1>1, <1>2, <2>2 DEF EnvelopesSound, ClientShape
    <2>3. QED
        BY <1>1, <1>3, <2>1, <2>2 DEF EnvelopesSound
<1>4. setup' = setup => (SetupSound)'
    BY <1>1 DEF SetupSound
<1>5. cryptoPolicy' = cryptoPolicy /\ (lag => lag') => (PolicyFollows)'
    BY <1>1 DEF PolicyFollows
<1>6. QED
    BY <1>3, <1>4, <1>5

\* Who is revoked decides on the rekey mark, and no one is unless by revocation.
LEMMA RekeyKept ==
    ASSUME CryptoInv, groups' = groups, \A d \in Devices : trust'[d] = "revoked" <=> trust[d] = "revoked"
    PROVE  (RekeyTracked)'
<1>1. RekeyTracked /\ ServerShape /\ Newest' = Newest /\ (ActiveGroup)' = ActiveGroup
    BY DEF CryptoInv, PolicySound, Newest, ActiveGroup
<1>2. ASSUME Newest > 0 PROVE ActiveGroup.members \subseteq Devices
    <2>1. Newest \in 1 .. Newest
        BY <1>1, <1>2, NewestNat
    <2>2. QED
        BY <1>1, <2>1, GroupParts DEF ActiveGroup
<1>3. QED
    BY <1>1, <1>2 DEF RekeyTracked, RekeyRequired

LEMMA SameGroups ==
    ASSUME groups' = groups PROVE SameHistory
BY DEF SameHistory, Newest

LEMMA SameRuntime ==
    ASSUME CryptoInv, UNCHANGED runtimeVars
    PROVE  SameDevices /\ held' \in [Devices -> Nat] /\ sealed' \subseteq EnvelopeRecord /\ sealed' = sealed /\ lag' = lag
BY DEF runtimeVars, SameDevices, CryptoInv, ClientShape

\* Identities are enrolled, approved and challenged.
LEMMA IdentityKeeps ==
    ASSUME CryptoInv, SameDevices, held' \in [Devices -> Nat], sealed' = sealed, lag' = lag,
           trust' \in [Devices -> TrustStates], \A d \in Devices : trust'[d] = "revoked" <=> trust[d] = "revoked",
           challenge' \in [Devices -> Nat], UNCHANGED <<spent, groups, cryptoPolicy, recovery, setup,
                                                        contentKeys>>
    PROVE  CryptoInv'
<1>1. SameHistory /\ (RekeyTracked)'
    BY SameGroups, RekeyKept
<1>2. (EnvelopesSound)' /\ (SetupSound)' /\ (PolicyFollows)'
    BY <1>1, HistoryParts
<1>3. (ServerShape)' /\ sealed' \subseteq EnvelopeRecord
    BY DEF CryptoInv, ServerShape, ClientShape
<1>4. QED
    BY <1>1, <1>2, <1>3, HistoryKeeps

LEMMA OwnerThere ==
    ASSUME NEW d PROVE OwnerOf(d) \in Accounts
BY DEF OwnerOf, Accounts

LEMMA MarkTrustedKeeps ==
    ASSUME CryptoInv, NEW d \in Devices, MarkTrusted(d)
    PROVE  trust' \in [Devices -> TrustStates] /\ \A e \in Devices : trust'[e] = "revoked" <=> trust[e] = "revoked"
<1>1. trust \in [Devices -> TrustStates]
    BY DEF CryptoInv, ServerShape
<1>2. QED
    BY <1>1 DEF MarkTrusted, TrustStates

LEMMA EnrollStep ==
    ASSUME CryptoInv, NEW d \in Devices, StartRuntime(d) PROVE CryptoInv'
<1>1. PICK place \in {"trusted", "pending"} : trust' = [trust EXCEPT ![d] = place]
    BY DEF StartRuntime, EnrollDevice
<1>2. trust[d] = "absent" /\ trust \in [Devices -> TrustStates] /\ challenge \in [Devices -> Nat]
    BY DEF StartRuntime, EnrollDevice, CryptoInv, ServerShape
<1>3. trust' \in [Devices -> TrustStates] /\ \A e \in Devices : trust'[e] = "revoked" <=> trust[e] = "revoked"
    BY <1>1, <1>2 DEF TrustStates
<1>4. UNCHANGED <<spent, challenge, groups, cryptoPolicy, recovery, setup, contentKeys>> /\ UNCHANGED runtimeVars
    BY DEF StartRuntime, EnrollDevice
<1>5. QED
    BY <1>2, <1>3, <1>4, SameRuntime, IdentityKeeps

LEMMA ApproveStep ==
    ASSUME CryptoInv, NEW d \in Devices, ApprovePending(d) PROVE CryptoInv'
<1>1. MarkTrusted(d) /\ UNCHANGED <<spent, challenge, groups, cryptoPolicy, recovery, setup, contentKeys>>
      /\ UNCHANGED runtimeVars
    BY DEF ApprovePending, ApproveDevice
<1>2. challenge' \in [Devices -> Nat]
    BY <1>1 DEF CryptoInv, ServerShape
<1>3. QED
    BY <1>1, <1>2, MarkTrustedKeeps, SameRuntime, IdentityKeeps

LEMMA ChallengeStep ==
    ASSUME CryptoInv, NEW d \in Devices, CreateRecoveryChallenge(d), UNCHANGED runtimeVars PROVE CryptoInv'
<1>1. PICK version : version = recovery[OwnerOf(d)]
    OBVIOUS
<1>2. /\ challenge \in [Devices -> Nat] /\ trust \in [Devices -> TrustStates] /\ version \in Nat
    BY <1>1, OwnerThere DEF CryptoInv, ServerShape
<1>3. challenge' = [challenge EXCEPT ![d] = version]
      /\ UNCHANGED <<trust, spent, groups, cryptoPolicy, recovery, setup, contentKeys>>
    BY <1>1 DEF CreateRecoveryChallenge, OpenChallenge
<1>4. challenge' \in [Devices -> Nat] /\ trust' \in [Devices -> TrustStates]
      /\ \A e \in Devices : trust'[e] = "revoked" <=> trust[e] = "revoked"
    BY <1>2, <1>3
<1>5. QED
    BY <1>3, <1>4, SameRuntime, IdentityKeeps

LEMMA RecoverStep ==
    ASSUME CryptoInv, NEW d \in Devices, RecoverWithMasterSecret(d) PROVE CryptoInv'
<1>1. /\ MarkTrusted(d) /\ challenge' = [challenge EXCEPT ![d] = 0] /\ held' \in {held, [held EXCEPT ![d] = challenge[d]]}
      /\ UNCHANGED <<spent, groups, cryptoPolicy, recovery, setup, contentKeys>>
      /\ UNCHANGED <<vault, operations, ensuring, seen, reply, wire, sealed, staged, aux>>
    BY DEF RecoverWithMasterSecret, ProveRecovery
<1>2. challenge \in [Devices -> Nat] /\ held \in [Devices -> Nat]
    BY DEF CryptoInv, ServerShape, ClientShape
<1>3. challenge' \in [Devices -> Nat] /\ held' \in [Devices -> Nat]
    BY <1>1, <1>2
<1>4. SameDevices /\ sealed' = sealed /\ lag' = lag
    BY <1>1 DEF SameDevices, aux
<1>5. QED
    BY <1>1, <1>3, <1>4, MarkTrustedKeeps, IdentityKeeps

\* A revocation marks the active group if the device is a member.
LEMMA RevokedHistory ==
    ASSUME CryptoInv, NEW d, groups' = MarkRekey(d)
    PROVE  /\ SameHistory /\ groups' \in Seq(GroupRecord)
           /\ Newest > 0 =>
                 /\ (ActiveGroup.members)' = ActiveGroup.members /\ (ActiveGroup.unvouched)' = ActiveGroup.unvouched
                 /\ (ActiveGroup.rekey)' = IF d \in ActiveGroup.members THEN TRUE ELSE ActiveGroup.rekey
<1>1. ServerShape /\ groups \in Seq(GroupRecord) /\ Newest \in Nat
    BY NewestNat DEF CryptoInv, ServerShape
<1>2. CASE Newest > 0 /\ d \in ActiveGroup.members
    <2>1. PICK all, g : all = groups /\ g = Newest
        OBVIOUS
    <2>2. all \in Seq(GroupRecord) /\ Len(all) = g /\ g \in Nat /\ g \in 1 .. Len(all) /\ all[g] \in GroupRecord
        BY <1>1, <1>2, <2>1 DEF Newest
    <2>3. PICK next : next = [all[g] EXCEPT !.rekey = TRUE]
        OBVIOUS
    <2>4. /\ next \in GroupRecord /\ next.id = all[g].id /\ next.path = all[g].path /\ next.log = all[g].log
          /\ next.members = all[g].members /\ next.unvouched = all[g].unvouched /\ next.rekey = TRUE
        BY <2>2, <2>3 DEF GroupRecord
    <2>5. groups' = [all EXCEPT ![g] = next]
        BY <1>2, <2>1, <2>3 DEF MarkRekey, IsMember
    <2>6. groups' \in Seq(GroupRecord) /\ Len(groups') = g /\ groups'[g] = next /\ \A h \in 1 .. g : h # g => groups'[h] = all[h]
        BY <2>2, <2>4, <2>5
    <2>7. Newest' = Newest /\ (ActiveGroup)' = next /\ ActiveGroup = all[g]
        BY <2>1, <2>6 DEF Newest, ActiveGroup
    <2>8. SameHistory
        <3>1. ASSUME NEW h \in 1 .. Newest
              PROVE  /\ groups'[h].id = groups[h].id /\ groups'[h].path = groups[h].path
                     /\ groups'[h].log = groups[h].log /\ groups'[h].members = groups[h].members
            BY <2>1, <2>4, <2>6
        <3>2. QED
            BY <2>7, <3>1 DEF SameHistory
    <2>9. QED
        BY <1>2, <2>4, <2>6, <2>7, <2>8
<1>3. CASE ~ (Newest > 0 /\ d \in ActiveGroup.members)
    <2>1. groups' = groups
        BY <1>3 DEF MarkRekey, IsMember
    <2>2. (ActiveGroup)' = ActiveGroup
        BY <2>1 DEF ActiveGroup, Newest
    <2>3. QED
        BY <1>1, <1>3, <2>1, <2>2, SameGroups
<1>4. QED
    BY <1>2, <1>3

LEMMA RevokeStep ==
    ASSUME CryptoInv, NEW d \in Devices, RevokeIdentity(d), UNCHANGED runtimeVars PROVE CryptoInv'
<1>1. /\ trust' = [trust EXCEPT ![d] = "revoked"] /\ groups' = MarkRekey(d)
      /\ UNCHANGED <<spent, challenge, cryptoPolicy, recovery, setup, contentKeys>>
    BY DEF RevokeIdentity
<1>2. /\ SameHistory /\ groups' \in Seq(GroupRecord)
      /\ Newest > 0 =>
            /\ (ActiveGroup.members)' = ActiveGroup.members /\ (ActiveGroup.unvouched)' = ActiveGroup.unvouched
            /\ (ActiveGroup.rekey)' = IF d \in ActiveGroup.members THEN TRUE ELSE ActiveGroup.rekey
    BY <1>1, RevokedHistory
<1>3. trust \in [Devices -> TrustStates]
    BY DEF CryptoInv, ServerShape
<1>4. trust' \in [Devices -> TrustStates] /\ trust'[d] = "revoked" /\ \A e \in Devices : e # d => trust'[e] = trust[e]
    BY <1>1, <1>3 DEF TrustStates
<1>5. (ServerShape)'
    BY <1>1, <1>2, <1>4 DEF CryptoInv, ServerShape
<1>6. (RekeyTracked)'
    <2>1. ASSUME Newest' > 0
          PROVE  /\ (RekeyRequired(ActiveGroup.members \ ActiveGroup.unvouched) => ActiveGroup.rekey)'
                 /\ (ActiveGroup.rekey => RekeyRequired(ActiveGroup.members))'
        <3>1. Newest > 0 /\ ServerShape /\ RekeyTracked
            BY <1>2, <2>1 DEF SameHistory, CryptoInv, PolicySound
        <3>2. PICK members, unvouched : members = ActiveGroup.members /\ unvouched = ActiveGroup.unvouched
            OBVIOUS
        <3>3. members \subseteq Devices
            <4>1. Newest \in 1 .. Newest
                BY <3>1, NewestNat
            <4>2. QED
                BY <3>1, <3>2, <4>1, GroupParts DEF ActiveGroup
        <3>4. /\ (ActiveGroup.members)' = members /\ (ActiveGroup.unvouched)' = unvouched
              /\ (ActiveGroup.rekey)' = IF d \in members THEN TRUE ELSE ActiveGroup.rekey
            BY <1>2, <3>1, <3>2
        <3>5. CASE d \in members
            <4>1. (ActiveGroup.rekey)' = TRUE
                BY <3>4, <3>5
            <4>2. RekeyRequired(ActiveGroup.members)'
                BY <1>4, <3>4, <3>5 DEF RekeyRequired
            <4>3. QED
                BY <4>1, <4>2
        <3>6. CASE d \notin members
            <4>1. \A e \in members : trust'[e] = trust[e]
                BY <1>4, <3>3, <3>6
            <4>2. RekeyRequired(ActiveGroup.members)' <=> RekeyRequired(members)
                BY <3>4, <4>1 DEF RekeyRequired
            <4>3. RekeyRequired(ActiveGroup.members \ ActiveGroup.unvouched)' <=> RekeyRequired(members \ unvouched)
                BY <3>4, <4>1 DEF RekeyRequired
            <4>4. (RekeyRequired(members \ unvouched) => ActiveGroup.rekey) /\ (ActiveGroup.rekey => RekeyRequired(members))
                BY <3>1, <3>2 DEF RekeyTracked
            <4>5. (ActiveGroup.rekey)' = ActiveGroup.rekey
                BY <3>4, <3>6
            <4>6. QED
                BY <4>2, <4>3, <4>4, <4>5
        <3>7. QED
            BY <3>5, <3>6
    <2>2. QED
        BY <2>1 DEF RekeyTracked
<1>7. SameDevices /\ held' \in [Devices -> Nat] /\ sealed' \subseteq EnvelopeRecord /\ sealed' = sealed /\ lag' = lag
    BY SameRuntime
<1>8. (EnvelopesSound)' /\ (SetupSound)' /\ (PolicyFollows)'
    BY <1>1, <1>2, <1>7, HistoryParts
<1>9. QED
    BY <1>1, <1>2, <1>5, <1>6, <1>7, <1>8, HistoryKeeps

\* A setup reads the group, and commits a recovery key and perhaps the policy.
LEMMA SetupStep ==
    ASSUME CryptoInv, NEW d \in Devices, SetupRecovery(d) PROVE CryptoInv'
<1>1. PICK version : version = held[d] + 1
    OBVIOUS
<1>2. /\ setup' = [owner |-> OwnerOf(d), device |-> d, version |-> version, generation |-> Newest]
      /\ UNCHANGED <<trust, spent, challenge, groups, cryptoPolicy, recovery, contentKeys>> /\ UNCHANGED runtimeVars
    BY <1>1 DEF SetupRecovery, BeginRecoverySetup
<1>3. SameHistory /\ (RekeyTracked)' /\ Newest' = Newest
    BY <1>2, SameGroups, RekeyKept DEF Newest
<1>4. SameDevices /\ held' \in [Devices -> Nat] /\ sealed' \subseteq EnvelopeRecord /\ sealed' = sealed /\ lag' = lag
    BY <1>2, SameRuntime
<1>5. (EnvelopesSound)' /\ (PolicyFollows)'
    BY <1>2, <1>3, <1>4, HistoryParts
<1>6. ServerShape /\ Newest \in Nat /\ version \in Nat
    BY <1>1, NewestNat DEF CryptoInv, ClientShape
<1>7. setup' \in SetupRecord /\ setup'.generation = Newest
    BY <1>2, <1>6, OwnerThere DEF SetupRecord
<1>8. (SetupSound)'
    BY <1>3, <1>6, <1>7 DEF SetupSound
<1>9. (ServerShape)'
    BY <1>2, <1>6, <1>7 DEF ServerShape
<1>10. QED
    BY <1>2, <1>3, <1>4, <1>5, <1>8, <1>9, HistoryKeeps

LEMMA SetUpStep ==
    ASSUME CryptoInv, RecoverySetUp PROVE CryptoInv'
<1>1. PICK one : one = setup
    OBVIOUS
<1>2. /\ one # NoSetup /\ recovery' = [recovery EXCEPT ![one.owner] = one.version] /\ setup' = NoSetup
      /\ one.generation > 0 \/ cryptoPolicy' = cryptoPolicy
      /\ cryptoPolicy' \in {cryptoPolicy, [required |-> TRUE, generation |-> one.generation]}
      /\ UNCHANGED <<trust, spent, challenge, groups, contentKeys>>
      /\ held' \in {held, [held EXCEPT ![one.device] = one.version]}
      /\ lag' = (lag \/ one.generation < Newest)
      /\ UNCHANGED <<vault, operations, ensuring, seen, reply, wire, sealed, staged, given>>
    BY <1>1 DEF RecoverySetUp, FinishRecoverySetup, ReplaceRecovery, ActivateIfReady
<1>3. ServerShape /\ ClientShape /\ SetupSound /\ PolicyFollows /\ Newest \in Nat
    BY NewestNat DEF CryptoInv, PolicySound
<1>4. /\ one.owner \in Accounts /\ one.version \in Nat /\ one.device \in Devices /\ one.generation \in Nat
      /\ one.generation <= Newest
    BY <1>1, <1>2, <1>3 DEF ServerShape, SetupSound, SetupRecord
<1>5. SameHistory /\ (RekeyTracked)' /\ Newest' = Newest
    BY <1>2, SameGroups, RekeyKept DEF Newest
<1>6. SameDevices /\ held' \in [Devices -> Nat] /\ sealed' \subseteq EnvelopeRecord /\ sealed' = sealed
    BY <1>2, <1>3, <1>4 DEF SameDevices, ClientShape
<1>7. (EnvelopesSound)' /\ (SetupSound)'
    BY <1>2, <1>5, <1>6, HistoryParts DEF SetupSound
<1>8. cryptoPolicy' \in [required : BOOLEAN, generation : Nat]
    <2>1. PICK n \in Nat : n = one.generation
        BY <1>4
    <2>2. [required |-> TRUE, generation |-> n] \in [required : BOOLEAN, generation : Nat]
        OBVIOUS
    <2>3. cryptoPolicy \in [required : BOOLEAN, generation : Nat]
        BY <1>3 DEF ServerShape
    <2>4. QED
        BY <1>2, <2>1, <2>2, <2>3
<1>9. (ServerShape)'
    BY <1>2, <1>3, <1>4, <1>8 DEF ServerShape
<1>10. (PolicyFollows)'
    <2>1. CASE cryptoPolicy' = cryptoPolicy
        BY <1>2, <1>3, <1>5, <2>1 DEF PolicyFollows
    <2>2. CASE cryptoPolicy' # cryptoPolicy
        <3>1. one.generation > 0 /\ cryptoPolicy' = [required |-> TRUE, generation |-> one.generation]
            BY <1>2, <2>2
        <3>2. cryptoPolicy'.generation = one.generation /\ one.generation \in 1 .. Newest
            BY <1>3, <1>4, <3>1
        <3>3. one.generation = Newest \/ lag'
            <4>1. one.generation = Newest \/ one.generation < Newest
                BY <1>3, <1>4
            <4>2. lag' = (lag \/ one.generation < Newest)
                BY <1>2
            <4>3. QED
                BY <4>1, <4>2, Zenon
        <3>4. QED
            BY <1>5, <3>2, <3>3 DEF PolicyFollows
    <2>3. QED
        BY <2>1, <2>2
<1>11. QED
    BY <1>2, <1>5, <1>6, <1>7, <1>9, <1>10, HistoryKeeps

\* Content is encrypted, checked and stored; groups and devices stay.
LEMMA ContentKeeps ==
    ASSUME CryptoInv, SameDevices, held' = held, lag' = lag,
           UNCHANGED <<trust, spent, challenge, groups, cryptoPolicy, recovery, setup>>,
           \A e \in sealed' :
               /\ e \in EnvelopeRecord /\ e.generation \in 1 .. Newest
               /\ e.checked \/ e.generation = Newest => KeySound(e),
           \A key \in contentKeys' : key \in EnvelopeRecord /\ key.generation \in 1 .. Newest /\ KeySound(key)
    PROVE  CryptoInv'
<1>1. SameHistory /\ Newest' = Newest
    BY SameGroups DEF SameHistory
<1>2. (RekeyTracked)'
    BY RekeyKept
<1>3. (SetupSound)' /\ (PolicyFollows)'
    BY <1>1, HistoryParts
<1>4. (ServerShape)' /\ held' \in [Devices -> Nat] /\ sealed' \subseteq EnvelopeRecord
    BY DEF CryptoInv, ServerShape, ClientShape
<1>5. \A key : KeySound(key)' <=> KeySound(key)
    BY DEF KeySound
<1>6. (EnvelopesSound)'
    BY <1>1, <1>5 DEF EnvelopesSound
<1>7. QED
    BY <1>1, <1>2, <1>3, <1>4, <1>6, HistoryKeeps

LEMMA EnvelopesNow ==
    ASSUME CryptoInv
    PROVE  /\ \A e \in sealed :
                  /\ e \in EnvelopeRecord /\ e.generation \in 1 .. Newest
                  /\ e.checked \/ e.generation = Newest => KeySound(e)
           /\ \A key \in contentKeys : key \in EnvelopeRecord /\ key.generation \in 1 .. Newest /\ KeySound(key)
BY DEF CryptoInv, DevicesSound, EnvelopesSound, ServerShape, ClientShape

LEMMA ProtectStep ==
    ASSUME CryptoInv, NEW d \in Devices, ProtectBytes(d) PROVE CryptoInv'
<1>1. PICK copy : copy = vault[d]
    OBVIOUS
<1>2. PICK new : new = [from |-> d, generation |-> copy.generation, epoch |-> copy.epoch, path |-> copy.path, checked |-> FALSE]
    OBVIOUS
<1>3. /\ copy # NoGroup /\ sealed' = sealed \cup {new} /\ UNCHANGED serverVars
      /\ UNCHANGED <<vault, held, operations, ensuring, seen, reply, wire, staged, aux>>
    BY <1>1, <1>2 DEF ProtectBytes
<1>4. CopyFits(copy) /\ ServerShape /\ GroupsSound /\ staged \in Nat /\ Newest \in Nat
    BY <1>1, NewestNat DEF CryptoInv, DevicesSound, CopiesSound, ClientShape
<1>5. /\ copy.generation \in 1 .. Newest /\ copy.epoch \in Nat /\ copy.path \in Seq(Nat)
    BY <1>3, <1>4 DEF CopyFits, CopyRecord
<1>6. new \in EnvelopeRecord /\ new.generation \in 1 .. Newest /\ ~ new.checked
    BY <1>2, <1>5, <1>4 DEF EnvelopeRecord
<1>7. ASSUME copy.generation = Newest PROVE KeySound(new)
    <2>1. /\ copy.epoch + 1 \in 1 .. Len(ActiveGroup.path)
          /\ copy.path = SubSeq(ActiveGroup.path, 1, copy.epoch + 1)
        BY <1>3, <1>4, <1>7, CopyIsAt
    <2>2. new.generation = Newest /\ new.epoch = copy.epoch /\ new.path = copy.path
        BY <1>2, <1>7
    <2>3. copy.epoch + 1 <= Len(ActiveGroup.path)
        BY <1>5, <2>1
    <2>4. QED
        BY <2>1, <2>2, <2>3 DEF KeySound, ActiveGroup
<1>8. new.generation = copy.generation
    BY <1>2
<1>9. SameDevices /\ held' = held /\ lag' = lag
    BY <1>3 DEF SameDevices, aux
<1>10. UNCHANGED <<trust, spent, challenge, groups, cryptoPolicy, recovery, setup>> /\ contentKeys' = contentKeys
    BY <1>3, ServerSame
<1>11. \A e \in sealed' :
           /\ e \in EnvelopeRecord /\ e.generation \in 1 .. Newest
           /\ e.checked \/ e.generation = Newest => KeySound(e)
    BY <1>3, <1>6, <1>7, <1>8, EnvelopesNow
<1>12. QED
    BY <1>9, <1>10, <1>11, EnvelopesNow, ContentKeeps

LEMMA CheckProtectedStep ==
    ASSUME CryptoInv, NEW e \in sealed, RequireCryptoProtectedWrite(e) PROVE CryptoInv'
<1>1. PICK passed : passed = [e EXCEPT !.checked = TRUE]
    OBVIOUS
<1>2. /\ e \in EnvelopeRecord /\ e.generation \in 1 .. Newest
      /\ e.checked \/ e.generation = Newest => KeySound(e)
    BY EnvelopesNow
<1>3. /\ passed \in EnvelopeRecord /\ passed.generation = e.generation /\ passed.epoch = e.epoch /\ passed.path = e.path
    BY <1>1, <1>2 DEF EnvelopeRecord
<1>4. MayProtect(e) => KeySound(passed)
    BY <1>2, <1>3 DEF MayProtect, KeySound
<1>5. /\ \A s \in sealed' : s \in sealed \/ (s = passed /\ MayProtect(e))
      /\ UNCHANGED serverVars
      /\ UNCHANGED <<vault, held, operations, ensuring, seen, reply, wire, staged, aux>>
    BY <1>1 DEF RequireCryptoProtectedWrite
<1>6. SameDevices /\ held' = held /\ lag' = lag
    BY <1>5 DEF SameDevices, aux
<1>7. UNCHANGED <<trust, spent, challenge, groups, cryptoPolicy, recovery, setup>> /\ contentKeys' = contentKeys
    BY <1>5, ServerSame
<1>8. \A s \in sealed' :
           /\ s \in EnvelopeRecord /\ s.generation \in 1 .. Newest
           /\ s.checked \/ s.generation = Newest => KeySound(s)
    BY <1>2, <1>3, <1>4, <1>5, EnvelopesNow
<1>9. QED
    BY <1>6, <1>7, <1>8, EnvelopesNow, ContentKeeps

LEMMA WriteStep ==
    ASSUME CryptoInv, NEW e \in sealed, WriteProtected(e) PROVE CryptoInv'
<1>1. /\ e.checked /\ contentKeys' = contentKeys \cup {e} /\ sealed' = sealed \ {e}
      /\ UNCHANGED <<trust, spent, challenge, groups, cryptoPolicy, recovery, setup>>
      /\ UNCHANGED <<vault, held, operations, ensuring, seen, reply, wire, staged, aux>>
    BY DEF WriteProtected, InsertContentKey
<1>2. SameDevices /\ held' = held /\ lag' = lag
    BY <1>1 DEF SameDevices, aux
<1>3. /\ \A s \in sealed' :
             /\ s \in EnvelopeRecord /\ s.generation \in 1 .. Newest
             /\ s.checked \/ s.generation = Newest => KeySound(s)
      /\ \A key \in contentKeys' : key \in EnvelopeRecord /\ key.generation \in 1 .. Newest /\ KeySound(key)
    BY <1>1, EnvelopesNow
<1>4. QED
    BY <1>1, <1>2, <1>3, ContentKeeps

LEMMA CryptoStarts ==
    ASSUME CryptoInit PROVE CryptoInv
<1>1. /\ trust = [d \in Devices |-> IF d \in Enrolled THEN "trusted" ELSE "absent"]
      /\ spent = [d \in Devices |-> 0] /\ challenge = [d \in Devices |-> 0] /\ groups = <<>>
      /\ cryptoPolicy = [required |-> FALSE, generation |-> 0]
      /\ recovery = [o \in Accounts |-> IF o \in KeyOwners THEN 1 ELSE 0]
      /\ setup = NoSetup /\ contentKeys = {}
    BY DEF CryptoInit, ServerInit
<1>2. /\ vault = [d \in Devices |-> NoGroup]
      /\ held = [d \in Devices |-> IF d \in Enrolled THEN recovery[OwnerOf(d)] ELSE 0]
      /\ operations = [d \in Devices |-> {}] /\ ensuring = [d \in Devices |-> "idle"]
      /\ seen = [d \in Devices |-> Nothing] /\ reply = [d \in Devices |-> NoReply]
      /\ wire = {} /\ sealed = {} /\ staged = 0
    BY DEF CryptoInit, RuntimeInit
<1>3. groups \in Seq(GroupRecord) /\ Newest = 0
    BY <1>1 DEF Newest
<1>4. cryptoPolicy \in [required : BOOLEAN, generation : Nat]
    BY <1>1
<1>5. ServerShape
    BY <1>1, <1>3, <1>4 DEF ServerShape, TrustStates
<1>6. NoGroup \in CopyRecord
    <2>1. <<>> \in Seq(Nat)
        OBVIOUS
    <2>2. QED
        BY <2>1 DEF NoGroup, CopyRecord
<1>7. ClientShape
    <2>1. Nothing \in SeenRecord /\ NoReply \in ReplyRecord
        BY DEF Nothing, NoReply, SeenRecord, ReplyRecord
    <2>2. \A d \in Devices : recovery[OwnerOf(d)] \in Nat
        BY <1>5, OwnerThere DEF ServerShape
    <2>3. QED
        BY <1>2, <1>6, <2>1, <2>2, CryptoBounds DEF ClientShape, EnsurePlaces
<1>8. AllOps = {}
    BY <1>2 DEF AllOps
<1>9. GroupsSound /\ RequestsSound
    BY <1>2, <1>3, <1>8 DEF GroupsSound, RequestsSound, OpsSound, OnceStaged, OpsLogged, WireSound, ResetsKept
<1>10. DevicesSound
    <2>1. CopiesSound
        BY <1>2, <1>3, <1>6 DEF CopiesSound, CopyFits, NoGroup
    <2>2. WaitingSound
        BY <1>2 DEF WaitingSound, WaitSound, NoReply
    <2>3. LoadedSound
        BY <1>2 DEF LoadedSound
    <2>4. JoinSound
        BY <1>3 DEF JoinSound
    <2>5. EnvelopesSound
        BY <1>1, <1>2 DEF EnvelopesSound
    <2>6. QED
        BY <2>1, <2>2, <2>3, <2>4, <2>5 DEF DevicesSound
<1>11. PolicySound
    <2>1. ASSUME NEW d \in Devices PROVE spent[d] = Cardinality(Additions(d))
        <3>1. 1 .. Newest = {}
            BY <1>3
        <3>2. Additions(d) = {}
            BY <3>1 DEF Additions
        <3>3. QED
            BY <1>1, <3>2, FS_EmptySet
    <2>2. SetupSound /\ RekeyTracked /\ PolicyFollows
        BY <1>1, <1>3 DEF SetupSound, RekeyTracked, PolicyFollows
    <2>3. QED
        BY <2>1, <2>2 DEF PolicySound, SpentSound
<1>12. QED
    BY <1>5, <1>7, <1>9, <1>10, <1>11 DEF CryptoInv

\* Nothing but these steps changes anything.
LEMMA CryptoStands ==
    ASSUME CryptoInv, UNCHANGED cryptoVars PROVE CryptoInv'
<1>1. UNCHANGED serverVars /\ UNCHANGED runtimeVars
    BY DEF cryptoVars
<1>2. /\ trust' = trust /\ spent' = spent /\ challenge' = challenge /\ groups' = groups /\ cryptoPolicy' = cryptoPolicy
      /\ recovery' = recovery /\ setup' = setup /\ contentKeys' = contentKeys
    BY <1>1, ServerSame
<1>3. trust' \in [Devices -> TrustStates] /\ challenge' \in [Devices -> Nat]
    BY <1>2 DEF CryptoInv, ServerShape
<1>4. QED
    BY <1>1, <1>2, <1>3, SameRuntime, IdentityKeeps

LEMMA CryptoSteps ==
    ASSUME CryptoInv, CryptoNext PROVE CryptoInv'
<1>1. ASSUME NEW d \in Devices, (CreateRecoveryChallenge(d) \/ RevokeIdentity(d)) /\ UNCHANGED runtimeVars PROVE CryptoInv'
    BY <1>1, ChallengeStep, RevokeStep
<1>2. ASSUME NEW d \in Devices, StartRuntime(d) \/ ApprovePending(d) PROVE CryptoInv'
    BY <1>2, EnrollStep, ApproveStep
<1>3. ASSUME NEW d \in Devices, EnsurePartnership(d) \/ ProcessControls(d) \/ ResetPartnershipGroup(d) PROVE CryptoInv'
    BY <1>3, EnsureStep, ProcessStep, ResetGroupStep
<1>4. ASSUME NEW d \in Devices, Accepted(d) \/ Conflicted(d) PROVE CryptoInv'
    BY <1>4, AcceptedStep, ConflictedStep
<1>5. ASSUME NEW d \in Devices, Refused(d) \/ StopHalfway(d) PROVE CryptoInv'
    BY <1>5, StoppedStep DEF Refused, StopHalfway
<1>6. ASSUME NEW d \in Devices, SetupRecovery(d) \/ RecoverWithMasterSecret(d) \/ ProtectBytes(d) PROVE CryptoInv'
    BY <1>6, SetupStep, RecoverStep, ProtectStep
<1>7. ASSUME NEW w \in wire, ServeControl(w) PROVE CryptoInv'
    BY <1>7, ServeStep
<1>8. ASSUME NEW e \in sealed, RequireCryptoProtectedWrite(e) \/ WriteProtected(e) PROVE CryptoInv'
    BY <1>8, CheckProtectedStep, WriteStep
<1>9. QED
    BY <1>1, <1>2, <1>3, <1>4, <1>5, <1>6, <1>7, <1>8, SetUpStep DEF CryptoNext

LEMMA OneStepFurther ==
    ASSUME NEW q \in Seq(Nat), NEW k \in Nat, k + 1 <= Len(q)
    PROVE  SubSeq(q, 1, k + 1) = Append(SubSeq(q, 1, k), q[k + 1])
<1>1. PICK s, t : s = SubSeq(q, 1, k + 1) /\ t = SubSeq(q, 1, k)
    OBVIOUS
<1>2. s \in Seq(Nat) /\ Len(s) = k + 1 /\ \A i \in 1 .. k + 1 : s[i] = q[i]
    BY <1>1
<1>3. t \in Seq(Nat) /\ Len(t) = k /\ \A i \in 1 .. k : t[i] = q[i]
    BY <1>1
<1>4. PICK r : r = Append(t, q[k + 1])
    OBVIOUS
<1>5. q[k + 1] \in Nat
    OBVIOUS
<1>6. r \in Seq(Nat) /\ Len(r) = k + 1 /\ (\A i \in 1 .. k : r[i] = t[i]) /\ r[k + 1] = q[k + 1]
    BY <1>3, <1>4, <1>5
<1>7. ASSUME NEW i \in 1 .. k + 1 PROVE r[i] = s[i]
    <2>1. i \in 1 .. k \/ i = k + 1
        OBVIOUS
    <2>2. CASE i \in 1 .. k
        BY <1>2, <1>3, <1>6, <2>2
    <2>3. CASE i = k + 1
        BY <1>2, <1>6, <2>3
    <2>4. QED
        BY <2>1, <2>2, <2>3
<1>8. r = s
    BY <1>2, <1>6, <1>7
<1>9. QED
    BY <1>1, <1>4, <1>8

LEMMA FirstOnly ==
    ASSUME NEW q \in Seq(Nat), 1 <= Len(q)
    PROVE  SubSeq(q, 1, 1) = <<q[1]>>
<1>1. PICK s : s = SubSeq(q, 1, 1)
    OBVIOUS
<1>2. s \in Seq(Nat) /\ Len(s) = 1 /\ s[1] = q[1]
    BY <1>1
<1>3. s = <<s[1]>>
    BY <1>2
<1>4. QED
    BY <1>1, <1>2, <1>3

\* Every accepted commit continues the accepted state before it.
LEMMA LogContinues ==
    ASSUME CryptoInv, NEW g \in 1 .. Newest, NEW log, log = groups[g].log, NEW i \in 1 .. Len(log), log[i].kind # "reset"
    PROVE  log[i].path = Append(IF i = 1 THEN <<groups[g].id>> ELSE log[i - 1].path, log[i].id)
<1>1. PICK path, n : path = groups[g].path /\ n = Offset(g)
    OBVIOUS
<1>2. path \in Seq(Nat) /\ n \in {0, 1} /\ log \in Seq(EntryRecord) /\ i \in Nat /\ i >= 1
    BY <1>1, GroupParts, OffsetBound DEF CryptoInv
<1>3. /\ path[1] = groups[g].id /\ Len(log) = Len(path) - 1 + n
      /\ \A j \in 1 .. Len(log) :
            /\ log[j].path = SubSeq(path, 1, j + 1 - n) /\ log[j].id = path[j + 1 - n]
            /\ log[j].kind \in (IF j = n THEN {"reset"} ELSE Commits)
    BY <1>1 DEF CryptoInv, GroupsSound, GroupSound
<1>4. i # n
    BY <1>3
<1>5. PICK k \in Nat : k = i - n
    BY <1>2, <1>4
<1>6. k >= 1 /\ k + 1 <= Len(path) /\ i + 1 - n = k + 1 /\ (i = 1 => k = 1 /\ n = 0)
    <2>1. PICK l, m : l = Len(path) /\ m = Len(log)
        OBVIOUS
    <2>2. l \in Nat /\ m = l - 1 + n /\ i \in 1 .. m
        BY <1>2, <1>3, <2>1
    <2>3. k + 1 <= l /\ k >= 1 /\ i + 1 - n = k + 1 /\ (i = 1 => k = 1 /\ n = 0)
        BY <1>2, <1>4, <1>5, <2>2
    <2>4. QED
        BY <2>1, <2>3
<1>7. log[i].path = SubSeq(path, 1, k + 1) /\ log[i].id = path[k + 1]
    BY <1>3, <1>6
<1>8. SubSeq(path, 1, k + 1) = Append(SubSeq(path, 1, k), path[k + 1])
    BY <1>2, <1>6, OneStepFurther
<1>9. CASE i = 1
    <2>1. SubSeq(path, 1, k) = <<groups[g].id>>
        BY <1>2, <1>3, <1>6, <1>9, FirstOnly
    <2>2. QED
        BY <1>7, <1>8, <1>9, <2>1
<1>10. CASE i # 1
    <2>1. i - 1 \in 1 .. Len(log) /\ i - 1 + 1 - n = k
        BY <1>2, <1>5, <1>10
    <2>2. log[i - 1].path = SubSeq(path, 1, k)
        BY <1>3, <2>1
    <2>3. QED
        BY <1>7, <1>8, <1>10, <2>2
<1>11. QED
    BY <1>9, <1>10

\* A copy of the active group is the server's at its cursor.
LEMMA CopyAtCursor ==
    ASSUME CryptoInv, NEW d \in Devices, Newest > 0, NEW copy, copy = vault[d], Matches(copy, Newest)
    PROVE  /\ copy.cursor \in 0 .. Len(ActiveGroup.log) /\ copy.path = PathAt(ActiveGroup, copy.cursor)
           /\ copy.epoch = Len(copy.path) - 1
<1>1. PICK g, path, log, n : g = Newest /\ path = groups[g].path /\ log = groups[g].log /\ n = Offset(g)
    OBVIOUS
<1>2. /\ CopyFits(copy) /\ copy # NoGroup /\ copy.generation = Newest /\ ServerShape /\ staged \in Nat /\ GroupsSound
      /\ copy.cursor \in Nat /\ copy.epoch \in Nat
    BY DEF CryptoInv, ClientShape, DevicesSound, CopiesSound, Matches, CopyFits, CopyRecord
<1>3. g \in 1 .. Newest /\ GroupSound(g) /\ CopySound(copy, g)
    BY <1>1, <1>2, CopyIsAt
<1>4. path \in Seq(Nat) /\ log \in Seq(EntryRecord) /\ n \in {0, 1}
    BY <1>1, <1>2, <1>3, GroupParts, OffsetBound
<1>5. /\ path[1] = groups[g].id /\ Len(log) = Len(path) - 1 + n
      /\ \A j \in 1 .. Len(log) :
            /\ log[j].path = SubSeq(path, 1, j + 1 - n)
            /\ log[j].kind \in (IF j = n THEN {"reset"} ELSE Commits)
    BY <1>1, <1>3 DEF GroupSound
<1>6. PICK c, e : c = copy.cursor /\ e = copy.epoch
    OBVIOUS
<1>7. c \in n .. Len(log) /\ e = c - n /\ copy.path = SubSeq(path, 1, e + 1) /\ c \in Nat /\ e \in Nat
    BY <1>1, <1>2, <1>3, <1>6 DEF CopySound
<1>8. e + 1 <= Len(path) /\ c \in 0 .. Len(log) /\ e + 1 = c + 1 - n
    <2>1. PICK l, m : l = Len(path) /\ m = Len(log)
        OBVIOUS
    <2>2. l \in Nat /\ m = l - 1 + n /\ c \in n .. m
        BY <1>4, <1>5, <1>7, <2>1
    <2>3. e + 1 <= l /\ c \in 0 .. m /\ e + 1 = c + 1 - n
        BY <1>4, <1>7, <2>2
    <2>4. QED
        BY <2>1, <2>3
<1>9. copy.epoch = Len(copy.path) - 1
    <2>1. Len(SubSeq(path, 1, e + 1)) = e + 1
        BY <1>4, <1>7, <1>8
    <2>2. QED
        BY <1>6, <1>7, <2>1
<1>10. copy.path = PathAt(ActiveGroup, c)
    <2>1. ActiveGroup.log = log /\ ActiveGroup.id = path[1]
        BY <1>1, <1>5 DEF ActiveGroup
    <2>2. CASE c = n
        <3>1. e = 0
            BY <1>7, <2>2, <1>4
        <3>2. copy.path = <<path[1]>>
            <4>1. e + 1 = 1
                BY <3>1
            <4>2. 1 <= Len(path)
                BY <1>8, <4>1
            <4>3. copy.path = SubSeq(path, 1, 1)
                BY <1>7, <4>1
            <4>4. QED
                BY <1>4, <4>2, <4>3, FirstOnly
        <3>3. c = 0 \/ log[c].kind = "reset"
            BY <1>4, <1>5, <1>7, <2>2
        <3>4. QED
            BY <2>1, <3>2, <3>3 DEF PathAt
    <2>3. CASE c # n
        <3>1. c \in 1 .. Len(log) /\ c # 0
            BY <1>4, <1>7, <2>3
        <3>2. log[c].path = SubSeq(path, 1, e + 1) /\ log[c].kind # "reset"
            BY <1>5, <1>8, <2>3, <3>1 DEF Commits
        <3>3. QED
            BY <1>7, <2>1, <3>1, <3>2 DEF PathAt
    <2>4. QED
        BY <2>2, <2>3
<1>11. QED
    BY <1>1, <1>6, <1>8, <1>9, <1>10 DEF ActiveGroup

LEMMA CryptoInvAccounted ==
    ASSUME CryptoInv PROVE CryptoAccounted
<1>1. EpochsAgree
    <2>1. ASSUME NEW g \in 1 .. Newest, NEW i \in 1 .. Len(groups[g].log), groups[g].log[i].kind # "reset"
          PROVE  groups[g].log[i].path =
                     Append(IF i = 1 THEN <<groups[g].id>> ELSE groups[g].log[i - 1].path, groups[g].log[i].id)
        BY <2>1, LogContinues
    <2>2. ASSUME NEW d \in Devices, Newest > 0, Matches(vault[d], Newest)
          PROVE  /\ vault[d].cursor \in 0 .. Len(ActiveGroup.log)
                 /\ vault[d].path = PathAt(ActiveGroup, vault[d].cursor) /\ vault[d].epoch = Len(vault[d].path) - 1
        BY <2>2, CopyAtCursor
    <2>3. ASSUME NEW key \in contentKeys PROVE key.path = SubSeq(groups[key.generation].path, 1, key.epoch + 1)
        BY EnvelopesNow DEF KeySound
    <2>4. QED
        BY <2>1, <2>2, <2>3 DEF EpochsAgree
<1>2. MembersCanJoin
    <2>1. SpentSound /\ JoinSound
        BY DEF CryptoInv, PolicySound, DevicesSound
    <2>2. ASSUME Newest > 0, NEW d \in ActiveGroup.members
          PROVE  Matches(vault[d], Newest) \/ Welcomes(d) # {} \/ Recovered(d, Newest) # {}
        BY <2>1, <2>2 DEF JoinSound, CanJoin, Recovered, Founders
    <2>3. QED
        BY <2>1, <2>2 DEF MembersCanJoin, SpentSound, Additions
<1>3. RekeyTracked /\ PolicyFollows
    BY DEF CryptoInv, PolicySound
<1>4. QED
    BY <1>1, <1>2, <1>3 DEF CryptoAccounted

LEMMA CryptoInvStep == CryptoInv /\ [CryptoNext]_cryptoVars => CryptoInv'
BY CryptoSteps, CryptoStands

CryptoSpec == CryptoInit /\ [][CryptoNext]_cryptoVars

LEMMA CryptoInvAlways == CryptoSpec => []CryptoInv
    BY CryptoStarts, CryptoInvStep, PTL DEF CryptoSpec

\* The encryption group of a partnership, on the server and on every device (CryptoService,
\* crypto-runtime.ts), for any devices, requests, resets, revocations and lost answers: every
\* accepted commit and every copy that is used continues one history, each key package is spent on
\* one addition, every member has a way into the group, a revoked member is known to the rekey
\* mark, and compulsory encryption names the generation that writes are held to.
THEOREM CryptoHoldsTogether == CryptoSpec => []CryptoAccounted
    BY CryptoInvAlways, CryptoInvAccounted, PTL


==============================================================================
