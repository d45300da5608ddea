------------------------------ MODULE Listings ------------------------------
(***************************************************************************)
(* The listings the API gives out page by page, each page found again by    *)
(* the key of the last row: the items of the couple's space in their two    *)
(* orders, the partner requests, the former partnerships, the calls, and    *)
(* the messages backwards.  And the views that put the pages together while *)
(* the rows change and a reload overtakes a page.                           *)
(*                                                                         *)
(* A behaviour is one listing by one account.  Identifiers are ordered, as  *)
(* the database orders them.                                                *)
(***************************************************************************)
EXTENDS Naturals, Sequences, FiniteSets, SequencesExt

CONSTANTS
    Listed,        \* listings looked at, among ListingKinds
    MaxRows,       \* bound: rows there ever are
    PageRows,      \* rows of a page
    MaxRowChanges, \* bound: changes of the rows and of the query
    MaxReloads     \* bound: reloads of the view

ItemListings == {"created_desc", "occurred_asc"}
ListingKinds == ItemListings \cup {"requests", "former", "calls", "messages"}

ASSUME ListingAssumption ==
    /\ Listed \subseteq ListingKinds
    /\ {MaxRows, PageRows} \subseteq Nat \ {0}
    /\ {MaxRowChanges, MaxReloads} \subseteq Nat

VARIABLES
    table,     \* the rows
    instant,   \* trusted time
    couple,    \* the partnership the account is in, 0 for none
    listing,   \* what the client shows, and the cursor it continues from
    asked,     \* the page read with that cursor, on its way
    reloading, \* first pages on their way, in the order they were asked for
    steady,    \* rows listed and untouched from the start
    moved,     \* rows whose place has changed
    crossed,   \* a page asked for before a reload was put after it
    touches, refreshed

listingVars == <<table, instant, couple, listing, asked, reloading, steady, moved, crossed, touches, refreshed>>

RowIds == 1 .. MaxRows
Instants == 0 .. 2
Couples == 0 .. 2
TableRow == [created : Instants, place : 0 .. 1, live : BOOLEAN, couple : Couples]
Cursor == [after : RowIds, created : Instants, place : 0 .. 1, snapshot : Instants, of : ListingKinds, couple : Couples]
NoCursor == [after |-> 0]
ListEntry == [id : RowIds, couple : Couples, readable : BOOLEAN]
ListPage == [entries : Seq(ListEntry), next : Cursor \cup {NoCursor}]

ListingTypeOK ==
    /\ DOMAIN table \subseteq RowIds /\ \A r \in DOMAIN table : table[r] \in TableRow
    /\ instant \in Instants /\ couple \in Couples
    /\ listing.of \in ListingKinds /\ listing.next \in Cursor \cup {NoCursor}
    /\ \A e \in Range(listing.entries) : e \in ListEntry
    /\ \A a \in asked : a.page.next \in Cursor \cup {NoCursor} /\ a.late \in BOOLEAN
    /\ Len(reloading) <= MaxReloads + 1
    /\ steady \cup moved \subseteq RowIds /\ crossed \in BOOLEAN
    /\ touches \in 0 .. MaxRowChanges /\ refreshed \in 0 .. MaxReloads

-----------------------------------------------------------------------------
(* What a listing selects, and its order.                                   *)

\* Two rows may have the same time or place: the identifier decides.
Precedes(of, r, s) ==
    CASE of = "occurred_asc" -> r.place < s.place \/ (r.place = s.place /\ r.after < s.after)
      [] of = "messages"     -> r.after > s.after
      [] OTHER               -> r.created > s.created \/ (r.created = s.created /\ r.after > s.after)
RowKey(r) == [after |-> r, created |-> table[r].created, place |-> table[r].place]
\* Mutation: the row the last page ended with is selected again.
After_Inclusive(of, from, r) == from = NoCursor \/ ~ Precedes(of, RowKey(r), from)

After(of, from, r) == from = NoCursor \/ Precedes(of, from, RowKey(r))

RelationshipItems(of, snapshot, from) ==
    {r \in DOMAIN table : /\ table[r].couple = couple /\ table[r].live
                         /\ table[r].created <= snapshot /\ After(of, from, r)}

\* A pending request is listed until it expires.
ActivePartnerRequests(snapshot, from) ==
    {r \in DOMAIN table : /\ table[r].live /\ instant < table[r].created + 2
                         /\ table[r].created <= snapshot /\ After("requests", from, r)}

FormerPartnerships(snapshot, from) ==
    {r \in DOMAIN table : table[r].created <= snapshot /\ After("former", from, r)}

CallHistory(from) == {r \in DOMAIN table : table[r].couple = couple /\ After("calls", from, r)}

ConversationMessages(before) ==
    {r \in DOMAIN table : table[r].couple = couple /\ After("messages", before, r)}

\* A deleted message has lost its body, its reactions and its attachments, and keeps its place.
Readable(r) == table[r].live

Project(r) == [id |-> r, couple |-> table[r].couple, readable |-> TRUE]
ProjectMessage(r) == [id |-> r, couple |-> table[r].couple, readable |-> Readable(r)]

\* The rows in order, one more than the page has read to know whether there are more.
PageOf(of, selected, snapshot) ==
    LET ordered == SetToSortSeq(selected, LAMBDA r, s : Precedes(of, RowKey(r), RowKey(s)))
        visible == SubSeq(ordered, 1, IF Len(ordered) < PageRows THEN Len(ordered) ELSE PageRows)
        last    == RowKey(visible[Len(visible)])
    IN  [entries |-> [i \in DOMAIN visible |->
                         IF of = "messages" THEN ProjectMessage(visible[i]) ELSE Project(visible[i])],
         next    |-> IF Len(ordered) <= PageRows THEN NoCursor
                     ELSE [after |-> last.after, created |-> last.created, place |-> last.place,
                           snapshot |-> snapshot, of |-> of, couple |-> couple]]
NoPage == [entries |-> <<>>, next |-> NoCursor]

SnapshotOf(from) == IF from = NoCursor THEN instant ELSE from.snapshot

\* Mutation: a cursor is not bound to the partnership and the query it was made for.
CursorBinds_Never(of, from) == TRUE

CursorBinds(of, from) == from = NoCursor \/ (from.of = of /\ from.couple = couple)

\* The handlers: the page a request gets, none when its cursor is refused.
ListItems(of, from) ==
    IF couple = 0 THEN {NoPage}
    ELSE {PageOf(of, RelationshipItems(of, SnapshotOf(from), from), SnapshotOf(from)) :
              x \in {y \in {from} : CursorBinds(of, y)}}
ListRequests(from) ==
    {PageOf("requests", ActivePartnerRequests(SnapshotOf(from), from), SnapshotOf(from))}
Former(from) == {PageOf("former", FormerPartnerships(SnapshotOf(from), from), SnapshotOf(from))}
History(from) == IF couple = 0 THEN {NoPage} ELSE {PageOf("calls", CallHistory(from), instant)}

\* The conversation is in the path: the one of a partnership that is over is not found.
ListMessages(from) ==
    {PageOf("messages", ConversationMessages(from), instant) :
        x \in {y \in {from} : couple # 0 /\ (y = NoCursor \/ y.couple = couple)}}

PageFor(of, from) ==
    CASE of \in ItemListings     -> ListItems(of, from)
      [] of = "requests"  -> ListRequests(from)
      [] of = "former"    -> Former(from)
      [] of = "calls"     -> History(from)
      [] OTHER            -> ListMessages(from)

-----------------------------------------------------------------------------
(* The listing.                                                                *)

ShowsPage(v, page) == [v EXCEPT !.entries = page.entries, !.next = page.next]

\* The space leaves out what it has, the messages replace it, the others append.
Joined(of, entries, page) ==
    LET have == {e.id : e \in Range(entries)}
    IN  IF of \in ItemListings THEN entries \o SelectSeq(page.entries, LAMBDA e : e.id \notin have)
        ELSE IF of = "messages"
        THEN SelectSeq(entries, LAMBDA e : e.id \notin {n.id : n \in Range(page.entries)}) \o page.entries
        ELSE entries \o page.entries

LoadMore ==
    /\ listing.next # NoCursor /\ asked = {}
    /\ asked' = {[page |-> p, late |-> FALSE] : p \in PageFor(listing.of, listing.next)}
    /\ UNCHANGED <<table, instant, couple, listing, reloading, steady, moved, crossed, touches, refreshed>>

\* The page is added whatever became of the view since.
MoreArrives ==
    \E a \in asked :
        /\ asked' = {}
        /\ listing' = [listing EXCEPT !.entries = Joined(listing.of, @, a.page), !.next = a.page.next]
        /\ crossed' = (crossed \/ a.late)
        /\ UNCHANGED <<table, instant, couple, reloading, steady, moved, touches, refreshed>>

Views == ItemListings \cup {"requests"}

\* Focus, visibility, a change of the space: the first page again.
ReloadView ==
    /\ listing.of \in Views /\ refreshed < MaxReloads /\ refreshed' = refreshed + 1
    /\ reloading' = reloading \o SetToSeq(PageFor(listing.of, NoCursor))
    /\ UNCHANGED <<table, instant, couple, listing, asked, steady, moved, crossed, touches>>

\* The space drops an answer a later reload has made stale; the requests show it.
ReloadArrives(n) ==
    /\ n \in DOMAIN reloading
    /\ reloading' = RemoveAt(reloading, n)
    /\ IF listing.of \in ItemListings /\ n < Len(reloading)
       THEN UNCHANGED <<listing, asked, crossed>>
       ELSE /\ listing' = ShowsPage(listing, reloading[n])
            /\ asked' = {[a EXCEPT !.late = TRUE] : a \in asked}
            /\ crossed' = FALSE
    /\ UNCHANGED <<table, instant, couple, steady, moved, touches, refreshed>>

Touches == touches < MaxRowChanges /\ touches' = touches + 1

\* Another query in the same view: the first page of it is asked for, what is shown, the
\* cursor and the page on its way stay.
ChangeQuery(of) ==
    /\ {listing.of, of} \subseteq ItemListings /\ of # listing.of /\ Touches
    /\ listing' = [listing EXCEPT !.of = of]
    /\ reloading' = SetToSeq(PageFor(of, NoCursor))
    /\ UNCHANGED <<table, instant, couple, asked, steady, moved, crossed, refreshed>>

-----------------------------------------------------------------------------
(* The rows.                                                                *)

Time ==
    /\ instant < 2 /\ instant' = instant + 1
    /\ steady' = IF listing.of = "requests" THEN {r \in steady : instant' < table[r].created + 2} ELSE steady
    /\ UNCHANGED <<table, couple, listing, asked, reloading, moved, crossed, touches, refreshed>>

\* Written with the time its transaction began at; messages are numbered in the order they
\* are committed in.
Insert(r) ==
    /\ Touches /\ r \notin DOMAIN table
    /\ listing.of \in {"requests", "former"} \/ couple # 0
    /\ listing.of = "messages" => \A s \in DOMAIN table : s < r
    /\ \E at \in instant - 1 .. instant, place \in 0 .. 1 :
           /\ at \in Nat /\ (couple = 2 => at = instant)
           /\ listing.of \notin ItemListings => place = 0
           /\ table' = [s \in DOMAIN table \cup {r} |->
                          IF s = r THEN [created |-> at, place |-> place, live |-> TRUE, couple |-> couple]
                          ELSE table[s]]
    /\ UNCHANGED <<instant, couple, listing, asked, reloading, steady, moved, crossed, refreshed>>

\* An item or a message is deleted, a request answered or taken back.
Settle(r) ==
    /\ Touches /\ table[r].live /\ listing.of \in Views \cup {"messages"}
    /\ table' = [table EXCEPT ![r].live = FALSE]
    /\ steady' = IF listing.of = "messages" THEN steady ELSE steady \ {r}
    /\ UNCHANGED <<instant, couple, listing, asked, reloading, moved, crossed, refreshed>>

\* The occurrence of an item is edited.
Move(r) ==
    /\ Touches /\ table[r].live /\ listing.of \in ItemListings
    /\ table' = [table EXCEPT ![r].place = 1 - @]
    /\ steady' = steady \ {r} /\ moved' = moved \cup {r}
    /\ UNCHANGED <<instant, couple, listing, asked, reloading, crossed, refreshed>>

\* The partnership ends, with what it holds; the account may find itself in another.  The
\* space empties and reloads.
Leave ==
    /\ couple = 1 /\ Touches /\ instant' = 2
    /\ listing.of \notin {"requests", "former"}
    /\ couple' = 0 /\ table' = <<>> /\ steady' = {}
    /\ UNCHANGED <<listing, asked, reloading, moved, crossed, refreshed>>
Join ==
    /\ couple = 0 /\ listing.of \notin {"requests", "former"}
    /\ couple' = 2
    /\ \/ listing' = [listing EXCEPT !.entries = <<>>] /\ listing.of \in ItemListings /\ reloading' = <<NoPage>>
          /\ asked' = {[a EXCEPT !.late = TRUE] : a \in asked}
       \/ UNCHANGED <<listing, reloading, asked>>
    /\ UNCHANGED <<table, instant, steady, moved, crossed, touches, refreshed>>

ListingInit ==
    /\ table \in [1 .. 2 -> {r \in TableRow : r.created < 2 /\ r.live /\ r.couple = 1}]
    /\ instant = 1 /\ couple = 1
    /\ listing \in [of : Listed, entries : {<<>>}, next : {NoCursor}]
    /\ listing.of \notin ItemListings => \A r \in DOMAIN table : table[r].place = 0
    /\ listing.of = "messages" => table[1].created <= table[2].created
    /\ reloading = SetToSeq(PageFor(listing.of, NoCursor))
    /\ asked = {} /\ steady = (IF listing.of = "requests" THEN {r \in 1 .. 2 : 1 < table[r].created + 2} ELSE 1 .. 2)
    /\ moved = {} /\ crossed = FALSE /\ touches = 0 /\ refreshed = 0

ListingNext ==
    \/ LoadMore \/ MoreArrives \/ ReloadView \/ Time \/ Leave \/ Join
    \/ \E n \in 1 .. MaxReloads + 1 : ReloadArrives(n)
    \/ \E of \in ItemListings : ChangeQuery(of)
    \/ \E r \in RowIds : Insert(r)
    \/ \E r \in DOMAIN table : Settle(r) \/ Move(r)

ListingSpec == ListingInit /\ [][ListingNext]_listingVars

-----------------------------------------------------------------------------
(* Properties.                                                              *)

\* Whatever is created, deleted, moved or expires between two pages: a listing read to its
\* end shows every row that was there all along exactly once, and no row that kept its place
\* twice; rows come in the order of the listing; a listing never goes on into another
\* partnership.  Only a page that a reload has overtaken may leave a gap (useRelationshipItems,
\* PartnerRequestsPanel.loadMore, loadOlder and the list handlers).
ListingsAccounted ==
    ~ crossed =>
        LET e == listing.entries IN
        /\ \A i, j \in DOMAIN e : i < j => /\ e[i].couple = e[j].couple
                                           /\ e[i].id = e[j].id => e[i].id \in moved
        /\ (listing.next = NoCursor /\ asked = {} /\ reloading = <<>>) => steady \subseteq {x.id : x \in Range(e)}
        /\ \A i, j \in DOMAIN e :
               (i < j /\ {e[i].id, e[j].id} \subseteq steady \ moved /\ reloading = <<>>)
                   => Precedes(listing.of, RowKey(e[i].id), RowKey(e[j].id))

=============================================================================
