---------------------------- MODULE ListingPages ----------------------------
(***************************************************************************)
(* Keyset pages of listings: the public search, a seller's public catalog  *)
(* and the seller's own list (internal/app/catalog.go, internal/app/       *)
(* seller.go and the List and Search queries of db/queries/catalog.sql),   *)
(* read page after page while the table changes between the pages.         *)
(*                                                                         *)
(* A reader starts with a query and follows next_cursor to the last page.  *)
(* Its position is the cursor: the sort key of the last row it was shown.  *)
(*                                                                         *)
(* created_at and updated_at are the application's clock before the        *)
(* statement runs, so that rows appear in any order of ids and times.      *)
(***************************************************************************)
EXTENDS Integers, FiniteSets

CONSTANTS
  Ids,       \* listing ids
  Sellers, Topics, Prices, Times,
             \* values of the columns; a topic is a category, a condition or
             \* whatever else a search filters by
  Statuses,  \* the statuses in use
  Queries,   \* the queries readers ask
  Limits,    \* page sizes
  MaxWrites, \* bound on the changes of the table
  NoRow, NoQuery, Start, Any

ASSUME IdsAssumption == Ids \subseteq Nat \ {0} /\ IsFiniteSet(Ids)
ASSUME ColumnsAssumption == Prices \subseteq Int /\ Times \subseteq Int
ASSUME LimitsAssumption == Limits \subseteq Nat \ {0} /\ MaxWrites \in Nat
\* The three lists, each with the filters and the orders it has.
SearchQuery == [list : {"search"}, seller : {Any}, sort : {"newest", "price_asc", "price_desc"},
                status : {Any}, topic : Topics \cup {Any}]
SellerQuery == [list : {"seller"}, seller : Sellers, sort : {"rank"},
                status : Statuses \cup {Any}, topic : Topics \cup {Any}]
OwnedQuery == [list : {"owned"}, seller : Sellers, sort : {"updated"},
               status : Statuses \cup {Any}, topic : {Any}]

ASSUME QueriesAssumption == Queries \subseteq SearchQuery \cup SellerQuery \cup OwnedQuery
ASSUME AbsentAssumption == NoQuery \notin Queries /\ Start \notin Int \X Int \X Int

VARIABLES
  table,   \* the row of each id
  writes,  \* number of changes so far
  query,   \* what the reader asked for its first page
  cursor,  \* the position of next_cursor
  page,    \* number of pages shown
  shown,   \* the rows shown: id, key and page
  ended,   \* next_cursor was null
  steady   \* ids that have been listed, at one place, ever since the first page

readerVars == <<query, cursor, page, shown, ended>>
vars == <<table, writes, readerVars, steady>>

Row == [seller : Sellers, topic : Topics, price : Prices, status : Statuses,
        visible : BOOLEAN, created : Times, updated : Times]
ASSUME RowAssumption == NoRow \notin Row /\ "active" \in Statuses

-----------------------------------------------------------------------------
(* The statements                                                          *)

Rank(status) == CASE status = "active" -> 0 [] status = "reserved" -> 1 [] OTHER -> 2

\* The ORDER BY of each query, written to ascend; the id makes it total.
NewestKey(id, row) == <<0, -row.created, -id>>
AscendingKey(id, row) == <<0, row.price, id>>
DescendingKey(id, row) == <<0, -row.price, -id>>
UpdatedKey(id, row) == <<0, -row.updated, -id>>
RankKey(id, row) == <<Rank(row.status), -row.updated, -id>>

Key(q, id, row) ==
  CASE q.sort = "newest" -> NewestKey(id, row)
    [] q.sort = "price_asc" -> AscendingKey(id, row)
    [] q.sort = "price_desc" -> DescendingKey(id, row)
    [] q.sort = "updated" -> UpdatedKey(id, row)
    [] OTHER -> RankKey(id, row)

Less(a, b) ==
  \/ a[1] < b[1]
  \/ a[1] = b[1] /\ a[2] < b[2]
  \/ a[1] = b[1] /\ a[2] = b[2] /\ a[3] < b[3]

\* Mutant: rows that share the cursor's price or time are skipped.
BeyondTies(c, key) == c = Start \/ Less(<<c[1], c[2], 0>>, <<key[1], key[2], 0>>)

\* Mutant: the status rank is left out of the position.
BeyondWithoutRank(c, key) == c = Start \/ Less(<<0, c[2], c[3]>>, <<0, key[2], key[3]>>)

\* Mutant: the row of the cursor is found again.
NotBefore(c, key) == c = Start \/ ~Less(key, c)

\* The WHERE clause of the position.
Beyond(c, key) == c = Start \/ Less(c, key)

Visible(row) == row # NoRow /\ row.visible

\* The rest of the WHERE clauses.
Searched(q, row) ==
  Visible(row) /\ row.status \in {"active", "reserved"} /\ q.topic \in {Any, row.topic}

Owned(q, row) ==
  Visible(row) /\ row.seller = q.seller /\ q.status \in {Any, row.status}

SellerCatalogStatuses(q) == IF q.status = Any THEN {"active", "reserved"} ELSE {q.status}

InSellerCatalog(q, row) ==
  /\ Visible(row) /\ row.seller = q.seller
  /\ row.status \in SellerCatalogStatuses(q) /\ q.topic \in {Any, row.topic}

Listed(q, row) ==
  CASE q.list = "search" -> Searched(q, row)
    [] q.list = "seller" -> InSellerCatalog(q, row)
    [] OTHER -> Owned(q, row)

SearchListingsNewest(q, c) ==
  {x \in {[id |-> i, key |-> NewestKey(i, table[i])] : i \in {j \in Ids : Searched(q, table[j])}} :
     Beyond(c, x.key)}

SearchListingsPriceAscending(q, c) ==
  {x \in {[id |-> i, key |-> AscendingKey(i, table[i])] : i \in {j \in Ids : Searched(q, table[j])}} :
     Beyond(c, x.key)}

SearchListingsPriceDescending(q, c) ==
  {x \in {[id |-> i, key |-> DescendingKey(i, table[i])] : i \in {j \in Ids : Searched(q, table[j])}} :
     Beyond(c, x.key)}

ListSellerListings(q, c) ==
  {x \in {[id |-> i, key |-> RankKey(i, table[i])] : i \in {j \in Ids : InSellerCatalog(q, table[j])}} :
     Beyond(c, x.key)}

ListOwnedListings(q, c) ==
  {x \in {[id |-> i, key |-> UpdatedKey(i, table[i])] : i \in {j \in Ids : Owned(q, table[j])}} :
     Beyond(c, x.key)}

\* The rows that follow the cursor.
Following(q, c) ==
  CASE q.list = "seller" -> ListSellerListings(q, c)
    [] q.list = "owned" -> ListOwnedListings(q, c)
    [] q.sort = "newest" -> SearchListingsNewest(q, c)
    [] q.sort = "price_asc" -> SearchListingsPriceAscending(q, c)
    [] OTHER -> SearchListingsPriceDescending(q, c)

\* The first n of the items in order.
Top(items, n) == {x \in items : Cardinality({y \in items : Less(y.key, x.key)}) < n}

IsLast(x, items) == x \in items /\ \A y \in items : y = x \/ Less(y.key, x.key)

-----------------------------------------------------------------------------
Init ==
  /\ table = [i \in Ids |-> NoRow]
  /\ writes = 0
  /\ query = NoQuery
  /\ cursor = Start
  /\ page = 0
  /\ shown = {}
  /\ ended = FALSE
  /\ steady = {}

\* Mutant: the cursor is the extra row fetched beyond the page.
ShowTillNext(q, limit) ==
  LET all == Following(q, cursor)
      items == Top(all, limit)
      next == Top(all, limit + 1)
  IN
  /\ page' = page + 1
  /\ shown' = shown \cup {[id |-> x.id, key |-> x.key, page |-> page + 1] : x \in items}
  /\ \/ items = all /\ ended' = TRUE /\ UNCHANGED cursor
     \/ /\ items # all /\ UNCHANGED ended
        /\ \E last \in next : IsLast(last, next) /\ cursor' = last.key

\* One statement, and the page cut from its rows: limit + 1 are fetched to
\* know whether one follows, and then the last one shown is the cursor.
Show(q, limit) ==
  LET all == Following(q, cursor)
      items == Top(all, limit)
  IN
  /\ page' = page + 1
  /\ shown' = shown \cup {[id |-> x.id, key |-> x.key, page |-> page + 1] : x \in items}
  /\ \/ items = all /\ ended' = TRUE /\ UNCHANGED cursor
     \/ /\ items # all /\ UNCHANGED ended
        /\ \E last \in items : IsLast(last, items) /\ cursor' = last.key

FirstPage(q, limit) ==
  /\ query = NoQuery
  /\ query' = q
  /\ Show(q, limit)
  /\ steady' = {i \in Ids : Listed(q, table[i])}
  /\ UNCHANGED <<table, writes>>

\* Mutant: the status is not compared with the cursor's.
BoundButForStatus(q) == [q EXCEPT !.status = query.status] = query

\* Mutant: the status filters are compared as pointers.
BoundByPointer(q) == q = query /\ q.status = Any

\* A cursor is refused with another kind, sort or filter than its own.  That
\* of an owned list says nothing of the owner.
Bound(q) ==
  /\ \A field \in {"list", "sort", "status", "topic"} : q[field] = query[field]
  /\ q.list = "seller" => q.seller = query.seller

\* The owner is the user of the session, who is the same throughout.
NextPage(q, limit) ==
  /\ query # NoQuery /\ ~ended
  /\ Bound(q) /\ (q.list = "owned" => q.seller = query.seller)
  /\ Show(q, limit)
  /\ UNCHANGED <<table, writes, query, steady>>

-----------------------------------------------------------------------------
(* Changes of the table; the reader's steady rows are those they leave      *)

\* The table refuses an update whose clock is behind the row's created_at.
Write(id, row) ==
  /\ writes < MaxWrites
  /\ row.updated >= row.created
  /\ writes' = writes + 1
  /\ table' = [table EXCEPT ![id] = row]
  /\ steady' = IF id \in steady /\ Listed(query, row)
                  /\ Key(query, id, row) = Key(query, id, table[id])
                 THEN steady ELSE steady \ {id}
  /\ UNCHANGED readerVars

\* Mutant: the new row has no status.
CreateWithoutStatus(id, seller, topic, price, now) ==
  /\ table[id] = NoRow
  /\ Write(id, [seller |-> seller, topic |-> topic, price |-> price, status |-> Any,
                visible |-> TRUE, created |-> now, updated |-> now])

\* Ids come from a sequence and appear in the order of the commits.
CreateListing(id, seller, topic, price, now) ==
  /\ table[id] = NoRow
  /\ Write(id, [seller |-> seller, topic |-> topic, price |-> price, status |-> "active",
                visible |-> TRUE, created |-> now, updated |-> now])

\* Mutant: an edited listing counts as new.
UpdateAsNew(id, topic, price, now) ==
  /\ table[id] # NoRow /\ table[id].visible
  /\ Write(id, [table[id] EXCEPT !.topic = topic, !.price = price, !.created = now, !.updated = now])

UpdateListing(id, topic, price, now) ==
  /\ table[id] # NoRow /\ table[id].visible
  /\ Write(id, [table[id] EXCEPT !.topic = topic, !.price = price, !.updated = now])

\* To any status: the check against the table of transitions is of an older row.
ChangeListingStatus(id, status, now) ==
  /\ table[id] # NoRow /\ table[id].visible
  /\ Write(id, [table[id] EXCEPT !.status = status, !.updated = now])

\* By hand, in the database.
Moderate(id) ==
  /\ table[id] # NoRow
  /\ Write(id, [table[id] EXCEPT !.visible = ~@])

Change ==
  \E id \in Ids, now \in Times :
    \/ \E seller \in Sellers, topic \in Topics, price \in Prices :
         CreateListing(id, seller, topic, price, now)
    \/ \E topic \in Topics, price \in Prices : UpdateListing(id, topic, price, now)
    \/ \E status \in Statuses : ChangeListingStatus(id, status, now)
    \/ Moderate(id)

ReadOn == \E q \in Queries, limit \in Limits : NextPage(q, limit)

Next ==
  \/ \E q \in Queries, limit \in Limits : FirstPage(q, limit)
  \/ ReadOn
  \/ Change

Safety == Init /\ [][Next]_vars

\* A reader who wants to see everything asks for page after page.
Spec == Safety /\ WF_vars(ReadOn)

-----------------------------------------------------------------------------
Keys == Int \X Int \X Int

\* Type invariant.
TypeOK ==
  /\ table \in [Ids -> Row \cup {NoRow}]
  /\ writes \in 0..MaxWrites
  /\ query \in Queries \cup {NoQuery}
  /\ cursor \in Keys \cup {Start}
  /\ page \in Nat
  /\ shown \subseteq [id : Ids, key : Keys, page : 1..page]
  /\ ended \in BOOLEAN
  /\ steady \subseteq Ids

\* A listing that stays listed at one place from the first page on is shown
\* once: never twice, and not left out of the pages a reader follows to the
\* end, however the rows around it come, go and move, and whatever queries the
\* reader tries its cursor with.
SteadyShownOnce ==
  \A i \in steady :
    /\ \A s, t \in shown : s.id = i /\ t.id = i => s = t
    /\ ended => \E s \in shown : s.id = i

\* The pages together are in the order asked for, by the keys the rows had
\* when they were shown; so a listing shown again has moved.
PagesInOrder ==
  \A s, t \in shown : s.page < t.page => Less(s.key, t.key)

\* The newest-first search never shows a listing twice, whatever is edited,
\* archived and put back, because created_at does not change.
NewestNeverRepeats ==
  query # NoQuery /\ query.sort = "newest" =>
    \A s, t \in shown : s.id = t.id => s = t

\* A reader comes to the last page although listings keep moving.
ReadingEnds == (query # NoQuery) ~> ended
=============================================================================
