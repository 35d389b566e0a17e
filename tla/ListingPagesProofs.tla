------------------------ MODULE ListingPagesProofs --------------------------
(***************************************************************************)
(* What keyset pages promise for every table, query and page size.         *)
(*                                                                         *)
(* The inductive invariant relates the rows shown to the cursor: whatever  *)
(* was shown lies at or before it, and a steady listing was shown exactly  *)
(* if its place lies at or before it.  It carries over from page to page   *)
(* because a page is the first of the rows beyond the cursor, and over     *)
(* the changes between pages because they leave steady listings in place.  *)
(***************************************************************************)
EXTENDS ListingPages, FiniteSetTheorems, TLAPS

\* Every shown row is at or before the cursor.
ShownBeforeCursor ==
  ~ended => \A s \in shown : cursor # Start /\ ~Less(cursor, s.key)

\* A steady listing is listed where it was shown, and is shown exactly if the
\* reader has passed its place.
SteadyInPlace ==
  \A i \in steady :
    /\ Listed(query, table[i])
    /\ \A s \in shown : s.id = i => s.key = Key(query, i, table[i])
    /\ (ended \/ ~Beyond(cursor, Key(query, i, table[i]))) => \E s \in shown : s.id = i
    /\ ~ended /\ Beyond(cursor, Key(query, i, table[i])) => \A s \in shown : s.id # i

\* Before its first page a reader has nothing.
NothingBeforeStart ==
  query = NoQuery =>
    shown = {} /\ steady = {} /\ cursor = Start /\ page = 0 /\ ended = FALSE

\* Under the newest-first order a shown row's key is its row's for ever.
NewestInPlace ==
  query # NoQuery /\ query.sort = "newest" =>
    \A s \in shown : table[s.id] # NoRow /\ s.key = <<0, -table[s.id].created, -s.id>>

Inv ==
  /\ TypeOK
  /\ NothingBeforeStart
  /\ PagesInOrder
  /\ ShownBeforeCursor
  /\ SteadyInPlace
  /\ NewestInPlace

-----------------------------------------------------------------------------
\* Less is a strict total order on keys.
LEMMA LessIrreflexive == ASSUME NEW a \in Keys PROVE ~Less(a, a)
  BY DEF Less, Keys

LEMMA LessTransitive ==
  ASSUME NEW a \in Keys, NEW b \in Keys, NEW c \in Keys, Less(a, b), Less(b, c)
  PROVE  Less(a, c)
  BY DEF Less, Keys

LEMMA LessTotal ==
  ASSUME NEW a \in Keys, NEW b \in Keys
  PROVE  a = b \/ Less(a, b) \/ Less(b, a)
  BY DEF Less, Keys

\* The key of a row is a key.
LEMMA KeyType ==
  ASSUME NEW q, NEW i \in Ids, NEW row \in Row
  PROVE  Key(q, i, row) \in Keys
  <1>1. i \in Int
    BY IdsAssumption
  <1>3. row.price \in Prices /\ row.created \in Times /\ row.updated \in Times
    BY DEF Row
  <1>4. row.price \in Int /\ row.created \in Int /\ row.updated \in Int
    BY <1>3, ColumnsAssumption
  <1>2. Rank(row.status) \in Int
    BY DEF Rank
  <1> QED BY <1>1, <1>2, <1>4 DEF Key, Keys, NewestKey, AscendingKey, DescendingKey, UpdatedKey, RankKey

\* The rows of a statement that orders and limits come before the others.
LEMMA TopComesFirst ==
  ASSUME NEW items, IsFiniteSet(items), \A x \in items : x.key \in Keys,
         NEW n \in Nat, NEW x \in Top(items, n), NEW y \in items \ Top(items, n)
  PROVE  Less(x.key, y.key)
  <1> DEFINE Before(z) == {w \in items : Less(w.key, z.key)}
  <1>1. x \in items /\ x.key \in Keys /\ y.key \in Keys
    BY DEF Top
  <1>2. IsFiniteSet(Before(x)) /\ IsFiniteSet(Before(y))
    BY FS_Subset
  <1>3. Cardinality(Before(x)) < n /\ ~(Cardinality(Before(y)) < n)
    BY DEF Top
  <1>4. CASE x.key = y.key
    <2>1. Before(x) = Before(y)
      BY <1>4
    <2> QED BY <2>1, <1>3
  <1>5. CASE Less(y.key, x.key)
    <2>1. Before(y) \subseteq Before(x)
      BY <1>1, <1>5, LessTransitive
    <2>2. Cardinality(Before(y)) <= Cardinality(Before(x))
      BY <2>1, <1>2, FS_Subset
    <2>3. Cardinality(Before(y)) \in Nat /\ Cardinality(Before(x)) \in Nat
      BY <1>2, FS_CardinalityType
    <2> QED BY <2>2, <2>3, <1>3
  <1> QED BY <1>1, <1>4, <1>5, LessTotal

\* Each statement returns the listed rows beyond the cursor, in its own order.
LEMMA StatementsFollow ==
  ASSUME NEW q \in Queries, NEW c
  PROVE  Following(q, c) =
           {x \in {[id |-> i, key |-> Key(q, i, table[i])] : i \in {j \in Ids : Listed(q, table[j])}} :
              Beyond(c, x.key)}
  <1>1. CASE q \in SellerQuery
    <2>1. q.list = "seller" /\ q.sort = "rank"
      BY <1>1 DEF SellerQuery
    <2> QED BY <2>1 DEF Following, ListSellerListings, Listed, Key
  <1>2. CASE q \in OwnedQuery
    <2>1. q.list = "owned" /\ q.sort = "updated"
      BY <1>2 DEF OwnedQuery
    <2> QED BY <2>1 DEF Following, ListOwnedListings, Listed, Key
  <1>3. CASE q \in SearchQuery /\ q.sort = "newest"
    <2>1. q.list = "search"
      BY <1>3 DEF SearchQuery
    <2> QED BY <1>3, <2>1 DEF Following, SearchListingsNewest, Listed, Key
  <1>4. CASE q \in SearchQuery /\ q.sort = "price_asc"
    <2>1. q.list = "search"
      BY <1>4 DEF SearchQuery
    <2> QED BY <1>4, <2>1 DEF Following, SearchListingsPriceAscending, Listed, Key
  <1>5. CASE q \in SearchQuery /\ q.sort = "price_desc"
    <2>1. q.list = "search"
      BY <1>5 DEF SearchQuery
    <2> QED BY <1>5, <2>1 DEF Following, SearchListingsPriceDescending, Listed, Key
  <1>6. q \in SearchQuery => q.sort \in {"newest", "price_asc", "price_desc"}
    BY DEF SearchQuery
  <1> QED BY <1>1, <1>2, <1>3, <1>4, <1>5, <1>6, QueriesAssumption

\* What lies beyond a cursor, as items of ids and keys.
LEMMA FollowingItems ==
  ASSUME table \in [Ids -> Row \cup {NoRow}], NEW q \in Queries, NEW c
  PROVE  /\ IsFiniteSet(Following(q, c))
         /\ \A x \in Following(q, c) :
              /\ x.id \in Ids /\ x.key \in Keys
              /\ Listed(q, table[x.id]) /\ table[x.id] \in Row
              /\ x = [id |-> x.id, key |-> Key(q, x.id, table[x.id])]
              /\ Beyond(c, x.key)
         /\ \A i \in Ids :
              Listed(q, table[i]) /\ Beyond(c, Key(q, i, table[i])) =>
                [id |-> i, key |-> Key(q, i, table[i])] \in Following(q, c)
  <1> DEFINE Item(i) == [id |-> i, key |-> Key(q, i, table[i])]
             All == {Item(i) : i \in {j \in Ids : Listed(q, table[j])}}
             ListedIds == {j \in Ids : Listed(q, table[j])}
             item == [i \in ListedIds |-> Item(i)]
  <1>1. IsFiniteSet(ListedIds)
    BY IdsAssumption, FS_Subset
  <1>7. item \in Surjection(ListedIds, All)
    BY DEF Surjection
  <1>2. IsFiniteSet(All)
    BY <1>1, <1>7, FS_Surjection
  <1>3. Following(q, c) = {x \in All : Beyond(c, x.key)}
    BY StatementsFollow
  <1>4. IsFiniteSet(Following(q, c))
    BY <1>2, <1>3, FS_Subset
  <1>5. ASSUME NEW x \in Following(q, c)
        PROVE  /\ x.id \in Ids /\ x.key \in Keys
               /\ Listed(q, table[x.id]) /\ table[x.id] \in Row
               /\ x = Item(x.id) /\ Beyond(c, x.key)
    <2>1. PICK i \in Ids : Listed(q, table[i]) /\ x = Item(i)
      BY <1>3
    <2>2. x.id = i /\ x.key = Key(q, i, table[i]) /\ Beyond(c, x.key)
      BY <1>3, <2>1
    <2>3. table[i] \in Row
      BY <2>1 DEF Listed, Searched, Owned, InSellerCatalog, Visible
    <2> QED BY <2>1, <2>2, <2>3, KeyType
  <1>6. ASSUME NEW i \in Ids, Listed(q, table[i]), Beyond(c, Key(q, i, table[i]))
        PROVE  Item(i) \in Following(q, c)
    <2>1. Item(i) \in All /\ Item(i).key = Key(q, i, table[i])
      BY <1>6
    <2> QED BY <2>1, <1>3, <1>6
  <1> HIDE DEF Item
  <1> QED BY <1>4, <1>5, <1>6 DEF Item

\* The steady listings of a query, as SteadyInPlace has them while the reader
\* goes on.
SteadySoFar(q, S) ==
  \A i \in S :
    /\ i \in Ids /\ Listed(q, table[i])
    /\ \A s \in shown : s.id = i => s.key = Key(q, i, table[i])
    /\ ~Beyond(cursor, Key(q, i, table[i])) => \E s \in shown : s.id = i
    /\ Beyond(cursor, Key(q, i, table[i])) => \A s \in shown : s.id # i

NewestSoFar(q) ==
  q.sort = "newest" =>
    \A s \in shown : table[s.id] # NoRow /\ s.key = <<0, -table[s.id].created, -s.id>>

\* A page carries the invariant on.
LEMMA ShowKeepsInv ==
  ASSUME TypeOK, PagesInOrder, ShownBeforeCursor, ~ended,
         NEW q \in Queries, NEW limit \in Limits, Show(q, limit),
         query' = q, UNCHANGED <<table, writes>>,
         SteadySoFar(q, steady'), NewestSoFar(q)
  PROVE  Inv'
  <1> DEFINE all == Following(q, cursor)
             items == Top(all, limit)
             new == {[id |-> x.id, key |-> x.key, page |-> page + 1] : x \in items}
  <1>1. /\ page' = page + 1 /\ shown' = shown \cup new
        /\ \/ items = all /\ ended' = TRUE /\ cursor' = cursor
           \/ /\ items # all /\ ended' = ended
              /\ \E last \in items : IsLast(last, items) /\ cursor' = last.key
    BY DEF Show
  <1>2. table \in [Ids -> Row \cup {NoRow}] /\ limit \in Nat /\ page \in Nat
        /\ cursor \in Keys \cup {Start} /\ ended \in BOOLEAN
        /\ shown \subseteq [id : Ids, key : Keys, page : 1..page]
    BY LimitsAssumption DEF TypeOK
  <1>3. IsFiniteSet(all) /\ \A x \in all :
          /\ x.id \in Ids /\ x.key \in Keys
          /\ Listed(q, table[x.id]) /\ table[x.id] \in Row
          /\ x = [id |-> x.id, key |-> Key(q, x.id, table[x.id])]
          /\ Beyond(cursor, x.key)
    BY <1>2, FollowingItems
  <1>4. items \subseteq all
    BY DEF Top
  <1>5. \A t \in new : /\ t \in [id : Ids, key : Keys, page : {page + 1}]
                       /\ [id |-> t.id, key |-> t.key] \in items
                       /\ Listed(q, table[t.id]) /\ table[t.id] \in Row
                       /\ t.key = Key(q, t.id, table[t.id])
                       /\ Beyond(cursor, t.key)
    <2> SUFFICES ASSUME NEW x \in items
                 PROVE  LET t == [id |-> x.id, key |-> x.key, page |-> page + 1] IN
                        /\ t \in [id : Ids, key : Keys, page : {page + 1}]
                        /\ [id |-> t.id, key |-> t.key] \in items
                        /\ Listed(q, table[t.id]) /\ table[t.id] \in Row
                        /\ t.key = Key(q, t.id, table[t.id])
                        /\ Beyond(cursor, t.key)
      OBVIOUS
    <2> HIDE DEF items, all
    <2>1. x \in all
      BY <1>4
    <2>2. x = [id |-> x.id, key |-> Key(q, x.id, table[x.id])] /\ x.id \in Ids /\ x.key \in Keys
          /\ Listed(q, table[x.id]) /\ table[x.id] \in Row /\ Beyond(cursor, x.key)
      BY <2>1, <1>3
    <2>3. x.key = Key(q, x.id, table[x.id])
      BY <2>2
    <2>4. [id |-> x.id, key |-> x.key] = x
      BY <2>2, <2>3
    <2> QED BY <2>2, <2>3, <2>4
  <1>6. \A x \in items : \E t \in new : t.id = x.id /\ t.key = x.key
    <2> TAKE x \in items
    <2> DEFINE t == [id |-> x.id, key |-> x.key, page |-> page + 1]
    <2>1. t \in new /\ t.id = x.id /\ t.key = x.key
      OBVIOUS
    <2> QED BY <2>1
  <1>7. \A x \in items, y \in all \ items : Less(x.key, y.key)
    BY <1>2, <1>3, TopComesFirst
  <1> HIDE DEF new, items, all
  <1>8. cursor' \in Keys \cup {Start}
    BY <1>1, <1>2, <1>3, <1>4
  <1>9. TypeOK'
    <2>1. shown' \subseteq [id : Ids, key : Keys, page : 1..page']
      <3>1. \A n \in 1..page : n \in 1..(page + 1)
        BY <1>2
      <3>2. page + 1 \in 1..(page + 1)
        BY <1>2
      <3> QED BY <3>1, <3>2, <1>1, <1>2, <1>5
    <2>2. page' \in Nat
      BY <1>1, <1>2
    <2>4. ended' \in BOOLEAN
      <3>1. ended' = TRUE \/ ended' = ended
        BY <1>1
      <3> QED BY <3>1, <1>2
    <2>3. steady' \subseteq Ids
      BY DEF SteadySoFar
    <2> QED BY <2>1, <2>2, <2>3, <2>4, <1>2, <1>8 DEF TypeOK
  <1>10. NothingBeforeStart'
    BY AbsentAssumption DEF NothingBeforeStart
  <1>11. \A s \in shown, t \in new : Less(s.key, t.key)
    <2> TAKE s \in shown, t \in new
    <2>1. cursor \in Keys /\ ~Less(cursor, s.key) /\ s.key \in Keys
      BY <1>2 DEF ShownBeforeCursor
    <2>2. Less(cursor, t.key) /\ t.key \in Keys
      BY <2>1, <1>5, AbsentAssumption DEF Beyond, Keys
    <2>3. s.key = cursor \/ Less(s.key, cursor)
      BY <2>1, LessTotal
    <2> QED BY <2>1, <2>2, <2>3, LessTransitive
  <1>12. PagesInOrder'
    <2> SUFFICES ASSUME NEW s \in shown', NEW t \in shown', s.page < t.page
                 PROVE  Less(s.key, t.key)
      BY DEF PagesInOrder
    <2>1. CASE s \in shown /\ t \in shown
      BY <2>1 DEF PagesInOrder
    <2>2. CASE s \in shown /\ t \in new
      BY <2>2, <1>11
    <2>3. CASE s \in new /\ t \in shown
      <3>1. s.page = page + 1 /\ t.page \in 1..page
        BY <2>3, <1>2, <1>5
      <3> QED BY <3>1, <1>2
    <2>4. CASE s \in new /\ t \in new
      <3>1. s.page = page + 1 /\ t.page = page + 1
        BY <2>4, <1>5
      <3> QED BY <3>1, <1>2
    <2> QED BY <1>1, <2>1, <2>2, <2>3, <2>4
  <1>13. ASSUME items = all, ended' = TRUE, cursor' = cursor
         PROVE  ShownBeforeCursor' /\ SteadyInPlace'
    <2>1. ShownBeforeCursor'
      BY <1>13 DEF ShownBeforeCursor
    <2>2. SteadyInPlace'
      <3> SUFFICES ASSUME NEW i \in steady'
                   PROVE  /\ Listed(q, table[i])
                          /\ \A s \in shown' : s.id = i => s.key = Key(q, i, table[i])
                          /\ \E s \in shown' : s.id = i
        BY <1>13 DEF SteadyInPlace
      <3>1. i \in Ids /\ Listed(q, table[i])
            /\ \A s \in shown : s.id = i => s.key = Key(q, i, table[i])
        BY DEF SteadySoFar
      <3>2. \A s \in shown' : s.id = i => s.key = Key(q, i, table[i])
        BY <3>1, <1>1, <1>5
      <3>3. ASSUME ~Beyond(cursor, Key(q, i, table[i]))
            PROVE  \E s \in shown' : s.id = i
        BY <3>3, <1>1 DEF SteadySoFar
      <3>4. ASSUME Beyond(cursor, Key(q, i, table[i]))
            PROVE  \E s \in shown' : s.id = i
        <4>1. [id |-> i, key |-> Key(q, i, table[i])] \in items
          BY <3>1, <3>4, <1>2, <1>13, FollowingItems DEF all
        <4> QED BY <4>1, <1>1, <1>6
      <3> QED BY <3>1, <3>2, <3>3, <3>4
    <2> QED BY <2>1, <2>2
  <1>14. ASSUME items # all, ended' = ended,
                \E last \in items : IsLast(last, items) /\ cursor' = last.key
         PROVE  ShownBeforeCursor' /\ SteadyInPlace'
    <2>1. PICK last \in items : IsLast(last, items) /\ cursor' = last.key
      BY <1>14
    <2>2. cursor' \in Keys /\ cursor' # Start /\ Beyond(cursor, cursor')
      BY <2>1, <1>3, <1>4, AbsentAssumption DEF Keys
    <2>3. \A t \in new : t.key = cursor' \/ Less(t.key, cursor')
      <3> TAKE t \in new
      <3> DEFINE x == [id |-> t.id, key |-> t.key]
      <3>1. x \in items /\ x.key = t.key
        BY <1>5
      <3>2. x = last \/ Less(x.key, last.key)
        BY <3>1, <2>1 DEF IsLast
      <3> QED BY <3>1, <3>2, <2>1
    <2>4. ShownBeforeCursor'
      <3> SUFFICES ASSUME NEW s \in shown'
                   PROVE  ~Less(cursor', s.key)
        BY <2>2 DEF ShownBeforeCursor
      <3>1. s.key \in Keys
        BY <1>1, <1>2, <1>5
      <3>2. s.key = cursor' \/ Less(s.key, cursor')
        <4>1. CASE s \in new
          BY <4>1, <2>3
        <4>2. CASE s \in shown
          <5>1. PICK t \in new : t.key = cursor'
            BY <2>1, <1>6
          <5> QED BY <5>1, <4>2, <1>11
        <4> QED BY <4>1, <4>2, <1>1
      <3> QED BY <3>1, <3>2, <2>2, LessIrreflexive, LessTransitive
    <2>5. SteadyInPlace'
      <3> SUFFICES ASSUME NEW i \in steady'
                   PROVE  LET k == Key(q, i, table[i]) IN
                          /\ Listed(q, table[i])
                          /\ \A s \in shown' : s.id = i => s.key = k
                          /\ ~Beyond(cursor', k) => \E s \in shown' : s.id = i
                          /\ Beyond(cursor', k) => \A s \in shown' : s.id # i
        BY <1>14 DEF SteadyInPlace
      <3> DEFINE k == Key(q, i, table[i])
      <3>1. i \in Ids /\ Listed(q, table[i])
            /\ \A s \in shown : s.id = i => s.key = k
        BY DEF SteadySoFar
      <3>2. k \in Keys
        <4>1. table[i] \in Row
          BY <3>1, <1>2 DEF Listed, Searched, Owned, InSellerCatalog, Visible
        <4> QED BY <4>1, <3>1, KeyType
      <3>3. \A s \in shown' : s.id = i => s.key = k
        BY <3>1, <1>1, <1>5
      <3> HIDE DEF k
      <3>4. ~Beyond(cursor', k) => \E s \in shown' : s.id = i
        <4>1. CASE ~Beyond(cursor, k)
          BY <4>1, <1>1 DEF SteadySoFar, k
        <4>2. CASE Beyond(cursor, k) /\ [id |-> i, key |-> k] \in items
          BY <4>2, <1>1, <1>6
        <4>3. CASE Beyond(cursor, k) /\ [id |-> i, key |-> k] \notin items
          <5>1. [id |-> i, key |-> k] \in all
            BY <4>3, <3>1, <1>2, FollowingItems DEF all, k
          <5>2. Less(last.key, k)
            BY <5>1, <4>3, <1>7
          <5> QED BY <5>2, <2>1 DEF Beyond
        <4> QED BY <4>1, <4>2, <4>3
      <3>5. Beyond(cursor', k) => \A s \in shown' : s.id # i
        <4> SUFFICES ASSUME NEW s \in shown', s.id = i PROVE ~Less(cursor', k)
          BY <2>2 DEF Beyond
        <4>1. s.key = k
          BY <3>3
        <4> QED BY <4>1, <2>4, <1>14 DEF ShownBeforeCursor
      <3> QED BY <3>1, <3>3, <3>4, <3>5 DEF k
    <2> QED BY <2>4, <2>5
  <1>15. NewestInPlace'
    <2> SUFFICES ASSUME q.sort = "newest", NEW s \in shown'
                 PROVE  table[s.id] # NoRow /\ s.key = <<0, -table[s.id].created, -s.id>>
      BY DEF NewestInPlace
    <2>1. CASE s \in shown
      BY <2>1 DEF NewestSoFar
    <2>2. CASE s \in new
      BY <2>2, <1>5 DEF Listed, Key, Searched, Owned, InSellerCatalog, Visible, NewestKey
    <2> QED BY <2>1, <2>2, <1>1
  <1>16. ShownBeforeCursor' /\ SteadyInPlace'
    BY <1>1, <1>13, <1>14
  <1> QED BY <1>9, <1>10, <1>12, <1>15, <1>16 DEF Inv

\* A change of the table keeps the invariant: it drops from steady what it
\* moves, and leaves created_at alone.
LEMMA WriteKeepsInv ==
  ASSUME Inv, NEW id \in Ids, NEW row \in Row, Write(id, row),
         table[id] = NoRow \/ row.created = table[id].created
  PROVE  Inv'
  <1>1. /\ table' = [table EXCEPT ![id] = row] /\ writes < MaxWrites /\ writes' = writes + 1
        /\ query' = query /\ cursor' = cursor /\ page' = page /\ shown' = shown /\ ended' = ended
    BY DEF Write, readerVars
  <1>2. table \in [Ids -> Row \cup {NoRow}]
    BY DEF Inv, TypeOK
  <1>3. table'[id] = row /\ \A i \in Ids \ {id} : table'[i] = table[i]
    BY <1>1, <1>2
  <1>4. steady' \subseteq steady /\ steady \subseteq Ids
    BY DEF Write, Inv, TypeOK
  <1>5. id \in steady' => Listed(query, row) /\ Key(query, id, row) = Key(query, id, table[id])
    BY DEF Write
  <1>6. TypeOK'
    <2>1. table' \in [Ids -> Row \cup {NoRow}]
      BY <1>1, <1>2
    <2>2. writes' \in 0..MaxWrites
      BY <1>1, LimitsAssumption DEF Inv, TypeOK
    <2> QED BY <2>1, <2>2, <1>1, <1>4 DEF Inv, TypeOK
  <1>7. NothingBeforeStart'
    BY <1>1, <1>4 DEF Inv, NothingBeforeStart
  <1>8. PagesInOrder'
    BY <1>1 DEF Inv, PagesInOrder
  <1>9. ShownBeforeCursor'
    BY <1>1 DEF Inv, ShownBeforeCursor
  <1>10. \A i \in steady' : Listed(query, table'[i]) /\ Key(query, i, table'[i]) = Key(query, i, table[i])
    <2> TAKE i \in steady'
    <2>1. CASE i = id
      BY <2>1, <1>3, <1>5
    <2>2. CASE i # id
      BY <2>2, <1>3, <1>4 DEF Inv, SteadyInPlace
    <2> QED BY <2>1, <2>2
  <1>11. SteadyInPlace'
    <2> SUFFICES ASSUME NEW i \in steady'
                 PROVE  LET k == Key(query, i, table[i]) IN
                        /\ Listed(query, table'[i])
                        /\ \A s \in shown : s.id = i => s.key = k
                        /\ (ended \/ ~Beyond(cursor, k)) => \E s \in shown : s.id = i
                        /\ ~ended /\ Beyond(cursor, k) => \A s \in shown : s.id # i
      BY <1>1, <1>10 DEF SteadyInPlace
    <2>1. i \in steady
      BY <1>4
    <2> QED BY <2>1, <1>10 DEF Inv, SteadyInPlace
  <1>12. NewestInPlace'
    <2> SUFFICES ASSUME query # NoQuery, query.sort = "newest", NEW s \in shown
                 PROVE  table'[s.id] # NoRow /\ s.key = <<0, -table'[s.id].created, -s.id>>
      BY <1>1 DEF NewestInPlace
    <2>1. s.id \in Ids /\ table[s.id] # NoRow /\ s.key = <<0, -table[s.id].created, -s.id>>
      BY DEF Inv, TypeOK, NewestInPlace
    <2>2. CASE s.id = id
      BY <2>1, <2>2, <1>3, RowAssumption
    <2>3. CASE s.id # id
      BY <2>1, <2>3, <1>3
    <2> QED BY <2>2, <2>3
  <1> QED BY <1>6, <1>7, <1>8, <1>9, <1>11, <1>12 DEF Inv

\* The statements that change a row write rows.
LEMMA ChangeKeepsInv == ASSUME Inv, Change PROVE Inv'
  <1>1. PICK id \in Ids, now \in Times :
          \/ \E seller \in Sellers, topic \in Topics, price \in Prices :
               CreateListing(id, seller, topic, price, now)
          \/ \E topic \in Topics, price \in Prices : UpdateListing(id, topic, price, now)
          \/ \E status \in Statuses : ChangeListingStatus(id, status, now)
          \/ Moderate(id)
    BY DEF Change
  <1>2. table[id] # NoRow => table[id] \in Row
    BY DEF Inv, TypeOK
  <1>3. ASSUME NEW seller \in Sellers, NEW topic \in Topics, NEW price \in Prices,
               CreateListing(id, seller, topic, price, now)
        PROVE  Inv'
    <2> DEFINE row == [seller |-> seller, topic |-> topic, price |-> price, status |-> "active",
                       visible |-> TRUE, created |-> now, updated |-> now]
    <2>1. row \in Row
      BY RowAssumption DEF Row
    <2>2. table[id] = NoRow /\ Write(id, row)
      BY <1>3 DEF CreateListing
    <2> HIDE DEF row
    <2> QED BY <2>1, <2>2, WriteKeepsInv
  <1>4. ASSUME NEW topic \in Topics, NEW price \in Prices, UpdateListing(id, topic, price, now)
        PROVE  Inv'
    <2> DEFINE row == [table[id] EXCEPT !.topic = topic, !.price = price, !.updated = now]
    <2>1. row \in Row /\ row.created = table[id].created
      BY <1>2, <1>4 DEF Row, UpdateListing
    <2>2. Write(id, row)
      BY <1>4 DEF UpdateListing
    <2> HIDE DEF row
    <2> QED BY <2>1, <2>2, WriteKeepsInv
  <1>5. ASSUME NEW status \in Statuses, ChangeListingStatus(id, status, now)
        PROVE  Inv'
    <2> DEFINE row == [table[id] EXCEPT !.status = status, !.updated = now]
    <2>1. row \in Row /\ row.created = table[id].created
      BY <1>2, <1>5 DEF Row, ChangeListingStatus
    <2>2. Write(id, row)
      BY <1>5 DEF ChangeListingStatus
    <2> HIDE DEF row
    <2> QED BY <2>1, <2>2, WriteKeepsInv
  <1>6. ASSUME Moderate(id) PROVE Inv'
    <2> DEFINE row == [table[id] EXCEPT !.visible = ~@]
    <2>1. table[id] \in Row /\ Write(id, row)
      BY <1>2, <1>6 DEF Moderate
    <2>2. row \in Row /\ row.created = table[id].created
      BY <2>1 DEF Row
    <2> HIDE DEF row
    <2> QED BY <2>1, <2>2, WriteKeepsInv
  <1> QED BY <1>1, <1>3, <1>4, <1>5, <1>6

-----------------------------------------------------------------------------
LEMMA InitEstablishesInv == Init => Inv
  <1> SUFFICES ASSUME Init PROVE Inv
    OBVIOUS
  <1>1. TypeOK
    <2>1. table \in [Ids -> Row \cup {NoRow}]
      BY DEF Init
    <2>2. writes \in 0..MaxWrites /\ page \in Nat
      BY LimitsAssumption DEF Init
    <2>3. cursor \in Keys \cup {Start} /\ query \in Queries \cup {NoQuery}
          /\ shown \subseteq [id : Ids, key : Keys, page : 1..page] /\ steady \subseteq Ids
      BY DEF Init
    <2>4. ended \in BOOLEAN
      BY DEF Init
    <2> QED BY <2>1, <2>2, <2>3, <2>4 DEF TypeOK
  <1> QED BY <1>1 DEF Init, Inv, NothingBeforeStart, PagesInOrder, ShownBeforeCursor,
                      SteadyInPlace, NewestInPlace

LEMMA NextKeepsInv == Inv /\ [Next]_vars => Inv'
  <1> SUFFICES ASSUME Inv, [Next]_vars PROVE Inv'
    OBVIOUS
  <1>1. ASSUME NEW q \in Queries, NEW limit \in Limits, FirstPage(q, limit)
        PROVE  Inv'
    <2>1. shown = {} /\ cursor = Start /\ ended = FALSE
      BY <1>1 DEF Inv, NothingBeforeStart, FirstPage
    <2>2. SteadySoFar(q, steady')
      BY <1>1, <2>1 DEF FirstPage, SteadySoFar, Beyond
    <2>3. NewestSoFar(q)
      BY <2>1 DEF NewestSoFar
    <2> QED BY <1>1, <2>1, <2>2, <2>3, ShowKeepsInv DEF FirstPage, Inv
  <1>2. ASSUME NEW q \in Queries, NEW limit \in Limits, NextPage(q, limit)
        PROVE  Inv'
    <2>1. /\ query # NoQuery /\ ~ended /\ q = query /\ Show(q, limit)
          /\ query' = q /\ steady' = steady /\ UNCHANGED <<table, writes>>
      <3>1. query # NoQuery /\ ~ended /\ Show(q, limit) /\ UNCHANGED <<table, writes, query, steady>>
        BY <1>2 DEF NextPage
      <3>2. query \in Queries
        BY <3>1 DEF Inv, TypeOK
      <3>3. /\ q.list = query.list /\ q.sort = query.sort
            /\ q.status = query.status /\ q.topic = query.topic
            /\ q.list \in {"seller", "owned"} => q.seller = query.seller
        BY <1>2 DEF NextPage, Bound
      <3>4. q = query
        BY <3>2, <3>3, QueriesAssumption DEF SearchQuery, SellerQuery, OwnedQuery
      <3> QED BY <3>1, <3>4
    <2>2. SteadySoFar(q, steady')
      BY <2>1 DEF SteadySoFar, Inv, SteadyInPlace, TypeOK
    <2>3. NewestSoFar(q)
      BY <2>1 DEF NewestSoFar, Inv, NewestInPlace
    <2> QED BY <2>1, <2>2, <2>3, ShowKeepsInv DEF Inv
  <1>3. CASE Change
    BY <1>3, ChangeKeepsInv
  <1>4. CASE UNCHANGED vars
    BY <1>4 DEF vars, readerVars, Inv, TypeOK, NothingBeforeStart, PagesInOrder,
                ShownBeforeCursor, SteadyInPlace, NewestInPlace
  <1> QED BY <1>1, <1>2, <1>3, <1>4 DEF Next, ReadOn

\* What has been shown, what has stayed and where the cursor is agree.
THEOREM InvHolds == Safety => []Inv
  BY InitEstablishesInv, NextKeepsInv, PTL DEF Safety

\* Type correctness of the table and of the reader.
THEOREM PagesTypeOK == Safety => []TypeOK
  <1>1. Inv => TypeOK
    BY DEF Inv
  <1> QED BY <1>1, InvHolds, PTL

\* A reader's pages are in order whatever moves between them.
THEOREM PagesAreInOrder == Safety => []PagesInOrder
  <1>1. Inv => PagesInOrder
    BY DEF Inv
  <1> QED BY <1>1, InvHolds, PTL

\* For any number of listings, any page sizes and any changes: a listing that
\* stays where it is listed is shown once to a reader who goes to the end.
THEOREM SteadyListingsShownOnce == Safety => []SteadyShownOnce
  <1>1. Inv => SteadyShownOnce
    <2> SUFFICES ASSUME Inv, NEW i \in steady
                 PROVE  /\ \A s, t \in shown : s.id = i /\ t.id = i => s = t
                        /\ ended => \E s \in shown : s.id = i
      BY DEF SteadyShownOnce
    <2>1. ASSUME NEW s \in shown, NEW t \in shown, s.id = i, t.id = i
          PROVE  s = t
      <3>1. s.key = t.key
        BY <2>1 DEF Inv, SteadyInPlace
      <3>2. s \in [id : Ids, key : Keys, page : 1..page] /\ t \in [id : Ids, key : Keys, page : 1..page]
        BY DEF Inv, TypeOK
      <3>3. ~(s.page < t.page) /\ ~(t.page < s.page)
        BY <3>1, <3>2, LessIrreflexive DEF Inv, PagesInOrder
      <3>4. s.page = t.page
        BY <3>2, <3>3 DEF Inv, TypeOK
      <3> QED BY <2>1, <3>1, <3>2, <3>4
    <2>2. ended => \E s \in shown : s.id = i
      BY DEF Inv, SteadyInPlace
    <2> QED BY <2>1, <2>2
  <1> QED BY <1>1, InvHolds, PTL

\* The newest-first order shows no listing twice.
THEOREM NewestFirstNeverRepeats == Safety => []NewestNeverRepeats
  <1>1. Inv => NewestNeverRepeats
    <2> SUFFICES ASSUME Inv, query # NoQuery, query.sort = "newest",
                        NEW s \in shown, NEW t \in shown, s.id = t.id
                 PROVE  s = t
      BY DEF NewestNeverRepeats
    <2>1. s.key = t.key
      BY DEF Inv, NewestInPlace
    <2>2. s \in [id : Ids, key : Keys, page : 1..page] /\ t \in [id : Ids, key : Keys, page : 1..page]
      BY DEF Inv, TypeOK
    <2>3. ~(s.page < t.page) /\ ~(t.page < s.page)
      BY <2>1, <2>2, LessIrreflexive DEF Inv, PagesInOrder
    <2>4. s.page = t.page
      BY <2>2, <2>3 DEF Inv, TypeOK
    <2> QED BY <2>1, <2>2, <2>4
  <1> QED BY <1>1, InvHolds, PTL
=============================================================================
