----------------------------- MODULE InboxProofs ----------------------------
(***************************************************************************)
(* Theorems about the inbox for any conversations, sends, marks and page   *)
(* sizes: what stays in place is shown once, what is shown again has gone  *)
(* back in time, and the unread counts go up and down for a reason.        *)
(*                                                                         *)
(* The invariant relates the rows of the pages so far to the cursor, as    *)
(* for the pages of listings.  What is new is that a row's place moves     *)
(* with the commits, and that the place of a conversation is kept in two   *)
(* tables: that of its last message, and the stamp of the message.         *)
(***************************************************************************)
EXTENDS Inbox, ChatMessagesProofs

\* A read pointer names a message of its conversation, and so does a mark that
\* is about to advance one.
PointersNameMessages ==
  /\ \A c \in Conversations, u \in Users :
       readPointer[c][u] # 0 => readPointer[c][u] \in Committed(c)
  /\ \A k \in Marks :
       mark[k].step = "advancing" => mark[k].id \in Committed(mark[k].conversation)

\* A send has read the clock before it does anything else.
SentInTime == \A r \in Sends : send[r] # Idle => sentAt[r] > 0

NothingBeforeFirst == cursor = First => shown = <<>> /\ moved = {}

\* The rows shown are of the reader's own conversations.
ShownOfReader == \A n \in DOMAIN shown : Reader \in Parties[shown[n].conversation]

\* Whatever was shown lies at or before the cursor.
ShownBeforeCursor ==
  \A n \in DOMAIN shown :
    \/ shown[n].at > cursor.at
    \/ shown[n].at = cursor.at /\ shown[n].conversation >= cursor.id

\* The rows of all pages together are in the order of the statement.
ShownInOrder ==
  \A m, n \in DOMAIN shown : m < n =>
    \/ shown[n].at < shown[m].at
    \/ shown[n].at = shown[m].at /\ shown[n].conversation < shown[m].conversation

\* A conversation that has not moved was shown once, as the row it still is,
\* if the reader has passed its place, and not at all otherwise.
SteadyInPlace ==
  \A c \in Conversations \ moved : Reader \in Parties[c] =>
    IF Follows(c, cursor) THEN Times(c) = {}
    ELSE \E n \in DOMAIN shown : Times(c) = {n} /\ shown[n].at = Activity(c)

InboxInv ==
  /\ IsFiniteSet(rows)
  /\ PointersNameMessages
  /\ TypeOK
  /\ SentInTime
  /\ NothingBeforeFirst
  /\ ShownOfReader
  /\ ShownBeforeCursor
  /\ ShownInOrder
  /\ SteadyInPlace

-----------------------------------------------------------------------------
(* The order of the statement                                              *)

\* An activity is an instant.
LEMMA ActivityType ==
  ASSUME TypeOK, NEW c \in Conversations
  PROVE  Activity(c) \in 0..MaxTime
<1>1. lastMessageAt[c] \in 0..MaxId /\ CreatedAt[c] \in 0..MaxTime
  BY CreatedAtAssumption DEF TypeOK, ChatTypeOK
<1>2. lastMessageAt[c] # 0 => stamp[lastMessageAt[c]] \in 0..MaxTime
  BY <1>1, MaxTimeAssumption, Sizes DEF TypeOK, Ids
<1> QED
  BY <1>1, <1>2 DEF Activity

\* The same of the activity after a step.
LEMMA LateActivityType ==
  ASSUME TypeOK'
  PROVE  \A c \in Conversations : Activity(c)' \in 0..MaxTime
<1> SUFFICES ASSUME NEW c \in Conversations
             PROVE  Activity(c)' \in 0..MaxTime
  OBVIOUS
<1>1. lastMessageAt'[c] \in 0..MaxId /\ CreatedAt[c] \in 0..MaxTime
  BY CreatedAtAssumption DEF TypeOK, ChatTypeOK
<1>2. lastMessageAt'[c] # 0 => stamp'[lastMessageAt'[c]] \in 0..MaxTime
  BY <1>1, MaxTimeAssumption, Sizes DEF TypeOK, Ids
<1> QED
  BY <1>1, <1>2 DEF Activity

\* A row of the inbox has its fields' types.
LEMMA RowType ==
  ASSUME TypeOK, NEW c \in Conversations
  PROVE  /\ c \in Nat \ {0} /\ MaxTime \in Nat
         /\ Activity(c) \in Nat /\ Activity(c) <= MaxTime
         /\ Row(c) \in [conversation : Conversations, at : 0..MaxTime]
         /\ Row(c).conversation = c /\ Row(c).at = Activity(c)
  BY ActivityType, ConversationsAssumption, MaxTimeAssumption DEF Row

Place(c, S) == Cardinality(Before(c, S))

\* A row's place is the number of rows before it, and tells the rows apart.
LEMMA PlaceOrders ==
  ASSUME TypeOK, NEW S \in SUBSET Conversations
  PROVE  /\ \A c \in S : Place(c, S) \in Nat
         /\ \A c, d \in S : Precedes(d, c) <=> Place(d, S) < Place(c, S)
         /\ \A c, d \in S : Place(c, S) = Place(d, S) => c = d
<1>0. \A c \in S : c \in Nat /\ Activity(c) \in Nat
  BY RowType
<1>1. \A c \in S : IsFiniteSet(Before(c, S)) /\ Place(c, S) \in Nat
  BY ConversationsAssumption, FS_Subset, FS_CardinalityType DEF Before, Place
<1>2. \A c, d \in S : c = d \/ Precedes(c, d) \/ Precedes(d, c)
  BY <1>0 DEF Precedes
<1>3. ASSUME NEW c \in S, NEW d \in S, Precedes(d, c)
      PROVE  Place(d, S) < Place(c, S)
  <2>1. d \notin Before(d, S)
    BY <1>0 DEF Before, Precedes
  <2>2. Before(d, S) \cup {d} \in SUBSET Before(c, S)
    BY <1>0, <1>3 DEF Before, Precedes
  <2>3. Cardinality(Before(d, S) \cup {d}) = Place(d, S) + 1
    BY <1>1, <2>1, FS_AddElement DEF Place
  <2>4. Cardinality(Before(d, S) \cup {d}) <= Place(c, S)
    BY <1>1, <2>2, FS_Subset DEF Place
  <2> QED
    BY <1>1, <2>3, <2>4
<1>4. ASSUME NEW c \in S, NEW d \in S
      PROVE  /\ Precedes(d, c) <=> Place(d, S) < Place(c, S)
             /\ Place(c, S) = Place(d, S) => c = d
  <2>1. Place(c, S) \in Nat /\ Place(d, S) \in Nat
    BY <1>1
  <2>2. CASE c = d
    BY <1>0, <2>2, <2>1 DEF Precedes
  <2>3. CASE Precedes(c, d)
    BY <1>0, <1>3, <2>1, <2>3 DEF Precedes
  <2>4. CASE Precedes(d, c)
    BY <1>3, <2>1, <2>4
  <2> QED
    BY <1>2, <2>2, <2>3, <2>4
<1> QED
  BY <1>1, <1>4

\* The places of a page's rows are 0, 1, .. without a gap.
LEMMA PlacesAreConsecutive ==
  ASSUME TypeOK, NEW S \in SUBSET Conversations
  PROVE  /\ IsFiniteSet(Top(S)) /\ Cardinality(Top(S)) \in Nat
         /\ \A c \in Top(S) : Place(c, S) < Cardinality(Top(S))
         /\ \A n \in 1..Cardinality(Top(S)) : \E c \in Top(S) : Place(c, S) = n - 1
<1> DEFINE K == Cardinality(Top(S))
<1>1. IsFiniteSet(Top(S)) /\ K \in Nat
  BY ConversationsAssumption, FS_Subset, FS_CardinalityType DEF Top
<1>2. \A c \in S : Place(c, S) \in Nat
  BY PlaceOrders
<1>3. ASSUME NEW c \in Top(S)
      PROVE  Place(c, S) < K
  <2>1. c \in S /\ Place(c, S) < InboxLimit
    BY DEF Top, Place
  <2>2. Before(c, S) \in SUBSET Top(S)
    <3> SUFFICES ASSUME NEW d \in Before(c, S)
                 PROVE  d \in Top(S)
      OBVIOUS
    <3>1. d \in S /\ Precedes(d, c)
      BY DEF Before
    <3>2. Place(d, S) < Place(c, S)
      BY <2>1, <3>1, PlaceOrders
    <3> QED
      BY <1>2, <2>1, <3>1, <3>2, InboxLimitAssumption DEF Top, Place
  <2>3. c \notin Before(c, S)
    <3>1. c \in Nat /\ Activity(c) \in Nat
      BY <2>1, RowType
    <3> QED
      BY <3>1 DEF Before, Precedes
  <2>4. Cardinality(Before(c, S)) <= K /\ (K = Cardinality(Before(c, S)) => Top(S) = Before(c, S))
    BY <1>1, <2>2, FS_Subset
  <2> QED
    BY <1>1, <1>2, <2>1, <2>3, <2>4 DEF Place
<1>4. ASSUME NEW n \in 1..K
      PROVE  \E c \in Top(S) : Place(c, S) = n - 1
  <2> DEFINE f == [c \in Top(S) |-> Place(c, S) + 1]
  <2>1. f \in [Top(S) -> 1..K]
    BY <1>1, <1>2, <1>3 DEF Top
  <2>2. \A c, d \in Top(S) : f[c] = f[d] => c = d
    <3> SUFFICES ASSUME NEW c \in Top(S), NEW d \in Top(S), f[c] = f[d]
                 PROVE  c = d
      OBVIOUS
    <3>1. c \in S /\ d \in S /\ Place(c, S) \in Nat /\ Place(d, S) \in Nat
      BY <1>2 DEF Top
    <3>2. Place(c, S) = Place(d, S)
      BY <3>1
    <3> HIDE DEF f
    <3> QED
      BY <3>1, <3>2, PlaceOrders
  <2>3. f \in Injection(Top(S), 1..K)
    BY <2>1, <2>2 DEF Injection, IsInjective
  <2>4. IsFiniteSet(1..K) /\ Cardinality(1..K) = K
    BY <1>1, FS_Interval
  <2>5. f \in Surjection(Top(S), 1..K)
    BY <2>3, <2>4, FS_Injection
  <2>6. PICK c \in Top(S) : f[c] = n
    BY <2>5 DEF Surjection
  <2> QED
    BY <1>2, <2>6 DEF Top
<1> QED
  BY <1>1, <1>3, <1>4

LEMMA TupleIsSequence ==
  ASSUME NEW R, NEW k \in Nat, NEW t \in [1..k -> R]
  PROVE  t \in Seq(R) /\ Len(t) = k
  OBVIOUS

LEMMA Concatenation ==
  ASSUME NEW R, NEW s \in Seq(R), NEW t \in Seq(R), NEW u, u = s \o t
  PROVE  /\ u \in Seq(R) /\ DOMAIN u = 1..(Len(s) + Len(t))
         /\ DOMAIN s = 1..Len(s) /\ Len(s) \in Nat /\ Len(t) \in Nat
         /\ \A n \in 1..Len(s) : u[n] = s[n]
         /\ \A n \in 1..Len(t) : u[Len(s) + n] = t[n]
  OBVIOUS

\* A page is the first rows in their order, each once, and all others of the
\* statement follow them.
LEMMA PageIsTop ==
  ASSUME TypeOK, NEW S \in SUBSET Conversations, NEW p, p = PageOf(S)
  PROVE  /\ p \in Seq([conversation : Conversations, at : 0..MaxTime])
         /\ \A n \in 1..Len(p) : p[n].conversation \in Top(S) /\ p[n] = Row(p[n].conversation)
         /\ \A c \in Top(S) : \E n \in 1..Len(p) : p[n] = Row(c)
         /\ \A m, n \in 1..Len(p) : m < n => Precedes(p[m].conversation, p[n].conversation)
         /\ \A c \in Top(S), d \in S \ Top(S) : Precedes(c, d)
         /\ S # Top(S) => Len(p) > 0
<1> DEFINE K == Cardinality(Top(S))
           At(n) == CHOOSE c \in S : Cardinality(Before(c, S)) = n - 1
<1>0. K \in Nat /\ Top(S) \subseteq S /\ \A c \in S : Place(c, S) \in Nat
  BY PlacesAreConsecutive, PlaceOrders DEF Top
<1>1. \A n \in 1..K : At(n) \in Top(S) /\ Place(At(n), S) = n - 1
  <2> SUFFICES ASSUME NEW n \in 1..K
               PROVE  At(n) \in Top(S) /\ Place(At(n), S) = n - 1
    OBVIOUS
  <2>1. PICK c \in Top(S) : Place(c, S) = n - 1
    BY PlacesAreConsecutive
  <2>2. At(n) \in S /\ Place(At(n), S) = n - 1
    BY <1>0, <2>1 DEF Place
  <2>3. At(n) = c
    BY <1>0, <2>1, <2>2, PlaceOrders
  <2> QED
    BY <2>1, <2>3
<1>2. p = [n \in 1..K |-> Row(At(n))]
  BY DEF PageOf
<1> HIDE DEF At
<1>3. /\ p \in Seq([conversation : Conversations, at : 0..MaxTime]) /\ Len(p) = K
      /\ \A n \in 1..K : p[n] = Row(At(n)) /\ p[n].conversation = At(n)
  <2>1. \A n \in 1..K : At(n) \in Conversations
    BY <1>0, <1>1
  <2>2. \A n \in 1..K : /\ Row(At(n)) \in [conversation : Conversations, at : 0..MaxTime]
                        /\ Row(At(n)).conversation = At(n)
    BY <2>1, RowType
  <2>3. \A n \in 1..K : p[n] = Row(At(n)) /\ p[n].conversation = At(n)
    BY <1>2, <2>2
  <2>4. p \in [1..K -> [conversation : Conversations, at : 0..MaxTime]]
    BY <1>2, <2>2
  <2>5. p \in Seq([conversation : Conversations, at : 0..MaxTime]) /\ Len(p) = K
    BY <1>0, <2>4, TupleIsSequence
  <2> QED
    BY <2>3, <2>5
<1>4. ASSUME NEW c \in Top(S)
      PROVE  \E n \in 1..Len(p) : p[n] = Row(c)
  <2>1. Place(c, S) < K
    BY PlacesAreConsecutive
  <2>2. PICK n \in 1..K : n = Place(c, S) + 1
    BY <1>0, <2>1
  <2>3. Place(At(n), S) = Place(c, S)
    BY <1>0, <1>1, <2>2
  <2>4. At(n) = c
    <3>1. At(n) \in S /\ c \in S
      BY <1>0, <1>1
    <3> QED
      BY <2>3, <3>1, PlaceOrders
  <2> QED
    BY <1>3, <2>4
<1>5. ASSUME NEW m \in 1..Len(p), NEW n \in 1..Len(p), m < n
      PROVE  Precedes(p[m].conversation, p[n].conversation)
  <2>1. At(m) \in S /\ At(n) \in S /\ Place(At(m), S) < Place(At(n), S)
    BY <1>0, <1>1, <1>3, <1>5
  <2> QED
    BY <1>3, <2>1, PlaceOrders
<1>6. ASSUME NEW c \in Top(S), NEW d \in S \ Top(S)
      PROVE  Precedes(c, d)
  <2>1. c \in S /\ Place(c, S) < InboxLimit /\ ~(Place(d, S) < InboxLimit)
    BY DEF Top, Place
  <2>2. Place(c, S) < Place(d, S)
    BY <1>0, <2>1, InboxLimitAssumption
  <2> QED
    BY <2>1, <2>2, PlaceOrders
<1>7. ASSUME S # Top(S)
      PROVE  Len(p) > 0
  <2>1. S # {}
    BY <1>0, <1>7
  <2> DEFINE Places == {Place(c, S) : c \in S}
  <2>2. Places \in SUBSET Nat /\ Places # {}
    BY <1>0, <2>1
  <2> HIDE DEF Places
  <2>3. PICK i \in Places : \A j \in Places : <<j, i>> \notin OpToRel(<, Nat)
    BY <2>2, NatLessThanWellFounded, WFMin
  <2>4. PICK c \in S : Place(c, S) = i
    BY DEF Places
  <2>5. \A d \in S : ~(Place(d, S) < Place(c, S))
    BY <1>0, <2>2, <2>3, <2>4 DEF OpToRel, Places
  <2>6. Before(c, S) = {}
    <3> SUFFICES ASSUME NEW d \in Before(c, S)
                 PROVE  FALSE
      OBVIOUS
    <3>1. d \in S /\ Precedes(d, c)
      BY DEF Before
    <3> QED
      BY <2>4, <2>5, <3>1, PlaceOrders
  <2>7. c \in Top(S)
    BY <2>4, <2>6, FS_EmptySet, InboxLimitAssumption DEF Top
  <2>8. K # 0
    BY <2>7, PlacesAreConsecutive, FS_EmptySet
  <2> QED
    BY <1>0, <1>3, <2>8
<1> QED
  BY <1>1, <1>3, <1>4, <1>5, <1>6, <1>7

-----------------------------------------------------------------------------
(* A page                                                                  *)

\* And so has a cursor.
LEMMA CursorType ==
  ASSUME NEW k \in [at : 0..(MaxTime + 1), id : Conversations \cup {0}]
  PROVE  MaxTime \in Nat /\ k.at \in 0..(MaxTime + 1) /\ k.at \in Nat /\ k.id \in Nat
<1>1. k.at \in 0..(MaxTime + 1) /\ k.id \in Conversations \cup {0}
  OBVIOUS
<1>2. MaxTime \in Nat
  BY MaxTimeAssumption
<1>3. \A c \in Conversations : c \in Nat
  BY ConversationsAssumption
<1>4. k.id \in Nat
  BY <1>1, <1>3
<1> QED
  BY <1>1, <1>2, <1>4

LEMMA RowFields ==
  ASSUME NEW row \in [conversation : Conversations, at : 0..MaxTime]
  PROVE  row.at \in Nat /\ row.conversation \in Nat
<1>1. row.at \in 0..MaxTime /\ row.conversation \in Conversations
  OBVIOUS
<1>2. row.conversation \in Nat
  BY <1>1, ConversationsAssumption
<1> QED
  BY <1>1, <1>2, MaxTimeAssumption

\* The cursor after a page tells its rows from those that are left, and lies
\* beyond the cursor before it.
LEMMA CursorSplits ==
  ASSUME TypeOK, NEW S, S = Following(cursor), NEW k, k = NextCursor(S, PageOf(S))
  PROVE  /\ k \in [at : 0..(MaxTime + 1), id : Conversations \cup {0}]
         /\ k # First
         /\ \A c \in S : c \in Top(S) <=> ~Follows(c, k)
         /\ \A c \in Conversations : Follows(c, k) => Follows(c, cursor)
         /\ k.at < cursor.at \/ (k.at = cursor.at /\ k.id <= cursor.id)
<1>0. /\ cursor.at \in 0..(MaxTime + 1) /\ cursor.id \in Nat
      /\ MaxTime \in Nat
      /\ \A c \in Conversations : c \in Nat /\ c > 0 /\ Activity(c) \in Nat /\ Activity(c) <= MaxTime
  <2>1. cursor \in [at : 0..(MaxTime + 1), id : Conversations \cup {0}]
    BY DEF TypeOK
  <2> QED
    BY <2>1, CursorType, RowType
<1>1. S \in SUBSET Conversations /\ \A c \in S : Follows(c, cursor)
  BY DEF Following
<1>2. CASE S = Top(S)
  <2>1. k = Last /\ k.at = 0 /\ k.id = 0
    BY <1>2 DEF NextCursor, Last
  <2>2. \A c \in Conversations : ~Follows(c, k)
    BY <1>0, <2>1 DEF Follows
  <2>3. k # First /\ k \in [at : 0..(MaxTime + 1), id : Conversations \cup {0}]
    BY <1>0, <2>1 DEF First, Last
  <2> QED
    BY <1>0, <1>1, <1>2, <2>1, <2>2, <2>3
<1>3. CASE S # Top(S)
  <2> DEFINE p == PageOf(S)
  <2>1. /\ Len(p) \in Nat /\ Len(p) > 0
        /\ \A n \in 1..Len(p) : p[n].conversation \in Top(S) /\ p[n] = Row(p[n].conversation)
        /\ \A c \in Top(S) : \E n \in 1..Len(p) : p[n] = Row(c)
        /\ \A m, n \in 1..Len(p) : m < n => Precedes(p[m].conversation, p[n].conversation)
        /\ \A c \in Top(S), d \in S \ Top(S) : Precedes(c, d)
    BY <1>1, <1>3, PageIsTop
  <2> HIDE DEF p
  <2> DEFINE e == p[Len(p)].conversation
  <2>2. e \in Top(S) /\ e \in S /\ e \in Conversations /\ p[Len(p)] = Row(e)
    BY <1>1, <2>1 DEF Top
  <2>3. k = [at |-> Activity(e), id |-> e]
    <3>1. k = [at |-> p[Len(p)].at, id |-> e]
      BY <1>3 DEF NextCursor, p
    <3> QED
      BY <2>2, <3>1, RowType
  <2> HIDE DEF e
  <2>4. k.at = Activity(e) /\ k.id = e
    BY <2>3
  <2>5. \A c \in Conversations : Follows(c, k) <=> Precedes(e, c)
    BY <1>0, <2>2, <2>4 DEF Follows, Precedes
  <2>6. ASSUME NEW c \in Top(S)
        PROVE  ~Precedes(e, c)
    <3>1. c \in Conversations
      BY <1>1 DEF Top
    <3>2. PICK n \in 1..Len(p) : p[n] = Row(c)
      BY <2>1
    <3>3. c = p[n].conversation
      BY <3>1, <3>2, RowType
    <3>4. CASE n = Len(p)
      BY <1>0, <3>1, <3>3, <3>4 DEF e, Precedes
    <3>5. CASE n # Len(p)
      <4>1. Precedes(c, e)
        BY <2>1, <3>3, <3>5 DEF e
      <4> QED
        BY <1>0, <2>2, <3>1, <4>1 DEF Precedes
    <3> QED
      BY <3>4, <3>5
  <2>7. \A c \in S : c \in Top(S) <=> ~Follows(c, k)
    BY <1>1, <2>1, <2>2, <2>5, <2>6
  <2>8. Follows(e, cursor)
    BY <1>1, <2>2
  <2>9. \A c \in Conversations : Follows(c, k) => Follows(c, cursor)
    BY <1>0, <2>2, <2>5, <2>8 DEF Follows, Precedes
  <2>10. k.at < cursor.at \/ (k.at = cursor.at /\ k.id <= cursor.id)
    BY <1>0, <2>2, <2>4, <2>8 DEF Follows
  <2>11. k # First /\ k \in [at : 0..(MaxTime + 1), id : Conversations \cup {0}]
    BY <1>0, <2>2, <2>3, <2>4 DEF First
  <2> QED
    BY <2>7, <2>9, <2>10, <2>11
<1> QED
  BY <1>2, <1>3

\* What a page does to what has been shown, to what has moved and to the cursor.
LEMMA ListingStep ==
  ASSUME InboxInv, ListConversations
  PROVE  /\ TypeOK' /\ NothingBeforeFirst' /\ ShownOfReader' /\ ShownBeforeCursor'
         /\ ShownInOrder' /\ SteadyInPlace'
<1>0. /\ TypeOK /\ ShownOfReader /\ ShownBeforeCursor /\ ShownInOrder /\ SteadyInPlace
      /\ UNCHANGED <<chatVars, clock, sentAt, stamp, moved>>
  BY DEF InboxInv, ListConversations
<1> DEFINE Shown == [conversation : Conversations, at : 0..MaxTime]
<1>1. PICK S : S = Following(cursor)
  OBVIOUS
<1>2. PICK p : p = PageOf(S)
  OBVIOUS
<1>3. PICK s : s = shown
  OBVIOUS
<1>4. PICK k : k = cursor'
  OBVIOUS
<1>5. /\ k = NextCursor(S, PageOf(S))
      /\ shown' = s \o p
      /\ S \in SUBSET Conversations
      /\ \A c \in Conversations : c \in S <=> Reader \in Parties[c] /\ Follows(c, cursor)
  BY <1>1, <1>2, <1>3, <1>4 DEF ListConversations, Following
<1>6. /\ k \in [at : 0..(MaxTime + 1), id : Conversations \cup {0}]
      /\ k # First
      /\ \A c \in S : c \in Top(S) <=> ~Follows(c, k)
      /\ \A c \in Conversations : Follows(c, k) => Follows(c, cursor)
      /\ k.at < cursor.at \/ (k.at = cursor.at /\ k.id <= cursor.id)
  BY <1>0, <1>1, <1>5, CursorSplits
<1>7. /\ p \in Seq(Shown)
      /\ \A n \in 1..Len(p) : p[n].conversation \in Top(S) /\ p[n] = Row(p[n].conversation)
      /\ \A c \in Top(S) : \E n \in 1..Len(p) : p[n] = Row(c)
      /\ \A m, n \in 1..Len(p) : m < n => Precedes(p[m].conversation, p[n].conversation)
  <2>1. TypeOK /\ S \in SUBSET Conversations
    BY <1>0, <1>5
  <2> HIDE DEF Shown
  <2>2. /\ p \in Seq([conversation : Conversations, at : 0..MaxTime])
        /\ \A n \in 1..Len(p) : p[n].conversation \in Top(S) /\ p[n] = Row(p[n].conversation)
        /\ \A c \in Top(S) : \E n \in 1..Len(p) : p[n] = Row(c)
        /\ \A m, n \in 1..Len(p) : m < n => Precedes(p[m].conversation, p[n].conversation)
    <3> DEFINE page == PageOf(S)
    <3>1. /\ page \in Seq([conversation : Conversations, at : 0..MaxTime])
          /\ \A n \in 1..Len(page) : page[n].conversation \in Top(S) /\ page[n] = Row(page[n].conversation)
          /\ \A c \in Top(S) : \E n \in 1..Len(page) : page[n] = Row(c)
          /\ \A m, n \in 1..Len(page) :
               m < n => Precedes(page[m].conversation, page[n].conversation)
          /\ \A c \in Top(S), d \in S \ Top(S) : Precedes(c, d)
          /\ S # Top(S) => Len(page) > 0
      BY <2>1, PageIsTop, Zenon
    <3> QED
      BY <1>2, <3>1
  <2> QED
    BY <2>2 DEF Shown
<1>8. s \in Seq(Shown)
  BY <1>0, <1>3 DEF TypeOK
<1>9. PICK L \in Nat, M \in Nat : L = Len(s) /\ M = Len(p)
  BY <1>7, <1>8
<1>10. /\ shown' \in Seq(Shown) /\ DOMAIN shown' = 1..(L + M) /\ DOMAIN shown = 1..L
       /\ \A n \in 1..L : shown'[n] = shown[n]
       /\ \A n \in 1..M : shown'[L + n] = p[n]
       /\ \A n \in 1..L : shown[n] \in Shown
  <2> HIDE DEF Shown
  <2>1. s \in Seq(Shown) /\ p \in Seq(Shown) /\ shown' = s \o p
    BY <1>5, <1>7, <1>8
  <2>2. /\ shown' \in Seq(Shown) /\ DOMAIN shown' = 1..(Len(s) + Len(p))
        /\ DOMAIN s = 1..Len(s)
        /\ \A n \in 1..Len(s) : shown'[n] = s[n]
        /\ \A n \in 1..Len(p) : shown'[Len(s) + n] = p[n]
    BY <2>1, Concatenation
  <2>3. \A n \in 1..L : s[n] \in Shown
    BY <1>8, <1>9
  <2>4. /\ shown' \in Seq(Shown) /\ DOMAIN shown' = 1..(L + M) /\ DOMAIN s = 1..L
        /\ \A n \in 1..L : shown'[n] = s[n]
        /\ \A n \in 1..M : shown'[L + n] = p[n]
    BY <1>9, <2>2
  <2> QED
    BY <1>3, <2>3, <2>4
<1>11. \A c \in Conversations :
         /\ c \in Nat /\ c > 0 /\ Activity(c) \in Nat /\ Activity(c)' = Activity(c)
         /\ Row(c).conversation = c /\ Row(c).at = Activity(c)
  BY <1>0, RowType DEF Activity, chatVars, dbVars
<1>12. \A c \in Conversations : Follows(c, cursor)' <=> Follows(c, k)
  BY <1>4, <1>11 DEF Follows
<1>13. MaxTime \in Nat /\ cursor.at \in Nat /\ cursor.id \in Nat /\ k.at \in Nat /\ k.id \in Nat
  <2>1. cursor \in [at : 0..(MaxTime + 1), id : Conversations \cup {0}]
    BY <1>0 DEF TypeOK
  <2> QED
    BY <1>6, <2>1, CursorType
<1>14. \A n \in 1..M : \E c \in Top(S) :
          /\ c \in S /\ c \in Conversations /\ Follows(c, cursor) /\ ~Follows(c, k)
          /\ shown'[L + n].conversation = c /\ shown'[L + n].at = Activity(c) /\ p[n].conversation = c
  <2> SUFFICES ASSUME NEW n \in 1..M
               PROVE  \E c \in Top(S) :
                        /\ c \in S /\ c \in Conversations /\ Follows(c, cursor) /\ ~Follows(c, k)
                        /\ shown'[L + n].conversation = c /\ shown'[L + n].at = Activity(c)
                        /\ p[n].conversation = c
    OBVIOUS
  <2>1. p[n].conversation \in Top(S) /\ p[n] = Row(p[n].conversation) /\ shown'[L + n] = p[n]
    BY <1>7, <1>9, <1>10
  <2>2. p[n].conversation \in S /\ p[n].conversation \in Conversations
    BY <1>5, <2>1 DEF Top
  <2> QED
    BY <1>5, <1>6, <1>11, <2>1, <2>2
<1>15. \A n \in DOMAIN shown' : n \in 1..L \/ \E i \in 1..M : n = L + i
  <2> SUFFICES ASSUME NEW n \in 1..(L + M), n \notin 1..L
               PROVE  \E i \in 1..M : n = L + i
    BY <1>10
  <2>1. n - L \in 1..M /\ n = L + (n - L)
    OBVIOUS
  <2> QED
    BY <2>1
<1>16. \A c : (\A i \in 1..M : shown'[L + i].conversation # c) => Times(c)' = Times(c)
  <2> SUFFICES ASSUME NEW c, \A i \in 1..M : shown'[L + i].conversation # c
               PROVE  Times(c)' = Times(c)
    OBVIOUS
  <2>1. \A n \in 1..L : n \in DOMAIN shown' /\ n \in DOMAIN shown /\ shown'[n] = shown[n]
    BY <1>10
  <2>2. \A n \in DOMAIN shown' : shown'[n].conversation = c => n \in 1..L
    BY <1>15
  <2> QED
    BY <1>10, <2>1, <2>2 DEF Times
<1>17. TypeOK'
  BY <1>0, <1>4, <1>6, <1>10 DEF TypeOK, ChatTypeOK, chatVars, dbVars
<1>18. NothingBeforeFirst'
  BY <1>4, <1>6 DEF NothingBeforeFirst
<1>19. ShownOfReader'
  <2> SUFFICES ASSUME NEW n \in DOMAIN shown'
               PROVE  Reader \in Parties[shown'[n].conversation]
    BY DEF ShownOfReader
  <2>1. CASE n \in 1..L
    BY <1>0, <1>10, <2>1 DEF ShownOfReader
  <2>2. ASSUME NEW i \in 1..M, n = L + i
        PROVE  Reader \in Parties[shown'[n].conversation]
    BY <1>5, <1>14, <2>2
  <2> QED
    BY <1>15, <2>1, <2>2
<1>20. ShownBeforeCursor'
  <2> SUFFICES ASSUME NEW n \in DOMAIN shown'
               PROVE  \/ shown'[n].at > k.at
                      \/ shown'[n].at = k.at /\ shown'[n].conversation >= k.id
    BY <1>4 DEF ShownBeforeCursor
  <2>1. CASE n \in 1..L
    <3>1. shown[n].at \in Nat /\ shown[n].conversation \in Nat /\ shown'[n] = shown[n]
      BY <1>10, <2>1, RowFields
    <3>2. \/ shown[n].at > cursor.at
          \/ shown[n].at = cursor.at /\ shown[n].conversation >= cursor.id
      BY <1>0, <1>10, <2>1 DEF ShownBeforeCursor
    <3> QED
      BY <1>6, <1>13, <3>1, <3>2
  <2>2. ASSUME NEW i \in 1..M, n = L + i
        PROVE  \/ shown'[n].at > k.at
               \/ shown'[n].at = k.at /\ shown'[n].conversation >= k.id
    BY <1>11, <1>13, <1>14, <2>2 DEF Follows
  <2> QED
    BY <1>15, <2>1, <2>2
<1>21. ShownInOrder'
  <2> SUFFICES ASSUME NEW m \in DOMAIN shown', NEW n \in DOMAIN shown', m < n
               PROVE  \/ shown'[n].at < shown'[m].at
                      \/ /\ shown'[n].at = shown'[m].at
                         /\ shown'[n].conversation < shown'[m].conversation
    BY DEF ShownInOrder
  <2>1. CASE n \in 1..L
    <3>1. m \in 1..L
      BY <1>10, <2>1
    <3> QED
      BY <1>0, <1>10, <2>1, <3>1 DEF ShownInOrder
  <2>2. ASSUME NEW j \in 1..M, n = L + j, m \in 1..L
        PROVE  \/ shown'[n].at < shown'[m].at
               \/ /\ shown'[n].at = shown'[m].at
                  /\ shown'[n].conversation < shown'[m].conversation
    <3>1. shown[m].at \in Nat /\ shown[m].conversation \in Nat /\ shown'[m] = shown[m]
      BY <1>10, <2>2, RowFields
    <3>2. \/ shown[m].at > cursor.at
          \/ shown[m].at = cursor.at /\ shown[m].conversation >= cursor.id
      BY <1>0, <1>10, <2>2 DEF ShownBeforeCursor
    <3>3. PICK c \in Top(S) : /\ c \in Conversations /\ Follows(c, cursor)
                              /\ shown'[n].conversation = c /\ shown'[n].at = Activity(c)
      BY <1>14, <2>2
    <3> QED
      BY <1>11, <1>13, <3>1, <3>2, <3>3 DEF Follows
  <2>3. ASSUME NEW i \in 1..M, m = L + i, NEW j \in 1..M, n = L + j
        PROVE  \/ shown'[n].at < shown'[m].at
               \/ /\ shown'[n].at = shown'[m].at
                  /\ shown'[n].conversation < shown'[m].conversation
    <3>1. i < j
      BY <2>3
    <3>2. Precedes(p[i].conversation, p[j].conversation)
      BY <1>7, <1>9, <3>1
    <3>3. PICK c \in Conversations : /\ shown'[m].conversation = c /\ shown'[m].at = Activity(c)
                                     /\ p[i].conversation = c
      BY <1>14, <2>3
    <3>4. PICK d \in Conversations : /\ shown'[n].conversation = d /\ shown'[n].at = Activity(d)
                                     /\ p[j].conversation = d
      BY <1>14, <2>3
    <3> QED
      BY <1>11, <3>2, <3>3, <3>4 DEF Precedes
  <2> QED
    BY <1>15, <2>1, <2>2, <2>3
<1>22. SteadyInPlace'
  <2> SUFFICES ASSUME NEW c \in Conversations \ moved, Reader \in Parties[c]
               PROVE  IF Follows(c, k) THEN Times(c)' = {}
                      ELSE \E n \in DOMAIN shown' : Times(c)' = {n} /\ shown'[n].at = Activity(c)
    BY <1>0, <1>11, <1>12 DEF SteadyInPlace
  <2>0. IF Follows(c, cursor) THEN Times(c) = {}
        ELSE \E n \in DOMAIN shown : Times(c) = {n} /\ shown[n].at = Activity(c)
    BY <1>0 DEF SteadyInPlace
  <2>1. CASE ~Follows(c, cursor)
    <3>1. PICK n \in 1..L : Times(c) = {n} /\ shown[n].at = Activity(c)
      BY <1>10, <2>0, <2>1
    <3>2. ~Follows(c, k)
      BY <1>6, <2>1
    <3>3. \A i \in 1..M : shown'[L + i].conversation # c
      BY <1>14, <2>1
    <3>4. Times(c)' = Times(c)
      BY <1>16, <3>3
    <3>5. n \in DOMAIN shown' /\ shown'[n] = shown[n]
      BY <1>9, <1>10
    <3> QED
      BY <3>1, <3>2, <3>4, <3>5
  <2>2. CASE Follows(c, cursor) /\ Follows(c, k)
    <3>1. \A i \in 1..M : shown'[L + i].conversation # c
      BY <1>14, <2>2
    <3>2. Times(c)' = Times(c)
      BY <1>16, <3>1
    <3> QED
      BY <2>0, <2>2, <3>2
  <2>3. CASE Follows(c, cursor) /\ ~Follows(c, k)
    <3>1. c \in Top(S)
      BY <1>5, <1>6, <2>3
    <3>2. PICK i \in 1..M : p[i] = Row(c)
      BY <1>7, <1>9, <3>1
    <3>3. /\ L + i \in DOMAIN shown'
          /\ shown'[L + i].conversation = c /\ shown'[L + i].at = Activity(c)
          /\ p[i].conversation = c
      BY <1>10, <1>11, <3>2
    <3>4. ASSUME NEW j \in 1..M, shown'[L + j].conversation = c
          PROVE  j = i
      <4>1. p[j].conversation = c
        BY <1>10, <3>4
      <4>2. ~Precedes(c, c)
        BY <1>11 DEF Precedes
      <4>3. ~(i < j) /\ ~(j < i)
        BY <1>7, <1>9, <3>3, <4>1, <4>2
      <4> QED
        BY <4>3
    <3>5. \A n \in 1..L : shown'[n].conversation # c
      BY <1>10, <2>0, <2>3 DEF Times
    <3>6. Times(c)' = {L + i}
      BY <1>15, <3>3, <3>4, <3>5 DEF Times
    <3> QED
      BY <2>3, <3>3, <3>6
  <2> QED
    BY <2>1, <2>2, <2>3
<1> QED
  BY <1>17, <1>18, <1>20, <1>21, <1>22, <1>19

-----------------------------------------------------------------------------
(* The sends and marks                                                     *)

\* Every step of the inbox is a step of the messages or leaves them alone.
LEMMA InboxSteps == [Next]_vars => [ChatNext]_chatVars
<1>1. ListConversations \/ Tick \/ UNCHANGED vars => UNCHANGED chatVars
  BY DEF ListConversations, Tick, vars
<1>2. ASSUME NEW r \in Sends, BeginSend(r) \/ StampMessage(r) \/ CommitMessage(r)
      PROVE  ChatNext
  BY <1>2 DEF BeginSend, StampMessage, CommitMessage, ChatNext, Send
<1>3. OtherStep => ChatNext
  BY DEF OtherStep, ChatNext, Send
<1> QED
  BY <1>1, <1>2, <1>3 DEF Next

\* What the steps do that are not a page.
LEMMA StepForms ==
  ASSUME TypeOK, [Next]_vars, ~ListConversations
  PROVE  /\ UNCHANGED <<cursor, shown>>
         /\ \/ UNCHANGED <<rows, lastMessageAt, sentAt, stamp, moved>>
               /\ \A q \in Sends : send[q] = Idle => send'[q] = Idle
            \/ \E r \in Sends :
                 /\ BeginSend(r)
                 /\ UNCHANGED <<rows, lastMessageAt, readPointer, mark, stamp, moved>>
                 /\ \A q \in Sends \ {r} : send'[q] = send[q]
            \/ \E r \in Sends :
                 /\ StampMessage(r) /\ send[r] # Idle
                 /\ UNCHANGED <<rows, lastMessageAt, readPointer, mark, sentAt, moved>>
                 /\ \A q \in Sends \ {r} : send'[q] = send[q]
            \/ \E r \in Sends :
                 /\ CommitMessage(r) /\ send[r] # Idle /\ send[r] \in SendRecord
                 /\ UNCHANGED <<readPointer, mark, sentAt, stamp>>
                 /\ \A q \in Sends \ {r} : send'[q] = send[q]
<1>0. ChatTypeOK /\ DOMAIN send = Sends
  BY DEF TypeOK, ChatTypeOK
<1>1. ASSUME Tick \/ UNCHANGED vars
      PROVE  UNCHANGED <<cursor, shown, rows, lastMessageAt, sentAt, stamp, moved, send>>
  BY <1>1 DEF Tick, vars, walkVars, chatVars, dbVars
<1>2. ASSUME NEW r \in Sends, BeginSend(r)
      PROVE  /\ UNCHANGED <<cursor, shown, rows, lastMessageAt, readPointer, mark, stamp, moved>>
             /\ \A q \in Sends \ {r} : send'[q] = send[q]
  BY <1>0, <1>2 DEF BeginSend, SendMessage, dbVars, walkVars
<1>3. ASSUME NEW r \in Sends, StampMessage(r)
      PROVE  /\ UNCHANGED <<cursor, shown, rows, lastMessageAt, readPointer, mark, sentAt, moved>>
             /\ send[r] # Idle /\ \A q \in Sends \ {r} : send'[q] = send[q]
  BY <1>0, <1>3 DEF StampMessage, InsertMessage, walkVars, Idle
<1>4. ASSUME NEW r \in Sends, CommitMessage(r)
      PROVE  /\ UNCHANGED <<cursor, shown, readPointer, mark, sentAt, stamp>>
             /\ send[r] # Idle /\ send[r] \in SendRecord
             /\ \A q \in Sends \ {r} : send'[q] = send[q]
  <2>1. send[r].step = "updated"
    BY <1>4 DEF CommitMessage, Commit
  <2>2. send[r] # Idle /\ send[r] \in SendRecord
    BY <1>0, <2>1, SendForm DEF Step, InTransaction, Idle
  <2> QED
    BY <1>0, <1>4, <2>2 DEF CommitMessage, Commit, Goto
<1>5. ASSUME OtherStep
      PROVE  /\ UNCHANGED <<cursor, shown, rows, lastMessageAt, sentAt, stamp, moved>>
             /\ \A q \in Sends : send[q] = Idle => send'[q] = Idle
  <2>1. ASSUME NEW r \in Sends, UpdateConversationLastMessageAt(r) \/ Abort(r)
        PROVE  /\ UNCHANGED <<rows, lastMessageAt>>
               /\ \A q \in Sends : send[q] = Idle => send'[q] = Idle
    <3>1. send[r] # Idle
      BY <2>1 DEF UpdateConversationLastMessageAt, Abort, Idle
    <3>2. \A q \in Sends \ {r} : send'[q] = send[q]
      BY <1>0, <2>1 DEF UpdateConversationLastMessageAt, Abort, Goto
    <3> QED
      BY <2>1, <3>1, <3>2 DEF UpdateConversationLastMessageAt, Abort
  <2>2. ASSUME NEW k \in Marks, Mark(k)
        PROVE  UNCHANGED <<rows, lastMessageAt, send>>
    BY <2>2 DEF Mark, MarkConversationRead, AdvanceReadPointer, dbVars
  <2>3. ASSUME Crash
        PROVE  /\ UNCHANGED <<rows, lastMessageAt>>
               /\ \A q \in Sends : send[q] = Idle => send'[q] = Idle
    BY <2>3 DEF Crash
  <2> QED
    BY <1>5, <2>1, <2>2, <2>3 DEF OtherStep, walkVars
<1>6. \/ Tick \/ UNCHANGED vars \/ OtherStep
      \/ \E r \in Sends : BeginSend(r) \/ StampMessage(r) \/ CommitMessage(r)
  BY DEF Next
<1> QED
  BY <1>1, <1>2, <1>3, <1>4, <1>5, <1>6

\* The message a conversation's activity comes from is a row.
LEMMA LastIsWritten ==
  ASSUME Inv, ActivityIsLastCommit, NEW c \in Conversations, lastMessageAt[c] # 0
  PROVE  lastMessageAt[c] <= lastId
<1> DEFINE here == {i \in DOMAIN commits : commits[i] \in Committed(c)}
<1>1. IF here = {} THEN lastMessageAt[c] = 0
      ELSE \E i \in here : (\A j \in here : j <= i) /\ lastMessageAt[c] = commits[i]
  BY DEF ActivityIsLastCommit
<1>2. lastMessageAt[c] \in Committed(c)
  BY <1>1
<1> QED
  BY <1>2 DEF Committed, Inv, IdsAreOwned

\* A conversation keeps its place until a commit in it.
LEMMA StaysPut ==
  ASSUME InboxInv, Inv, ActivityIsLastCommit, [Next]_vars, ~ListConversations
  PROVE  /\ UNCHANGED <<cursor, shown>>
         /\ moved \subseteq moved' /\ moved' \subseteq Conversations
         /\ cursor = First => moved' = moved
         /\ cursor # First => \A c \in Conversations \ moved' : Activity(c)' = Activity(c)
<1>0. TypeOK /\ moved \subseteq Conversations
  BY DEF InboxInv, TypeOK
<1>1. UNCHANGED <<cursor, shown>>
  BY <1>0, StepForms
<1>2. ASSUME UNCHANGED <<lastMessageAt, stamp, moved>>
      PROVE  moved' = moved /\ \A c \in Conversations : Activity(c)' = Activity(c)
  BY <1>2 DEF Activity
<1>3. ASSUME NEW r \in Sends, StampMessage(r), UNCHANGED <<lastMessageAt, moved>>
      PROVE  moved' = moved /\ \A c \in Conversations : Activity(c)' = Activity(c)
  <2>1. stamp' = [stamp EXCEPT ![lastId'] = sentAt[r]] /\ lastId' = lastId + 1 /\ lastId \in Nat
    BY <1>0, <1>3, Sizes DEF StampMessage, InsertMessage, TypeOK, ChatTypeOK
  <2>2. ASSUME NEW c \in Conversations, lastMessageAt[c] # 0
        PROVE  stamp'[lastMessageAt[c]] = stamp[lastMessageAt[c]]
    <3>1. lastMessageAt[c] <= lastId /\ lastMessageAt[c] \in 0..MaxId
      BY <1>0, <2>2, LastIsWritten DEF TypeOK, ChatTypeOK
    <3>2. lastMessageAt[c] \in Ids /\ lastMessageAt[c] # lastId'
      BY <2>1, <2>2, <3>1, Sizes DEF Ids
    <3> QED
      BY <1>0, <2>1, <3>2 DEF TypeOK
  <2> QED
    BY <1>3, <2>2 DEF Activity
<1>4. ASSUME NEW r \in Sends, CommitMessage(r), send[r] \in SendRecord, UNCHANGED stamp
      PROVE  /\ moved \subseteq moved' /\ moved' \subseteq Conversations
             /\ cursor = First => moved' = moved
             /\ cursor # First => \A c \in Conversations \ moved' : Activity(c)' = Activity(c)
  <2>1. /\ moved' = IF cursor = First THEN moved ELSE moved \cup {send[r].conversation}
        /\ lastMessageAt' = [lastMessageAt EXCEPT ![send[r].conversation] = send[r].id]
        /\ DOMAIN lastMessageAt = Conversations /\ send[r].conversation \in Conversations
    BY <1>0, <1>4 DEF CommitMessage, Commit, TypeOK, ChatTypeOK, SendRecord
  <2>2. cursor # First =>
          \A c \in Conversations \ moved' : lastMessageAt'[c] = lastMessageAt[c]
    BY <2>1
  <2> QED
    BY <1>0, <1>4, <2>1, <2>2 DEF Activity
<1> QED
  BY <1>0, <1>1, <1>2, <1>3, <1>4, StepForms

\* Between the pages the rows shown keep their places.
LEMMA WalkStep ==
  ASSUME InboxInv, Inv, ActivityIsLastCommit, [Next]_vars, ~ListConversations, TypeOK'
  PROVE  /\ NothingBeforeFirst' /\ ShownOfReader' /\ ShownBeforeCursor'
         /\ ShownInOrder' /\ SteadyInPlace'
<1>0. /\ UNCHANGED <<cursor, shown>>
      /\ moved \subseteq moved' /\ moved' \subseteq Conversations
      /\ cursor = First => moved' = moved
      /\ cursor # First => \A c \in Conversations \ moved' : Activity(c)' = Activity(c)
  BY StaysPut
<1>1. NothingBeforeFirst /\ ShownOfReader /\ ShownBeforeCursor /\ ShownInOrder /\ SteadyInPlace
  BY DEF InboxInv
<1>2. NothingBeforeFirst' /\ ShownOfReader' /\ ShownBeforeCursor' /\ ShownInOrder'
  BY <1>0, <1>1 DEF NothingBeforeFirst, ShownOfReader, ShownBeforeCursor, ShownInOrder
<1>3. CASE cursor = First
  <2>1. ASSUME NEW c \in Conversations
        PROVE  Follows(c, cursor)' /\ Times(c)' = {}
    <3>1. Activity(c)' \in 0..MaxTime /\ MaxTime \in Nat
      <4>1. \A d \in Conversations : Activity(d)' \in 0..MaxTime
        BY LateActivityType
      <4> QED
        BY <4>1, MaxTimeAssumption
    <3>2. cursor' = [at |-> MaxTime + 1, id |-> 0]
      BY <1>0, <1>3 DEF First
    <3>3. shown' = <<>>
      BY <1>0, <1>1, <1>3 DEF NothingBeforeFirst
    <3>4. Follows(c, cursor)'
      BY <3>1, <3>2 DEF Follows
    <3>5. Times(c)' = {}
      BY <3>3 DEF Times
    <3> QED
      BY <3>4, <3>5
  <2> QED
    BY <1>2, <2>1 DEF SteadyInPlace
<1>4. CASE cursor # First
  <2> SUFFICES ASSUME NEW c \in Conversations \ moved', Reader \in Parties[c]
               PROVE  (IF Follows(c, cursor) THEN Times(c) = {}
                       ELSE \E n \in DOMAIN shown : Times(c) = {n} /\ shown[n].at = Activity(c))'
    BY <1>2 DEF SteadyInPlace
  <2>1. Activity(c)' = Activity(c) /\ c \in Conversations \ moved
    BY <1>0, <1>4
  <2>2. (Follows(c, cursor)' <=> Follows(c, cursor)) /\ Times(c)' = Times(c)
    BY <1>0, <2>1 DEF Follows, Times
  <2>3. IF Follows(c, cursor) THEN Times(c) = {}
        ELSE \E n \in DOMAIN shown : Times(c) = {n} /\ shown[n].at = Activity(c)
    BY <1>1, <2>1 DEF SteadyInPlace
  <2> QED
    BY <1>0, <2>1, <2>2, <2>3
<1> QED
  BY <1>2, <1>3, <1>4


\* A send's clock is read at its beginning.
LEMMA TimesStep ==
  ASSUME InboxInv, Inv, [Next]_vars
  PROVE  TypeOK' /\ SentInTime'
<1>0. /\ TypeOK /\ SentInTime /\ clock \in 1..MaxTime
      /\ sentAt \in [Sends -> 0..MaxTime] /\ stamp \in [Ids -> 1..MaxTime]
  BY DEF InboxInv, TypeOK
<1>1. CASE ListConversations
  <2>1. TypeOK'
    BY <1>1, ListingStep
  <2> QED
    BY <1>0, <1>1, <2>1 DEF ListConversations, SentInTime, chatVars
<1>2. CASE ~ListConversations
  <2>1. ChatTypeOK'
    BY InboxSteps, ChatTypeStep
  <2>2. UNCHANGED <<cursor, shown>> /\ moved' \subseteq Conversations
    <3>1. moved \subseteq Conversations
      BY <1>0 DEF TypeOK
    <3>2. ASSUME NEW r \in Sends, CommitMessage(r), send[r] \in SendRecord
          PROVE  moved' \subseteq Conversations
      BY <3>1, <3>2 DEF CommitMessage, SendRecord
    <3> QED
      BY <1>0, <1>2, <3>1, <3>2, StepForms
  <2>3. clock' \in 1..MaxTime
    BY <1>0, <1>2, MaxTimeAssumption
       DEF Next, Tick, BeginSend, StampMessage, CommitMessage, OtherStep, vars
  <2>4. /\ sentAt' \in [Sends -> 0..MaxTime] /\ SentInTime'
        /\ stamp' \in [Ids -> 1..MaxTime]
    <3>1. CASE /\ UNCHANGED <<sentAt, stamp>>
               /\ \A q \in Sends : send[q] = Idle => send'[q] = Idle
      BY <1>0, <3>1 DEF SentInTime
    <3>2. ASSUME NEW r \in Sends, BeginSend(r), UNCHANGED stamp,
                 \A q \in Sends \ {r} : send'[q] = send[q]
          PROVE  /\ sentAt' \in [Sends -> 0..MaxTime] /\ SentInTime'
                 /\ stamp' \in [Ids -> 1..MaxTime]
      <4>1. sentAt' = [sentAt EXCEPT ![r] = clock] /\ clock \in 0..MaxTime /\ clock > 0
        BY <1>0, <3>2, MaxTimeAssumption DEF BeginSend
      <4> QED
        BY <1>0, <3>2, <4>1 DEF SentInTime
    <3>3. ASSUME NEW r \in Sends, StampMessage(r), send[r] # Idle, UNCHANGED sentAt,
                 \A q \in Sends \ {r} : send'[q] = send[q]
          PROVE  /\ sentAt' \in [Sends -> 0..MaxTime] /\ SentInTime'
                 /\ stamp' \in [Ids -> 1..MaxTime]
      <4>1. stamp' = [stamp EXCEPT ![lastId'] = sentAt[r]]
        BY <3>3 DEF StampMessage
      <4>2. sentAt[r] \in 1..MaxTime
        BY <1>0, <3>3, MaxTimeAssumption DEF SentInTime
      <4> QED
        BY <1>0, <3>3, <4>1, <4>2 DEF SentInTime
    <3>4. ASSUME NEW r \in Sends, send[r] # Idle, UNCHANGED <<sentAt, stamp>>,
                 \A q \in Sends \ {r} : send'[q] = send[q]
          PROVE  /\ sentAt' \in [Sends -> 0..MaxTime] /\ SentInTime'
                 /\ stamp' \in [Ids -> 1..MaxTime]
      BY <1>0, <3>4 DEF SentInTime
    <3> QED
      BY <1>0, <1>2, <3>1, <3>2, <3>3, <3>4, StepForms
  <2> QED
    BY <1>0, <2>1, <2>2, <2>3, <2>4 DEF TypeOK
<1> QED
  BY <1>1, <1>2

\* Messages stay, and what a mark has looked up stays looked up.
LEMMA PointersStep ==
  ASSUME Inv, PointersNameMessages, IsFiniteSet(rows), [ChatNext]_chatVars
  PROVE  PointersNameMessages' /\ IsFiniteSet(rows')
<1>0. ChatTypeOK /\ PointersNameMessages
  BY DEF Inv
<1> DEFINE Named(c, u) == readPointer[c][u] # 0 => readPointer[c][u] \in Committed(c)
           Looked(k) == mark[k].step = "advancing" => mark[k].id \in Committed(mark[k].conversation)
<1>1. \/ UNCHANGED rows
      \/ \E r \in Sends : Commit(r) /\ UNCHANGED <<readPointer, mark>>
  BY DEF ChatNext, Send, SendMessage, InsertMessage, UpdateConversationLastMessageAt, Abort,
         PublishMessageCreated, Commit, Mark, MarkConversationRead, AdvanceReadPointer, Crash,
         chatVars, dbVars
<1>2. rows \subseteq rows' /\ IsFiniteSet(rows')
  <2>1. ASSUME NEW r \in Sends, Commit(r)
        PROVE  rows \subseteq rows' /\ IsFiniteSet(rows')
    BY <2>1, FS_AddElement DEF Commit
  <2> QED
    BY <1>1, <2>1
<1>3. \A c : Committed(c) \subseteq Committed(c)'
  BY <1>2 DEF Committed
<1>4. ASSUME UNCHANGED <<readPointer, mark>>
      PROVE  PointersNameMessages'
  BY <1>0, <1>3, <1>4 DEF PointersNameMessages
<1>5. ASSUME NEW r \in Sends, Send(r)
      PROVE  UNCHANGED <<readPointer, mark>>
  BY <1>5 DEF Send, SendMessage, InsertMessage, UpdateConversationLastMessageAt, Abort,
              PublishMessageCreated, Commit, dbVars
<1>6. ASSUME NEW k \in Marks, NEW u \in Users, NEW c \in Conversations, NEW id \in Ids,
             MarkConversationRead(k, u, c, id)
      PROVE  PointersNameMessages'
  <2>1. UNCHANGED readPointer /\ DOMAIN mark = Marks
    BY <1>0, <1>6 DEF MarkConversationRead, dbVars, ChatTypeOK
  <2>2. /\ \A j \in Marks \ {k} : mark'[j] = mark[j]
        /\ \/ mark'[k] = Over
           \/ /\ id \in Committed(c)
              /\ mark'[k] = [step |-> "advancing", user |-> u, conversation |-> c, id |-> id]
    BY <1>6, <2>1 DEF MarkConversationRead
  <2>3. \/ mark'[k].step # "advancing"
        \/ mark'[k].id = id /\ mark'[k].conversation = c /\ id \in Committed(c)'
    BY <1>3, <2>2 DEF Over
  <2>4. (\A j \in Marks : Looked(j))'
    BY <1>0, <1>3, <2>2, <2>3 DEF PointersNameMessages
  <2>5. (\A d \in Conversations, v \in Users : Named(d, v))'
    BY <1>0, <1>3, <2>1 DEF PointersNameMessages
  <2> QED
    BY <2>4, <2>5 DEF PointersNameMessages
<1>7. ASSUME NEW k \in Marks, AdvanceReadPointer(k)
      PROVE  PointersNameMessages'
  <2>1. /\ mark' = [mark EXCEPT ![k] = Over] /\ DOMAIN mark = Marks
        /\ mark[k].id \in Committed(mark[k].conversation)
    BY <1>0, <1>7 DEF AdvanceReadPointer, PointersNameMessages, ChatTypeOK
  <2>2. \A j \in Marks : mark'[j] = mark[j] \/ mark'[j] = Over
    BY <2>1
  <2>3. ASSUME NEW c \in Conversations, NEW u \in Users
        PROVE  \/ readPointer'[c][u] = readPointer[c][u]
               \/ c = mark[k].conversation /\ readPointer'[c][u] = mark[k].id
    BY <1>0, <1>7, <2>3 DEF AdvanceReadPointer, ChatTypeOK
  <2> QED
    BY <1>0, <1>3, <2>1, <2>2, <2>3 DEF PointersNameMessages, Over
<1>8. ASSUME Crash
      PROVE  PointersNameMessages'
  <2>1. UNCHANGED readPointer /\ \A k \in Marks : mark'[k] = Idle \/ mark'[k] = Over
    BY <1>8 DEF Crash
  <2> QED
    BY <1>0, <1>3, <2>1 DEF PointersNameMessages, Idle, Over
<1>9. ASSUME UNCHANGED chatVars
      PROVE  PointersNameMessages'
  BY <1>4, <1>9 DEF chatVars, dbVars
<1> QED
  BY <1>2, <1>4, <1>5, <1>6, <1>7, <1>8, <1>9 DEF ChatNext, Mark

-----------------------------------------------------------------------------
LEMMA InboxInit == Init => InboxInv
<1> SUFFICES ASSUME Init
             PROVE  InboxInv
  OBVIOUS
<1>1. ChatInit /\ ChatTypeOK
  BY InitHolds DEF Init, Inv
<1>2. /\ clock = 1 /\ sentAt = [r \in Sends |-> 0] /\ stamp = [i \in Ids |-> 1]
      /\ cursor = First /\ shown = <<>> /\ moved = {}
  BY DEF Init
<1>3. TypeOK
  <2>1. clock \in 1..MaxTime /\ 0 \in 0..MaxTime /\ 1 \in 1..MaxTime
    BY <1>2, MaxTimeAssumption
  <2>2. First \in [at : 0..(MaxTime + 1), id : Conversations \cup {0}]
    BY MaxTimeAssumption DEF First
  <2> QED
    BY <1>1, <1>2, <2>1, <2>2 DEF TypeOK
<1>4. IsFiniteSet(rows)
  BY <1>1, WrittenAssumption DEF ChatInit
<1>5. PointersNameMessages
  BY <1>1 DEF ChatInit, PointersNameMessages, Idle
<1>6. SentInTime
  BY <1>1 DEF ChatInit, SentInTime
<1>7. NothingBeforeFirst /\ ShownOfReader /\ ShownBeforeCursor /\ ShownInOrder
  BY <1>2 DEF NothingBeforeFirst, ShownOfReader, ShownBeforeCursor, ShownInOrder
<1>8. SteadyInPlace
  <2> SUFFICES ASSUME NEW c \in Conversations
               PROVE  Follows(c, cursor) /\ Times(c) = {}
    BY DEF SteadyInPlace
  <2>1. Activity(c) \in Nat /\ Activity(c) <= MaxTime /\ MaxTime \in Nat
    BY <1>3, RowType
  <2> QED
    BY <1>2, <2>1 DEF Follows, First, Times
<1> QED
  BY <1>3, <1>4, <1>5, <1>6, <1>7, <1>8 DEF InboxInv

LEMMA InboxStep == InboxInv /\ Inv /\ ActivityIsLastCommit /\ [Next]_vars => InboxInv'
<1> SUFFICES ASSUME InboxInv, Inv, ActivityIsLastCommit, [Next]_vars
             PROVE  InboxInv'
  OBVIOUS
<1>1. TypeOK' /\ SentInTime'
  BY TimesStep
<1>2. PointersNameMessages' /\ IsFiniteSet(rows')
  BY InboxSteps, PointersStep DEF InboxInv
<1>3. NothingBeforeFirst' /\ ShownOfReader' /\ ShownBeforeCursor' /\ ShownInOrder' /\ SteadyInPlace'
  BY <1>1, ListingStep, WalkStep
<1> QED
  BY <1>1, <1>2, <1>3 DEF InboxInv

\* Reading the inbox writes nothing, and the clocks that it orders by are only
\* stamped onto what the sends do: every behaviour of the inbox is one of
\* SendMessage and MarkConversationRead, whose theorems so hold of it.
THEOREM InboxUsesChat == Safety => ChatSafety
<1>1. Init => ChatInit
  BY DEF Init
<1> QED
  BY <1>1, InboxSteps, PTL DEF Safety, ChatSafety

\* What has been shown, what has moved and where the cursor is agree, at any
\* time between two pages of ListConversations.
THEOREM InboxInvHolds == Safety => [](InboxInv /\ Inv /\ ActivityIsLastCommit)
<1>1. Safety => []Inv
  BY InboxUsesChat, Inductive, PTL
<1>2. Safety => []ActivityIsLastCommit
  BY InboxUsesChat, ActivityFollowsCommits, PTL
<1> QED
  BY <1>1, <1>2, InboxInit, InboxStep, PTL DEF Safety

\* Type correctness of the clocks, the rows shown and the cursor.
THEOREM InboxIsTyped == Safety => []TypeOK
<1>1. InboxInv => TypeOK
  BY DEF InboxInv
<1> QED
  BY <1>1, InboxInvHolds, PTL

\* The activity the inbox is ordered by is that of the last commit, with the
\* inbox and its clocks around the sends.
THEOREM InboxOrdersByLastCommit == Safety => []ActivityIsLastCommit
  BY InboxInvHolds, PTL

\* ListConversations read to its end shows every conversation of the reader
\* in which nothing was written meanwhile exactly once, whatever the number of
\* conversations, the limit, the clocks and the sends in between.
THEOREM SteadyConversationsShownOnce == Safety => []SteadyConversationShownOnce
<1>1. InboxInv => SteadyConversationShownOnce
  <2> SUFFICES ASSUME InboxInv, cursor = Last,
                      NEW c \in Conversations \ moved, Reader \in Parties[c]
               PROVE  Cardinality(Times(c)) = 1
    BY DEF SteadyConversationShownOnce
  <2>1. ~Follows(c, cursor)
    <3>1. Activity(c) \in Nat /\ c \in Nat /\ c > 0
      BY RowType DEF InboxInv
    <3> QED
      BY <3>1 DEF Follows, Last
  <2>2. PICK n \in DOMAIN shown : Times(c) = {n}
    BY <2>1 DEF InboxInv, SteadyInPlace
  <2> QED
    BY <2>2, FS_Singleton
<1> QED
  BY <1>1, InboxInvHolds, PTL

\* A conversation is in two rows of the pages only if a commit in it took its
\* last_message_at back in time: created_at is read before the transaction.
THEOREM RepeatsWentBack == Safety => []RepeatedOnlyIfMovedBack
<1>1. InboxInv => RepeatedOnlyIfMovedBack
  <2> SUFFICES ASSUME InboxInv, NEW c \in Conversations, NEW m \in Times(c), NEW n \in Times(c), m < n
               PROVE  shown[n].at < shown[m].at /\ c \in moved
    BY DEF RepeatedOnlyIfMovedBack
  <2>1. /\ m \in DOMAIN shown /\ shown[m].conversation = c
        /\ n \in DOMAIN shown /\ shown[n].conversation = c
    BY DEF Times
  <2>2. c \in Nat /\ m \in Nat /\ n \in Nat
    <3>1. c \in Nat
      BY RowType DEF InboxInv
    <3>2. shown \in Seq([conversation : Conversations, at : 0..MaxTime])
      BY DEF InboxInv, TypeOK
    <3>3. m \in Nat /\ n \in Nat
      BY <2>1, <3>2
    <3> QED
      BY <3>1, <3>3
  <2>3. shown[n].at < shown[m].at
    BY <2>1, <2>2 DEF InboxInv, ShownInOrder
  <2>4. Reader \in Parties[c]
    BY <2>1 DEF InboxInv, ShownOfReader
  <2>5. ASSUME c \notin moved
        PROVE  FALSE
    <3>1. Times(c) = {} \/ \E i \in DOMAIN shown : Times(c) = {i}
      BY <2>4, <2>5 DEF InboxInv, SteadyInPlace
    <3> QED
      BY <2>2, <3>1
  <2> QED
    BY <2>3, <2>5
<1> QED
  BY <1>1, InboxInvHolds, PTL


-----------------------------------------------------------------------------
(* The unread counts                                                       *)

Unread(c, u) ==
  {m \in rows : m.conversation = c /\ m.sender # u /\ m.id > readPointer[c][u]}

\* The unread messages are finitely many, and UnreadCount says how many.
LEMMA UnreadSize ==
  ASSUME InboxInv, NEW c, NEW u
  PROVE  /\ IsFiniteSet(Unread(c, u)) /\ Cardinality(Unread(c, u)) \in Nat
         /\ UnreadCount(c, u) = Cardinality(Unread(c, u))
<1>1. Unread(c, u) \in SUBSET rows /\ IsFiniteSet(rows)
  BY DEF Unread, InboxInv
<1> QED
  BY <1>1, FS_Subset, FS_CardinalityType DEF Unread, UnreadCount

\* The same after a step.
LEMMA LateUnreadSize ==
  ASSUME InboxInv', NEW c, NEW u
  PROVE  /\ IsFiniteSet(Unread(c, u)') /\ Cardinality(Unread(c, u)') \in Nat
         /\ UnreadCount(c, u)' = Cardinality(Unread(c, u)')
<1>1. Unread(c, u)' \in SUBSET rows' /\ IsFiniteSet(rows')
  BY DEF Unread, InboxInv
<1> QED
  BY <1>1, FS_Subset, FS_CardinalityType DEF Unread, UnreadCount

\* Rows only come, by the commit of a send, and pointers only go up, by a mark
\* of the user.
LEMMA UnreadSources ==
  ASSUME InboxInv, Inv, [Next]_vars
  PROVE  /\ rows \subseteq rows'
         /\ rows' # rows => UNCHANGED readPointer
         /\ \A m \in rows' \ rows : \A n \in rows' \ rows : n = m
         /\ \A c \in Conversations, u \in Users :
              \/ readPointer'[c][u] = readPointer[c][u]
              \/ /\ readPointer'[c][u] > readPointer[c][u]
                 /\ \E k \in Marks : /\ mark[k] # mark'[k] /\ mark[k] # Idle
                                     /\ mark[k].user = u /\ mark[k].conversation = c
<1>0. ChatTypeOK /\ MaxId \in Nat /\ [ChatNext]_chatVars
  BY InboxSteps, Sizes DEF Inv
<1>1. ASSUME NEW r \in Sends, Commit(r)
      PROVE  /\ UNCHANGED readPointer
             /\ rows \subseteq rows'
             /\ \A m \in rows' \ rows : \A n \in rows' \ rows : n = m
  BY <1>1 DEF Commit
<1>2. ASSUME NEW r \in Sends, Send(r), ~Commit(r)
      PROVE  UNCHANGED <<rows, readPointer>>
  BY <1>2 DEF Send, SendMessage, InsertMessage, UpdateConversationLastMessageAt, Abort,
              PublishMessageCreated, dbVars
<1>3. ASSUME NEW k \in Marks, NEW u \in Users, NEW c \in Conversations, NEW id \in Ids,
             MarkConversationRead(k, u, c, id)
      PROVE  UNCHANGED <<rows, readPointer>>
  BY <1>3 DEF MarkConversationRead, dbVars
<1>4. ASSUME NEW k \in Marks, AdvanceReadPointer(k)
      PROVE  /\ UNCHANGED rows
             /\ \A c \in Conversations, u \in Users :
                  \/ readPointer'[c][u] = readPointer[c][u]
                  \/ /\ readPointer'[c][u] > readPointer[c][u]
                     /\ mark[k] # mark'[k] /\ mark[k] # Idle
                     /\ mark[k].user = u /\ mark[k].conversation = c
  <2>1. mark[k] # Idle /\ mark'[k] = Over /\ mark[k] # Over /\ mark[k].id \in Ids
    <3>1. mark[k].step = "advancing" /\ mark' = [mark EXCEPT ![k] = Over]
      BY <1>4 DEF AdvanceReadPointer
    <3> QED
      BY <1>0, <3>1 DEF ChatTypeOK, Idle, Over
  <2>2. ASSUME NEW c \in Conversations, NEW u \in Users
        PROVE  /\ readPointer[c][u] \in Nat
               /\ \/ readPointer'[c][u] = readPointer[c][u]
                  \/ /\ c = mark[k].conversation /\ u = mark[k].user
                     /\ readPointer[c][u] < mark[k].id
                     /\ readPointer'[c][u] = mark[k].id
    BY <1>0, <1>4 DEF AdvanceReadPointer, ChatTypeOK
  <2> QED
    BY <1>0, <1>4, <2>1, <2>2 DEF AdvanceReadPointer, Ids
<1>5. Crash => UNCHANGED <<rows, readPointer>>
  BY DEF Crash
<1>6. UNCHANGED chatVars => UNCHANGED <<rows, readPointer>>
  BY DEF chatVars, dbVars
<1> QED
  BY <1>0, <1>1, <1>2, <1>3, <1>4, <1>5, <1>6 DEF ChatNext, Mark

\* AdvanceSellerReadPointer and AdvanceBuyerReadPointer take their id from a
\* lookup of the message in the conversation: a pointer names such a message.
THEOREM PointersNameTheirMessages == Safety => []PointersNameMessages
<1>1. InboxInv => PointersNameMessages
  BY DEF InboxInv
<1> QED
  BY <1>1, InboxInvHolds, PTL

\* unread_count goes up only by messages of the other party and down only by
\* marks of the user, for any number of either in any order.
THEOREM UnreadCountsAreAccountable == Safety => UnreadChangesForAReason
<1> DEFINE Accounted ==
      \A c \in Conversations, u \in Users :
        /\ UnreadCount(c, u)' > UnreadCount(c, u) =>
             \E m \in rows' \ rows : m.conversation = c /\ m.sender # u
        /\ UnreadCount(c, u)' < UnreadCount(c, u) =>
             \E k \in Marks : /\ mark[k] # mark'[k] /\ mark[k] # Idle
                              /\ mark[k].user = u /\ mark[k].conversation = c
<1>1. ASSUME InboxInv, InboxInv', Inv, [Next]_vars
      PROVE  Accounted
  <2> SUFFICES ASSUME NEW c \in Conversations, NEW u \in Users
               PROVE  /\ UnreadCount(c, u)' > UnreadCount(c, u) =>
                           \E m \in rows' \ rows : m.conversation = c /\ m.sender # u
                      /\ UnreadCount(c, u)' < UnreadCount(c, u) =>
                           \E k \in Marks : /\ mark[k] # mark'[k] /\ mark[k] # Idle
                                            /\ mark[k].user = u /\ mark[k].conversation = c
    OBVIOUS
  <2>1. /\ rows \subseteq rows'
        /\ \/ readPointer'[c][u] = readPointer[c][u]
           \/ /\ readPointer'[c][u] > readPointer[c][u]
              /\ \E k \in Marks : /\ mark[k] # mark'[k] /\ mark[k] # Idle
                                  /\ mark[k].user = u /\ mark[k].conversation = c
    BY <1>1, UnreadSources
  <2>2. readPointer[c][u] \in Nat /\ readPointer'[c][u] \in Nat
    BY <1>1, Sizes DEF InboxInv, TypeOK, ChatTypeOK
  <2>3. \A m \in rows' : m.id \in Nat
    BY <1>1, Sizes DEF InboxInv, TypeOK, ChatTypeOK, Message, Ids
  <2>4. /\ IsFiniteSet(Unread(c, u)) /\ IsFiniteSet(Unread(c, u)')
        /\ UnreadCount(c, u) = Cardinality(Unread(c, u))
        /\ UnreadCount(c, u)' = Cardinality(Unread(c, u)')
        /\ Cardinality(Unread(c, u)) \in Nat /\ Cardinality(Unread(c, u)') \in Nat
    BY <1>1, UnreadSize, LateUnreadSize
  <2>5. ASSUME ~\E m \in rows' \ rows : m.conversation = c /\ m.sender # u
        PROVE  ~(UnreadCount(c, u)' > UnreadCount(c, u))
    <3>1. Unread(c, u)' \in SUBSET Unread(c, u)
      BY <2>1, <2>2, <2>3, <2>5 DEF Unread
    <3> QED
      BY <2>4, <3>1, FS_Subset
  <2>6. ASSUME readPointer'[c][u] = readPointer[c][u]
        PROVE  ~(UnreadCount(c, u)' < UnreadCount(c, u))
    <3>1. Unread(c, u) \in SUBSET Unread(c, u)'
      BY <2>1, <2>6 DEF Unread
    <3> QED
      BY <2>4, <3>1, FS_Subset
  <2> QED
    BY <2>1, <2>5, <2>6
<1>2. InboxInv /\ InboxInv' /\ Inv /\ [Next]_vars => [Accounted]_vars
  BY <1>1
<1> QED
  BY <1>2, InboxInvHolds, PTL DEF Safety, UnreadChangesForAReason

\* A message that commits at or below a read pointer of the other party, and so is
\* never counted as unread, commits after one with a higher id.
THEOREM UncountedCommitLate == Safety => OnlyLateCommitsGoUncounted
<1> DEFINE Late ==
      \A m \in rows' \ rows : \A u \in Parties[m.conversation] \ {m.sender} :
        UnreadCount(m.conversation, u)' = UnreadCount(m.conversation, u) =>
          \E n \in rows : n.conversation = m.conversation /\ n.id > m.id
<1>1. ASSUME InboxInv, InboxInv', Inv, Inv', [Next]_vars
      PROVE  Late
  <2> SUFFICES ASSUME NEW m \in rows' \ rows, NEW u \in Parties[m.conversation] \ {m.sender},
                      UnreadCount(m.conversation, u)' = UnreadCount(m.conversation, u)
               PROVE  \E n \in rows : n.conversation = m.conversation /\ n.id > m.id
    OBVIOUS
  <2> DEFINE c == m.conversation
  <2>0. UnreadCount(c, u)' = UnreadCount(c, u)
    OBVIOUS
  <2>1. c \in Conversations /\ m.id \in Nat /\ m.id > 0 /\ \A n \in rows' : n.id \in Nat
    <3>1. rows' \in SUBSET Message
      BY <1>1 DEF InboxInv, TypeOK, ChatTypeOK
    <3>2. \A n \in rows' : n.conversation \in Conversations /\ n.id \in 1..MaxId
      BY <3>1 DEF Message, Ids
    <3>3. \A n \in rows' : n.id \in Nat /\ n.id > 0
      BY <3>2, Sizes
    <3> QED
      BY <3>2, <3>3
  <2>2. u \in Users
    BY <2>1, PartiesAssumption
  <2>3. /\ rows \subseteq rows' /\ readPointer'[c][u] = readPointer[c][u]
        /\ \A n \in rows' \ rows : n = m
    BY <1>1, UnreadSources
  <2>4. readPointer[c][u] \in Nat
    BY <1>1, <2>1, <2>2, Sizes DEF InboxInv, TypeOK, ChatTypeOK
  <2>5. /\ IsFiniteSet(Unread(c, u))
        /\ UnreadCount(c, u) = Cardinality(Unread(c, u))
        /\ UnreadCount(c, u)' = Cardinality(Unread(c, u)')
        /\ Cardinality(Unread(c, u)) \in Nat
    BY <1>1, UnreadSize, LateUnreadSize
  <2>6. m.id <= readPointer[c][u]
    <3> SUFFICES ASSUME m.id > readPointer[c][u]
                 PROVE  FALSE
      BY <2>1, <2>4
    <3>1. m.conversation = c /\ m.sender # u /\ m.id > readPointer'[c][u]
      BY <2>3
    <3>2. m \notin Unread(c, u)
      BY DEF Unread
    <3>3. Unread(c, u)' = Unread(c, u) \cup {m}
      <4> HIDE DEF c
      <4> QED
        BY <2>3, <3>1 DEF Unread
    <3>4. Cardinality(Unread(c, u)') = Cardinality(Unread(c, u)) + 1
      BY <2>5, <3>2, <3>3, FS_AddElement
    <3> QED
      BY <2>0, <2>5, <3>4
  <2>7. PICK n \in rows : n.conversation = c /\ n.id = readPointer[c][u]
    <3>1. readPointer[c][u] \in Committed(c)
      BY <1>1, <2>1, <2>2, <2>4, <2>6 DEF InboxInv, PointersNameMessages
    <3> QED
      BY <3>1 DEF Committed
  <2>8. n.id # m.id
    BY <1>1, <2>3, <2>7 DEF Inv, IdsAreOwned
  <2> QED
    BY <2>1, <2>3, <2>4, <2>6, <2>7, <2>8
<1>2. InboxInv /\ InboxInv' /\ Inv /\ Inv' /\ [Next]_vars => [Late]_vars
  BY <1>1
<1> QED
  BY <1>2, InboxInvHolds, PTL DEF Safety, OnlyLateCommitsGoUncounted
=============================================================================
