--------------------------- MODULE DeliveryProofs ---------------------------
(***************************************************************************)
(* Theorems about the tabs of Delivery for any users, conversations, sends *)
(* and page limit: what a tab shows is committed, and the pages of a tab   *)
(* meet without a gap but for messages that committed late.                *)
(***************************************************************************)
EXTENDS Delivery, ChatMessagesProofs

\* Every id of a committed row has its place in the order of the commits.
CommitsAreOrdered == \A m \in rows : \E i \in DOMAIN commits : commits[i] = m.id

\* What the tab has, with the answer on its way to it.
Shown(t) == view[t] \cup (page[t] \ NoPage)

\* A committed id that lies in S without being there committed after one above it.
LateHoles(c, S) ==
  \A i \in Committed(c) \ S :
    (\E low, high \in S : low < i /\ i < high) =>
      \E high \in S : i < high /\ CommittedBefore(high, i)

\* The answer on its way may be lost, so the holes are late with it and without.
TabsInv ==
  /\ view \in [Tabs -> SUBSET Ids]
  /\ page \in [Tabs -> {NoPage} \cup SUBSET Ids]
  /\ \A t \in Tabs :
       /\ Shown(t) \subseteq Committed(TabOf[t])
       /\ LateHoles(TabOf[t], Shown(t))
       /\ LateHoles(TabOf[t], view[t])

-----------------------------------------------------------------------------
(* The pages of queries ListMessages                                       *)

LEMMA SmallestIsDownward ==
  ASSUME NEW n \in Nat, NEW S \in SUBSET Nat, IsFiniteSet(S),
         NEW x \in Smallest(S, n), NEW y \in S, y < x
  PROVE  y \in Smallest(S, n)
<1> DEFINE B(z) == {w \in S : w < z}
<1>1. B(y) \subseteq B(x) /\ B(x) \subseteq S
  <2>1. x \in Nat /\ y \in Nat
    BY DEF Smallest
  <2>2. \A w \in Nat : w < y => w < x
    BY <2>1
  <2> QED
    BY <2>2
<1>2. IsFiniteSet(B(x)) /\ IsFiniteSet(B(y)) /\ Cardinality(B(y)) <= Cardinality(B(x))
  BY <1>1, FS_Subset
<1>3. Cardinality(B(x)) \in Nat /\ Cardinality(B(y)) \in Nat
  BY <1>2, FS_CardinalityType
<1>4. Cardinality(B(x)) < n
  BY DEF Smallest
<1>5. Cardinality(B(y)) < n
  BY <1>2, <1>3, <1>4
<1> QED
  BY <1>5 DEF Smallest

LEMMA LargestIsUpward ==
  ASSUME NEW n \in Nat, NEW S \in SUBSET Nat, IsFiniteSet(S),
         NEW x \in Largest(S, n), NEW y \in S, y > x
  PROVE  y \in Largest(S, n)
<1> DEFINE A(z) == {w \in S : w > z}
<1>1. A(y) \subseteq A(x) /\ A(x) \subseteq S
  <2>1. x \in Nat /\ y \in Nat
    BY DEF Largest
  <2>2. \A w \in Nat : w > y => w > x
    BY <2>1
  <2> QED
    BY <2>2
<1>2. IsFiniteSet(A(x)) /\ IsFiniteSet(A(y)) /\ Cardinality(A(y)) <= Cardinality(A(x))
  BY <1>1, FS_Subset
<1>3. Cardinality(A(x)) \in Nat /\ Cardinality(A(y)) \in Nat
  BY <1>2, FS_CardinalityType
<1>4. Cardinality(A(x)) < n
  BY DEF Largest
<1>5. Cardinality(A(y)) < n
  BY <1>2, <1>3, <1>4
<1> QED
  BY <1>5 DEF Largest

LEMMA CommittedIds ==
  ASSUME ChatTypeOK, NEW c \in Conversations, NEW S \in SUBSET Committed(c)
  PROVE  S \in SUBSET Ids /\ S \in SUBSET Nat /\ IsFiniteSet(S) /\ 0 \notin S
<1>1. MaxId \in Nat
  BY Sizes
<1>2. Committed(c) \subseteq Ids
  BY DEF ChatTypeOK, Committed, Message
<1>3. IsFiniteSet(Ids)
  BY <1>1, FS_Interval DEF Ids
<1>4. S \subseteq Ids
  BY <1>2
<1>5. IsFiniteSet(S)
  BY <1>3, <1>4, FS_Subset
<1> QED
  BY <1>1, <1>4, <1>5 DEF Ids

-----------------------------------------------------------------------------
(* Every step of Delivery is one of ChatMessages or leaves it alone        *)

LEMMA ChatSteps == Next => [ChatNext]_chatVars
BY DEF Next, SendStep, PublishToParties, Tab, Connect, Disconnect, HearEvent, Fetch, MergePage,
       ScrollBack, Restart, ChatNext, Send, tabVars

LEMMA DeliveryChatInv == Safety => []Inv
<1>1. Init => Inv
  BY InitHolds DEF Init
<1>2. Inv /\ [Next]_vars => Inv'
  BY ChatSteps, StepHolds DEF vars
<1> QED
  BY <1>1, <1>2, PTL DEF Safety

\* The steps of the chat that the tabs are left alone by, but for a commit.
LEMMA ChatLeavesRows ==
  ASSUME [ChatNext]_chatVars, \A r \in Sends : ~Commit(r)
  PROVE  UNCHANGED <<rows, commits>>
BY DEF ChatNext, Send, Mark, SendMessage, InsertMessage, UpdateConversationLastMessageAt, Abort,
       PublishMessageCreated, MarkConversationRead, AdvanceReadPointer, Crash, chatVars, dbVars

-----------------------------------------------------------------------------
(* The holes of a tab                                                      *)

\* A commit adds one id to one conversation, and puts it last in commits.
LEMMA CommitAppends ==
  ASSUME Inv, NEW r \in Sends, Commit(r)
  PROVE  \E id \in Ids, to \in Conversations, user \in Users, last \in Nat :
           /\ DOMAIN commits = 1..(last - 1)
           /\ DOMAIN commits' = 1..last
           /\ commits'[last] = id
           /\ \A i \in DOMAIN commits : commits'[i] = commits[i]
           /\ rows' = rows \cup {[id |-> id, conversation |-> to, sender |-> user]}
           /\ \A c \in Conversations :
                Committed(c)' = IF c = to THEN Committed(c) \cup {id} ELSE Committed(c)
<1> DEFINE id == send[r].id
           to == send[r].conversation
           row == [id |-> id, conversation |-> to, sender |-> send[r].user]
<1>1. ChatTypeOK /\ IdsAreOwned /\ send[r].step = "updated" /\ lastId \in 0..MaxId
  BY DEF Inv, Commit, ChatTypeOK
<1>2. id \in Ids /\ to \in Conversations /\ send[r].user \in Users
  BY <1>1, Sizes, SendForm
     DEF IdsAreOwned, Numbered, Ids, Step, InTransaction, SendRecord
<1>3. commits' = Append(commits, id) /\ commits \in Seq(Ids) /\ rows' = rows \cup {row}
  BY <1>1 DEF Commit, ChatTypeOK
<1>4. row.id = id /\ row.conversation = to
  OBVIOUS
<1> HIDE DEF row, id, to
<1>5. /\ DOMAIN commits = 1..Len(commits) /\ Len(commits) + 1 \in Nat
      /\ DOMAIN commits' = 1..(Len(commits) + 1)
      /\ commits'[Len(commits) + 1] = id
      /\ \A i \in DOMAIN commits : commits'[i] = commits[i]
      /\ Len(commits) = (Len(commits) + 1) - 1
  BY <1>2, <1>3
<1>6. \A c \in Conversations :
        Committed(c)' = IF c = to THEN Committed(c) \cup {id} ELSE Committed(c)
  BY <1>3, <1>4 DEF Committed
<1> HIDE DEF row
<1>7. rows' = rows \cup {[id |-> id, conversation |-> to, sender |-> send[r].user]}
  BY <1>3 DEF row
<1> QED
  BY <1>2, <1>5, <1>6, <1>7

\* No commit makes a hole that is not late.
LEMMA CommitKeepsHolesLate ==
  ASSUME Inv, CommitsAreOrdered, NEW r \in Sends, Commit(r)
  PROVE  /\ CommitsAreOrdered'
         /\ \A c \in Conversations : Committed(c) \subseteq Committed(c)'
         /\ \A c \in Conversations : \A S \in SUBSET Committed(c) :
              LateHoles(c, S) => LateHoles(c, S)'
<1>1. PICK id \in Ids, to \in Conversations, user \in Users, last \in Nat :
        /\ DOMAIN commits = 1..(last - 1)
        /\ DOMAIN commits' = 1..last
        /\ commits'[last] = id
        /\ \A i \in DOMAIN commits : commits'[i] = commits[i]
        /\ rows' = rows \cup {[id |-> id, conversation |-> to, sender |-> user]}
        /\ \A c \in Conversations :
             Committed(c)' = IF c = to THEN Committed(c) \cup {id} ELSE Committed(c)
  BY CommitAppends
<1>2. /\ \A i \in DOMAIN commits : i \in DOMAIN commits' /\ i < last
      /\ last \in DOMAIN commits'
  <2>1. last # 0
    BY <1>1 DEF Inv, ChatTypeOK, Commit
  <2> QED
    BY <1>1, <2>1
<1>3. CommitsAreOrdered'
  <2>1. \A m \in rows' : m \in rows \/ m.id = id
    BY <1>1
  <2> QED
    BY <1>1, <1>2, <2>1 DEF CommitsAreOrdered
<1>4. \A a, b : CommittedBefore(a, b) => CommittedBefore(a, b)'
  BY <1>1, <1>2 DEF CommittedBefore
<1>5. ASSUME NEW c \in Conversations, NEW a \in Committed(c)
      PROVE  CommittedBefore(a, id)'
  <2>1. PICK i \in DOMAIN commits : commits[i] = a
    BY DEF CommitsAreOrdered, Committed
  <2>2. /\ i \in DOMAIN commits' /\ last \in DOMAIN commits' /\ i < last
        /\ commits'[i] = a /\ commits'[last] = id
    BY <1>1, <1>2, <2>1
  <2> QED
    BY <2>2 DEF CommittedBefore
<1>6. ASSUME NEW c \in Conversations, NEW S \in SUBSET Committed(c), LateHoles(c, S),
             NEW i \in Committed(c)' \ S, NEW low \in S, NEW high \in S, low < i, i < high
      PROVE  \E above \in S : i < above /\ CommittedBefore(above, i)'
  <2>1. CASE i \in Committed(c)
    BY <1>4, <1>6, <2>1 DEF LateHoles
  <2>2. CASE i = id
    BY <1>5, <1>6, <2>2
  <2> QED
    BY <1>1, <2>1, <2>2
<1>7. ASSUME NEW c \in Conversations, NEW S \in SUBSET Committed(c), LateHoles(c, S)
      PROVE  LateHoles(c, S)'
  BY <1>6, <1>7 DEF LateHoles
<1> QED
  BY <1>1, <1>3, <1>7

LEMMA ChatKeepsTabs ==
  ASSUME Inv, CommitsAreOrdered, TabsInv, [ChatNext]_chatVars, UNCHANGED <<view, page>>
  PROVE  CommitsAreOrdered' /\ TabsInv'
<1>1. CASE UNCHANGED <<rows, commits>>
  BY <1>1 DEF CommitsAreOrdered, TabsInv, Shown, LateHoles, CommittedBefore, Committed
<1>2. ASSUME NEW r \in Sends, Commit(r)
      PROVE  CommitsAreOrdered' /\ TabsInv'
  <2>1. ASSUME NEW t \in Tabs
        PROVE  /\ Shown(t)' \subseteq Committed(TabOf[t])'
               /\ LateHoles(TabOf[t], Shown(t))'
               /\ LateHoles(TabOf[t], view[t])'
    <3>1. PICK S, V : S = Shown(t) /\ V = view[t]
      OBVIOUS
    <3>2. Shown(t)' = S /\ view'[t] = V
      BY <3>1 DEF Shown
    <3>3. TabOf[t] \in Conversations /\ S \subseteq Committed(TabOf[t]) /\ V \subseteq S
      BY <3>1, TabsAssumption DEF TabsInv, Shown
    <3>4. LateHoles(TabOf[t], S) /\ LateHoles(TabOf[t], V)
      BY <3>1 DEF TabsInv
    <3>5. LateHoles(TabOf[t], S)' /\ LateHoles(TabOf[t], V)'
      BY <1>2, <3>3, <3>4, CommitKeepsHolesLate
    <3>6. S \subseteq Committed(TabOf[t])'
      BY <1>2, <3>3, CommitKeepsHolesLate
    <3> QED
      BY <3>2, <3>5, <3>6 DEF LateHoles
  <2> QED
    BY <1>2, <2>1, CommitKeepsHolesLate DEF TabsInv
<1> QED
  BY <1>1, <1>2, ChatLeavesRows

-----------------------------------------------------------------------------
(* The pages meet                                                          *)

\* A page that follows what the tab has leaves no new hole.
LEMMA CatchUpMeets ==
  ASSUME ChatTypeOK, NEW c \in Conversations, NEW V \in SUBSET Committed(c), V # {},
         LateHoles(c, V)
  PROVE  LET P == ListMessagesAfter(c, Newest(V))
         IN  P \subseteq Committed(c) /\ LateHoles(c, V \cup P)
<1> DEFINE S == {i \in Committed(c) : i > Newest(V)}
           P == Smallest(S, PageLimit)
<1>1. MaxId \in Nat /\ V \in SUBSET (1..MaxId) /\ Committed(c) \in SUBSET Nat
      /\ S \in SUBSET Nat /\ IsFiniteSet(S)
  <2>1. S \in SUBSET Committed(c)
    OBVIOUS
  <2> QED
    BY <2>1, Sizes, CommittedIds DEF Ids
<1>2. Newest(V) \in V /\ \A y \in V : y <= Newest(V)
  BY <1>1, NewestIsLargest
<1>3. P \subseteq S
  BY DEF Smallest
<1>4. \A x \in P, y \in S : y < x => y \in P
  BY <1>1, SmallestIsDownward, PageLimitAssumption
<1> DEFINE top == Newest(V)
<1>5. top \in V /\ (\A y \in V : y <= top) /\ \A y \in S : y > top
  BY <1>2
<1>6. \A i \in Committed(c) : i > top => i \in S
  OBVIOUS
<1> HIDE DEF S, P, top
<1>7. ASSUME NEW i \in Committed(c) \ (V \cup P),
             NEW low \in V \cup P, NEW high \in V \cup P, low < i, i < high
      PROVE  \E h \in V \cup P : i < h /\ CommittedBefore(h, i)
  <2>1. i \in Nat /\ top \in Nat /\ low \in Nat /\ high \in Nat
    BY <1>1, <1>3, <1>5
  <2>2. ~(i > top)
    <3>1. CASE high \in P
      BY <1>4, <1>6, <1>7, <3>1
    <3>2. CASE high \in V
      BY <1>5, <1>7, <2>1, <3>2
    <3> QED
      BY <3>1, <3>2
  <2>3. i < top
    BY <1>5, <2>1, <2>2
  <2>4. low \in V
    BY <1>3, <1>5, <1>7, <2>1, <2>3
  <2> QED
    BY <1>5, <1>7, <2>3, <2>4 DEF LateHoles
<1>8. P \subseteq Committed(c) /\ LateHoles(c, V \cup P)
  BY <1>3, <1>7 DEF LateHoles, S
<1> QED
  BY <1>8 DEF P, S, top, ListMessagesAfter

\* The latest page has no hole.
LEMMA FirstPageHasNoHole ==
  ASSUME ChatTypeOK, NEW c \in Conversations
  PROVE  LET P == ListMessagesBefore(c, 0)
         IN  P \subseteq Committed(c) /\ LateHoles(c, P)
<1> DEFINE S == {i \in Committed(c) : 0 = 0 \/ i < 0}
           P == Largest(S, PageLimit)
<1>1. S = Committed(c) /\ S \in SUBSET Nat /\ IsFiniteSet(S)
  BY CommittedIds
<1>2. P \subseteq S
  BY DEF Largest
<1>3. \A x \in P, y \in S : y > x => y \in P
  BY <1>1, LargestIsUpward, PageLimitAssumption
<1> HIDE DEF S, P
<1>4. P \subseteq Committed(c) /\ LateHoles(c, P)
  BY <1>1, <1>2, <1>3 DEF LateHoles
<1> QED
  BY <1>4 DEF P, S, ListMessagesBefore

\* An older page ends where what the tab has begins.
LEMMA OlderPageMeets ==
  ASSUME ChatTypeOK, NEW c \in Conversations, NEW V \in SUBSET Committed(c),
         NEW oldest \in V, \A i \in V : oldest <= i, LateHoles(c, V)
  PROVE  LET P == ListMessagesBefore(c, oldest)
         IN  P \subseteq Committed(c) /\ LateHoles(c, V \cup P)
<1> DEFINE S == {i \in Committed(c) : oldest = 0 \/ i < oldest}
           P == Largest(S, PageLimit)
<1>1. S \in SUBSET Nat /\ IsFiniteSet(S) /\ Committed(c) \in SUBSET Nat /\ oldest # 0
  <2>1. S \in SUBSET Committed(c)
    OBVIOUS
  <2> QED
    BY <2>1, CommittedIds
<1>2. P \subseteq S
  BY DEF Largest
<1>3. \A x \in P, y \in S : y > x => y \in P
  BY <1>1, LargestIsUpward, PageLimitAssumption
<1>4. \A i \in Committed(c) : i \in S <=> i < oldest
  BY <1>1
<1>5. S \subseteq Committed(c)
  OBVIOUS
<1> HIDE DEF S, P
<1>6. ASSUME NEW i \in Committed(c) \ (V \cup P),
             NEW low \in V \cup P, NEW high \in V \cup P, low < i, i < high
      PROVE  \E h \in V \cup P : i < h /\ CommittedBefore(h, i)
  <2>1. i \in Nat /\ oldest \in Nat /\ low \in Nat /\ high \in Nat
    BY <1>1, <1>2, <1>5
  <2>2. ~(i < oldest)
    <3>1. CASE low \in P
      BY <1>3, <1>4, <1>6, <2>1, <3>1
    <3>2. CASE low \in V
      BY <1>6, <2>1, <3>2
    <3> QED
      BY <3>1, <3>2
  <2>3. oldest < i
    BY <1>6, <2>1, <2>2
  <2>4. high \in V
    BY <1>2, <1>4, <1>5, <1>6, <2>1, <2>3
  <2> QED
    BY <1>6, <2>3, <2>4 DEF LateHoles
<1>7. P \subseteq Committed(c) /\ LateHoles(c, V \cup P)
  BY <1>2, <1>5, <1>6 DEF LateHoles
<1> QED
  BY <1>7 DEF P, S, ListMessagesBefore
-----------------------------------------------------------------------------
(* The tabs                                                                *)

\* What one tab does is looked at as the new view V and the new answer P.
LEMMA TabKeeps ==
  ASSUME TabsInv, NEW t \in Tabs, NEW V, NEW P,
         view' = [view EXCEPT ![t] = V], page' = [page EXCEPT ![t] = P],
         UNCHANGED <<rows, commits>>,
         V \in SUBSET Ids, P \in {NoPage} \cup SUBSET Ids,
         V \cup (P \ NoPage) \subseteq Committed(TabOf[t]),
         LateHoles(TabOf[t], V \cup (P \ NoPage)), LateHoles(TabOf[t], V)
  PROVE  TabsInv'
<1>1. \A c, S : LateHoles(c, S)' <=> LateHoles(c, S)
  BY DEF LateHoles, Committed, CommittedBefore
<1>2. view' \in [Tabs -> SUBSET Ids] /\ page' \in [Tabs -> {NoPage} \cup SUBSET Ids]
  BY DEF TabsInv
<1>3. \A c : Committed(c)' = Committed(c)
  BY DEF Committed
<1>4. ASSUME NEW u \in Tabs
      PROVE  /\ Shown(u)' \subseteq Committed(TabOf[u])'
             /\ LateHoles(TabOf[u], Shown(u))'
             /\ LateHoles(TabOf[u], view[u])'
  <2>1. PICK S, W :
          /\ S = IF u = t THEN V \cup (P \ NoPage) ELSE Shown(u)
          /\ W = IF u = t THEN V ELSE view[u]
    OBVIOUS
  <2>2. Shown(u)' = S /\ view'[u] = W
    BY <2>1 DEF Shown, TabsInv
  <2>3. S \subseteq Committed(TabOf[u]) /\ LateHoles(TabOf[u], S) /\ LateHoles(TabOf[u], W)
    BY <2>1 DEF TabsInv
  <2>4. LateHoles(TabOf[u], S)' /\ LateHoles(TabOf[u], W)'
    BY <1>1, <2>3
  <2> QED
    BY <1>3, <2>2, <2>3, <2>4 DEF LateHoles
<1> QED
  BY <1>2, <1>4 DEF TabsInv

LEMMA TabsStep ==
  ASSUME Inv, CommitsAreOrdered, TabsInv, [Next]_vars
  PROVE  CommitsAreOrdered' /\ TabsInv'
<1>0. /\ ChatTypeOK /\ 0 \notin Ids
      /\ view \in [Tabs -> SUBSET Ids] /\ page \in [Tabs -> {NoPage} \cup SUBSET Ids]
  BY DEF Inv, TabsInv, Ids
<1>1. ASSUME UNCHANGED <<view, page>>
      PROVE  CommitsAreOrdered' /\ TabsInv'
  <2>1. [ChatNext]_chatVars
    BY ChatSteps DEF vars
  <2> QED
    BY <1>1, <2>1, ChatKeepsTabs
<1>2. ASSUME UNCHANGED rows, UNCHANGED commits
      PROVE  CommitsAreOrdered'
  BY <1>2 DEF CommitsAreOrdered
<1>3. ASSUME NEW t \in Tabs, Fetch(t)
      PROVE  CommitsAreOrdered' /\ TabsInv'
  <2>1. PICK V, P :
          /\ V = view[t]
          /\ P = IF view[t] = {} THEN ListMessagesBefore(TabOf[t], 0)
                 ELSE ListMessagesAfter(TabOf[t], Newest(view[t]))
    OBVIOUS
  <2>2. /\ view' = [view EXCEPT ![t] = V] /\ page' = [page EXCEPT ![t] = P]
        /\ UNCHANGED <<rows, commits>>
    BY <1>0, <1>3, <2>1 DEF Fetch, chatVars, dbVars
  <2>3. /\ TabOf[t] \in Conversations /\ V \in SUBSET Committed(TabOf[t])
        /\ LateHoles(TabOf[t], V)
    BY <2>1, TabsAssumption DEF TabsInv, Shown
  <2>4. P \subseteq Committed(TabOf[t]) /\ LateHoles(TabOf[t], V \cup P)
    <3>1. CASE V = {}
      <4>1. V \cup P = P
        BY <3>1
      <4> QED
        BY <1>0, <2>1, <2>3, <3>1, <4>1, FirstPageHasNoHole
    <3>2. CASE V # {}
      BY <1>0, <2>1, <2>3, <3>2, CatchUpMeets
    <3> QED
      BY <3>1, <3>2
  <2>5. P \in SUBSET Ids /\ V \in SUBSET Ids
    BY <1>0, <2>3, <2>4, CommittedIds
  <2>6. P \ NoPage = P
    BY <1>0, <2>5 DEF NoPage
  <2> QED
    BY <1>2, <2>2, <2>3, <2>4, <2>5, <2>6, TabKeeps
<1>4. ASSUME NEW t \in Tabs, MergePage(t)
      PROVE  CommitsAreOrdered' /\ TabsInv'
  <2>1. PICK V : V = view[t] \cup page[t]
    OBVIOUS
  <2>2. /\ view' = [view EXCEPT ![t] = V] /\ page' = [page EXCEPT ![t] = NoPage]
        /\ UNCHANGED <<rows, commits>>
    BY <1>0, <1>4, <2>1 DEF MergePage, chatVars, dbVars
  <2>3. V = Shown(t) /\ V \in SUBSET Ids
    BY <1>0, <1>4, <2>1 DEF MergePage, Shown, NoPage
  <2>4. V \subseteq Committed(TabOf[t]) /\ LateHoles(TabOf[t], V)
    BY <2>3 DEF TabsInv
  <2>5. V \cup (NoPage \ NoPage) = V
    OBVIOUS
  <2> QED
    BY <1>2, <2>2, <2>3, <2>4, <2>5, TabKeeps
<1>5. ASSUME NEW t \in Tabs, ScrollBack(t)
      PROVE  CommitsAreOrdered' /\ TabsInv'
  <2>1. PICK oldest \in view[t] :
          /\ \A i \in view[t] : oldest <= i
          /\ view' = [view EXCEPT ![t] = @ \cup ListMessagesBefore(TabOf[t], oldest)]
    BY <1>5 DEF ScrollBack
  <2>2. PICK U, V : /\ U = view[t]
                    /\ V = view[t] \cup ListMessagesBefore(TabOf[t], oldest)
    OBVIOUS
  <2>3. /\ view' = [view EXCEPT ![t] = V] /\ page' = [page EXCEPT ![t] = NoPage]
        /\ UNCHANGED <<rows, commits>>
    BY <1>0, <1>5, <2>1, <2>2 DEF ScrollBack, chatVars, dbVars
  <2>4. /\ TabOf[t] \in Conversations /\ U \in SUBSET Committed(TabOf[t])
        /\ LateHoles(TabOf[t], U)
    BY <2>2, TabsAssumption DEF TabsInv, Shown
  <2>5. V \subseteq Committed(TabOf[t]) /\ LateHoles(TabOf[t], V)
    BY <1>0, <2>1, <2>2, <2>4, OlderPageMeets
  <2>6. V \in SUBSET Ids /\ V \cup (NoPage \ NoPage) = V
    BY <1>0, <2>4, <2>5, CommittedIds
  <2> QED
    BY <1>2, <2>3, <2>5, <2>6, TabKeeps
<1>6. CASE Restart
  <2>1. UNCHANGED <<rows, commits, view>> /\ page' = [t \in Tabs |-> NoPage]
    BY <1>6 DEF Restart, Crash
  <2>2. view' \in [Tabs -> SUBSET Ids] /\ page' \in [Tabs -> {NoPage} \cup SUBSET Ids]
    BY <1>0, <2>1
  <2>3. ASSUME NEW t \in Tabs
        PROVE  /\ Shown(t)' \subseteq Committed(TabOf[t])'
               /\ LateHoles(TabOf[t], Shown(t))'
               /\ LateHoles(TabOf[t], view[t])'
    <3>1. Shown(t)' = view[t] /\ view'[t] = view[t]
      BY <2>1 DEF Shown
    <3>2. view[t] \subseteq Committed(TabOf[t]) /\ LateHoles(TabOf[t], view[t])
      BY DEF TabsInv, Shown
    <3> QED
      BY <2>1, <3>1, <3>2 DEF LateHoles, Committed, CommittedBefore
  <2> QED
    BY <1>2, <2>1, <2>2, <2>3 DEF TabsInv
<1>7. ASSUME NEW t \in Tabs, Connect(t) \/ Disconnect(t) \/ HearEvent(t)
      PROVE  UNCHANGED <<view, page>>
  BY <1>7 DEF Connect, Disconnect, HearEvent, tabVars
<1>8. ASSUME NEW r \in Sends, SendStep(r) \/ PublishToParties(r)
      PROVE  UNCHANGED <<view, page>>
  BY <1>8 DEF SendStep, PublishToParties, tabVars
<1>9. CASE UNCHANGED vars
  BY <1>1, <1>9 DEF vars, tabVars
<1> QED
  BY <1>1, <1>3, <1>4, <1>5, <1>6, <1>7, <1>8, <1>9 DEF Next, Tab

LEMMA TabsInit == Init => CommitsAreOrdered /\ TabsInv
<1> SUFFICES ASSUME Init
             PROVE  CommitsAreOrdered /\ TabsInv
  OBVIOUS
<1>1. /\ view = [t \in Tabs |-> {}] /\ page = [t \in Tabs |-> NoPage]
      /\ rows = Written /\ commits = [i \in 1..Cardinality(Written) |-> i]
  BY DEF Init, ChatInit
<1>2. CommitsAreOrdered
  BY <1>1, WrittenAssumption DEF CommitsAreOrdered
<1>3. \A t \in Tabs : Shown(t) = {} /\ view[t] = {}
  BY <1>1 DEF Shown
<1>4. TabsInv
  BY <1>1, <1>3 DEF TabsInv, LateHoles
<1> QED
  BY <1>2, <1>4

LEMMA DeliveryInductive == Safety => [](CommitsAreOrdered /\ TabsInv)
<1>1. Init => CommitsAreOrdered /\ TabsInv
  BY TabsInit
<1>2. Inv /\ (CommitsAreOrdered /\ TabsInv) /\ [Next]_vars => (CommitsAreOrdered /\ TabsInv)'
  BY TabsStep
<1> QED
  BY <1>1, <1>2, DeliveryChatInv, PTL DEF Safety

\* The pages that ListMessages answers meet: however sends, events, answers,
\* reconnections and crashes interleave, a tab misses a message between two it
\* shows only if that message committed after one with a higher id.
THEOREM TabsMissOnlyLateCommits == Safety => []HolesComeFromLateCommits
<1>1. TabsInv => HolesComeFromLateCommits
  BY DEF TabsInv, LateHoles, HolesComeFromLateCommits, Holes, OvertakenIn
<1> QED
  BY <1>1, DeliveryInductive, PTL

\* No tab shows a message of another conversation or one that is not committed:
\* the pages are those of the tab's conversation.
ViewIsCommitted == \A t \in Tabs : view[t] \subseteq Committed(TabOf[t])

\* A tab never shows a message that could still be rolled back.
THEOREM TabsShowCommitted == Safety => []ViewIsCommitted
<1>1. TabsInv => ViewIsCommitted
  BY DEF TabsInv, Shown, ViewIsCommitted
<1> QED
  BY <1>1, DeliveryInductive, PTL

\* What ChatMessages publishes is committed also with the tabs around it, and
\* when a crash of the server ends their streams.
THEOREM DeliveredAreCommitted == Safety => []PublishedAreCommitted
<1>1. Inv => PublishedAreCommitted
  BY DEF Inv
<1> QED
  BY <1>1, DeliveryChatInv, PTL
=============================================================================
