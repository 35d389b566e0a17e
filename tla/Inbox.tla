------------------------------- MODULE Inbox -------------------------------
(***************************************************************************)
(* The inbox: ListConversations of internal/app/chat.go over               *)
(* ListConversationsForUser of db/queries/chat.sql, read page by page      *)
(* while the sends and marks of ChatMessages go on.                        *)
(*                                                                         *)
(* A page is one statement, so one step.  Its order is by the activity of  *)
(* a conversation, the created_at of the message whose send committed      *)
(* last: the clock of SendMessage before its transaction.  The cursor      *)
(* carries the (activity, id) of the last row shown.                       *)
(*                                                                         *)
(* Left out: the titles and names that the rows are joined with, the       *)
(* refusal of a malformed cursor, which reads nothing, and the events of   *)
(* committed messages, which change no row.                                *)
(***************************************************************************)
EXTENDS ChatMessages

CONSTANTS
  Reader,      \* the user who reads the inbox
  CreatedAt,   \* conversations.created_at
  InboxLimit,  \* the limit of an inbox page
  MaxTime      \* bounds the application's clock

ASSUME ConversationsAssumption == Conversations \subseteq Nat \ {0} /\ IsFiniteSet(Conversations)
ASSUME ReaderAssumption == Reader \in Users
ASSUME CreatedAtAssumption == CreatedAt \in [Conversations -> 0..MaxTime]
ASSUME InboxLimitAssumption == InboxLimit \in Nat \ {0}
ASSUME MaxTimeAssumption == MaxTime \in Nat \ {0}

VARIABLES
  clock,     \* the application's clock
  sentAt,    \* CreateMessageParams.CreatedAt of each send
  stamp,     \* messages.created_at
  cursor,    \* the (activity, id) the next page follows
  shown,     \* history: the rows of the pages so far
  moved      \* history: conversations with a commit since the first page

walkVars == <<cursor, shown, moved>>
vars == <<chatVars, clock, sentAt, stamp, walkVars>>

\* Cursors before the first and after the last page.
First == [at |-> MaxTime + 1, id |-> 0]
Last == [at |-> 0, id |-> 0]

Init ==
  /\ ChatInit
  /\ clock = 1
  /\ sentAt = [r \in Sends |-> 0]
  /\ stamp = [i \in Ids |-> 1]
  /\ cursor = First
  /\ shown = <<>>
  /\ moved = {}

-----------------------------------------------------------------------------
Activity(c) == IF lastMessageAt[c] = 0 THEN CreatedAt[c] ELSE stamp[lastMessageAt[c]]

\* Mutant: one's own messages count.
UnreadOfAll(c, u) ==
  Cardinality({m \in rows : m.conversation = c /\ m.id > readPointer[c][u]})

\* The column unread_count, whichever statement reads it.
UnreadCount(c, u) ==
  Cardinality({m \in rows :
    m.conversation = c /\ m.sender # u /\ m.id > readPointer[c][u]})

Row(c) == [conversation |-> c, at |-> Activity(c)]

\* Mutant: conversations of one instant are not told apart.
FollowsInTime(c, k) == Activity(c) < k.at

\* (activity, id) < (cursor_activity_at, cursor_id)
Follows(c, k) == Activity(c) < k.at \/ (Activity(c) = k.at /\ c < k.id)

\* The rows of ListConversationsForUser, the first InboxLimit of them, in
\* their order.
Following(k) == {c \in Conversations : Reader \in Parties[c] /\ Follows(c, k)}
Precedes(d, c) == Activity(d) > Activity(c) \/ (Activity(d) = Activity(c) /\ d > c)
Before(c, S) == {d \in S : Precedes(d, c)}
Top(S) == {c \in S : Cardinality(Before(c, S)) < InboxLimit}
PageOf(S) ==
  [n \in 1..Cardinality(Top(S)) |->
     Row(CHOOSE c \in S : Cardinality(Before(c, S)) = n - 1)]

\* Mutant: the cursor is that of the first row left out.
CursorPast(S, page) ==
  IF S = Top(S) THEN Last
  ELSE LET c == CHOOSE c \in S : Cardinality(Before(c, S)) = InboxLimit
       IN  [at |-> Activity(c), id |-> c]

\* limit + 1 rows are fetched: next_cursor is null when nothing follows.
NextCursor(S, page) ==
  IF S = Top(S) THEN Last
  ELSE LET row == page[Len(page)] IN [at |-> row.at, id |-> row.conversation]

ListConversations ==
  LET S == Following(cursor)
      page == PageOf(S)
  IN  /\ cursor # Last
      /\ shown' = shown \o page
      /\ cursor' = NextCursor(S, page)
      /\ UNCHANGED <<chatVars, clock, sentAt, stamp, moved>>

-----------------------------------------------------------------------------
Tick ==
  /\ clock < MaxTime
  /\ clock' = clock + 1
  /\ UNCHANGED <<chatVars, sentAt, stamp, walkVars>>

\* now() is read before the transaction begins.
BeginSend(r) ==
  /\ \E u \in Users, c \in Conversations : SendMessage(r, u, c)
  /\ sentAt' = [sentAt EXCEPT ![r] = clock]
  /\ UNCHANGED <<clock, stamp, walkVars>>

StampMessage(r) ==
  /\ InsertMessage(r)
  /\ stamp' = [stamp EXCEPT ![lastId'] = sentAt[r]]
  /\ UNCHANGED <<clock, sentAt, walkVars>>

CommitMessage(r) ==
  /\ Commit(r)
  /\ moved' = IF cursor = First THEN moved ELSE moved \cup {send[r].conversation}
  /\ UNCHANGED <<clock, sentAt, stamp, cursor, shown>>

\* The steps that the inbox does not tell apart.
OtherStep ==
  /\ \/ \E r \in Sends :
          \/ UpdateConversationLastMessageAt(r)
          \/ Abort(r)
     \/ \E k \in Marks : Mark(k)
     \/ Crash
  /\ UNCHANGED <<clock, sentAt, stamp, walkVars>>

Next ==
  \/ ListConversations
  \/ Tick
  \/ \E r \in Sends : BeginSend(r) \/ StampMessage(r) \/ CommitMessage(r)
  \/ OtherStep

Safety == Init /\ [][Next]_vars

-----------------------------------------------------------------------------
\* Type invariant.
TypeOK ==
  /\ ChatTypeOK
  /\ clock \in 1..MaxTime
  /\ sentAt \in [Sends -> 0..MaxTime]
  /\ stamp \in [Ids -> 1..MaxTime]
  /\ cursor \in [at : 0..(MaxTime + 1), id : Conversations \cup {0}]
  /\ shown \in Seq([conversation : Conversations, at : 0..MaxTime])
  /\ moved \subseteq Conversations

Times(c) == {n \in DOMAIN shown : shown[n].conversation = c}

\* Once the pages are read to the end, a conversation in which nothing was
\* written meanwhile has been shown exactly once, however the others move
\* between the pages and whatever instants they share.
SteadyConversationShownOnce ==
  cursor = Last =>
    \A c \in Conversations \ moved :
      Reader \in Parties[c] => Cardinality(Times(c)) = 1

\* A conversation is shown again further down only if its activity went back:
\* two sends overlapped and the one that committed last had read its clock
\* first.
RepeatedOnlyIfMovedBack ==
  \A c \in Conversations : \A m, n \in Times(c) :
    m < n => shown[n].at < shown[m].at /\ c \in moved

\* A message that commits below a read pointer, and so never counts as unread,
\* was overtaken: the pointer names a committed message, never an id to come.
OnlyLateCommitsGoUncounted ==
  [][\A m \in rows' \ rows : \A u \in Parties[m.conversation] \ {m.sender} :
       UnreadCount(m.conversation, u)' = UnreadCount(m.conversation, u) =>
         \E n \in rows : n.conversation = m.conversation /\ n.id > m.id]_vars

\* The count of a user goes up only by a message of the other party, and down
\* only by a mark of the user: neither one's own messages, nor the other's
\* marks, nor a late mark of an older message show in it.
UnreadChangesForAReason ==
  [][\A c \in Conversations, u \in Users :
       /\ UnreadCount(c, u)' > UnreadCount(c, u) =>
            \E m \in rows' \ rows : m.conversation = c /\ m.sender # u
       /\ UnreadCount(c, u)' < UnreadCount(c, u) =>
            \E k \in Marks : /\ mark[k] # mark'[k] /\ mark[k] # Idle
                             /\ mark[k].user = u /\ mark[k].conversation = c]_vars
=============================================================================
