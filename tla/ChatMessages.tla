---------------------------- MODULE ChatMessages ----------------------------
(***************************************************************************)
(* Messages and read pointers of existing conversations: SendMessage and   *)
(* MarkConversationRead of internal/app/chat.go over                       *)
(* internal/adapter/postgres/chat.go and db/queries/chat.sql.              *)
(*                                                                         *)
(* PostgreSQL runs at READ COMMITTED.  A statement sees what is committed  *)
(* when it starts.  Message ids come from a sequence at the INSERT, which  *)
(* no rollback gives back; the row appears to others at the COMMIT.  The   *)
(* INSERT's foreign key only takes a key-share lock on the conversation,   *)
(* so two transactions can both insert; the UPDATE of last_message_at      *)
(* locks the conversation's row until its transaction ends.                *)
(*                                                                         *)
(* A message is its id, which also stands for its body and created_at.     *)
(* Bodies are validated from the input alone and left out.  Who reads what *)
(* is written here is the matter of Delivery and of Inbox.                 *)
(***************************************************************************)
EXTENDS Naturals, Sequences, FiniteSets

CONSTANTS
  Users,          \* local user ids
  Conversations,  \* rows of table conversations; rows are never deleted
  Parties,        \* the seller and the buyer of each conversation
  Written,        \* messages from before, with ids from 1 on
  Sends,          \* calls of SendMessage
  Marks,          \* calls of MarkConversationRead
  NoSend          \* the row is not locked

ASSUME PartiesAssumption == Parties \in [Conversations -> SUBSET Users]
ASSUME WrittenAssumption ==
  /\ IsFiniteSet(Written)
  /\ Written \subseteq [id : 1..Cardinality(Written), conversation : Conversations, sender : Users]
  /\ \A m, n \in Written : m.id = n.id => m = n
  /\ \A m \in Written : m.sender \in Parties[m.conversation]
ASSUME NoSendAssumption == NoSend \notin Sends
ASSUME SendsAssumption == IsFiniteSet(Sends)

VARIABLES
  rows,           \* committed rows of table messages
  lastId,         \* the identity sequence of messages.id
  lastMessageAt,  \* conversations.last_message_at, as a message; 0 is NULL
  readPointer,    \* seller_ and buyer_last_read_message_id; 0 is NULL
  lock,           \* the transaction that holds a conversation's row
  send,           \* step and arguments of each SendMessage
  mark,           \* step and arguments of each MarkConversationRead
  published,      \* history: events given to the broker, in order
  commits         \* history: message ids in the order of their commits

dbVars == <<rows, lastId, lastMessageAt, readPointer, lock>>
chatVars == <<dbVars, send, mark, published, commits>>

Newest(S) == CHOOSE x \in S \cup {0} : \A y \in S : y <= x

MaxId == Cardinality(Written) + Cardinality(Sends)
Ids == 1..MaxId
Message == [id : Ids, conversation : Conversations, sender : Users]

Idle == [step |-> "idle"]
Over == [step |-> "over"]

ChatInit ==
  /\ rows = Written
  /\ lastId = Cardinality(Written)
  /\ lastMessageAt =
       [c \in Conversations |-> Newest({m.id : m \in {m \in Written : m.conversation = c}})]
  /\ readPointer = [c \in Conversations |-> [u \in Users |-> 0]]
  /\ lock = [c \in Conversations |-> NoSend]
  /\ send = [r \in Sends |-> Idle]
  /\ mark = [k \in Marks |-> Idle]
  /\ published = <<>>
  /\ commits = [i \in 1..Cardinality(Written) |-> i]

Committed(c) == {m.id : m \in {m \in rows : m.conversation = c}}

-----------------------------------------------------------------------------
(* SendMessage and its transaction, CreateMessage                          *)

Goto(r, step) == send' = [send EXCEPT ![r].step = step]

\* BEGIN and GetConversationForParticipant; no row is a 404.
SendMessage(r, u, c) ==
  /\ send[r] = Idle
  /\ send' = [send EXCEPT ![r] =
       IF u \in Parties[c]
         THEN [step |-> "checked", user |-> u, conversation |-> c, id |-> 0]
         ELSE Over]
  /\ UNCHANGED <<dbVars, mark, published, commits>>

InsertMessage(r) ==
  /\ send[r].step = "checked"
  /\ lastId' = lastId + 1
  /\ send' = [send EXCEPT ![r].step = "inserted", ![r].id = lastId + 1]
  /\ UNCHANGED <<rows, lastMessageAt, readPointer, lock, mark, published, commits>>

\* Mutant: the update runs outside of the transaction.
UpdateOutsideTransaction(r) ==
  /\ send[r].step = "inserted"
  /\ lock[send[r].conversation] = NoSend
  /\ lastMessageAt' = [lastMessageAt EXCEPT ![send[r].conversation] = send[r].id]
  /\ Goto(r, "updated")
  /\ UNCHANGED <<rows, lastId, readPointer, lock, mark, published, commits>>

\* The UPDATE waits for a transaction that already updated the row.
UpdateConversationLastMessageAt(r) ==
  /\ send[r].step = "inserted"
  /\ lock[send[r].conversation] = NoSend
  /\ lock' = [lock EXCEPT ![send[r].conversation] = r]
  /\ Goto(r, "updated")
  /\ UNCHANGED <<rows, lastId, lastMessageAt, readPointer, mark, published, commits>>

Released(r) == [c \in Conversations |-> IF lock[c] = r THEN NoSend ELSE lock[c]]

\* The insert and the update become visible together.  The connection may be
\* lost, or the request cancelled, after the server committed: SendMessage
\* then returns an error, and publishes nothing.
Commit(r) ==
  LET s == send[r] IN
  /\ s.step = "updated"
  /\ rows' = rows \cup {[id |-> s.id, conversation |-> s.conversation, sender |-> s.user]}
  /\ lastMessageAt' = [lastMessageAt EXCEPT ![s.conversation] = s.id]
  /\ lock' = Released(r)
  /\ commits' = Append(commits, s.id)
  /\ Goto(r, "committed") \/ send' = [send EXCEPT ![r] = Over]
  /\ UNCHANGED <<lastId, readPointer, mark, published>>

\* Mutant: no deferred Rollback.
AbortWithoutRollback(r) ==
  /\ send[r].step \in {"checked", "inserted", "updated"}
  /\ send' = [send EXCEPT ![r] = Over]
  /\ UNCHANGED <<dbVars, mark, published, commits>>

\* An error of any statement, or a cancelled context: the deferred Rollback.
Abort(r) ==
  /\ send[r].step \in {"checked", "inserted", "updated"}
  /\ lock' = Released(r)
  /\ send' = [send EXCEPT ![r] = Over]
  /\ UNCHANGED <<rows, lastId, lastMessageAt, readPointer, mark, published, commits>>

\* Mutant: the event goes out before the commit.
PublishBeforeCommit(r) ==
  /\ send[r].step = "updated"
  /\ published' = Append(published, send[r].id)
  /\ UNCHANGED <<dbVars, send, mark, commits>>

\* After CreateMessage returned, in the sender's goroutine.
PublishMessageCreated(r) ==
  /\ send[r].step = "committed"
  /\ published' = Append(published, send[r].id)
  /\ send' = [send EXCEPT ![r] = Over]
  /\ UNCHANGED <<dbVars, mark, commits>>

-----------------------------------------------------------------------------
(* MarkConversationRead                                                    *)

\* Mutant: the message is not looked up in the conversation.
MarkAnyMessage(k, u, c, id) ==
  /\ mark[k] = Idle
  /\ mark' = [mark EXCEPT ![k] =
       IF u \in Parties[c]
         THEN [step |-> "advancing", user |-> u, conversation |-> c, id |-> id]
         ELSE Over]
  /\ UNCHANGED <<dbVars, send, published, commits>>

\* GetConversationForParticipant and GetMessageInConversation: what they read
\* never changes once it is there, so one step stands for both.
MarkConversationRead(k, u, c, id) ==
  /\ mark[k] = Idle
  /\ mark' = [mark EXCEPT ![k] =
       IF u \in Parties[c] /\ id \in Committed(c)
         THEN [step |-> "advancing", user |-> u, conversation |-> c, id |-> id]
         ELSE Over]
  /\ UNCHANGED <<dbVars, send, published, commits>>

\* Mutant: the pointer is set without the CASE.
SetReadPointer(k) ==
  LET a == mark[k] IN
  /\ a.step = "advancing"
  /\ lock[a.conversation] = NoSend
  /\ readPointer' = [readPointer EXCEPT ![a.conversation][a.user] = a.id]
  /\ mark' = [mark EXCEPT ![k] = Over]
  /\ UNCHANGED <<rows, lastId, lastMessageAt, lock, send, published, commits>>

\* AdvanceSellerReadPointer or AdvanceBuyerReadPointer.  The UPDATE waits for
\* the row and evaluates its CASE on the row it then finds.
AdvanceReadPointer(k) ==
  LET a == mark[k] IN
  /\ a.step = "advancing"
  /\ lock[a.conversation] = NoSend
  /\ readPointer' = [readPointer EXCEPT ![a.conversation][a.user] =
                       IF @ < a.id THEN a.id ELSE @]
  /\ mark' = [mark EXCEPT ![k] = Over]
  /\ UNCHANGED <<rows, lastId, lastMessageAt, lock, send, published, commits>>

\* The server process dies: PostgreSQL rolls its transactions back, and what
\* was committed and not yet published stays so.
Crash ==
  /\ lock' = [c \in Conversations |-> NoSend]
  /\ send' = [r \in Sends |-> IF send[r] = Idle THEN Idle ELSE Over]
  /\ mark' = [k \in Marks |-> IF mark[k] = Idle THEN Idle ELSE Over]
  /\ UNCHANGED <<rows, lastId, lastMessageAt, readPointer, published, commits>>

-----------------------------------------------------------------------------
Send(r) ==
  \/ \E u \in Users, c \in Conversations : SendMessage(r, u, c)
  \/ InsertMessage(r)
  \/ UpdateConversationLastMessageAt(r)
  \/ Commit(r)
  \/ Abort(r)
  \/ PublishMessageCreated(r)

Mark(k) ==
  \/ \E u \in Users, c \in Conversations, id \in Ids : MarkConversationRead(k, u, c, id)
  \/ AdvanceReadPointer(k)

ChatNext ==
  \/ \E r \in Sends : Send(r)
  \/ \E k \in Marks : Mark(k)
  \/ Crash

ChatSafety == ChatInit /\ [][ChatNext]_chatVars

\* A goroutine that can go on does; PostgreSQL queues the waiters of a row
\* lock, so a waiter is not overtaken for ever: strong fairness.
SendFairness ==
  \A r \in Sends :
    /\ WF_chatVars(InsertMessage(r))
    /\ SF_chatVars(UpdateConversationLastMessageAt(r))
    /\ WF_chatVars(Commit(r))
    /\ WF_chatVars(PublishMessageCreated(r))

-----------------------------------------------------------------------------
\* Type invariant.
InTransaction == {"checked", "inserted", "updated"}

ChatTypeOK ==
  /\ rows \subseteq Message
  /\ lastId \in 0..MaxId
  /\ lastMessageAt \in [Conversations -> 0..MaxId]
  /\ readPointer \in [Conversations -> [Users -> 0..MaxId]]
  /\ lock \in [Conversations -> Sends \cup {NoSend}]
  /\ send \in [Sends -> {Idle, Over} \cup
                 [step : InTransaction \cup {"committed"}, user : Users,
                  conversation : Conversations, id : 0..MaxId]]
  /\ mark \in [Marks -> {Idle, Over} \cup
                 [step : {"advancing"}, user : Users,
                  conversation : Conversations, id : Ids]]
  /\ published \in Seq(Ids)
  /\ commits \in Seq(Ids)

\* An event tells of a committed message and tells it once, whatever aborts,
\* crashes or loses its acknowledgement: publishing comes after the commit.
PublishedAreCommitted ==
  /\ \A i \in DOMAIN published : \E m \in rows : m.id = published[i]
  /\ \A i, j \in DOMAIN published : published[i] = published[j] => i = j

\* last_message_at is that of the conversation's last committed message, and
\* NULL exactly while it has none: the message and the activity of the
\* conversation never show one without the other.
ActivityIsLastCommit ==
  \A c \in Conversations :
    LET here == {i \in DOMAIN commits : commits[i] \in Committed(c)}
    IN  IF here = {} THEN lastMessageAt[c] = 0
        ELSE \E i \in here :
               (\A j \in here : j <= i) /\ lastMessageAt[c] = commits[i]

\* Only the two parties write into a conversation or mark it.
OnlyParties ==
  /\ \A m \in rows : m.sender \in Parties[m.conversation]
  /\ \A c \in Conversations : \A u \in Users \ Parties[c] : readPointer[c][u] = 0

CommittedBefore(a, b) ==
  \E i, j \in DOMAIN commits : i < j /\ commits[i] = a /\ commits[j] = b

\* No send waits for ever, neither for the row lock nor for another send.
SendsEnd == \A r \in Sends : send[r] # Idle ~> send[r] = Over
=============================================================================
