------------------------- MODULE ChatMessagesProofs -------------------------
(***************************************************************************)
(* Theorems about SendMessage and MarkConversationRead for any users,      *)
(* conversations and calls: events tell of committed messages, the         *)
(* activity of a conversation is that of its last commit, and only the     *)
(* parties write and mark.                                                 *)
(***************************************************************************)
EXTENDS ChatMessages, FiniteSetTheorems, WellFoundedInduction, TLAPS

\* The sends that have taken an id, or never will.
Begun == {r \in Sends : send[r] # Idle /\ send[r].step # "checked"}

IdsSuffice == lastId <= Cardinality(Written) + Cardinality(Begun)

Numbered(r) == send[r].step \in {"inserted", "updated", "committed"}

\* A send that has an id has it for itself, no event has told of it yet, and
\* its row is there exactly when it has committed.
IdsAreOwned ==
  /\ \A m \in rows : m.id <= lastId
  /\ \A m, n \in rows : m.id = n.id => m = n
  /\ \A r \in Sends : Numbered(r) =>
       /\ send[r].id \in 1..lastId
       /\ \A q \in Sends : Numbered(q) /\ send[q].id = send[r].id => q = r
       /\ \A i \in DOMAIN published : published[i] # send[r].id
       /\ send[r].step = "committed" <=> \E m \in rows : m.id = send[r].id

\* Only a party gets past the first statement.
CallersAreParties ==
  /\ \A r \in Sends :
       send[r] \notin {Idle, Over} => send[r].user \in Parties[send[r].conversation]
  /\ \A k \in Marks :
       mark[k] \notin {Idle, Over} => mark[k].user \in Parties[mark[k].conversation]

Inv ==
  /\ ChatTypeOK
  /\ IdsSuffice
  /\ IdsAreOwned
  /\ PublishedAreCommitted
  /\ CallersAreParties
  /\ OnlyParties

-----------------------------------------------------------------------------
Step == InTransaction \cup {"committed"}
SendRecord == [step : Step, user : Users, conversation : Conversations, id : 0..MaxId]

\* A send between its first statement and its end has all its fields.
LEMMA SendForm ==
  ASSUME ChatTypeOK, NEW r \in Sends
  PROVE  /\ send[r] \in {Idle, Over} \cup SendRecord
         /\ send[r].step \in Step => send[r] \in SendRecord
         /\ send[r].step \in Step <=> send[r] \notin {Idle, Over}
BY DEF ChatTypeOK, SendRecord, Step, InTransaction, Idle, Over

\* Goto changes the step of one send and nothing else.
LEMMA GotoForm ==
  ASSUME ChatTypeOK, NEW r \in Sends, send[r].step \in Step, NEW s \in Step, Goto(r, s)
  PROVE  /\ send' \in [Sends -> {Idle, Over} \cup SendRecord]
         /\ send'[r].step = s
         /\ send'[r].user = send[r].user
         /\ send'[r].conversation = send[r].conversation
         /\ send'[r].id = send[r].id
         /\ \A q \in Sends \ {r} : send'[q] = send[q]
<1>1. send[r] \in SendRecord
  BY SendForm
<1> DEFINE moved == [send[r] EXCEPT !.step = s]
<1>2. /\ moved \in SendRecord
      /\ moved.step = s /\ moved.user = send[r].user
      /\ moved.conversation = send[r].conversation /\ moved.id = send[r].id
  BY <1>1 DEF SendRecord
<1>3. send \in [Sends -> {Idle, Over} \cup SendRecord]
  BY DEF ChatTypeOK, SendRecord, Step
<1>4. send' = [send EXCEPT ![r] = moved]
  BY DEF Goto
<1> HIDE DEF moved
<1> QED
  BY <1>2, <1>3, <1>4

LEMMA Sizes == Cardinality(Written) \in Nat /\ Cardinality(Sends) \in Nat /\ MaxId \in Nat
BY WrittenAssumption, SendsAssumption, FS_CardinalityType DEF MaxId

LEMMA BegunSize ==
  /\ IsFiniteSet(Begun)
  /\ Cardinality(Begun) \in Nat
  /\ Cardinality(Begun) <= Cardinality(Sends)
<1>1. Begun \in SUBSET Sends
  BY DEF Begun
<1> QED
  BY <1>1, SendsAssumption, FS_Subset, FS_CardinalityType

\* Begun only grows, by one with each INSERT, so that the ids suffice.
LEMMA IdsSufficeStep ==
  ASSUME ChatTypeOK, IdsSuffice, [ChatNext]_chatVars
  PROVE  IdsSuffice'
<1> USE DEF ChatTypeOK, Idle, Over, InTransaction
<1>0. /\ IsFiniteSet(Begun') /\ Cardinality(Begun') \in Nat
      /\ Cardinality(Begun) \in Nat /\ Cardinality(Written) \in Nat
      /\ IsFiniteSet(Begun)
  <2>1. Begun' \in SUBSET Sends
    BY DEF Begun
  <2> QED
    BY <2>1, BegunSize, Sizes, SendsAssumption, FS_Subset, FS_CardinalityType
<1>1. ASSUME NEW r \in Sends, InsertMessage(r)
      PROVE  IdsSuffice'
  <2>1. r \notin Begun /\ Begun' = Begun \cup {r}
    BY <1>1 DEF InsertMessage, Begun
  <2>2. Cardinality(Begun') = Cardinality(Begun) + 1
    BY <1>0, <2>1, FS_AddElement
  <2> QED
    BY <1>0, <1>1, <2>2 DEF InsertMessage, IdsSuffice
<1>2. ASSUME lastId' = lastId, Begun \subseteq Begun'
      PROVE  IdsSuffice'
  <2>1. Cardinality(Begun) <= Cardinality(Begun')
    BY <1>0, <1>2, FS_Subset
  <2> QED
    BY <1>0, <1>2, <2>1 DEF IdsSuffice
<1>3. ASSUME NEW r \in Sends, Send(r), ~InsertMessage(r)
      PROVE  lastId' = lastId /\ Begun \subseteq Begun'
  <2>1. CASE \E u \in Users, c \in Conversations : SendMessage(r, u, c)
    BY <2>1 DEF SendMessage, Begun, dbVars
  <2>2. CASE UpdateConversationLastMessageAt(r)
    BY <2>2 DEF UpdateConversationLastMessageAt, Goto, Begun
  <2>3. CASE Commit(r)
    <3>1. lastId' = lastId /\ send[r].step = "updated"
      BY <2>3 DEF Commit
    <3>2. CASE Goto(r, "committed")
      <4>1. send'[r].step = "committed" /\ \A q \in Sends \ {r} : send'[q] = send[q]
        BY <3>1, <3>2, GotoForm DEF Step
      <4>2. ASSUME NEW q \in Begun
            PROVE  q \in Begun'
        <5>1. CASE q = r
          BY <4>1, <5>1 DEF Begun
        <5>2. CASE q # r
          BY <4>1, <4>2, <5>2 DEF Begun
        <5> QED
          BY <5>1, <5>2
      <4> QED
        BY <3>1, <4>2
    <3>3. CASE send' = [send EXCEPT ![r] = Over]
      BY <3>1, <3>3 DEF Begun
    <3> QED
      BY <2>3, <3>1, <3>2, <3>3 DEF Commit
  <2>4. CASE Abort(r)
    BY <2>4 DEF Abort, Begun
  <2>5. CASE PublishMessageCreated(r)
    BY <2>5 DEF PublishMessageCreated, Begun, dbVars
  <2> QED
    BY <1>3, <2>1, <2>2, <2>3, <2>4, <2>5 DEF Send
<1>4. ASSUME NEW k \in Marks, Mark(k)
      PROVE  lastId' = lastId /\ Begun \subseteq Begun'
  BY <1>4 DEF Mark, MarkConversationRead, AdvanceReadPointer, Begun, dbVars
<1>5. CASE Crash
  <2>1. lastId' = lastId /\ Begun \subseteq Begun'
    BY <1>5 DEF Crash, Begun
  <2> QED
    BY <1>2, <2>1
<1>6. CASE UNCHANGED chatVars
  BY <1>2, <1>6 DEF chatVars, dbVars, Begun
<1> QED
  BY <1>1, <1>2, <1>3, <1>4, <1>5, <1>6 DEF ChatNext

-----------------------------------------------------------------------------
LEMMA ChatTypeStep ==
  ASSUME Inv, [ChatNext]_chatVars
  PROVE  ChatTypeOK'
<1> DEFINE Sent == [Sends -> {Idle, Over} \cup SendRecord]
<1>0. /\ MaxId \in Nat
      /\ ChatTypeOK /\ IdsSuffice /\ IdsAreOwned
      /\ send \in Sent
      /\ ChatTypeOK' <=>
           /\ rows' \subseteq Message
           /\ lastId' \in 0..MaxId
           /\ lastMessageAt' \in [Conversations -> 0..MaxId]
           /\ readPointer' \in [Conversations -> [Users -> 0..MaxId]]
           /\ lock' \in [Conversations -> Sends \cup {NoSend}]
           /\ send' \in Sent
           /\ mark' \in [Marks -> {Idle, Over} \cup
                [step : {"advancing"}, user : Users, conversation : Conversations, id : Ids]]
           /\ published' \in Seq(Ids)
           /\ commits' \in Seq(Ids)
  BY Sizes DEF Inv, ChatTypeOK, SendRecord, Step
<1>1. ASSUME NEW r \in Sends, NEW u \in Users, NEW c \in Conversations, SendMessage(r, u, c)
      PROVE  ChatTypeOK'
  <2>1. [step |-> "checked", user |-> u, conversation |-> c, id |-> 0] \in SendRecord
    BY <1>0 DEF SendRecord, Step, InTransaction
  <2>2. send' \in Sent
    BY <1>0, <1>1, <2>1 DEF SendMessage
  <2> QED
    BY <1>0, <1>1, <2>2 DEF SendMessage, dbVars, ChatTypeOK
<1>2. ASSUME NEW r \in Sends, InsertMessage(r)
      PROVE  ChatTypeOK'
  <2>1. lastId' \in 0..MaxId
    <3>1. Begun' \in SUBSET Sends
      BY DEF Begun
    <3>2. Cardinality(Begun') <= Cardinality(Sends) /\ Cardinality(Begun') \in Nat
      BY <3>1, SendsAssumption, FS_Subset, FS_CardinalityType
    <3>3. IdsSuffice'
      BY <1>0, <1>2, IdsSufficeStep DEF ChatNext, Send
    <3>4. lastId' \in Nat
      BY <1>0, <1>2 DEF InsertMessage, ChatTypeOK
    <3> QED
      BY <3>2, <3>3, <3>4, Sizes DEF IdsSuffice, MaxId
  <2>2. send[r] \in SendRecord
    BY <1>0, <1>2, SendForm DEF InsertMessage, Step, InTransaction
  <2> DEFINE inserted == [send[r] EXCEPT !.step = "inserted", !.id = lastId + 1]
  <2>3. inserted \in SendRecord
    BY <1>2, <2>1, <2>2 DEF SendRecord, Step, InTransaction, InsertMessage
  <2>4. send' = [send EXCEPT ![r] = inserted]
    BY <1>0, <1>2 DEF InsertMessage
  <2> HIDE DEF inserted
  <2>5. send' \in Sent
    BY <1>0, <2>3, <2>4
  <2> QED
    BY <1>0, <1>2, <2>1, <2>5 DEF InsertMessage, ChatTypeOK
<1>3. ASSUME NEW r \in Sends, UpdateConversationLastMessageAt(r)
      PROVE  ChatTypeOK'
  <2>1. send' \in Sent
    BY <1>0, <1>3, GotoForm DEF UpdateConversationLastMessageAt, Step, InTransaction
  <2> QED
    BY <1>0, <1>3, <2>1 DEF UpdateConversationLastMessageAt, ChatTypeOK
<1>4. ASSUME NEW r \in Sends, Commit(r)
      PROVE  ChatTypeOK'
  <2>1. /\ send[r].id \in Ids /\ send[r].user \in Users
        /\ send[r].conversation \in Conversations
    BY <1>0, <1>4, SendForm
       DEF Commit, IdsAreOwned, Numbered, Step, InTransaction, SendRecord, Ids, ChatTypeOK
  <2>2. send' \in Sent
    <3>1. CASE Goto(r, "committed")
      BY <1>0, <1>4, <3>1, GotoForm DEF Commit, Step, InTransaction
    <3> QED
      BY <1>0, <1>4, <3>1 DEF Commit
  <2>3. rows' \subseteq Message
    BY <1>0, <1>4, <2>1 DEF Commit, ChatTypeOK, Message
  <2>4. commits' \in Seq(Ids)
    BY <1>0, <1>4, <2>1 DEF Commit, ChatTypeOK
  <2>5. lock' \in [Conversations -> Sends \cup {NoSend}]
    BY <1>0, <1>4 DEF Commit, ChatTypeOK, Released
  <2>6. lastMessageAt' \in [Conversations -> 0..MaxId]
    BY <1>0, <1>4, <2>1 DEF Commit, ChatTypeOK, Ids
  <2> QED
    BY <1>0, <1>4, <2>2, <2>3, <2>4, <2>5, <2>6 DEF Commit, ChatTypeOK
<1>5. ASSUME NEW r \in Sends, Abort(r)
      PROVE  ChatTypeOK'
  BY <1>0, <1>5 DEF Abort, Released, ChatTypeOK
<1>6. ASSUME NEW r \in Sends, PublishMessageCreated(r)
      PROVE  ChatTypeOK'
  <2>1. send[r].id \in Ids
    BY <1>0, <1>6 DEF PublishMessageCreated, IdsAreOwned, Numbered, Ids, ChatTypeOK
  <2> QED
    BY <1>0, <1>6, <2>1 DEF PublishMessageCreated, dbVars, ChatTypeOK
<1>7. ASSUME NEW k \in Marks, NEW u \in Users, NEW c \in Conversations, NEW id \in Ids,
             MarkConversationRead(k, u, c, id)
      PROVE  ChatTypeOK'
  BY <1>0, <1>7 DEF MarkConversationRead, dbVars, ChatTypeOK
<1>8. ASSUME NEW k \in Marks, AdvanceReadPointer(k)
      PROVE  ChatTypeOK'
  <2>1. /\ mark[k].id \in Ids /\ mark[k].user \in Users
        /\ mark[k].conversation \in Conversations
    BY <1>0, <1>8 DEF AdvanceReadPointer, ChatTypeOK, Idle, Over
  <2> DEFINE c == mark[k].conversation
             u == mark[k].user
             to == IF readPointer[c][u] < mark[k].id THEN mark[k].id ELSE readPointer[c][u]
  <2>2. to \in 0..MaxId
    BY <1>0, <2>1 DEF ChatTypeOK, Ids
  <2>3. readPointer' = [readPointer EXCEPT ![c] = [readPointer[c] EXCEPT ![u] = to]]
    BY <1>0, <1>8, <2>1 DEF AdvanceReadPointer, ChatTypeOK
  <2> HIDE DEF to
  <2>4. readPointer' \in [Conversations -> [Users -> 0..MaxId]]
    BY <1>0, <2>1, <2>2, <2>3 DEF ChatTypeOK
  <2> QED
    BY <1>0, <1>8, <2>4 DEF AdvanceReadPointer, ChatTypeOK
<1>9. CASE Crash
  BY <1>0, <1>9 DEF Crash, ChatTypeOK
<1>10. CASE UNCHANGED chatVars
  BY <1>0, <1>10 DEF chatVars, dbVars, ChatTypeOK
<1> QED
  BY <1>1, <1>2, <1>3, <1>4, <1>5, <1>6, <1>7, <1>8, <1>9, <1>10 DEF ChatNext, Send, Mark
-----------------------------------------------------------------------------
\* A step that inserts, commits and publishes nothing may only end sends or
\* move them on between two statements.
LEMMA QuietStep ==
  ASSUME IdsAreOwned, PublishedAreCommitted,
         UNCHANGED <<rows, lastId, published>>,
         \A q \in Sends : Numbered(q)' =>
           /\ Numbered(q)
           /\ send'[q].id = send[q].id
           /\ send'[q].step = "committed" <=> send[q].step = "committed"
  PROVE  IdsAreOwned' /\ PublishedAreCommitted'
<1>1. PublishedAreCommitted'
  BY DEF PublishedAreCommitted
<1>2. (\A m \in rows' : m.id <= lastId') /\ (\A m, n \in rows' : m.id = n.id => m = n)
  BY DEF IdsAreOwned
<1>3. ASSUME NEW r \in Sends, Numbered(r)'
      PROVE  /\ send'[r].id \in 1..lastId'
             /\ \A q \in Sends : Numbered(q)' /\ send'[q].id = send'[r].id => q = r
             /\ \A i \in DOMAIN published' : published'[i] # send'[r].id
             /\ send'[r].step = "committed" <=> \E m \in rows' : m.id = send'[r].id
  <2>1. Numbered(r) /\ send'[r].id = send[r].id
    BY <1>3
  <2> QED
    BY <1>3, <2>1 DEF IdsAreOwned
<1> QED
  BY <1>1, <1>2, <1>3 DEF IdsAreOwned

\* The INSERT takes an id above all of them.
LEMMA InsertOwns ==
  ASSUME Inv, NEW r \in Sends, InsertMessage(r)
  PROVE  IdsAreOwned' /\ PublishedAreCommitted'
<1>0. /\ ChatTypeOK /\ IdsAreOwned /\ PublishedAreCommitted
      /\ UNCHANGED <<rows, published>> /\ lastId' = lastId + 1 /\ lastId \in Nat
      /\ \A m \in rows : m.id \in Nat /\ m.id <= lastId
  BY Sizes DEF Inv, InsertMessage, ChatTypeOK, IdsAreOwned, Message, Ids
<1>1. send[r] \in SendRecord
  BY <1>0, SendForm DEF InsertMessage, Step, InTransaction
<1>2. /\ send'[r].step = "inserted" /\ send'[r].id = lastId + 1
      /\ \A q \in Sends \ {r} : send'[q] = send[q]
  <2> DEFINE inserted == [send[r] EXCEPT !.step = "inserted", !.id = lastId + 1]
  <2>1. inserted.step = "inserted" /\ inserted.id = lastId + 1
    BY <1>1 DEF SendRecord
  <2>2. send' = [send EXCEPT ![r] = inserted]
    BY <1>0 DEF InsertMessage
  <2> HIDE DEF inserted
  <2> QED
    BY <1>0, <2>1, <2>2 DEF ChatTypeOK
<1>3. PublishedAreCommitted'
  BY <1>0 DEF PublishedAreCommitted
<1>4. (\A m \in rows' : m.id <= lastId') /\ (\A m, n \in rows' : m.id = n.id => m = n)
  BY <1>0 DEF IdsAreOwned
<1>5. \A i \in DOMAIN published : published[i] \in Nat /\ published[i] <= lastId
  BY <1>0 DEF PublishedAreCommitted
<1>6. ASSUME NEW q \in Sends, Numbered(q)'
      PROVE  /\ send'[q].id \in 1..lastId'
             /\ \A p \in Sends : Numbered(p)' /\ send'[p].id = send'[q].id => p = q
             /\ \A i \in DOMAIN published' : published'[i] # send'[q].id
             /\ send'[q].step = "committed" <=> \E m \in rows' : m.id = send'[q].id
  <2>0. \A p \in Sends \ {r} : Numbered(p)' =>
          /\ Numbered(p) /\ send'[p] = send[p] /\ send[p].id \in 1..lastId
    BY <1>0, <1>2 DEF IdsAreOwned, Numbered
  <2>1. CASE q = r
    BY <1>0, <1>2, <1>5, <2>0, <2>1
  <2>2. CASE q # r
    <3>1. Numbered(q) /\ send'[q] = send[q] /\ send[q].id \in 1..lastId
      BY <1>6, <2>0, <2>2
    <3>2. \A p \in Sends : Numbered(p)' /\ send'[p].id = send'[q].id => p = q
      BY <1>0, <1>2, <2>0, <2>2, <3>1 DEF IdsAreOwned
    <3> QED
      BY <1>0, <3>1, <3>2 DEF IdsAreOwned
  <2> QED
    BY <2>1, <2>2
<1> QED
  BY <1>3, <1>4, <1>6 DEF IdsAreOwned

\* The commit adds the row of an id that had none.
LEMMA CommitOwns ==
  ASSUME Inv, NEW r \in Sends, Commit(r)
  PROVE  IdsAreOwned' /\ PublishedAreCommitted'
<1> DEFINE row == [id |-> send[r].id, conversation |-> send[r].conversation, sender |-> send[r].user]
<1>0. /\ ChatTypeOK /\ IdsAreOwned /\ PublishedAreCommitted
      /\ UNCHANGED <<lastId, published>> /\ rows' = rows \cup {row}
      /\ send[r].step = "updated" /\ row.id = send[r].id
      /\ lastId \in Nat
  BY Sizes DEF Inv, Commit, ChatTypeOK
<1> HIDE DEF row
<1>1. /\ send[r].id \in 1..lastId
      /\ \A m \in rows : m.id # send[r].id
      /\ \A q \in Sends : Numbered(q) /\ send[q].id = send[r].id => q = r
      /\ \A i \in DOMAIN published : published[i] # send[r].id
  BY <1>0 DEF IdsAreOwned, Numbered
<1>2. /\ \A q \in Sends \ {r} : send'[q] = send[q]
      /\ Numbered(r)' => send'[r].step = "committed" /\ send'[r].id = send[r].id
  <2>1. CASE Goto(r, "committed")
    BY <1>0, <2>1, GotoForm DEF Step, InTransaction
  <2>2. CASE send' = [send EXCEPT ![r] = Over]
    BY <1>0, <2>2 DEF ChatTypeOK, Numbered, Over
  <2> QED
    BY <2>1, <2>2 DEF Commit
<1>3. PublishedAreCommitted'
  BY <1>0 DEF PublishedAreCommitted
<1>4. (\A m \in rows' : m.id <= lastId') /\ (\A m, n \in rows' : m.id = n.id => m = n)
  BY <1>0, <1>1 DEF IdsAreOwned
<1>5. ASSUME NEW q \in Sends, Numbered(q)'
      PROVE  /\ send'[q].id \in 1..lastId'
             /\ \A p \in Sends : Numbered(p)' /\ send'[p].id = send'[q].id => p = q
             /\ \A i \in DOMAIN published' : published'[i] # send'[q].id
             /\ send'[q].step = "committed" <=> \E m \in rows' : m.id = send'[q].id
  <2>0. \A p \in Sends : Numbered(p)' => Numbered(p) /\ send'[p].id = send[p].id
    BY <1>0, <1>2 DEF Numbered
  <2>1. CASE q = r
    BY <1>0, <1>1, <1>2, <1>5, <2>0, <2>1
  <2>2. CASE q # r
    <3>1. Numbered(q) /\ send'[q] = send[q] /\ send[q].id # send[r].id
      BY <1>1, <1>2, <1>5, <2>0, <2>2
    <3> QED
      BY <1>0, <2>0, <3>1 DEF IdsAreOwned
  <2> QED
    BY <2>1, <2>2
<1> QED
  BY <1>3, <1>4, <1>5 DEF IdsAreOwned

\* Only the send that committed an id publishes it, and is over with that.
LEMMA PublishOwns ==
  ASSUME Inv, NEW r \in Sends, PublishMessageCreated(r)
  PROVE  IdsAreOwned' /\ PublishedAreCommitted'
<1>0. /\ ChatTypeOK /\ IdsAreOwned /\ PublishedAreCommitted
      /\ UNCHANGED <<rows, lastId>> /\ published' = Append(published, send[r].id)
      /\ send[r].step = "committed" /\ send' = [send EXCEPT ![r] = Over]
      /\ published \in Seq(Ids)
  BY DEF Inv, PublishMessageCreated, dbVars, ChatTypeOK
<1>1. /\ \E m \in rows : m.id = send[r].id
      /\ \A q \in Sends : Numbered(q) /\ send[q].id = send[r].id => q = r
      /\ \A i \in DOMAIN published : published[i] # send[r].id
  BY <1>0 DEF IdsAreOwned, Numbered
<1>2. /\ DOMAIN published' = DOMAIN published \cup {Len(published) + 1}
      /\ published'[Len(published) + 1] = send[r].id
      /\ \A i \in DOMAIN published : published'[i] = published[i]
      /\ Len(published) + 1 \notin DOMAIN published
  BY <1>0
<1>3. \A q \in Sends : Numbered(q)' => q # r /\ Numbered(q) /\ send'[q] = send[q]
  BY <1>0 DEF ChatTypeOK, Numbered, Over
<1>4. PublishedAreCommitted'
  BY <1>0, <1>1, <1>2 DEF PublishedAreCommitted
<1>5. (\A m \in rows' : m.id <= lastId') /\ (\A m, n \in rows' : m.id = n.id => m = n)
  BY <1>0 DEF IdsAreOwned
<1>6. ASSUME NEW q \in Sends, Numbered(q)'
      PROVE  /\ send'[q].id \in 1..lastId'
             /\ \A p \in Sends : Numbered(p)' /\ send'[p].id = send'[q].id => p = q
             /\ \A i \in DOMAIN published' : published'[i] # send'[q].id
             /\ send'[q].step = "committed" <=> \E m \in rows' : m.id = send'[q].id
  <2>1. q # r /\ Numbered(q) /\ send'[q] = send[q] /\ send[q].id # send[r].id
    BY <1>1, <1>3, <1>6
  <2>2. \A i \in DOMAIN published' : published'[i] # send'[q].id
    BY <1>0, <1>2, <2>1 DEF IdsAreOwned
  <2> QED
    BY <1>0, <1>3, <2>1, <2>2 DEF IdsAreOwned
<1> QED
  BY <1>4, <1>5, <1>6 DEF IdsAreOwned

LEMMA OwnedStep ==
  ASSUME Inv, [ChatNext]_chatVars
  PROVE  IdsAreOwned' /\ PublishedAreCommitted'
<1>0. ChatTypeOK /\ IdsAreOwned /\ PublishedAreCommitted
  BY DEF Inv
<1> DEFINE Quiet(q) == Numbered(q)' =>
             /\ Numbered(q)
             /\ send'[q].id = send[q].id
             /\ send'[q].step = "committed" <=> send[q].step = "committed"
<1>1. ASSUME NEW r \in Sends, NEW u \in Users, NEW c \in Conversations, SendMessage(r, u, c)
      PROVE  UNCHANGED <<rows, lastId, published>> /\ \A q \in Sends : Quiet(q)
  BY <1>0, <1>1 DEF SendMessage, dbVars, ChatTypeOK, Numbered, Over
<1>2. ASSUME NEW r \in Sends, UpdateConversationLastMessageAt(r)
      PROVE  UNCHANGED <<rows, lastId, published>> /\ \A q \in Sends : Quiet(q)
  <2>1. send[r].step = "inserted" /\ Goto(r, "updated")
    BY <1>2 DEF UpdateConversationLastMessageAt
  <2>2. /\ send'[r].step = "updated" /\ send'[r].id = send[r].id
        /\ \A q \in Sends \ {r} : send'[q] = send[q]
    BY <1>0, <2>1, GotoForm DEF Step, InTransaction
  <2> QED
    BY <1>2, <2>1, <2>2 DEF UpdateConversationLastMessageAt, Numbered
<1>3. ASSUME NEW r \in Sends, Abort(r)
      PROVE  UNCHANGED <<rows, lastId, published>> /\ \A q \in Sends : Quiet(q)
  BY <1>0, <1>3 DEF Abort, ChatTypeOK, Numbered, Over
<1>4. ASSUME NEW k \in Marks, Mark(k)
      PROVE  UNCHANGED <<rows, lastId, published>> /\ \A q \in Sends : Quiet(q)
  BY <1>4 DEF Mark, MarkConversationRead, AdvanceReadPointer, dbVars, Numbered
<1>5. ASSUME Crash
      PROVE  UNCHANGED <<rows, lastId, published>> /\ \A q \in Sends : Quiet(q)
  BY <1>0, <1>5 DEF Crash, ChatTypeOK, Numbered, Idle, Over
<1>6. ASSUME UNCHANGED chatVars
      PROVE  UNCHANGED <<rows, lastId, published>> /\ \A q \in Sends : Quiet(q)
  BY <1>6 DEF chatVars, dbVars, Numbered
<1> QED
  BY <1>0, <1>1, <1>2, <1>3, <1>4, <1>5, <1>6, QuietStep, InsertOwns, CommitOwns, PublishOwns
     DEF ChatNext, Send
-----------------------------------------------------------------------------
LEMMA PartiesStep ==
  ASSUME Inv, [ChatNext]_chatVars
  PROVE  CallersAreParties' /\ OnlyParties'
<1>0. ChatTypeOK /\ CallersAreParties /\ OnlyParties
  BY DEF Inv
<1> DEFINE Sender(q) == send[q] \notin {Idle, Over} =>
                          send[q].user \in Parties[send[q].conversation]
           Marker(j) == mark[j] \notin {Idle, Over} =>
                          mark[j].user \in Parties[mark[j].conversation]
<1>1. ASSUME NEW r \in Sends, Send(r)
      PROVE  CallersAreParties' /\ OnlyParties'
  <2>1. ASSUME NEW u \in Users, NEW c \in Conversations, SendMessage(r, u, c)
        PROVE  (\A q \in Sends : Sender(q)') /\ UNCHANGED <<mark, rows, readPointer>>
    BY <1>0, <2>1 DEF SendMessage, dbVars, ChatTypeOK, CallersAreParties
  <2>2. ASSUME InsertMessage(r)
        PROVE  (\A q \in Sends : Sender(q)') /\ UNCHANGED <<mark, rows, readPointer>>
    <3>1. send[r] \in SendRecord /\ send[r] \notin {Idle, Over}
      BY <1>0, <2>2, SendForm DEF InsertMessage, Step, InTransaction
    <3> DEFINE inserted == [send[r] EXCEPT !.step = "inserted", !.id = lastId + 1]
    <3>2. inserted.user = send[r].user /\ inserted.conversation = send[r].conversation
      BY <3>1 DEF SendRecord
    <3>3. send' = [send EXCEPT ![r] = inserted]
      BY <1>0, <2>2 DEF InsertMessage
    <3> HIDE DEF inserted
    <3> QED
      BY <1>0, <2>2, <3>1, <3>2, <3>3 DEF InsertMessage, ChatTypeOK, CallersAreParties
  <2>3. ASSUME NEW s \in Step, send[r].step \in InTransaction, Goto(r, s)
        PROVE  \A q \in Sends : Sender(q)'
    <3>1. /\ send'[r].user = send[r].user /\ send'[r].conversation = send[r].conversation
          /\ \A q \in Sends \ {r} : send'[q] = send[q]
      BY <1>0, <2>3, GotoForm DEF Step
    <3>2. send[r] \notin {Idle, Over}
      BY <2>3 DEF InTransaction, Idle, Over
    <3> QED
      BY <1>0, <3>1, <3>2 DEF CallersAreParties
  <2>4. ASSUME send' = [send EXCEPT ![r] = Over]
        PROVE  \A q \in Sends : Sender(q)'
    BY <1>0, <2>4 DEF CallersAreParties, ChatTypeOK
  <2>5. ASSUME UpdateConversationLastMessageAt(r)
        PROVE  (\A q \in Sends : Sender(q)') /\ UNCHANGED <<mark, rows, readPointer>>
    BY <2>3, <2>5 DEF UpdateConversationLastMessageAt, Step, InTransaction
  <2>6. ASSUME Commit(r)
        PROVE  CallersAreParties' /\ OnlyParties'
    <3>1. send[r] \notin {Idle, Over} /\ send[r].user \in Parties[send[r].conversation]
      BY <1>0, <2>6 DEF Commit, CallersAreParties, Idle, Over
    <3>2. \A q \in Sends : Sender(q)'
      BY <2>3, <2>4, <2>6 DEF Commit, Step, InTransaction
    <3>3. \A m \in rows' : m.sender \in Parties[m.conversation]
      BY <1>0, <2>6, <3>1 DEF Commit, OnlyParties
    <3> QED
      BY <1>0, <2>6, <3>2, <3>3 DEF Commit, CallersAreParties, OnlyParties
  <2>7. ASSUME Abort(r) \/ PublishMessageCreated(r)
        PROVE  (\A q \in Sends : Sender(q)') /\ UNCHANGED <<mark, rows, readPointer>>
    BY <2>4, <2>7 DEF Abort, PublishMessageCreated, dbVars
  <2>8. ASSUME \A q \in Sends : Sender(q)', UNCHANGED <<mark, rows, readPointer>>
        PROVE  CallersAreParties' /\ OnlyParties'
    BY <1>0, <2>8 DEF CallersAreParties, OnlyParties
  <2> HIDE DEF Sender
  <2> QED
    BY <1>1, <2>1, <2>2, <2>5, <2>6, <2>7, <2>8 DEF Send
<1>2. ASSUME NEW k \in Marks, NEW u \in Users, NEW c \in Conversations, NEW id \in Ids,
             MarkConversationRead(k, u, c, id)
      PROVE  CallersAreParties' /\ OnlyParties'
  <2>1. \A j \in Marks : Marker(j)'
    BY <1>0, <1>2 DEF MarkConversationRead, ChatTypeOK, CallersAreParties
  <2> QED
    BY <1>0, <1>2, <2>1 DEF MarkConversationRead, dbVars, CallersAreParties, OnlyParties
<1>3. ASSUME NEW k \in Marks, AdvanceReadPointer(k)
      PROVE  CallersAreParties' /\ OnlyParties'
  <2>1. mark[k].user \in Parties[mark[k].conversation]
    BY <1>0, <1>3 DEF AdvanceReadPointer, CallersAreParties, Idle, Over
  <2>2. \A c \in Conversations : \A u \in Users \ Parties[c] : readPointer'[c][u] = readPointer[c][u]
    BY <1>0, <1>3, <2>1 DEF AdvanceReadPointer, ChatTypeOK
  <2>3. \A j \in Marks : Marker(j)'
    BY <1>0, <1>3 DEF AdvanceReadPointer, ChatTypeOK, CallersAreParties
  <2> QED
    BY <1>0, <1>3, <2>2, <2>3 DEF AdvanceReadPointer, CallersAreParties, OnlyParties
<1>4. CASE Crash
  BY <1>0, <1>4 DEF Crash, CallersAreParties, OnlyParties
<1>5. CASE UNCHANGED chatVars
  BY <1>0, <1>5 DEF chatVars, dbVars, CallersAreParties, OnlyParties
<1> QED
  BY <1>1, <1>2, <1>3, <1>4, <1>5 DEF ChatNext, Mark

-----------------------------------------------------------------------------
\* Committing puts the message last in commits and into last_message_at of
\* its conversation; the other conversations keep theirs.
LEMMA ActivityStep ==
  ASSUME Inv, ActivityIsLastCommit, [ChatNext]_chatVars
  PROVE  ActivityIsLastCommit'
<1>1. ASSUME UNCHANGED <<rows, lastMessageAt, commits>>
      PROVE  ActivityIsLastCommit'
  BY <1>1 DEF ActivityIsLastCommit, Committed
<1>2. ASSUME NEW r \in Sends, Commit(r)
      PROVE  ActivityIsLastCommit'
  <2> DEFINE n == Len(commits) + 1
             to == send[r].conversation
             row == [id |-> send[r].id, conversation |-> to, sender |-> send[r].user]
  <2>1. /\ rows' = rows \cup {row} /\ row.id = send[r].id /\ row.conversation = to
        /\ lastMessageAt' = [lastMessageAt EXCEPT ![to] = send[r].id]
        /\ lastMessageAt \in [Conversations -> 0..MaxId]
        /\ commits' = Append(commits, send[r].id)
        /\ commits \in Seq(Ids) /\ send[r].id \in Ids /\ to \in Conversations
        /\ \A m \in rows : m.id # send[r].id
    <3>1. ChatTypeOK /\ IdsAreOwned /\ send[r].step = "updated" /\ lastId \in 0..MaxId
      BY <1>2 DEF Inv, Commit, ChatTypeOK
    <3>2. send[r] \in SendRecord
      BY <3>1, SendForm DEF Step, InTransaction
    <3>3. send[r].id \in Ids
      BY <3>1, Sizes DEF IdsAreOwned, Numbered, Ids
    <3> QED
      BY <1>2, <3>1, <3>2, <3>3 DEF Commit, ChatTypeOK, IdsAreOwned, Numbered, SendRecord
  <2> HIDE DEF row
  <2>2. /\ n \in Nat /\ DOMAIN commits = 1..(n - 1) /\ DOMAIN commits' = 1..n
        /\ commits'[n] = send[r].id
        /\ \A i \in DOMAIN commits : commits'[i] = commits[i]
        /\ n \in DOMAIN commits' /\ \A j \in DOMAIN commits' : j <= n
    BY <2>1
  <2>3. ASSUME NEW c \in Conversations
        PROVE  Committed(c)' = IF c = to THEN Committed(c) \cup {send[r].id} ELSE Committed(c)
    BY <2>1 DEF Committed
  <2>4. \A c \in Conversations : send[r].id \notin Committed(c)
    BY <2>1 DEF Committed
  <2> HIDE DEF n, to
  <2> SUFFICES ASSUME NEW c \in Conversations
               PROVE  LET here == {i \in DOMAIN commits' : commits'[i] \in Committed(c)'}
                      IN  IF here = {} THEN lastMessageAt'[c] = 0
                          ELSE \E i \in here :
                                 (\A j \in here : j <= i) /\ lastMessageAt'[c] = commits'[i]
    BY DEF ActivityIsLastCommit
  <2>5. CASE c = to
    <3>1. commits'[n] \in Committed(c)' /\ lastMessageAt'[c] = commits'[n]
      BY <2>1, <2>2, <2>3, <2>5
    <3> QED
      BY <2>2, <3>1
  <2>6. CASE c # to
    <3>1. Committed(c)' = Committed(c) /\ lastMessageAt'[c] = lastMessageAt[c]
      BY <2>1, <2>3, <2>6
    <3>2. commits'[n] \notin Committed(c)
      BY <2>2, <2>4
    <3>3. {i \in DOMAIN commits' : commits'[i] \in Committed(c)'}
            = {i \in DOMAIN commits : commits[i] \in Committed(c)}
      BY <2>2, <3>1, <3>2
    <3> DEFINE here == {i \in DOMAIN commits : commits[i] \in Committed(c)}
    <3>4. IF here = {} THEN lastMessageAt[c] = 0
          ELSE \E i \in here : (\A j \in here : j <= i) /\ lastMessageAt[c] = commits[i]
      BY DEF ActivityIsLastCommit
    <3>5. \A i \in here : commits'[i] = commits[i]
      BY <2>2
    <3> HIDE DEF here
    <3> QED
      BY <3>1, <3>3, <3>4, <3>5 DEF here
  <2> QED
    BY <2>5, <2>6
<1>3. ASSUME NEW r \in Sends, Send(r), ~Commit(r)
      PROVE  UNCHANGED <<rows, lastMessageAt, commits>>
  BY <1>3 DEF Send, SendMessage, InsertMessage, UpdateConversationLastMessageAt, Abort,
              PublishMessageCreated, dbVars
<1>4. ASSUME NEW k \in Marks, Mark(k)
      PROVE  UNCHANGED <<rows, lastMessageAt, commits>>
  BY <1>4 DEF Mark, MarkConversationRead, AdvanceReadPointer, dbVars
<1>5. CASE Crash
  BY <1>1, <1>5 DEF Crash
<1>6. CASE UNCHANGED chatVars
  BY <1>1, <1>6 DEF chatVars, dbVars
<1> QED
  BY <1>1, <1>2, <1>3, <1>4, <1>5, <1>6 DEF ChatNext

-----------------------------------------------------------------------------
LEMMA LargestExists ==
  ASSUME NEW n \in Nat, NEW S \in SUBSET (0..n), S # {}
  PROVE  \E x \in S : \A y \in S : y <= x
<1> DEFINE T == {i \in Nat : n - i \in S}
<1>1. T # {}
  <2>1. PICK x \in S : TRUE
    OBVIOUS
  <2>2. n - x \in Nat /\ n - (n - x) = x
    BY <2>1
  <2> QED
    BY <2>1, <2>2
<1>2. T \in SUBSET Nat
  OBVIOUS
<1> HIDE DEF T
<1>3. PICK i \in T : \A j \in T : <<j, i>> \notin OpToRel(<, Nat)
  BY <1>1, <1>2, NatLessThanWellFounded, WFMin
<1>4. \A j \in T : ~(j < i)
  BY <1>2, <1>3 DEF OpToRel
<1>5. n - i \in S /\ i \in Nat
  BY <1>3 DEF T
<1>6. ASSUME NEW y \in S
      PROVE  y <= n - i
  <2>1. n - y \in T
    BY DEF T
  <2> QED
    BY <1>4, <1>5, <2>1
<1> QED
  BY <1>5, <1>6

LEMMA NewestIsLargest ==
  ASSUME NEW n \in Nat, NEW S \in SUBSET (1..n)
  PROVE  /\ S = {} => Newest(S) = 0
         /\ S # {} => Newest(S) \in S /\ \A y \in S : y <= Newest(S)
<1>1. CASE S = {}
  BY <1>1 DEF Newest
<1>2. CASE S # {}
  <2>1. PICK x \in S : \A y \in S : y <= x
    <3>1. S \in SUBSET (0..n)
      OBVIOUS
    <3> QED
      BY <1>2, <3>1, LargestExists
  <2>2. Newest(S) \in S \cup {0} /\ \A y \in S : y <= Newest(S)
    BY <2>1 DEF Newest
  <2>3. 0 \notin S /\ x \in S /\ x > 0
    BY <2>1
  <2>4. Newest(S) # 0
    BY <2>2, <2>3
  <2> QED
    BY <1>2, <2>2, <2>4
<1> QED
  BY <1>1, <1>2
LEMMA InitHolds == ChatInit => Inv /\ ActivityIsLastCommit
<1> SUFFICES ASSUME ChatInit
             PROVE  Inv /\ ActivityIsLastCommit
  OBVIOUS
<1> DEFINE W == Cardinality(Written)
           In(c) == {m.id : m \in {m \in Written : m.conversation = c}}
<1>0. W \in Nat /\ MaxId \in Nat /\ W <= MaxId
  BY Sizes DEF MaxId
<1>1. \A c \in Conversations : In(c) \in SUBSET (1..W)
  BY WrittenAssumption
<1>2. /\ rows = Written /\ lastId = W
      /\ lastMessageAt = [c \in Conversations |-> Newest(In(c))]
      /\ readPointer = [c \in Conversations |-> [u \in Users |-> 0]]
      /\ lock = [c \in Conversations |-> NoSend]
      /\ send = [r \in Sends |-> Idle]
      /\ mark = [k \in Marks |-> Idle]
      /\ published = <<>>
      /\ commits = [i \in 1..W |-> i]
  BY DEF ChatInit
<1>3. Written \subseteq [id : 1..W, conversation : Conversations, sender : Users]
  BY WrittenAssumption
<1>4. \A c \in Conversations : Committed(c) = In(c)
  BY <1>2 DEF Committed
<1> HIDE DEF W, In
<1>5. \A c \in Conversations :
        /\ In(c) = {} => Newest(In(c)) = 0
        /\ In(c) # {} => Newest(In(c)) \in In(c) /\ \A y \in In(c) : y <= Newest(In(c))
  BY <1>0, <1>1, NewestIsLargest
<1>6. ChatTypeOK
  <2>1. rows \subseteq Message
    BY <1>0, <1>2, <1>3 DEF Message, Ids
  <2>2. \A c \in Conversations : Newest(In(c)) \in 0..MaxId
    BY <1>0, <1>1, <1>5
  <2>3. lastMessageAt \in [Conversations -> 0..MaxId]
    BY <1>2, <2>2
  <2>4. commits \in Seq(Ids)
    BY <1>0, <1>2 DEF Ids
  <2> QED
    BY <1>0, <1>2, <2>1, <2>3, <2>4 DEF ChatTypeOK
<1>7. Begun = {} /\ \A r \in Sends : ~Numbered(r)
  BY <1>2 DEF Begun, Numbered, Idle
<1>8. IdsSuffice
  BY <1>0, <1>2, <1>7, FS_EmptySet DEF IdsSuffice, W
<1>9. IdsAreOwned
  BY <1>2, <1>3, <1>7, WrittenAssumption DEF IdsAreOwned
<1>10. PublishedAreCommitted
  BY <1>2 DEF PublishedAreCommitted
<1>11. CallersAreParties /\ OnlyParties
  BY <1>2, WrittenAssumption DEF CallersAreParties, OnlyParties
<1>12. ActivityIsLastCommit
  <2> SUFFICES ASSUME NEW c \in Conversations
               PROVE  LET here == {i \in DOMAIN commits : commits[i] \in Committed(c)}
                      IN  IF here = {} THEN lastMessageAt[c] = 0
                          ELSE \E i \in here :
                                 (\A j \in here : j <= i) /\ lastMessageAt[c] = commits[i]
    BY DEF ActivityIsLastCommit
  <2> DEFINE here == {i \in DOMAIN commits : commits[i] \in Committed(c)}
  <2>1. here = In(c) /\ \A i \in here : commits[i] = i
    BY <1>1, <1>2, <1>4
  <2>2. lastMessageAt[c] = Newest(In(c))
    BY <1>2
  <2> HIDE DEF here
  <2>3. IF here = {} THEN lastMessageAt[c] = 0
        ELSE \E i \in here : (\A j \in here : j <= i) /\ lastMessageAt[c] = commits[i]
    BY <1>5, <2>1, <2>2
  <2> QED
    BY <2>3 DEF here
<1> QED
  BY <1>6, <1>8, <1>9, <1>10, <1>11, <1>12 DEF Inv

LEMMA StepHolds == Inv /\ [ChatNext]_chatVars => Inv'
<1> SUFFICES ASSUME Inv, [ChatNext]_chatVars
             PROVE  Inv'
  OBVIOUS
<1>1. IdsSuffice'
  BY IdsSufficeStep DEF Inv
<1> QED
  BY <1>1, ChatTypeStep, OwnedStep, PartiesStep DEF Inv

LEMMA Inductive == ChatSafety => []Inv
<1>1. ChatInit => Inv
  BY InitHolds
<1>2. Inv /\ [ChatNext]_chatVars => Inv'
  BY StepHolds
<1> QED
  BY <1>1, <1>2, PTL DEF ChatSafety

\* Type correctness: the ids of all sends fit, because each takes one.
THEOREM ChatIsTyped == ChatSafety => []ChatTypeOK
<1>1. Inv => ChatTypeOK
  BY DEF Inv
<1> QED
  BY <1>1, Inductive, PTL

\* The broker is given an event of a message only after its transaction
\* committed, and never twice: PublishMessageCreated after CreateMessage.
THEOREM EventsFollowCommits == ChatSafety => []PublishedAreCommitted
<1>1. Inv => PublishedAreCommitted
  BY DEF Inv
<1> QED
  BY <1>1, Inductive, PTL

\* No call of somebody else leaves a message or a read pointer behind: the
\* party check of the first statement holds until the last.
THEOREM StrangersLeaveNothing == ChatSafety => []OnlyParties
<1>1. Inv => OnlyParties
  BY DEF Inv
<1> QED
  BY <1>1, Inductive, PTL

\* conversations.last_message_at is the last committed message at any time:
\* the UPDATE is in the transaction of the INSERT.
THEOREM ActivityFollowsCommits == ChatSafety => []ActivityIsLastCommit
<1>1. ChatInit => ActivityIsLastCommit
  BY InitHolds
<1>2. Inv /\ ActivityIsLastCommit /\ [ChatNext]_chatVars => ActivityIsLastCommit'
  BY ActivityStep
<1> QED
  BY <1>1, <1>2, Inductive, PTL DEF ChatSafety
=============================================================================
