------------------------------ MODULE Delivery ------------------------------
(***************************************************************************)
(* From SendMessage to the browser tabs: the committed messages of         *)
(* ChatMessages, told over the event streams (as EventFeed, which          *)
(* EventStreams implements) and fetched in the pages of ListMessages.      *)
(*                                                                         *)
(* The tabs follow the client of docs/09-chat-and-sse.md: the last known   *)
(* message id, a fetch with after_id when the stream (re)opens, an event   *)
(* comes or the page resumes, and a merge by id.  They are external: the   *)
(* web client has no chat yet.                                             *)
(*                                                                         *)
(* Left out: the process between the closing of its broker and its end,    *)
(* when streams are over and sends publish to nobody: to a tab the same as *)
(* the acknowledgement of a commit being lost before a crash.              *)
(***************************************************************************)
EXTENDS ChatMessages

CONSTANTS
  Tabs,         \* open conversation views
  TabUser,      \* the user of a tab
  TabOf,        \* the conversation a tab shows
  PageLimit,    \* the limit of a message page
  MaxStreams    \* bounds the streams a tab opens, one after the other

ASSUME TabsAssumption == TabUser \in [Tabs -> Users] /\ TabOf \in [Tabs -> Conversations]
ASSUME PageLimitAssumption == PageLimit \in Nat \ {0}
ASSUME MaxStreamsAssumption == MaxStreams \in Nat

VARIABLES
  feed, status, start, delivered,  \* of EventFeed; an event is an index of published
  view,    \* the message ids a tab has received
  stale,   \* the tab is to fetch what follows the last id it knows
  page     \* the answer to the tab's fetch that is on its way

feedVars == <<feed, status, start, delivered>>
tabVars == <<view, stale, page>>
vars == <<chatVars, feedVars, tabVars>>

\* No id is 0; an empty page is {}.
NoPage == {0}
Streams == Tabs \X (1..MaxStreams)

Feed == INSTANCE EventFeed WITH
  Owner <- [s \in Streams |-> TabUser[s[1]]], MaxMessages <- MaxId

Init ==
  /\ ChatInit
  /\ Feed!Init
  /\ view = [t \in Tabs |-> {}]
  /\ stale = [t \in Tabs |-> FALSE]
  /\ page = [t \in Tabs |-> NoPage]

-----------------------------------------------------------------------------
(* The server                                                              *)

\* Mutant: the sender's own tabs only.
PublishToSender(r) ==
  /\ PublishMessageCreated(r)
  /\ Feed!Publish(Len(published) + 1, {send[r].user})
  /\ UNCHANGED tabVars

\* PublishMessageCreated with the parties of the conversation.
PublishToParties(r) ==
  /\ PublishMessageCreated(r)
  /\ Feed!Publish(Len(published) + 1, Parties[send[r].conversation])
  /\ UNCHANGED tabVars

\* The other steps of a SendMessage.
SendStep(r) ==
  /\ \/ \E u \in Users, c \in Conversations : SendMessage(r, u, c)
     \/ InsertMessage(r)
     \/ UpdateConversationLastMessageAt(r)
     \/ Commit(r)
     \/ Abort(r)
  /\ UNCHANGED <<feedVars, tabVars>>

\* The server dies and with it every stream and every answer on its way.
Restart ==
  /\ Crash
  /\ status' = [s \in Streams |-> IF status[s] = "live" THEN "over" ELSE status[s]]
  /\ page' = [t \in Tabs |-> NoPage]
  /\ UNCHANGED <<feed, start, delivered, view, stale>>

Smallest(S, n) == {x \in S : Cardinality({y \in S : y < x}) < n}
Largest(S, n)  == {x \in S : Cardinality({y \in S : y > x}) < n}

\* Mutant: the newest messages after the id, not the next ones.
ListNewestAfter(c, after) == Largest({i \in Committed(c) : i > after}, PageLimit)

ListMessagesAfter(c, after) == Smallest({i \in Committed(c) : i > after}, PageLimit)

\* before = 0 is no before_id: the latest page.
ListMessagesBefore(c, before) ==
  Largest({i \in Committed(c) : before = 0 \/ i < before}, PageLimit)

\* GetConversationForParticipant comes before every page.
MayList(t) == TabUser[t] \in Parties[TabOf[t]]

-----------------------------------------------------------------------------
(* The tabs                                                                *)

\* The EventSource opens, or opens again, and the tab reconciles.
Connect(t) ==
  /\ \E n \in 1..MaxStreams :
       /\ \A k \in 1..(n - 1) : status[<<t, k>>] = "over"
       /\ Feed!Begin(<<t, n>>)
  /\ stale' = [stale EXCEPT ![t] = TRUE]
  /\ UNCHANGED <<chatVars, view, page>>

\* An overflow, a lost connection, a laptop that sleeps.
Disconnect(t) ==
  /\ \E n \in 1..MaxStreams : status[<<t, n>>] = "live" /\ Feed!End(<<t, n>>)
  /\ UNCHANGED <<chatVars, tabVars>>

\* The next event of the tab's stream, which tells of a message of any of its
\* user's conversations.
HearEvent(t) ==
  \E n \in 1..MaxStreams :
    /\ Feed!Deliver(<<t, n>>)
    /\ LET id == published[delivered'[<<t, n>>][Len(delivered'[<<t, n>>])]]
       IN  stale' = [stale EXCEPT ![t] =
                       @ \/ (id \in Committed(TabOf[t]) /\ id \notin view[t])]
    /\ UNCHANGED <<chatVars, view, page>>

\* The latest page at first, then what follows the last known id.
Fetch(t) ==
  /\ MayList(t) /\ stale[t] /\ page[t] = NoPage
  /\ page' = [page EXCEPT ![t] =
       IF view[t] = {} THEN ListMessagesBefore(TabOf[t], 0)
       ELSE ListMessagesAfter(TabOf[t], Newest(view[t]))]
  /\ stale' = [stale EXCEPT ![t] = FALSE]
  /\ UNCHANGED <<chatVars, feedVars, view>>

\* The answer is merged by id; after a full page there may be more to fetch.
MergePage(t) ==
  /\ page[t] # NoPage
  /\ view' = [view EXCEPT ![t] = @ \cup page[t]]
  /\ stale' = [stale EXCEPT ![t] = @ \/ Cardinality(page[t]) = PageLimit]
  /\ page' = [page EXCEPT ![t] = NoPage]
  /\ UNCHANGED <<chatVars, feedVars>>

ScrollBack(t) ==
  /\ MayList(t) /\ page[t] = NoPage
  /\ \E oldest \in view[t] :
       /\ \A i \in view[t] : oldest <= i
       /\ view' = [view EXCEPT ![t] = @ \cup ListMessagesBefore(TabOf[t], oldest)]
  /\ UNCHANGED <<chatVars, feedVars, stale, page>>

Tab(t) ==
  \/ Connect(t) \/ Disconnect(t) \/ HearEvent(t)
  \/ Fetch(t) \/ MergePage(t) \/ ScrollBack(t)

Next ==
  \/ \E r \in Sends : SendStep(r) \/ PublishToParties(r)
  \/ \E t \in Tabs : Tab(t)
  \/ Restart

Safety == Init /\ [][Next]_vars

\* The requests as in ChatMessages.  A tab reconnects, reads its stream and
\* fetches; a page is answered in the end, unless the server dies.
Fairness ==
  /\ SendFairness
  /\ \A t \in Tabs :
       /\ WF_vars(Connect(t))
       /\ WF_vars(HearEvent(t))
       /\ WF_vars(Fetch(t))
       /\ WF_vars(MergePage(t))

Spec == Safety /\ Fairness

-----------------------------------------------------------------------------
\* Type invariant.
TypeOK ==
  /\ ChatTypeOK
  /\ feed \in [Users -> Seq(Ids)]
  /\ status \in [Streams -> {"new", "live", "over"}]
  /\ start \in [Streams -> Nat]
  /\ delivered \in [Streams -> Seq(Ids)]
  /\ view \in [Tabs -> SUBSET Ids]
  /\ stale \in [Tabs -> BOOLEAN]
  /\ page \in [Tabs -> {NoPage} \cup SUBSET Ids]

\* The committed messages between the first and the last one a tab shows that
\* the tab has not received.
Holes(t) ==
  {i \in Committed(TabOf[t]) \ view[t] :
     \E low, high \in view[t] : low < i /\ i < high}

OvertakenIn(t, i) == \E high \in view[t] : i < high /\ CommittedBefore(high, i)

\* The pages of a tab meet without a gap and without losing a boundary: a
\* message is missing only if a later id was committed before it.
HolesComeFromLateCommits == \A t \in Tabs : \A i \in Holes(t) : OvertakenIn(t, i)

\* Initial, older and catch-up pages have no gaps.  Ids are taken before the
\* commit, so a lower id can appear after a tab has moved past it.
PagesHaveNoGaps == \A t \in Tabs : Holes(t) = {}

Streaming(t) == \E n \in 1..MaxStreams : status[<<t, n>>] = "live"
LastStreamOver(t) == \A n \in 1..MaxStreams : status[<<t, n>>] = "over"

\* A message that is published, or committed while the tab has no stream,
\* reaches the tab: by the event and the fetch it causes or by the fetch of a
\* reconnection, in whatever order senders publish, events arrive and pages are
\* answered, over overflows and crashes.  Only a message that committed after a
\* later id the tab already has does not, nor one before the tab's first page.
CommittedIsShown ==
  \A t \in Tabs, i \in Ids :
    []((/\ i \in Committed(TabOf[t])
        /\ (\E e \in DOMAIN published : published[e] = i) \/ ~Streaming(t)) =>
         <>(\/ i \in view[t]
            \/ OvertakenIn(t, i)
            \/ view[t] # {} /\ \A j \in view[t] : i < j
            \/ LastStreamOver(t)))
=============================================================================
