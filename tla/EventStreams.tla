---------------------------- MODULE EventStreams ----------------------------
(***************************************************************************)
(* The broker together with the goroutines that serve GET /api/events      *)
(* (streamEvents, internal/adapter/httpapi/chat.go), one per authenticated *)
(* request and so one per subscription.                                    *)
(*                                                                         *)
(* A handler subscribes, sends the headers and then selects among the      *)
(* request's context, its channel and the keepalive ticker.  A write can   *)
(* block while the client does not read (the server sets no WriteTimeout)  *)
(* and fails only once the connection is gone.  Whatever ends the loop,    *)
(* the deferred unsubscribe runs last.                                     *)
(*                                                                         *)
(* Left out: a nil broker and a response writer without Flush, which are   *)
(* faults of the wiring and not of a run; the loss of a client's tail of   *)
(* bytes (what a client reads is a prefix of "written").                   *)
(***************************************************************************)
EXTENDS Broker

VARIABLES
  pc,       \* where the handler of a subscription is
  carry,    \* the event in the handler's hands, between channel and socket
  written,  \* the events written to the response
  client    \* "reading", "stalled" (connected, not reading) or "gone"

handlerVars == <<pc, carry, written, client>>
vars == <<brokerVars, handlerVars>>

NoEvent == 0
Locations == {"new", "subscribed", "selecting", "writing", "keepalive",
              "returning", "finished", "unavailable"}

Init ==
  /\ BrokerInit
  /\ pc = [s \in Subscriptions |-> "new"]
  /\ carry = [s \in Subscriptions |-> NoEvent]
  /\ written = [s \in Subscriptions |-> <<>>]
  /\ client = [s \in Subscriptions |-> "reading"]

Goto(s, from, to) == pc[s] = from /\ pc' = [pc EXCEPT ![s] = to]

-----------------------------------------------------------------------------
SubscribeStream(s) ==
  /\ Goto(s, "new", "subscribed")
  /\ Subscribe(s)
  /\ UNCHANGED <<carry, written, client>>

\* ErrBrokerClosed becomes 503 service_unavailable; nothing to unsubscribe.
RefuseStream(s) ==
  /\ closed
  /\ Goto(s, "new", "unavailable")
  /\ UNCHANGED <<brokerVars, carry, written, client>>

\* WriteHeader and Flush: their errors are not looked at.
SendHeaders(s) ==
  /\ Goto(s, "subscribed", "selecting")
  /\ UNCHANGED <<brokerVars, carry, written, client>>

\* Mutant: the select has no case for the request's context.
SelectDoneMissing(s) == s \notin Subscriptions /\ Goto(s, "selecting", "returning")

\* case <-Request().Context().Done(): net/http cancels it when the client goes.
SelectDone(s) ==
  /\ client[s] = "gone"
  /\ Goto(s, "selecting", "returning")
  /\ UNCHANGED <<brokerVars, carry, written, client>>

\* Mutant: the event is taken from the channel and not written.
SelectEventDropped(s) ==
  /\ Goto(s, "selecting", "selecting")
  /\ Receive(s)
  /\ UNCHANGED <<carry, written, client>>

\* case event, open := <-events, with open
SelectEvent(s) ==
  /\ Goto(s, "selecting", "writing")
  /\ Receive(s)
  /\ carry' = [carry EXCEPT ![s] = Head(buffer[s])]
  /\ UNCHANGED <<written, client>>

\* Mutant: a closed channel does not end the loop.
SelectClosedContinues(s) ==
  /\ Drained(s)
  /\ Goto(s, "selecting", "selecting")
  /\ UNCHANGED <<brokerVars, carry, written, client>>

\* case event, open := <-events, with !open
SelectClosed(s) ==
  /\ Drained(s)
  /\ Goto(s, "selecting", "returning")
  /\ UNCHANGED <<brokerVars, carry, written, client>>

\* case <-ticker.C: the interval may have passed at any time.
SelectTick(s) ==
  /\ Goto(s, "selecting", "keepalive")
  /\ UNCHANGED <<brokerVars, carry, written, client>>

\* writeMessageCreatedEvent.  A write to a stalled or departed client may
\* still fit the socket's buffer.
WriteEvent(s) ==
  /\ Goto(s, "writing", "selecting")
  /\ written' = [written EXCEPT ![s] = Append(@, carry[s])]
  /\ carry' = [carry EXCEPT ![s] = NoEvent]
  /\ UNCHANGED <<brokerVars, client>>

\* Mutant: the error of the write does not end the loop.
WriteErrorIgnored(s) ==
  /\ client[s] = "gone"
  /\ Goto(s, "writing", "selecting")
  /\ carry' = [carry EXCEPT ![s] = NoEvent]
  /\ UNCHANGED <<brokerVars, written, client>>

WriteEventFails(s) ==
  /\ client[s] = "gone"
  /\ Goto(s, "writing", "returning")
  /\ carry' = [carry EXCEPT ![s] = NoEvent]
  /\ UNCHANGED <<brokerVars, written, client>>

WriteKeepalive(s) ==
  /\ Goto(s, "keepalive", "selecting")
  /\ UNCHANGED <<brokerVars, carry, written, client>>

WriteKeepaliveFails(s) ==
  /\ client[s] = "gone"
  /\ Goto(s, "keepalive", "returning")
  /\ UNCHANGED <<brokerVars, carry, written, client>>

\* Mutant: there is no deferred unsubscribe.
ReturnSubscribed(s) ==
  /\ Goto(s, "returning", "finished")
  /\ UNCHANGED <<brokerVars, carry, written, client>>

\* defer unsubscribe()
Return(s) ==
  /\ Goto(s, "returning", "finished")
  /\ Unsubscribe(s)
  /\ UNCHANGED <<carry, written, client>>

-----------------------------------------------------------------------------
\* The browser stops reading, reads again, or closes the connection.
ClientMoves(s) ==
  /\ client[s] # "gone"
  /\ \E c \in {"reading", "stalled", "gone"} \ {client[s]} :
       client' = [client EXCEPT ![s] = c]
  /\ UNCHANGED <<brokerVars, pc, carry, written>>

\* A chat request that committed a message, and the server's PreShutdown hook.
Sender   == PublishMessageCreated /\ UNCHANGED handlerVars
Shutdown == Close /\ UNCHANGED handlerVars

Connect(s) == SubscribeStream(s) \/ RefuseStream(s)
Select(s)  == SelectDone(s) \/ SelectEvent(s) \/ SelectClosed(s) \/ SelectTick(s)
Write(s)   == \/ WriteEvent(s) \/ WriteEventFails(s)
              \/ WriteKeepalive(s) \/ WriteKeepaliveFails(s)
Handler(s) == Connect(s) \/ SendHeaders(s) \/ Select(s) \/ Write(s) \/ Return(s)

Next ==
  \/ Sender
  \/ Shutdown
  \/ \E s \in Subscriptions : Handler(s) \/ ClientMoves(s)

\* Fairness is stated where the process that schedules all this is modelled.
Safety == Init /\ [][Next]_vars

-----------------------------------------------------------------------------
\* Type invariant of the broker and of its handlers.
TypeOK ==
  /\ BrokerTypeOK
  /\ pc \in [Subscriptions -> Locations]
  /\ carry \in [Subscriptions -> Messages \cup {NoEvent}]
  /\ written \in [Subscriptions -> Seq(Messages)]
  /\ client \in [Subscriptions -> {"reading", "stalled", "gone"}]

Over(s) == pc[s] \in {"finished", "unavailable"}

\* A handler that is gone holds no registered channel: streamEvents leaks no
\* subscription, whichever of its returns it took and whoever closed first.
NoLeakedSubscription ==
  \A s \in Subscriptions :
    (pc[s] = "new" \/ Over(s)) => channel[s] # "open"

\* Once the response headers are out the subscription exists, so an event
\* published after the client saw the stream open is in the channel: a client
\* that reconciles over HTTP after opening the stream has no window between.
OpenStreamMissesNothing ==
  \A s \in Subscriptions :
    (pc[s] \in {"selecting", "writing", "keepalive"} /\ channel[s] = "open") =>
      /\ Registered(s)
      /\ joined[s] + Len(written[s]) + Len(buffer[s])
           + (IF pc[s] = "writing" THEN 1 ELSE 0) = Len(feed[Owner[s]])

-----------------------------------------------------------------------------
\* What the handlers promise, whatever the broker does: EventFeed, with the
\* events written to the response as those delivered.
Feed == INSTANCE EventFeed WITH
  Streams   <- Subscriptions,
  start     <- joined,
  delivered <- written,
  status    <- [s \in Subscriptions |->
                  IF pc[s] = "new" THEN "new" ELSE IF Over(s) THEN "over" ELSE "live"]

\* The event stream implements the feed: the writes of a stream are its user's
\* feed from the subscription on, in order and without gaps, until it is over.
ImplementsFeed == Feed!Spec

\* Composed with its handlers, the broker behaves as the broker alone does:
\* the handlers use it only through its methods.
ImplementsBroker == BrokerSpec
=============================================================================
