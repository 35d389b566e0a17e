------------------------------- MODULE Broker -------------------------------
(***************************************************************************)
(* The process-local SSE broker (internal/adapter/sse/broker.go).          *)
(*                                                                         *)
(* Every exported method of the broker holds one mutex from its first      *)
(* statement to its return, so a method is one action.  Receiving from a   *)
(* subscription's channel takes no mutex and is an action of its own.      *)
(*                                                                         *)
(* Channels have Go's semantics: a closed channel still yields what it     *)
(* buffers, and sending on or closing a closed channel panics.  A panic    *)
(* is recorded in "panicked" instead of being ruled out by a guard.        *)
(*                                                                         *)
(* An event is its message number.  The whole model is of one process, so  *)
(* the broker never reopens: a restart is a new behaviour.                 *)
(***************************************************************************)
EXTENDS Naturals, Sequences

CONSTANTS
  Users,          \* local user ids
  Subscriptions,  \* one per call of Subscribe: a *subscriber is never reused
  Owner,          \* the user of a subscription
  Capacity,       \* subscriptionBufferSize, 16 in the code
  MaxMessages     \* bounds the calls of PublishMessageCreated

ASSUME OwnerAssumption == Owner \in [Subscriptions -> Users]
ASSUME CapacityAssumption == Capacity \in Nat \ {0}
ASSUME MaxMessagesAssumption == MaxMessages \in Nat

VARIABLES
  closed,       \* Broker.closed
  subscribers,  \* Broker.subscribers; an absent key is the empty set
  channel,      \* "none" before make, then "open" until close
  buffer,       \* the events waiting in each channel
  panicked,     \* a send or a close met a closed channel
  calls,        \* calls of PublishMessageCreated so far
  feed,         \* history: the events fanned out to each user
  joined,       \* history: length of the owner's feed at Subscribe
  received      \* history: the events taken out of each channel

brokerVars ==
  <<closed, subscribers, channel, buffer, panicked, calls, feed, joined, received>>

Messages == 1..MaxMessages

-----------------------------------------------------------------------------
BrokerInit ==
  /\ closed = FALSE
  /\ subscribers = [u \in Users |-> {}]
  /\ channel = [s \in Subscriptions |-> "none"]
  /\ buffer = [s \in Subscriptions |-> <<>>]
  /\ panicked = FALSE
  /\ calls = 0
  /\ feed = [u \in Users |-> <<>>]
  /\ joined = [s \in Subscriptions |-> 0]
  /\ received = [s \in Subscriptions |-> <<>>]

Registered(s) == s \in subscribers[Owner[s]]

Subscribe(s) ==
  /\ ~closed
  /\ channel[s] = "none"
  /\ channel' = [channel EXCEPT ![s] = "open"]
  /\ subscribers' = [subscribers EXCEPT ![Owner[s]] = @ \cup {s}]
  /\ joined' = [joined EXCEPT ![s] = Len(feed[Owner[s]])]
  /\ UNCHANGED <<closed, buffer, panicked, calls, feed, received>>

\* Mutant: only the seller is told.
TargetsOnlySeller(seller, buyer) == subscribers[seller]

\* The two calls of publishToUserLocked.  The code skips the second one when
\* both ids are the same user, as the union does.
Targets(seller, buyer) == subscribers[seller] \cup subscribers[buyer]

\* The targets whose non-blocking send takes the default branch.
Overflowing(targets) == {s \in targets : Len(buffer[s]) >= Capacity}

\* closeSubscriptionLocked for every subscription of dropped, each of which
\* is registered.
Without(dropped) == [u \in Users |-> subscribers[u] \ dropped]
ChannelsAfterClosing(dropped) ==
  [s \in Subscriptions |-> IF s \in dropped THEN "closed" ELSE channel[s]]

\* The message is the caller's: calls numbers the calls, and a call made
\* after Close returns before the fan-out.
PublishDropped ==
  /\ closed
  /\ calls < MaxMessages
  /\ calls' = calls + 1
  /\ UNCHANGED <<closed, subscribers, channel, buffer, panicked, feed, joined, received>>

Publish(seller, buyer) ==
  LET message  == calls + 1
      targets  == Targets(seller, buyer)
      dropped  == Overflowing(targets)
  IN  /\ ~closed
      /\ calls < MaxMessages
      /\ calls' = message
      /\ buffer' = [s \in Subscriptions |->
                      IF s \in targets \ dropped THEN Append(buffer[s], message)
                                                 ELSE buffer[s]]
      /\ subscribers' = Without(dropped)
      /\ channel' = ChannelsAfterClosing(dropped)
      /\ panicked' = (panicked \/ \E s \in targets : channel[s] # "open")
      /\ feed' = [u \in Users |->
                    IF u \in {seller, buyer} THEN Append(feed[u], message)
                                             ELSE feed[u]]
      /\ UNCHANGED <<closed, joined, received>>

PublishMessageCreated ==
  \/ PublishDropped
  \/ \E seller, buyer \in Users : seller # buyer /\ Publish(seller, buyer)

\* <-subscription.Events with an event buffered, on an open or closed channel.
Receive(s) ==
  /\ channel[s] # "none"
  /\ buffer[s] # <<>>
  /\ buffer' = [buffer EXCEPT ![s] = Tail(@)]
  /\ received' = [received EXCEPT ![s] = Append(@, Head(buffer[s]))]
  /\ UNCHANGED <<closed, subscribers, channel, panicked, calls, feed, joined>>

\* The other outcome of a receive: the channel is closed and drained.
Drained(s) == channel[s] = "closed" /\ buffer[s] = <<>>

\* Mutant: the map of subscribers is not consulted before closing.
UnsubscribeUnchecked(s) ==
  /\ channel[s] # "none"
  /\ subscribers' = Without({s})
  /\ channel' = ChannelsAfterClosing({s})
  /\ panicked' = (panicked \/ channel[s] # "open")
  /\ UNCHANGED <<closed, buffer, calls, feed, joined, received>>

\* Nothing stops a caller from calling it again, or after the broker already
\* closed the channel: then it only finds the subscription gone.
Unsubscribe(s) ==
  /\ channel[s] # "none"
  /\ IF Registered(s)
       THEN /\ subscribers' = Without({s})
            /\ channel' = ChannelsAfterClosing({s})
            /\ panicked' = (panicked \/ channel[s] # "open")
       ELSE UNCHANGED <<subscribers, channel, panicked>>
  /\ UNCHANGED <<closed, buffer, calls, feed, joined, received>>

\* Mutant: the map is not reset.
CloseKeepsMap ==
  LET all == UNION {subscribers[u] : u \in Users}
  IN  /\ ~closed
      /\ closed' = TRUE
      /\ channel' = ChannelsAfterClosing(all)
      /\ UNCHANGED <<subscribers, buffer, panicked, calls, feed, joined, received>>

\* Mutant: later subscribers are refused, the present ones are left waiting.
CloseOnlyRefuses ==
  /\ ~closed
  /\ closed' = TRUE
  /\ UNCHANGED <<subscribers, channel, panicked, buffer, calls, feed, joined, received>>

\* A second Close returns at once.
Close ==
  LET all == UNION {subscribers[u] : u \in Users}
  IN  /\ ~closed
      /\ closed' = TRUE
      /\ channel' = ChannelsAfterClosing(all)
      /\ panicked' = (panicked \/ \E s \in all : channel[s] # "open")
      /\ subscribers' = [u \in Users |-> {}]
      /\ UNCHANGED <<buffer, calls, feed, joined, received>>

BrokerNext ==
  \/ PublishMessageCreated
  \/ Close
  \/ \E s \in Subscriptions : Subscribe(s) \/ Receive(s) \/ Unsubscribe(s)

\* Nothing here is fair: the callers decide.
BrokerSpec == BrokerInit /\ [][BrokerNext]_brokerVars

-----------------------------------------------------------------------------
\* Type invariant of the broker's state and of its history variables.
BrokerTypeOK ==
  /\ closed \in BOOLEAN
  /\ subscribers \in [Users -> SUBSET Subscriptions]
  /\ channel \in [Subscriptions -> {"none", "open", "closed"}]
  /\ buffer \in [Subscriptions -> Seq(Messages)]
  /\ panicked \in BOOLEAN
  /\ calls \in 0..MaxMessages
  /\ feed \in [Users -> Seq(Messages)]
  /\ joined \in [Subscriptions -> Nat]
  /\ received \in [Subscriptions -> Seq(Messages)]

\* No order of Publish (with overflow), Unsubscribe and Close makes the broker
\* close a channel twice or send on a closed one: broker.go closes channels in
\* three places and relies on the map of subscribers to do it once.
NoPanic == ~panicked

\* The map holds exactly the open channels, each under its own user.  It is
\* what makes every close of broker.go happen at most once, and what makes
\* Close reach every stream that is still waiting.
RegisteredIffOpen ==
  \A s \in Subscriptions, u \in Users :
    s \in subscribers[u] <=> (channel[s] = "open" /\ Owner[s] = u)

\* Close leaves no open channel behind, and no later Subscribe opens one.
ClosedBrokerHasNoStream ==
  closed => \A s \in Subscriptions : channel[s] # "open"

RunOfFeed(s) ==
  LET f == feed[Owner[s]]
  IN  /\ joined[s] + Len(received[s]) + Len(buffer[s]) <= Len(f)
      /\ \A i \in 1..Len(received[s]) : received[s][i] = f[joined[s] + i]
      /\ \A i \in 1..Len(buffer[s]) :
           buffer[s][i] = f[joined[s] + Len(received[s]) + i]
      /\ channel[s] = "open" =>
           joined[s] + Len(received[s]) + Len(buffer[s]) = Len(f)

\* The events of a subscription are a run of its owner's feed, without a gap,
\* a repetition, a swap or somebody else's event, from the first event after
\* Subscribe; while the channel is open the run reaches the feed's end.  An
\* overflow must end the stream instead of skipping the event.
GaplessStream == \A s \in Subscriptions : RunOfFeed(s)
=============================================================================
