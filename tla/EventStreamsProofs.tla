------------------------- MODULE EventStreamsProofs -------------------------
(***************************************************************************)
(* Theorems about the event streams, for any users, requests and capacity, *)
(* in three parts: the broker alone under any order of calls of its        *)
(* methods; the broker composed with the handlers of GET /api/events,      *)
(* which are correct callers of it, leak no subscription and implement     *)
(* EventFeed; and the process around them, whose Runner.Run leaves the     *)
(* streams what they are, returns nil only when everything has ended, and  *)
(* reports a listener that failed.                                         *)
(***************************************************************************)
EXTENDS ServerLifecycle, TLAPS

-----------------------------------------------------------------------------
(* The broker alone.                                                       *)

\* Before make there is no channel to buffer anything in.
Untouched ==
  \A s \in Subscriptions :
    channel[s] = "none" => buffer[s] = <<>> /\ received[s] = <<>>

\* The inductive invariant: the map of subscribers and the channels agree, and
\* every stream is a run of its owner's feed.
BrokerInv ==
  /\ BrokerTypeOK
  /\ NoPanic
  /\ RegisteredIffOpen
  /\ ClosedBrokerHasNoStream
  /\ Untouched
  /\ GaplessStream

-----------------------------------------------------------------------------
\* The type invariant holds initially and is kept by every method of the
\* broker and every receive from a channel.
LEMMA BrokerTypeStep ==
  ASSUME BrokerTypeOK, [BrokerNext]_brokerVars
  PROVE  BrokerTypeOK'
<1> USE OwnerAssumption, CapacityAssumption, MaxMessagesAssumption DEF BrokerTypeOK
<1>1. CASE PublishDropped
  BY <1>1 DEF PublishDropped
<1>2. ASSUME NEW seller \in Users, NEW buyer \in Users, Publish(seller, buyer)
      PROVE  BrokerTypeOK'
  <2>1. calls + 1 \in Messages
    BY <1>2, MaxMessagesAssumption DEF Publish, Messages
  <2>a. \A q \in Seq(Messages) : Append(q, calls + 1) \in Seq(Messages)
    BY <2>1
  <2>2. buffer' \in [Subscriptions -> Seq(Messages)]
    BY <1>2, <2>a DEF Publish
  <2>3. feed' \in [Users -> Seq(Messages)]
    BY <1>2, <2>a DEF Publish
  <2>4. subscribers' \in [Users -> SUBSET Subscriptions]
    BY <1>2 DEF Publish, Without
  <2>5. channel' \in [Subscriptions -> {"none", "open", "closed"}]
    BY <1>2 DEF Publish, ChannelsAfterClosing
  <2>6. calls' \in 0..MaxMessages /\ closed' \in BOOLEAN /\ panicked' \in BOOLEAN
    BY <1>2 DEF Publish
  <2>7. joined' \in [Subscriptions -> Nat] /\ received' \in [Subscriptions -> Seq(Messages)]
    BY <1>2 DEF Publish
  <2> QED
    BY <2>2, <2>3, <2>4, <2>5, <2>6, <2>7
<1>3. CASE Close
  BY <1>3 DEF Close, ChannelsAfterClosing
<1>4. ASSUME NEW s \in Subscriptions, Subscribe(s)
      PROVE  BrokerTypeOK'
  BY <1>4 DEF Subscribe
<1>5. ASSUME NEW s \in Subscriptions, Receive(s)
      PROVE  BrokerTypeOK'
  BY <1>5 DEF Receive
<1>6. ASSUME NEW s \in Subscriptions, Unsubscribe(s)
      PROVE  BrokerTypeOK'
  <2>1. CASE Registered(s)
    BY <1>6, <2>1 DEF Unsubscribe, Without, ChannelsAfterClosing
  <2>2. CASE ~Registered(s)
    BY <1>6, <2>2 DEF Unsubscribe
  <2> QED
    BY <2>1, <2>2
<1>7. CASE UNCHANGED brokerVars
  BY <1>7 DEF brokerVars
<1> QED
  BY <1>1, <1>2, <1>3, <1>4, <1>5, <1>6, <1>7 DEF BrokerNext, PublishMessageCreated

-----------------------------------------------------------------------------
\* The map of subscribers and the open channels stay the same set, so no
\* close and no send meets a closed channel.
Registry == NoPanic /\ RegisteredIffOpen /\ ClosedBrokerHasNoStream

LEMMA RegistryStep ==
  ASSUME BrokerTypeOK, Registry, [BrokerNext]_brokerVars
  PROVE  Registry'
<1> USE OwnerAssumption
    DEF BrokerTypeOK, Registry, NoPanic, RegisteredIffOpen, ClosedBrokerHasNoStream
<1>1. CASE PublishDropped
  BY <1>1 DEF PublishDropped
<1>2. ASSUME NEW seller \in Users, NEW buyer \in Users, Publish(seller, buyer)
      PROVE  Registry'
  <2>1. \A s \in Targets(seller, buyer) : s \in Subscriptions /\ channel[s] = "open"
    BY DEF Targets
  <2>2. NoPanic'
    BY <1>2, <2>1 DEF Publish
  <2>3. RegisteredIffOpen'
    BY <1>2, <2>1 DEF Publish, Without, ChannelsAfterClosing, Overflowing
  <2>4. ClosedBrokerHasNoStream'
    BY <1>2 DEF Publish
  <2> QED
    BY <2>2, <2>3, <2>4
<1>3. CASE Close
  <2>1. \A s \in Subscriptions :
          s \in UNION {subscribers[u] : u \in Users} <=> channel[s] = "open"
    OBVIOUS
  <2>2. \A s \in Subscriptions : channel'[s] # "open"
    BY <1>3, <2>1 DEF Close, ChannelsAfterClosing
  <2>3. NoPanic'
    BY <1>3, <2>1 DEF Close
  <2> QED
    BY <1>3, <2>2, <2>3 DEF Close
<1>4. ASSUME NEW s \in Subscriptions, Subscribe(s)
      PROVE  Registry'
  BY <1>4 DEF Subscribe
<1>5. ASSUME NEW s \in Subscriptions, Receive(s)
      PROVE  Registry'
  BY <1>5 DEF Receive
<1>6. ASSUME NEW s \in Subscriptions, Unsubscribe(s)
      PROVE  Registry'
  <2>1. CASE Registered(s)
    <3>1. channel[s] = "open"
      BY <2>1 DEF Registered
    <3>2. NoPanic'
      BY <1>6, <2>1, <3>1 DEF Unsubscribe
    <3>3. RegisteredIffOpen'
      <4>1. \A t \in Subscriptions :
              channel'[t] = IF t = s THEN "closed" ELSE channel[t]
        BY <1>6, <2>1 DEF Unsubscribe, ChannelsAfterClosing
      <4>2. \A u \in Users : subscribers'[u] = subscribers[u] \ {s}
        BY <1>6, <2>1 DEF Unsubscribe, Without
      <4>3. ASSUME NEW t \in Subscriptions, NEW u \in Users
            PROVE  t \in subscribers'[u] <=> (channel'[t] = "open" /\ Owner[t] = u)
        <5>1. t \in subscribers[u] <=> (channel[t] = "open" /\ Owner[t] = u)
          OBVIOUS
        <5> QED
          BY <4>1, <4>2, <5>1
      <4> QED
        BY <4>3
    <3>4. ClosedBrokerHasNoStream'
      BY <1>6, <2>1, <3>1 DEF Unsubscribe
    <3> QED
      BY <3>2, <3>3, <3>4
  <2>2. CASE ~Registered(s)
    BY <1>6, <2>2 DEF Unsubscribe
  <2> QED
    BY <2>1, <2>2
<1>7. CASE UNCHANGED brokerVars
  BY <1>7 DEF brokerVars
<1> QED
  BY <1>1, <1>2, <1>3, <1>4, <1>5, <1>6, <1>7 DEF BrokerNext, PublishMessageCreated

-----------------------------------------------------------------------------
\* Every stream stays a run of its owner's feed.  The case that matters is
\* Publish: a target that has no room is closed, so its run may stop short of
\* the feed's end, and every other stream of the two users grows by the event.
LEMMA GaplessStep ==
  ASSUME BrokerTypeOK, RegisteredIffOpen, Untouched, GaplessStream,
         [BrokerNext]_brokerVars
  PROVE  Untouched' /\ GaplessStream'
<1> USE OwnerAssumption DEF BrokerTypeOK, Untouched, GaplessStream
<1>1. CASE PublishDropped
  BY <1>1 DEF PublishDropped, RunOfFeed
<1>2. ASSUME NEW seller \in Users, NEW buyer \in Users, Publish(seller, buyer)
      PROVE  Untouched' /\ GaplessStream'
  <2>1. \A s \in Subscriptions :
          s \in Targets(seller, buyer) <=>
            (channel[s] = "open" /\ Owner[s] \in {seller, buyer})
    BY DEF Targets, RegisteredIffOpen
  <2>2. Untouched'
    BY <1>2, <2>1 DEF Publish, ChannelsAfterClosing
  <2>3. ASSUME NEW s \in Subscriptions
        PROVE  RunOfFeed(s)'
    <3> DEFINE f == feed[Owner[s]]
    <3>1. /\ f \in Seq(Messages) /\ buffer[s] \in Seq(Messages)
          /\ Owner[s] \in Users
          /\ RunOfFeed(s) /\ joined'[s] = joined[s] /\ received'[s] = received[s]
      BY <1>2 DEF Publish
    <3>2. CASE s \in Targets(seller, buyer) /\ Len(buffer[s]) < Capacity
      <4>1. buffer'[s] = Append(buffer[s], calls + 1)
        BY <1>2, <3>2, CapacityAssumption DEF Publish, Overflowing
      <4>2. feed'[Owner[s]] = Append(f, calls + 1)
        BY <1>2, <2>1, <3>1, <3>2 DEF Publish
      <4>3. joined[s] + Len(received[s]) + Len(buffer[s]) = Len(f)
        BY <2>1, <3>1, <3>2 DEF RunOfFeed
      <4>4. calls + 1 \in Messages
        BY <1>2, MaxMessagesAssumption DEF Publish, Messages
      <4>5. /\ Len(buffer'[s]) = Len(buffer[s]) + 1
            /\ \A i \in 1..Len(buffer[s]) : buffer'[s][i] = buffer[s][i]
            /\ buffer'[s][Len(buffer[s]) + 1] = calls + 1
        BY <3>1, <4>1, <4>4
      <4>6. /\ Len(feed'[Owner[s]]) = Len(f) + 1
            /\ \A i \in 1..Len(f) : feed'[Owner[s]][i] = f[i]
            /\ feed'[Owner[s]][Len(f) + 1] = calls + 1
        BY <3>1, <4>2, <4>4
      <4>7. joined[s] \in Nat /\ received[s] \in Seq(Messages)
        OBVIOUS
      <4> HIDE DEF f
      <4>8. \A i \in 1..Len(received[s]) : received[s][i] = feed'[Owner[s]][joined[s] + i]
        <5> SUFFICES ASSUME NEW i \in 1..Len(received[s])
                     PROVE  received[s][i] = feed'[Owner[s]][joined[s] + i]
          OBVIOUS
        <5>1. joined[s] + i \in 1..Len(f)
          BY <3>1, <4>3, <4>7
        <5>2. received[s][i] = f[joined[s] + i]
          BY <3>1 DEF RunOfFeed, f
        <5> QED
          BY <4>6, <5>1, <5>2
      <4>9. \A i \in 1..Len(buffer[s]) + 1 :
              buffer'[s][i] = feed'[Owner[s]][joined[s] + Len(received[s]) + i]
        <5> SUFFICES ASSUME NEW i \in 1..Len(buffer[s]) + 1
                     PROVE  buffer'[s][i] = feed'[Owner[s]][joined[s] + Len(received[s]) + i]
          OBVIOUS
        <5>1. CASE i = Len(buffer[s]) + 1
          BY <3>1, <4>3, <4>5, <4>6, <4>7, <5>1
        <5>2. CASE i \in 1..Len(buffer[s])
          <6>1. joined[s] + Len(received[s]) + i \in 1..Len(f)
            BY <3>1, <4>3, <4>7, <5>2
          <6>2. buffer[s][i] = f[joined[s] + Len(received[s]) + i]
            BY <3>1, <5>2 DEF RunOfFeed, f
          <6> QED
            BY <4>5, <4>6, <5>2, <6>1, <6>2
        <5> QED
          BY <3>1, <5>1, <5>2
      <4> QED
        BY <3>1, <4>3, <4>5, <4>6, <4>7, <4>8, <4>9 DEF RunOfFeed
    <3>3. CASE ~(s \in Targets(seller, buyer) /\ Len(buffer[s]) < Capacity)
      <4>1. buffer'[s] = buffer[s]
        BY <1>2, <3>3, CapacityAssumption DEF Publish, Overflowing
      <4>2. \/ feed'[Owner[s]] = f
            \/ feed'[Owner[s]] = Append(f, calls + 1)
        BY <1>2, <3>1 DEF Publish
      <4>3. channel'[s] = "open" => feed'[Owner[s]] = f /\ channel[s] = "open"
        BY <1>2, <2>1, <3>1, <3>3, CapacityAssumption
        DEF Publish, ChannelsAfterClosing, Overflowing
      <4>4. /\ Len(feed'[Owner[s]]) >= Len(f)
            /\ \A i \in 1..Len(f) : feed'[Owner[s]][i] = f[i]
        <5>1. CASE feed'[Owner[s]] = f
          BY <3>1, <5>1
        <5>2. CASE feed'[Owner[s]] = Append(f, calls + 1)
          <6>1. calls + 1 \in Messages
            BY <1>2, MaxMessagesAssumption DEF Publish, Messages
          <6> QED
            BY <3>1, <5>2, <6>1
        <5> QED
          BY <4>2, <5>1, <5>2
      <4>5. joined[s] \in Nat /\ received[s] \in Seq(Messages)
        OBVIOUS
      <4> HIDE DEF f
      <4>6. joined[s] + Len(received[s]) + Len(buffer[s]) <= Len(f)
        BY <3>1 DEF RunOfFeed, f
      <4>7. \A i \in 1..Len(received[s]) : received[s][i] = feed'[Owner[s]][joined[s] + i]
        <5> SUFFICES ASSUME NEW i \in 1..Len(received[s])
                     PROVE  received[s][i] = feed'[Owner[s]][joined[s] + i]
          OBVIOUS
        <5>1. joined[s] + i \in 1..Len(f)
          BY <3>1, <4>5, <4>6
        <5>2. received[s][i] = f[joined[s] + i]
          BY <3>1 DEF RunOfFeed, f
        <5> QED
          BY <4>4, <5>1, <5>2
      <4>8. \A i \in 1..Len(buffer[s]) :
              buffer[s][i] = feed'[Owner[s]][joined[s] + Len(received[s]) + i]
        <5> SUFFICES ASSUME NEW i \in 1..Len(buffer[s])
                     PROVE  buffer[s][i] = feed'[Owner[s]][joined[s] + Len(received[s]) + i]
          OBVIOUS
        <5>1. joined[s] + Len(received[s]) + i \in 1..Len(f)
          BY <3>1, <4>5, <4>6
        <5>2. buffer[s][i] = f[joined[s] + Len(received[s]) + i]
          BY <3>1 DEF RunOfFeed, f
        <5> QED
          BY <4>4, <5>1, <5>2
      <4>9. channel'[s] = "open" =>
              joined[s] + Len(received[s]) + Len(buffer[s]) = Len(feed'[Owner[s]])
        BY <3>1, <4>3 DEF RunOfFeed, f
      <4> QED
        BY <3>1, <4>1, <4>4, <4>5, <4>6, <4>7, <4>8, <4>9 DEF RunOfFeed
    <3> QED
      BY <3>2, <3>3
  <2> QED
    BY <2>2, <2>3
<1>3. CASE Close
  BY <1>3 DEF Close, ChannelsAfterClosing, RunOfFeed
<1>4. ASSUME NEW t \in Subscriptions, Subscribe(t)
      PROVE  Untouched' /\ GaplessStream'
  <2>1. Untouched'
    BY <1>4 DEF Subscribe
  <2>2. ASSUME NEW s \in Subscriptions
        PROVE  RunOfFeed(s)'
    <3>1. CASE s # t
      BY <1>4, <3>1 DEF Subscribe, RunOfFeed
    <3>2. CASE s = t
      <4>1. buffer'[s] = <<>> /\ received'[s] = <<>> /\ feed' = feed
        BY <1>4, <3>2 DEF Subscribe
      <4>2. joined'[s] = Len(feed[Owner[s]]) /\ feed[Owner[s]] \in Seq(Messages)
        BY <1>4, <3>2 DEF Subscribe
      <4> QED
        BY <4>1, <4>2 DEF RunOfFeed
    <3> QED
      BY <3>1, <3>2
  <2> QED
    BY <2>1, <2>2
<1>5. ASSUME NEW t \in Subscriptions, Receive(t)
      PROVE  Untouched' /\ GaplessStream'
  <2>1. Untouched'
    BY <1>5 DEF Receive
  <2>2. ASSUME NEW s \in Subscriptions
        PROVE  RunOfFeed(s)'
    <3>1. CASE s # t
      BY <1>5, <3>1 DEF Receive, RunOfFeed
    <3>2. CASE s = t
      <4>1. /\ buffer[s] \in Seq(Messages) /\ buffer[s] # <<>>
            /\ received[s] \in Seq(Messages) /\ joined[s] \in Nat
            /\ feed[Owner[s]] \in Seq(Messages) /\ RunOfFeed(s)
        BY <1>5, <3>2 DEF Receive
      <4>2. /\ buffer'[s] = Tail(buffer[s])
            /\ received'[s] = Append(received[s], Head(buffer[s]))
            /\ joined' = joined /\ feed' = feed /\ channel' = channel
        BY <1>5, <3>2 DEF Receive
      <4>3. /\ Len(buffer'[s]) = Len(buffer[s]) - 1
            /\ Len(buffer[s]) >= 1
            /\ \A i \in 1..Len(buffer'[s]) : buffer'[s][i] = buffer[s][i + 1]
        BY <4>1, <4>2
      <4>4. /\ Len(received'[s]) = Len(received[s]) + 1
            /\ \A i \in 1..Len(received[s]) : received'[s][i] = received[s][i]
            /\ received'[s][Len(received[s]) + 1] = buffer[s][1]
        BY <4>1, <4>2
      <4>5. \A i \in 1..Len(received'[s]) :
              received'[s][i] = feed[Owner[s]][joined[s] + i]
        <5> SUFFICES ASSUME NEW i \in 1..Len(received'[s])
                     PROVE  received'[s][i] = feed[Owner[s]][joined[s] + i]
          OBVIOUS
        <5>1. CASE i \in 1..Len(received[s])
          BY <4>1, <4>4, <5>1 DEF RunOfFeed
        <5>2. CASE i = Len(received[s]) + 1
          <6>1. buffer[s][1] = feed[Owner[s]][joined[s] + Len(received[s]) + 1]
            <7>1. \A j \in 1..Len(buffer[s]) :
                    buffer[s][j] = feed[Owner[s]][joined[s] + Len(received[s]) + j]
              BY <4>1 DEF RunOfFeed
            <7>2. 1 \in 1..Len(buffer[s])
              BY <4>1, <4>3
            <7> QED
              BY <7>1, <7>2
          <6>2. joined[s] + Len(received[s]) + 1 = joined[s] + i
            BY <4>1, <5>2
          <6> QED
            BY <4>4, <5>2, <6>1, <6>2
        <5> QED
          BY <4>1, <4>4, <5>1, <5>2
      <4>6. \A i \in 1..Len(buffer'[s]) :
              buffer'[s][i] = feed[Owner[s]][joined[s] + Len(received'[s]) + i]
        <5> SUFFICES ASSUME NEW i \in 1..Len(buffer'[s])
                     PROVE  buffer'[s][i] = feed[Owner[s]][joined[s] + Len(received'[s]) + i]
          OBVIOUS
        <5>1. i + 1 \in 1..Len(buffer[s])
          BY <4>1, <4>3
        <5>2. buffer[s][i + 1] = feed[Owner[s]][joined[s] + Len(received[s]) + (i + 1)]
          BY <4>1, <5>1 DEF RunOfFeed
        <5>3. joined[s] + Len(received[s]) + (i + 1) = joined[s] + Len(received'[s]) + i
          BY <4>1, <4>3, <4>4
        <5> QED
          BY <4>3, <5>2, <5>3
      <4>7. Len(received'[s]) + Len(buffer'[s]) = Len(received[s]) + Len(buffer[s])
        BY <4>1, <4>3, <4>4
      <4>8. /\ joined[s] + Len(received'[s]) + Len(buffer'[s]) <= Len(feed[Owner[s]])
            /\ channel[s] = "open" =>
                 joined[s] + Len(received'[s]) + Len(buffer'[s]) = Len(feed[Owner[s]])
        <5> DEFINE total == Len(received[s]) + Len(buffer[s])
        <5>1. /\ joined[s] + total <= Len(feed[Owner[s]])
              /\ channel[s] = "open" => joined[s] + total = Len(feed[Owner[s]])
          BY <4>1 DEF RunOfFeed
        <5>2. joined[s] + Len(received'[s]) + Len(buffer'[s]) = joined[s] + total
          BY <4>1, <4>3, <4>4
        <5> QED
          BY <5>1, <5>2
      <4> QED
        BY <4>2, <4>5, <4>6, <4>8 DEF RunOfFeed
    <3> QED
      BY <3>1, <3>2
  <2> QED
    BY <2>1, <2>2
<1>6. ASSUME NEW s \in Subscriptions, Unsubscribe(s)
      PROVE  Untouched' /\ GaplessStream'
  <2>1. CASE Registered(s)
    BY <1>6, <2>1 DEF Unsubscribe, ChannelsAfterClosing, RunOfFeed
  <2>2. CASE ~Registered(s)
    BY <1>6, <2>2 DEF Unsubscribe, RunOfFeed
  <2> QED
    BY <2>1, <2>2
<1>7. CASE UNCHANGED brokerVars
  BY <1>7 DEF brokerVars, RunOfFeed
<1> QED
  BY <1>1, <1>2, <1>3, <1>4, <1>5, <1>6, <1>7 DEF BrokerNext, PublishMessageCreated

-----------------------------------------------------------------------------
\* A new broker has no subscription at all.
LEMMA BrokerInitInv == BrokerInit => BrokerInv
<1> SUFFICES ASSUME BrokerInit PROVE BrokerInv
  OBVIOUS
<1> USE OwnerAssumption DEF BrokerInit
<1>1. BrokerTypeOK
  <2>1. calls \in 0..MaxMessages
    BY MaxMessagesAssumption
  <2>2. /\ buffer \in [Subscriptions -> Seq(Messages)]
        /\ received \in [Subscriptions -> Seq(Messages)]
        /\ feed \in [Users -> Seq(Messages)]
    OBVIOUS
  <2>3. /\ channel \in [Subscriptions -> {"none", "open", "closed"}]
        /\ joined \in [Subscriptions -> Nat]
        /\ subscribers \in [Users -> SUBSET Subscriptions]
    OBVIOUS
  <2> QED
    BY <2>1, <2>2, <2>3 DEF BrokerTypeOK
<1>2. Registry /\ Untouched
  BY DEF Registry, NoPanic, RegisteredIffOpen, ClosedBrokerHasNoStream, Untouched
<1>3. GaplessStream
  BY DEF GaplessStream, RunOfFeed
<1> QED
  BY <1>1, <1>2, <1>3 DEF BrokerInv, Registry

\* BrokerInv is inductive.
LEMMA BrokerInvStep == BrokerInv /\ [BrokerNext]_brokerVars => BrokerInv'
  BY BrokerTypeStep, RegistryStep, GaplessStep DEF BrokerInv, Registry

\* Whatever its callers do, the broker keeps its inductive invariant.
THEOREM BrokerCorrect == BrokerSpec => []BrokerInv
<1>1. BrokerInit => BrokerInv
  BY BrokerInitInv
<1>2. BrokerInv /\ [BrokerNext]_brokerVars => BrokerInv'
  BY BrokerInvStep
<1> QED
  BY <1>1, <1>2, PTL DEF BrokerSpec

\* The broker never closes a channel twice and never sends on a closed one.
THEOREM BrokerNeverPanics == BrokerSpec => []NoPanic
<1>1. BrokerInv => NoPanic
  BY DEF BrokerInv
<1> QED
  BY <1>1, BrokerCorrect, PTL

\* What a subscription yields is a gapless run of its owner's events.
THEOREM BrokerIsGapless == BrokerSpec => []GaplessStream
<1>1. BrokerInv => GaplessStream
  BY DEF BrokerInv
<1> QED
  BY <1>1, BrokerCorrect, PTL

-----------------------------------------------------------------------------
(* The handlers of GET /api/events and the broker.                         *)

\* What a handler holds: every event it took from its channel is written, in
\* its hands, or lost with the connection that made it return.
HandlerInv ==
  \A s \in Subscriptions :
    /\ pc[s] \in {"new", "unavailable"} <=> channel[s] = "none"
    /\ pc[s] = "finished" => channel[s] = "closed"
    /\ pc[s] \in {"new", "subscribed", "selecting", "keepalive"} => written[s] = received[s]
    /\ pc[s] = "writing" =>
         /\ carry[s] \in Messages
         /\ received[s] = Append(written[s], carry[s])

\* The messages published so far are numbered by the calls.
FeedBelowCalls ==
  \A u \in Users : \A i \in 1..Len(feed[u]) : feed[u][i] <= calls

Inv == BrokerInv /\ TypeOK /\ HandlerInv /\ FeedBelowCalls

-----------------------------------------------------------------------------
\* Every step of the composition is a step of the broker or leaves it alone.
LEMMA StepOfBroker == [Next]_vars => [BrokerNext]_brokerVars
<1> SUFFICES ASSUME [Next]_vars PROVE [BrokerNext]_brokerVars
  OBVIOUS
<1> USE DEF BrokerNext
<1>1. CASE Sender
  BY <1>1 DEF Sender
<1>2. CASE Shutdown
  BY <1>2 DEF Shutdown
<1>3. ASSUME NEW s \in Subscriptions, Handler(s)
      PROVE  [BrokerNext]_brokerVars
  <2>1. CASE Connect(s)
    BY <2>1 DEF Connect, SubscribeStream, RefuseStream
  <2>2. CASE SendHeaders(s)
    BY <2>2 DEF SendHeaders
  <2>3. CASE Select(s)
    BY <2>3 DEF Select, SelectDone, SelectEvent, SelectClosed, SelectTick
  <2>4. CASE Write(s)
    BY <2>4 DEF Write, WriteEvent, WriteEventFails, WriteKeepalive, WriteKeepaliveFails
  <2>5. CASE Return(s)
    BY <2>5 DEF Return
  <2> QED
    BY <1>3, <2>1, <2>2, <2>3, <2>4, <2>5 DEF Handler
<1>4. ASSUME NEW s \in Subscriptions, ClientMoves(s)
      PROVE  [BrokerNext]_brokerVars
  BY <1>4 DEF ClientMoves
<1>5. CASE UNCHANGED vars
  BY <1>5 DEF vars
<1> QED
  BY <1>1, <1>2, <1>3, <1>4, <1>5 DEF Next

\* The handlers use the broker only through its methods, in any order that
\* the broker's own specification allows.
THEOREM HandlersUseBroker == Safety => BrokerSpec
<1>1. Init => BrokerInit
  BY DEF Init
<1>2. [Next]_vars => [BrokerNext]_brokerVars
  BY StepOfBroker
<1> QED
  BY <1>1, <1>2, PTL DEF Safety, BrokerSpec

-----------------------------------------------------------------------------
\* The types of the handlers' own variables are kept by every step.
HandlerTypeOK ==
  /\ pc \in [Subscriptions -> Locations]
  /\ carry \in [Subscriptions -> Messages \cup {NoEvent}]
  /\ written \in [Subscriptions -> Seq(Messages)]
  /\ client \in [Subscriptions -> {"reading", "stalled", "gone"}]

LEMMA HandlerTypeStep ==
  ASSUME BrokerInv, HandlerTypeOK, HandlerInv, [Next]_vars
  PROVE  HandlerTypeOK'
<1> USE DEF HandlerTypeOK, Goto, Locations
<1>1. CASE Sender
  BY <1>1 DEF Sender, handlerVars
<1>2. CASE Shutdown
  BY <1>2 DEF Shutdown, handlerVars
<1>3. ASSUME NEW s \in Subscriptions, Handler(s)
      PROVE  HandlerTypeOK'
  <2>1. CASE Connect(s)
    BY <2>1 DEF Connect, SubscribeStream, RefuseStream
  <2>2. CASE SendHeaders(s)
    BY <2>2 DEF SendHeaders
  <2>3. CASE Select(s)
    <3>1. CASE SelectEvent(s)
      <4>1. buffer[s] \in Seq(Messages) /\ buffer[s] # <<>>
        BY <3>1 DEF SelectEvent, Receive, BrokerInv, BrokerTypeOK
      <4>2. Head(buffer[s]) \in Messages
        BY <4>1
      <4> QED
        BY <3>1, <4>2 DEF SelectEvent
    <3> QED
      BY <2>3, <3>1 DEF Select, SelectDone, SelectClosed, SelectTick
  <2>4. CASE Write(s)
    <3>1. CASE WriteEvent(s)
      <4>1. carry[s] \in Messages
        BY <3>1 DEF WriteEvent, HandlerInv
      <4>2. Append(written[s], carry[s]) \in Seq(Messages)
        BY <4>1
      <4> QED
        BY <3>1, <4>2 DEF WriteEvent
    <3> QED
      BY <2>4, <3>1 DEF Write, WriteEventFails, WriteKeepalive, WriteKeepaliveFails
  <2>5. CASE Return(s)
    BY <2>5 DEF Return
  <2> QED
    BY <1>3, <2>1, <2>2, <2>3, <2>4, <2>5 DEF Handler
<1>4. ASSUME NEW s \in Subscriptions, ClientMoves(s)
      PROVE  HandlerTypeOK'
  BY <1>4 DEF ClientMoves
<1>5. CASE UNCHANGED vars
  BY <1>5 DEF vars, handlerVars
<1> QED
  BY <1>1, <1>2, <1>3, <1>4, <1>5 DEF Next

\* Numbers in the feeds never exceed the count of calls.
LEMMA FeedBelowCallsStep ==
  ASSUME BrokerInv, FeedBelowCalls, [BrokerNext]_brokerVars
  PROVE  FeedBelowCalls'
<1> USE DEF FeedBelowCalls, BrokerInv, BrokerTypeOK
<1>0. /\ calls \in Nat
      /\ \A u \in Users : \A j \in 1..Len(feed[u]) : feed[u][j] \in Nat
  <2>1. ASSUME NEW u \in Users, NEW j \in 1..Len(feed[u])
        PROVE  feed[u][j] \in Nat
    <3>1. feed[u] \in Seq(Messages)
      OBVIOUS
    <3>2. feed[u][j] \in Messages
      BY <3>1
    <3> QED
      BY <3>2 DEF Messages
  <2> QED
    BY <2>1, MaxMessagesAssumption
<1>1. CASE PublishDropped
  <2>1. calls' = calls + 1 /\ feed' = feed
    BY <1>1 DEF PublishDropped
  <2>2. ASSUME NEW u \in Users, NEW j \in 1..Len(feed[u])
        PROVE  feed[u][j] <= calls + 1
    <3>1. feed[u][j] <= calls /\ feed[u][j] \in Nat
      BY <1>0
    <3> QED
      BY <1>0, <3>1
  <2> QED
    BY <2>1, <2>2
<1>2. ASSUME NEW seller \in Users, NEW buyer \in Users, Publish(seller, buyer)
      PROVE  FeedBelowCalls'
  <2> SUFFICES ASSUME NEW u \in Users, NEW i \in 1..Len(feed'[u])
               PROVE  feed'[u][i] <= calls'
    OBVIOUS
  <2>1. calls \in Nat /\ calls' = calls + 1 /\ calls + 1 \in Messages
    BY <1>2, MaxMessagesAssumption DEF Publish, Messages
  <2>2. feed[u] \in Seq(Messages) /\ \A j \in 1..Len(feed[u]) : feed[u][j] \in Nat
    BY <1>0
  <2>3. CASE feed'[u] = feed[u]
    BY <2>1, <2>2, <2>3
  <2>4. CASE feed'[u] = Append(feed[u], calls + 1)
    <3>1. CASE i = Len(feed[u]) + 1
      BY <2>1, <2>2, <2>4, <3>1
    <3>2. CASE i \in 1..Len(feed[u])
      BY <2>1, <2>2, <2>4, <3>2
    <3> QED
      BY <2>1, <2>2, <2>4, <3>1, <3>2
  <2> QED
    BY <1>2, <2>3, <2>4 DEF Publish
<1>3. CASE UNCHANGED <<feed, calls>>
  BY <1>3
<1> QED
  BY <1>1, <1>2, <1>3
  DEF BrokerNext, PublishMessageCreated, Close, Subscribe, Receive, Unsubscribe, brokerVars

-----------------------------------------------------------------------------
\* The handler of a stream and its channel stay in step.
LEMMA HandlerStep ==
  ASSUME BrokerInv, HandlerTypeOK, HandlerInv, [Next]_vars
  PROVE  HandlerInv'
<1> USE DEF HandlerTypeOK, Goto, Locations
<1>b. BrokerTypeOK
  BY DEF BrokerInv
<1>1. CASE Sender
  <2>1. PublishMessageCreated /\ UNCHANGED handlerVars
    BY <1>1 DEF Sender
  <2>2. \A t \in Subscriptions : channel'[t] = "none" <=> channel[t] = "none"
    <3>1. CASE PublishDropped
      BY <3>1 DEF PublishDropped
    <3>2. ASSUME NEW seller \in Users, NEW buyer \in Users, Publish(seller, buyer)
          PROVE  \A t \in Subscriptions : channel'[t] = "none" <=> channel[t] = "none"
      <4>1. \A t \in Targets(seller, buyer) : channel[t] = "open"
        BY <1>b DEF Targets, BrokerInv, RegisteredIffOpen, BrokerTypeOK
      <4> QED
        BY <3>2, <4>1 DEF Publish, ChannelsAfterClosing, Overflowing
    <3> QED
      BY <2>1, <3>1, <3>2 DEF PublishMessageCreated
  <2>3. \A t \in Subscriptions : channel[t] = "closed" => channel'[t] = "closed"
    BY <2>1, <1>b DEF PublishMessageCreated, PublishDropped, Publish, ChannelsAfterClosing, BrokerTypeOK
  <2>4. received' = received
    BY <2>1 DEF PublishMessageCreated, PublishDropped, Publish
  <2> QED
    BY <2>1, <2>2, <2>3, <2>4 DEF HandlerInv, handlerVars
<1>2. CASE Shutdown
  <2>1. Close /\ UNCHANGED handlerVars
    BY <1>2 DEF Shutdown
  <2>2. \A t \in UNION {subscribers[u] : u \in Users} : channel[t] = "open"
    BY <1>b DEF BrokerInv, RegisteredIffOpen, BrokerTypeOK
  <2>3. \A t \in Subscriptions :
          /\ channel'[t] = "none" <=> channel[t] = "none"
          /\ channel[t] = "closed" => channel'[t] = "closed"
    BY <2>1, <2>2, <1>b DEF Close, ChannelsAfterClosing, BrokerTypeOK
  <2>4. received' = received
    BY <2>1 DEF Close
  <2> QED
    BY <2>1, <2>3, <2>4 DEF HandlerInv, handlerVars
<1>3. ASSUME NEW s \in Subscriptions, Handler(s)
      PROVE  HandlerInv'
  <2>1. CASE SubscribeStream(s)
    BY <2>1, <1>b DEF SubscribeStream, Subscribe, HandlerInv, BrokerTypeOK, Untouched, BrokerInv
  <2>2. CASE RefuseStream(s)
    BY <2>2 DEF RefuseStream, brokerVars, HandlerInv
  <2>3. CASE SendHeaders(s)
    BY <2>3 DEF SendHeaders, brokerVars, HandlerInv
  <2>4. CASE SelectEvent(s)
    <3>1. buffer[s] \in Seq(Messages) /\ buffer[s] # <<>>
      BY <2>4, <1>b DEF SelectEvent, Receive, BrokerTypeOK
    <3>2. Head(buffer[s]) \in Messages
      BY <3>1
    <3> QED
      BY <2>4, <3>2, <1>b DEF SelectEvent, Receive, HandlerInv, BrokerTypeOK
  <2>5. CASE SelectDone(s) \/ SelectClosed(s) \/ SelectTick(s)
    BY <2>5 DEF SelectDone, SelectClosed, SelectTick, brokerVars, HandlerInv
  <2>6. CASE WriteEvent(s)
    BY <2>6 DEF WriteEvent, brokerVars, HandlerInv
  <2>7. CASE WriteEventFails(s) \/ WriteKeepalive(s) \/ WriteKeepaliveFails(s)
    BY <2>7 DEF WriteEventFails, WriteKeepalive, WriteKeepaliveFails, brokerVars, HandlerInv
  <2>8. CASE Return(s)
    <3>1. channel[s] = "closed" \/ Registered(s)
      BY <2>8, <1>b, OwnerAssumption
      DEF Return, Unsubscribe, BrokerInv, RegisteredIffOpen, Registered, BrokerTypeOK
    <3>2. /\ channel' = [channel EXCEPT ![s] = "closed"]
          /\ received' = received
      BY <2>8, <3>1, <1>b DEF Return, Unsubscribe, ChannelsAfterClosing, BrokerTypeOK
    <3>3. pc' = [pc EXCEPT ![s] = "finished"] /\ UNCHANGED <<carry, written>> /\ pc[s] = "returning"
      BY <2>8 DEF Return
    <3> QED
      BY <3>2, <3>3, <1>b DEF HandlerInv, BrokerTypeOK
  <2> QED
    BY <1>3, <2>1, <2>2, <2>3, <2>4, <2>5, <2>6, <2>7, <2>8
    DEF Handler, Connect, Select, Write
<1>4. ASSUME NEW s \in Subscriptions, ClientMoves(s)
      PROVE  HandlerInv'
  BY <1>4 DEF ClientMoves, brokerVars, HandlerInv
<1>5. CASE UNCHANGED vars
  BY <1>5 DEF vars, brokerVars, handlerVars, HandlerInv
<1> QED
  BY <1>1, <1>2, <1>3, <1>4, <1>5 DEF Next

-----------------------------------------------------------------------------
\* The inductive invariant of the composition.
LEMMA InvInit == Init => Inv
<1> SUFFICES ASSUME Init PROVE Inv
  OBVIOUS
<1>1. BrokerInv
  BY BrokerInitInv DEF Init
<1>2. HandlerTypeOK
  BY DEF Init, HandlerTypeOK, Locations
<1>3. HandlerInv
  BY DEF Init, BrokerInit, HandlerInv
<1>4. FeedBelowCalls
  BY DEF Init, BrokerInit, FeedBelowCalls
<1> QED
  BY <1>1, <1>2, <1>3, <1>4 DEF Inv, BrokerInv, TypeOK, HandlerTypeOK

LEMMA InvStep == Inv /\ [Next]_vars => Inv'
<1> SUFFICES ASSUME Inv, [Next]_vars PROVE Inv'
  OBVIOUS
<1>1. BrokerInv /\ HandlerTypeOK /\ HandlerInv /\ FeedBelowCalls
  BY DEF Inv, TypeOK, HandlerTypeOK
<1>2. [BrokerNext]_brokerVars
  BY StepOfBroker
<1>3. BrokerInv' /\ BrokerTypeOK'
  BY <1>1, <1>2, BrokerInvStep DEF BrokerInv
<1>4. HandlerTypeOK'
  BY <1>1, HandlerTypeStep
<1>5. HandlerInv'
  BY <1>1, HandlerStep
<1>6. FeedBelowCalls'
  BY <1>1, <1>2, FeedBelowCallsStep
<1> QED
  BY <1>3, <1>4, <1>5, <1>6 DEF Inv, TypeOK, HandlerTypeOK

\* The composition keeps its inductive invariant.
THEOREM StreamsCorrect == Safety => []Inv
<1>1. Init => Inv
  BY InvInit
<1>2. Inv /\ [Next]_vars => Inv'
  BY InvStep
<1> QED
  BY <1>1, <1>2, PTL DEF Safety

\* Type correctness of the broker and its handlers.
THEOREM StreamsTypeOK == Safety => []TypeOK
<1>1. Inv => TypeOK
  BY DEF Inv
<1> QED
  BY <1>1, StreamsCorrect, PTL

\* No handler that has returned, or never subscribed, leaves an open channel
\* in the broker, whichever way it returned and whoever closed first.
THEOREM HandlersLeakNothing == Safety => []NoLeakedSubscription
<1>1. Inv => NoLeakedSubscription
  <2> SUFFICES ASSUME Inv, NEW s \in Subscriptions, pc[s] = "new" \/ Over(s)
               PROVE  channel[s] # "open"
    BY DEF NoLeakedSubscription
  <2> QED
    BY DEF Inv, HandlerInv, Over
<1> QED
  BY <1>1, StreamsCorrect, PTL

\* A stream whose headers are out and whose channel is open accounts for every
\* event of its user since it subscribed.
THEOREM OpenStreamsMissNothing == Safety => []OpenStreamMissesNothing
<1>1. Inv => OpenStreamMissesNothing
  <2> SUFFICES ASSUME Inv, NEW s \in Subscriptions,
                      pc[s] \in {"selecting", "writing", "keepalive"}, channel[s] = "open"
               PROVE  /\ Registered(s)
                      /\ joined[s] + Len(written[s]) + Len(buffer[s])
                           + (IF pc[s] = "writing" THEN 1 ELSE 0) = Len(feed[Owner[s]])
    BY DEF OpenStreamMissesNothing
  <2>1. Registered(s)
    BY OwnerAssumption DEF Inv, BrokerInv, RegisteredIffOpen, Registered
  <2>2. joined[s] + Len(received[s]) + Len(buffer[s]) = Len(feed[Owner[s]])
    BY DEF Inv, BrokerInv, GaplessStream, RunOfFeed
  <2>3. /\ joined[s] \in Nat /\ written[s] \in Seq(Messages)
        /\ buffer[s] \in Seq(Messages)
    BY DEF Inv, TypeOK, BrokerTypeOK
  <2>4. CASE pc[s] = "writing"
    <3>1. received[s] = Append(written[s], carry[s]) /\ carry[s] \in Messages
      BY <2>4 DEF Inv, HandlerInv
    <3>2. Len(received[s]) = Len(written[s]) + 1
      BY <2>3, <3>1
    <3> QED
      BY <2>1, <2>2, <2>3, <2>4, <3>2
  <2>5. CASE pc[s] # "writing"
    <3>1. received[s] = written[s]
      BY <2>5 DEF Inv, HandlerInv
    <3> QED
      BY <2>1, <2>2, <2>3, <2>5, <3>1
  <2> QED
    BY <2>4, <2>5
<1> QED
  BY <1>1, StreamsCorrect, PTL

-----------------------------------------------------------------------------
\* The status of the feed's streams under the refinement mapping.
FeedStatus ==
  [s \in Subscriptions |-> IF pc[s] = "new" THEN "new" ELSE IF Over(s) THEN "over" ELSE "live"]

\* A step of the composition is a step of the feed, or stutters.  Visible are
\* publications, the beginnings and ends of streams, and writes of events.
LEMMA StepOfFeed ==
  ASSUME Inv, [Next]_vars
  PROVE  [Feed!Next]_Feed!vars
<1>a. /\ pc \in [Subscriptions -> Locations]
      /\ written \in [Subscriptions -> Seq(Messages)]
      /\ BrokerTypeOK /\ HandlerInv
  BY DEF Inv, TypeOK
<1>b. ASSUME UNCHANGED <<feed, joined, written, FeedStatus>>
      PROVE  UNCHANGED Feed!vars
  BY <1>b DEF Feed!vars, FeedStatus
<1>1. CASE Sender
  <2>1. PublishMessageCreated /\ UNCHANGED <<pc, written>>
    BY <1>1 DEF Sender, handlerVars
  <2>2. CASE PublishDropped
    BY <1>b, <2>1, <2>2 DEF PublishDropped, FeedStatus, Over
  <2>3. ASSUME NEW seller \in Users, NEW buyer \in Users, Publish(seller, buyer)
        PROVE  Feed!Next
    <3>1. calls + 1 \in 1..MaxMessages
      BY <2>3, <1>a, MaxMessagesAssumption DEF Publish, BrokerTypeOK
    <3>2. \A u \in Users : \A i \in 1..Len(feed[u]) : feed[u][i] < calls + 1
      <4> SUFFICES ASSUME NEW u \in Users, NEW i \in 1..Len(feed[u])
                   PROVE  feed[u][i] < calls + 1
        OBVIOUS
      <4>1. feed[u][i] \in Messages
        BY <1>a DEF BrokerTypeOK
      <4>2. feed[u][i] \in Nat /\ calls \in Nat
        BY <4>1, <1>a, MaxMessagesAssumption DEF Messages, BrokerTypeOK
      <4>3. feed[u][i] <= calls
        BY DEF Inv, FeedBelowCalls
      <4> QED
        BY <4>2, <4>3
    <3>3. /\ feed' = [u \in Users |-> IF u \in {seller, buyer}
                                      THEN Append(feed[u], calls + 1) ELSE feed[u]]
          /\ joined' = joined
      BY <2>3 DEF Publish
    <3>4. FeedStatus' = FeedStatus
      BY <2>1 DEF FeedStatus, Over
    <3>5. Feed!Publish(calls + 1, {seller, buyer})
      BY <2>1, <3>2, <3>3, <3>4 DEF Feed!Publish, Feed!Fresh, FeedStatus
    <3>6. {seller, buyer} \in SUBSET Users
      OBVIOUS
    <3> QED
      BY <3>1, <3>5, <3>6 DEF Feed!Next
  <2> QED
    BY <2>1, <2>2, <2>3 DEF PublishMessageCreated
<1>2. CASE Shutdown
  BY <1>b, <1>2 DEF Shutdown, Close, handlerVars, FeedStatus, Over
<1>3. ASSUME NEW s \in Subscriptions, Handler(s)
      PROVE  [Feed!Next]_Feed!vars
  <2>1. CASE SubscribeStream(s)
    <3>1. FeedStatus[s] = "new" /\ FeedStatus' = [FeedStatus EXCEPT ![s] = "live"]
      BY <2>1, <1>a DEF SubscribeStream, Goto, FeedStatus, Over, Locations
    <3>2. /\ joined' = [joined EXCEPT ![s] = Len(feed[Owner[s]])]
          /\ UNCHANGED <<feed, written>>
      BY <2>1 DEF SubscribeStream, Subscribe
    <3>3. Feed!Begin(s)
      BY <3>1, <3>2 DEF Feed!Begin, FeedStatus
    <3> QED
      BY <3>3 DEF Feed!Next
  <2>2. CASE RefuseStream(s) \/ Return(s)
    <3>1. FeedStatus[s] # "over" /\ FeedStatus' = [FeedStatus EXCEPT ![s] = "over"]
      BY <2>2, <1>a DEF RefuseStream, Return, Goto, FeedStatus, Over, Locations
    <3>2. UNCHANGED <<feed, joined, written>>
      BY <2>2 DEF RefuseStream, Return, Unsubscribe, brokerVars
    <3>3. Feed!End(s)
      BY <3>1, <3>2 DEF Feed!End, FeedStatus
    <3> QED
      BY <3>3 DEF Feed!Next
  <2>3. CASE WriteEvent(s)
    <3> DEFINE f == feed[Owner[s]]
    <3>1. /\ pc[s] = "writing" /\ pc' = [pc EXCEPT ![s] = "selecting"]
          /\ written' = [written EXCEPT ![s] = Append(@, carry[s])]
          /\ UNCHANGED <<feed, joined>>
      BY <2>3 DEF WriteEvent, Goto, brokerVars
    <3>2. carry[s] \in Messages /\ received[s] = Append(written[s], carry[s])
      BY <1>a, <3>1 DEF HandlerInv
    <3>3. /\ joined[s] \in Nat /\ written[s] \in Seq(Messages)
          /\ f \in Seq(Messages) /\ buffer[s] \in Seq(Messages)
      BY <1>a, OwnerAssumption DEF BrokerTypeOK
    <3>4. Len(received[s]) = Len(written[s]) + 1 /\ received[s][Len(written[s]) + 1] = carry[s]
      BY <3>2, <3>3
    <3>5. RunOfFeed(s)
      BY DEF Inv, BrokerInv, GaplessStream
    <3>6. joined[s] + (Len(written[s]) + 1) <= Len(f)
      <4>1. joined[s] + Len(received[s]) + Len(buffer[s]) <= Len(f)
        BY <3>5 DEF RunOfFeed
      <4>2. /\ joined[s] \in Nat
            /\ Len(buffer[s]) \in Nat /\ Len(written[s]) \in Nat /\ Len(f) \in Nat
        BY <3>3
      <4>3. Len(received[s]) = Len(written[s]) + 1
        BY <3>4
      <4> HIDE DEF f
      <4> QED
        BY <4>1, <4>2, <4>3
    <3>7. carry[s] = f[joined[s] + (Len(written[s]) + 1)]
      <4>1. Len(written[s]) + 1 \in 1..Len(received[s])
        BY <3>3, <3>4
      <4>2. \A i \in 1..Len(received[s]) : received[s][i] = f[joined[s] + i]
        BY <3>5 DEF RunOfFeed
      <4> QED
        BY <3>4, <4>1, <4>2
    <3>8. joined[s] + (Len(written[s]) + 1) = joined[s] + Len(written[s]) + 1
      BY <3>3
    <3>9. FeedStatus[s] = "live" /\ FeedStatus' = FeedStatus
      BY <3>1, <1>a DEF FeedStatus, Over, Locations
    <3>10. Feed!Deliver(s)
      BY <3>1, <3>6, <3>7, <3>8, <3>9, <1>a DEF Feed!Deliver, FeedStatus
    <3> QED
      BY <3>10 DEF Feed!Next
  <2>4. CASE SendHeaders(s) \/ SelectDone(s) \/ SelectClosed(s) \/ SelectTick(s)
    BY <1>a, <1>b, <2>4
    DEF SendHeaders, SelectDone, SelectClosed, SelectTick, brokerVars, Goto,
        FeedStatus, Over, Locations
  <2>5. CASE SelectEvent(s)
    BY <1>a, <1>b, <2>5 DEF SelectEvent, Receive, Goto, FeedStatus, Over, Locations
  <2>6. CASE WriteEventFails(s) \/ WriteKeepalive(s) \/ WriteKeepaliveFails(s)
    BY <1>a, <1>b, <2>6
    DEF WriteEventFails, WriteKeepalive, WriteKeepaliveFails, brokerVars, Goto,
        FeedStatus, Over, Locations
  <2> QED
    BY <1>3, <2>1, <2>2, <2>3, <2>4, <2>5, <2>6 DEF Handler, Connect, Select, Write
<1>4. ASSUME NEW s \in Subscriptions, ClientMoves(s)
      PROVE  UNCHANGED Feed!vars
  BY <1>b, <1>4 DEF ClientMoves, brokerVars, FeedStatus, Over
<1>5. CASE UNCHANGED vars
  BY <1>b, <1>5 DEF vars, brokerVars, handlerVars, FeedStatus, Over
<1> QED
  BY <1>1, <1>2, <1>3, <1>4, <1>5 DEF Next

\* The events written on a stream are its user's feed from the subscription
\* on, in order and without gaps: the composition implements EventFeed.
THEOREM StreamsImplementFeed == Safety => ImplementsFeed
<1>1. Init => Feed!Init
  BY DEF Init, BrokerInit, Feed!Init
<1>2. Inv /\ [Next]_vars => [Feed!Next]_Feed!vars
  BY StepOfFeed
<1> QED
  BY <1>1, <1>2, StreamsCorrect, PTL DEF Safety, ImplementsFeed, Feed!Spec

-----------------------------------------------------------------------------
(* The life of the process.                                                *)

\* Every step of the process is a step of its streams or leaves them alone.
LEMMA StepOfStreams == [LifeNext]_allVars => [Next]_vars
<1> SUFFICES ASSUME [LifeNext]_allVars PROVE [Next]_vars
  OBVIOUS
<1> USE DEF Next
<1>1. CASE Signal \/ ServeFails \/ ServeCloses
  BY <1>1 DEF Signal, ServeFails, ServeCloses
<1>2. CASE Run
  BY <1>2 DEF Run, SelectServeError, PreShutdown, CloseListener, FirstPoll, Drain, Timeout, AwaitServe
<1>3. CASE Serving(Sender)
  BY <1>3 DEF Serving
<1>4. ASSUME NEW s \in Subscriptions, Stream(s)
      PROVE  [Next]_vars
  BY <1>4 DEF Stream, Serving, Handler
<1>5. CASE UNCHANGED allVars
  BY <1>5 DEF allVars
<1> QED
  BY <1>1, <1>2, <1>3, <1>4, <1>5 DEF LifeNext

\* Whatever signals, failures and timeouts do, the streams of the process
\* behave as EventStreams says.
THEOREM ProcessRunsStreams == LifeSafety => Safety
<1>1. LifeInit => Init
  BY DEF LifeInit
<1> QED
  BY <1>1, StepOfStreams, PTL DEF LifeSafety, Safety

\* The streams of a process that may be shut down at any moment implement the
\* abstract feed.
THEOREM ProcessImplementsFeed == LifeSafety => ImplementsFeed
BY ProcessRunsStreams, StreamsImplementFeed, PTL

\* No shutdown makes an operation of the broker panic.
THEOREM ProcessNeverPanics == LifeSafety => []NoPanic
BY ProcessRunsStreams, HandlersUseBroker, BrokerNeverPanics, PTL

-----------------------------------------------------------------------------
\* What Run knows where it is, and what is in the channel of Serve.
RunInv ==
  /\ run \in {"serving", "shutting", "draining", "polling", "awaiting", "clean", "failed"}
  /\ serve \in {"accepting", "closed", "stopped", "failed"}
  /\ serveErrors \in {"empty", "failed", "closed"}
  /\ serveErrors = "closed" => serve = "stopped"
  /\ serveErrors = "failed" => serve = "failed"
  /\ run = "serving" => serve \notin {"closed", "stopped"}
  /\ run \in {"shutting", "draining", "polling", "awaiting", "clean"} => closed
  /\ run \in {"awaiting", "clean"} => Idle
  /\ run = "clean" => serve = "stopped" /\ serveErrors = "empty"

\* A process that has closed its broker does not open it again.
LEMMA ClosedStays == closed /\ [BrokerNext]_brokerVars => closed'
BY DEF BrokerNext, brokerVars, Subscribe, PublishMessageCreated, PublishDropped, Publish,
       Receive, Unsubscribe, Close

LEMMA RunInvStep ==
  ASSUME TypeOK, RunInv, [LifeNext]_allVars
  PROVE  RunInv'
<1> USE DEF RunInv
<1>0. closed => closed'
  BY StepOfStreams, StepOfBroker, ClosedStays
<1>1. CASE UNCHANGED vars
  <2>1. Idle' = Idle
    BY <1>1 DEF Idle, Over, vars, handlerVars
  <2>2. CASE Signal
    BY <1>0, <2>1, <2>2 DEF Signal
  <2>3. CASE ServeFails
    BY <1>0, <2>1, <2>3 DEF ServeFails, Returned
  <2>4. CASE ServeCloses
    BY <1>0, <2>1, <2>4 DEF ServeCloses
  <2>5. CASE SelectServeError
    BY <1>0, <2>1, <2>5 DEF SelectServeError
  <2>6. CASE CloseListener
    BY <1>0, <2>1, <2>6 DEF CloseListener
  <2>7. CASE Drain
    BY <1>0, <2>1, <2>7 DEF Drain
  <2>8. CASE Timeout
    BY <1>0, <2>1, <2>8 DEF Timeout
  <2>9. CASE AwaitServe
    BY <1>0, <2>1, <2>9 DEF AwaitServe
  <2>10. CASE UNCHANGED lifeVars
    BY <1>0, <2>1, <2>10 DEF lifeVars
  <2>11. CASE PreShutdown
    BY <2>11 DEF PreShutdown, Shutdown, Close
  <2>12. CASE FirstPoll
    BY <1>0, <2>1, <2>12 DEF FirstPoll
  <2> QED
    BY <2>2, <2>3, <2>4, <2>5, <2>6, <2>7, <2>8, <2>9, <2>10, <2>11, <2>12
       DEF LifeNext, Run, Stream, Serving, allVars
<1>2. CASE PreShutdown
  BY <1>2 DEF PreShutdown, Shutdown, Close
<1>3. CASE Serving(Sender)
  <2>1. Idle' = Idle
    BY <1>3 DEF Serving, Sender, Idle, Over, handlerVars
  <2> QED
    BY <1>0, <1>3, <2>1 DEF Serving, lifeVars
<1>4. ASSUME NEW s \in Subscriptions, Stream(s)
      PROVE  RunInv'
  <2>1. UNCHANGED lifeVars /\ run # "clean"
    BY <1>4 DEF Stream, Serving, Returned
  <2>2. CASE run # "awaiting"
    BY <1>0, <2>1, <2>2 DEF lifeVars
  <2>3. CASE run = "awaiting"
    <3>1. pc' = pc
      <4>1. pc[s] \in {"new", "finished", "unavailable"}
        BY <2>3 DEF Idle, Over
      <4>2. \/ SendHeaders(s) \/ Select(s) \/ Write(s) \/ Return(s) \/ ClientMoves(s)
        BY <1>4, <2>3 DEF Stream, Serving
      <4> QED
        BY <4>1, <4>2 DEF SendHeaders, Select, SelectDone, SelectEvent, SelectClosed, SelectTick,
             Write, WriteEvent, WriteEventFails, WriteKeepalive, WriteKeepaliveFails,
             Return, ClientMoves, Goto
    <3>2. Idle' = Idle
      BY <3>1 DEF Idle, Over
    <3> QED
      BY <1>0, <2>1, <3>2 DEF lifeVars
  <2> QED
    BY <2>2, <2>3
<1> QED
  BY <1>1, <1>2, <1>3, <1>4
     DEF LifeNext, Run, Signal, ServeFails, ServeCloses, SelectServeError, CloseListener,
         FirstPoll, Drain, Timeout, AwaitServe, allVars

\* Where Run is agrees with the listener, the channel of errors and the broker.
THEOREM RunIsConsistent == LifeSafety => []RunInv
<1>1. LifeInit => RunInv
  BY DEF LifeInit, RunInv
<1> QED
  BY <1>1, RunInvStep, ProcessRunsStreams, StreamsTypeOK, PTL DEF LifeSafety

\* Run returns nil only when the broker is closed, no handler is left and
\* what Run received from Serve is ErrServerClosed: what the channel holds is
\* how Serve returned, and a listener that has failed is not closed again.
THEOREM CleanReturnIsClean == LifeSafety => []CleanMeansClean
<1>1. RunInv /\ Inv => CleanMeansClean
  BY DEF RunInv, Inv, HandlerInv, CleanMeansClean, Idle, Over
<1> QED
  BY <1>1, RunIsConsistent, ProcessRunsStreams, StreamsCorrect, PTL

\* The error of a listener that failed is what Run returns, whichever of its
\* two receives takes it.
THEOREM FailedListenerIsReported == LifeSafety => FailureIsReported
<1>1. [LifeNext]_allVars =>
        [serveErrors = "failed" /\ serveErrors' = "empty" => run' = "failed"]_allVars
  BY DEF LifeNext, Signal, ServeFails, ServeCloses, Run, SelectServeError, PreShutdown,
         CloseListener, FirstPoll, Drain, Timeout, AwaitServe, Serving, Stream, lifeVars, allVars
<1> QED
  BY <1>1, PTL DEF LifeSafety, FailureIsReported

=============================================================================
