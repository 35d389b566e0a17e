------------------------------ MODULE EventFeed ------------------------------
(***************************************************************************)
(* What GET /api/events promises a browser tab: from the moment the stream *)
(* exists, every event of its user in the order of publication, with no    *)
(* gap, until the stream is over.  A stream may be over at any time (the   *)
(* client then reconciles over HTTP), it never continues after skipping an *)
(* event.                                                                  *)
(*                                                                         *)
(* Buffers, overflow, the broker's lock and the handler's loop are details *)
(* of EventStreams, which implements this specification.                   *)
(***************************************************************************)
EXTENDS Naturals, Sequences

CONSTANTS Users, Streams, Owner, MaxMessages

VARIABLES
  feed,       \* the events of each user, in the order of publication
  status,     \* "new", "live" or "over"
  start,      \* the length of the owner's feed when the stream began
  delivered   \* the events sent on each stream

vars == <<feed, status, start, delivered>>

Init ==
  /\ feed = [u \in Users |-> <<>>]
  /\ status = [s \in Streams |-> "new"]
  /\ start = [s \in Streams |-> 0]
  /\ delivered = [s \in Streams |-> <<>>]

Fresh(m) == \A u \in Users : \A i \in 1..Len(feed[u]) : feed[u][i] < m

Publish(m, parties) ==
  /\ Fresh(m)
  /\ feed' = [u \in Users |-> IF u \in parties THEN Append(feed[u], m) ELSE feed[u]]
  /\ UNCHANGED <<status, start, delivered>>

Begin(s) ==
  /\ status[s] = "new"
  /\ status' = [status EXCEPT ![s] = "live"]
  /\ start' = [start EXCEPT ![s] = Len(feed[Owner[s]])]
  /\ UNCHANGED <<feed, delivered>>

Deliver(s) ==
  LET next == start[s] + Len(delivered[s]) + 1
  IN  /\ status[s] = "live"
      /\ next <= Len(feed[Owner[s]])
      /\ delivered' = [delivered EXCEPT ![s] = Append(@, feed[Owner[s]][next])]
      /\ UNCHANGED <<feed, status, start>>

End(s) ==
  /\ status[s] # "over"
  /\ status' = [status EXCEPT ![s] = "over"]
  /\ UNCHANGED <<feed, start, delivered>>

Next ==
  \/ \E m \in 1..MaxMessages, parties \in SUBSET Users : Publish(m, parties)
  \/ \E s \in Streams : Begin(s) \/ Deliver(s) \/ End(s)

Spec == Init /\ [][Next]_vars
=============================================================================
