------------------------- MODULE MCServerLifecycle -------------------------
(***************************************************************************)
(* Instance of ServerLifecycle: a tab of the buyer, and messages that are  *)
(* not all the buyer's.                                                    *)
(***************************************************************************)
EXTENDS ServerLifecycle

CONSTANTS seller, buyer, other, tab

MCOwner == [s \in Subscriptions |-> buyer]
=============================================================================
