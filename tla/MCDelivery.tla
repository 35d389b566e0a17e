----------------------------- MODULE MCDelivery -----------------------------
(***************************************************************************)
(* Instances of Delivery: the buyer's tab of a conversation that has a     *)
(* message already.                                                        *)
(***************************************************************************)
EXTENDS Delivery

CONSTANTS seller, buyer, c1, s1, s2, tab

MCParties == [c \in Conversations |-> {seller, buyer}]
MCWritten == {[id |-> 1, conversation |-> c1, sender |-> seller]}
MCTabUser == [t \in Tabs |-> buyer]
MCTabOf == [t \in Tabs |-> c1]
=============================================================================
