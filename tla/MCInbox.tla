------------------------------ MODULE MCInbox ------------------------------
(***************************************************************************)
(* Instances of Inbox: a seller's two conversations, with a buyer each.    *)
(***************************************************************************)
EXTENDS Inbox, TLC

CONSTANTS seller, buyer, other, s1, s2, k1, k2

MCParties == [c \in Conversations |-> IF c = 1 THEN {seller, buyer} ELSE {seller, other}]
MCWritten == {[id |-> 1, conversation |-> 1, sender |-> buyer]}
MCCreatedAt == [c \in Conversations |-> 1]

\* Sends are interchangeable, and so are marks.
RequestSymmetry == Permutations(Sends) \cup Permutations(Marks)
=============================================================================
