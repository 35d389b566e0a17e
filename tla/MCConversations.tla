-------------------------- MODULE MCConversations --------------------------
(***************************************************************************)
(* Instances of Conversations: one listing, its seller and two buyers, two *)
(* tabs that contact the seller and two requests that change the listing.  *)
(***************************************************************************)
EXTENDS Conversations, TLC

CONSTANTS seller, buyer, other, r1, r2, k1, k2

\* The calls are interchangeable, and so are the requests.
CallSymmetry == Permutations(Contacts) \cup Permutations(Requests)
=============================================================================
