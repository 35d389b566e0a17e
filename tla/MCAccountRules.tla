--------------------------- MODULE MCAccountRules ---------------------------
(***************************************************************************)
(* Instances of AccountRules: a user or two who sign in, and overlapping   *)
(* requests of their tabs while the account may be disabled.               *)
(***************************************************************************)
EXTENDS AccountRules, TLC

CONSTANTS d1, d2, phone, f1, f2, c1, c2

MCLower == [c \in {} |-> c]
MCNames == {<<"k", "i", "m">>}
MCRegistered == [e \in {} |-> NoFlow]

RequestSymmetry == Permutations(Flows) \cup Permutations(Calls) \cup Permutations(Discord)
=============================================================================
