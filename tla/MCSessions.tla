----------------------------- MODULE MCSessions -----------------------------
(***************************************************************************)
(* Instance of Sessions: usernames whose candidates collide or have to be  *)
(* cut, an account of before that holds a handle and a session, and        *)
(* overlapping sign-ins of one browser.                                    *)
(***************************************************************************)
EXTENDS Sessions

CONSTANTS d1, d3, phone, f1, f2, e1

MCLower == [c \in {"K"} |-> "k"]
MCNames == {<<"K", "i", "m", ".">>, <<"k", "i", "m", "a", "m", " ", "k">>}
MCRegistered == [e \in Earlier |-> [discord |-> d3, handle |-> <<"k", "i", "m">>]]
=============================================================================
