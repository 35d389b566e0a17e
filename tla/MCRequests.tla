----------------------------- MODULE MCRequests -----------------------------
(***************************************************************************)
(* Instance of Requests: every route and every kind of request, and bodies *)
(* around either limit.                                                    *)
(***************************************************************************)
EXTENDS Requests
=============================================================================
