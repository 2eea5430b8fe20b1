----------------------------- MODULE MCRequests -----------------------------
(***************************************************************************)
(* Clients are alike: nothing but their names tells them apart.            *)
(***************************************************************************)
EXTENDS Requests, TLC

ClientSymmetry == Permutations(Clients)
=============================================================================
