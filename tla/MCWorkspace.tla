---------------------------- MODULE MCWorkspace ----------------------------
(* Workspace with symmetric clients and children. *)
EXTENDS Workspace, TLC
Symmetric == Permutations(Clients) \cup Permutations(Children)
=============================================================================
