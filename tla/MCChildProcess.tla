--------------------------- MODULE MCChildProcess ---------------------------
(***************************************************************************)
(* Every caller; an output of at most one chunk, so that one more is too   *)
(* much, and two failing calls, so that stopping can fail after a failure. *)
(***************************************************************************)
EXTENDS ChildProcess

AnyCaller == {"run", "read", "scan"}
=============================================================================
