----------------------------- MODULE MCRewrite -----------------------------
(***************************************************************************)
(* Every placement of the receipt, on both kinds of file system; the       *)
(* source gains up to two commits, so that three reads can all differ.     *)
(***************************************************************************)
EXTENDS Rewrite

AnyReceipt == {"none", "beside", "apart"}
=============================================================================
