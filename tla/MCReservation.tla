--------------------------- MODULE MCReservation ---------------------------
(***************************************************************************)
(* Three destinations "a", "A" and "b" in one directory: "a" and "A" fold  *)
(* to the same key, so the target <<"a", "A">> asks for one key twice.     *)
(***************************************************************************)
EXTENDS Reservation

FoldedPaths == {"a", "A", "b"}
FoldedKey == [x \in FoldedPaths |-> IF x = "b" THEN 2 ELSE 1]
FoldedTargets == {<<"a">>, <<"a", "b">>, <<"b", "A">>, <<"a", "A">>}
=============================================================================
