---------------------------- MODULE MCForbidden ----------------------------
(***************************************************************************)
(* Two bytes and the newline, chunks of two bytes, records of up to three. *)
(* Either every stream is read and nothing scanned, or patterns that       *)
(* overlap are looked for in every pair of short bodies.                   *)
(***************************************************************************)
EXTENDS Forbidden

Text(bytes, limit) == UNION {[1..n -> bytes] : n \in 0..limit}

Arguments == {<<>>, <<<<"a">>>>, <<<<"a", "b">>, <<"a">>>>}

InputCases ==
  {[values |-> v, streams |-> <<t>>, bodies |-> <<>>] :
     v \in Arguments, t \in Text({"a", "n"}, 6)}
  \cup {[values |-> <<>>, streams |-> <<t, u>>, bodies |-> <<>>] :
     t \in Text({"a", "n"}, 3), u \in Text({"a", "b", "n"}, 3)}

Patterns == {<<<<"a">>>>, <<<<"a", "a", "b">>>>, <<<<"a", "b", "a">>, <<"b", "b">>>>,
             <<<<"b", "a", "b">>, <<"a", "a">>>>, <<<<"a", "b">>, <<"b", "a", "a">>>>}

ScanCases ==
  {[values |-> v, streams |-> <<>>, bodies |-> <<t, u>>] :
     v \in Patterns, t \in Text({"a", "b"}, 4), u \in Text({"a", "b"}, 2)}

MCCases == InputCases \cup ScanCases
=============================================================================
