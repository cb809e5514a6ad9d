---------------------------- MODULE MCAcceptance ----------------------------
(***************************************************************************)
(* Two kinds of family: every pair of short rule lists over trees in which *)
(* a name is a file, a directory or neither, and policies and sources that *)
(* differ in what a receipt binds.                                         *)
(***************************************************************************)
EXTENDS Acceptance

Base ==
  [version |-> 1, unknown |-> FALSE, spelling |-> 1, mode |-> "complete", time |-> 2,
   commit |-> "none", prefix |-> "none", mixed |-> "mixed", allow |-> FALSE,
   include |-> <<>>, exclude |-> <<>>, keep |-> <<"HEAD">>]

Main == "refs/heads/main"
Dev == "refs/heads/dev"
Tag == "refs/tags/v1"
Ref(i) == [type |-> "commit", at |-> i]
Commit(id, time, tree) == [id |-> id, time |-> time, tree |-> tree]

Paths == {<<"a">>, <<"b">>, <<"a", "a">>, <<"a", "b">>, <<"b", "a">>}
Rules == {<<"a">>, <<"a", "">>, <<"a", "a">>, <<"b">>, <<"b", "">>}
Malformed == {<<"">>, <<"", "">>, <<"", "a">>, <<"a", "", "">>, <<"a", "", "b">>,
              <<"a", "..">>, <<".", "a">>, <<"a\\b">>}
Lists(S) == {<<>>} \cup {<<x>> : x \in S} \cup {<<x, y>> : x, y \in S}

PathTexts ==
  {[Base EXCEPT !.exclude = e] : e \in Lists(Rules)}
  \cup {[Base EXCEPT !.allow = TRUE, !.include = i, !.exclude = e] :
          i \in Lists(Rules), e \in Lists(Rules \ {<<"b", "">>})}
  \cup {[Base EXCEPT !.exclude = <<m>>] : m \in Malformed}
  \cup {[Base EXCEPT !.allow = TRUE, !.include = <<<<"b">>, m>>] : m \in Malformed}

PathSource(first, last) ==
  [branch |-> Main, refs |-> Main :> Ref(2), shallow |-> FALSE, partial |-> FALSE,
   commits |-> <<Commit("c1", 1, first), Commit("c2", 2, last)>>]

PathSources ==
  {PathSource({<<"a">>, <<"b", "a">>}, {<<"a", "a">>, <<"b", "a">>}),
   PathSource({<<"a", "a">>, <<"a", "b">>, <<"b">>}, {<<"a">>, <<"b">>}),
   PathSource({<<"a", "a">>, <<"a", "b">>, <<"b">>}, {<<"a", "b">>})}

PathFamilies == {[texts |-> {t}, sources |-> {s}] : t \in PathTexts, s \in PathSources}

ScopeTexts ==
  {[Base EXCEPT !.time = time, !.mode = m] : time \in {2, 3, 4}, m \in {"complete", "bounded"}}
  \cup {[Base EXCEPT !.time = 0, !.commit = c, !.mode = m, !.keep = k, !.spelling = p] :
          c \in {"c1", "c2", "c"}, m \in {"complete", "bounded"},
          k \in {<<"HEAD">>, <<"HEAD", Tag>>}, p \in {1, 2}}
  \cup {[Base EXCEPT !.time = 0, !.mode = "snapshot", !.prefix = p, !.keep = k] :
          p \in {"none", "prefix", "invalid"}, k \in {<<"HEAD">>, <<"HEAD", Tag>>}}
  \cup {[Base EXCEPT !.keep = k] : k \in {<<>>, <<Main>>, <<Main, "HEAD">>, <<Tag>>, <<Tag, "HEAD">>,
                                          <<"HEAD", "HEAD">>, <<"HEAD", "refs/notes/n">>}}
  \cup {[Base EXCEPT !.commit = "c1"], [Base EXCEPT !.time = 0],
        [Base EXCEPT !.time = 0, !.commit = "invalid"], [Base EXCEPT !.version = 2],
        [Base EXCEPT !.unknown = TRUE], [Base EXCEPT !.mode = "other"],
        [Base EXCEPT !.exclude = <<<<"a">>>>]}

ScopeSource ==
  [branch |-> Main, refs |-> (Main :> Ref(3)) @@ (Tag :> Ref(2)), shallow |-> FALSE,
   partial |-> FALSE,
   commits |-> <<Commit("c1", 2, {<<"a">>}), Commit("c2", 1, {<<"a">>, <<"b">>}),
                 Commit("c3", 2, {<<"b">>})>>]

ScopeSources ==
  {ScopeSource, [ScopeSource EXCEPT !.shallow = TRUE], [ScopeSource EXCEPT !.partial = TRUE],
   [ScopeSource EXCEPT !.refs[Main].at = 2], [ScopeSource EXCEPT !.refs[Tag].at = 3],
   [ScopeSource EXCEPT !.refs[Tag].type = "tag"], [ScopeSource EXCEPT !.refs[Tag].type = "signed"],
   [ScopeSource EXCEPT !.refs = Main :> Ref(3)],
   [ScopeSource EXCEPT !.branch = Dev, !.refs = (Dev :> Ref(3)) @@ (Tag :> Ref(2))]}

\* The smallest one, for the scope file.
SmallFamilies ==
  {[texts |-> {[Base EXCEPT !.time = 0, !.commit = "c2"]}, sources |-> {ScopeSource}]}

MCFamilies == PathFamilies \cup {[texts |-> ScopeTexts, sources |-> ScopeSources]}
=============================================================================
