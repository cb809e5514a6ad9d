----------------------------- MODULE MCHistory -----------------------------
EXTENDS History

Trees == {0, 1} \X {0, 1}

\* Every graph of three commits, where the third one may be a merge in either
\* order.
Graphs == {g \in [Commits -> BoundedSeq(Commits, 2)] :
            \A c \in Commits : /\ \A p \in Range(g[c]) : p < c
                               /\ IsInjective(g[c])}

\* Both references at one commit, or either one behind the other.
Tips == {<<N, N>>, <<N, N - 1>>, <<N - 1, N>>}
Whole == {[parents |-> g, tree |-> t, kind |-> k, recent |-> r,
           target |-> [n \in Names |-> IF n = "HEAD" THEN p[1] ELSE p[2]],
           shallow |-> {}, missing |-> {}, partial |-> FALSE] :
            g \in Graphs, t \in [Commits -> Trees], p \in Tips,
            k \in {"branch", "annotated-tag"}, r \in {{1, N}, Commits}}

\* The same with objects that are not local.
Partial == {[s EXCEPT !.shallow = h, !.missing = x, !.partial = b] :
              s \in {w \in Whole : /\ w.kind = "branch" /\ w.recent = Commits
                                   /\ \A c \in Commits : w.tree[c] = <<1, 1>>},
              h \in {{}, {1}}, x \in {{}, {1}, {2}}, b \in BOOLEAN}
MCSources == Whole \cup Partial

Plain == [mode |-> "complete", cutoff |-> 0, keep |-> Names, rules |-> TRUE]
MCPolicies ==
  {[Plain EXCEPT !.cutoff = c, !.keep = k] : c \in {0, 2}, k \in {{"HEAD"}, Names}}
    \cup {[Plain EXCEPT !.rules = FALSE], [Plain EXCEPT !.mode = "bounded"],
          [Plain EXCEPT !.mode = "snapshot", !.keep = {"HEAD"}]}
=============================================================================
