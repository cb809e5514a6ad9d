----------------------------- MODULE PathRules -----------------------------
(***************************************************************************)
(* The rules for paths: which ones a policy may list (policy.py), and the  *)
(* five places that decide by them which paths are retained: the plan's    *)
(* count and its effects, the filter callback and its caller, and the      *)
(* verifier.  A text is the sequence of segments that split("/") makes of  *)
(* it: "a/b/" is <<"a", "b", "">>, and "" is <<"">>.                       *)
(***************************************************************************)
EXTENDS Naturals, Sequences, SequencesExt

\* Segments of a canonical text: not empty, "." or "..", without NUL,
\* backslash and what UTF-8 cannot encode.
CONSTANT Segment
ASSUME SegmentAssumption == {"", ".", ".."} \cap Segment = {}

Path == Seq(Segment) \ {<<>>}
IsDirectory(text) == Last(text) = ""

\* text.startswith(directory)
StartsWith(text, directory) ==
  /\ Len(directory) <= Len(text)
  /\ \A i \in 1..(Len(directory) - 1) : text[i] = directory[i]

\* _canonical_path
Canonical(text) ==
  LET body == IF IsDirectory(text) THEN Front(text) ELSE text
  IN  body # <<>> /\ \A i \in DOMAIN body : body[i] \in Segment

Collide(rule, other) ==
  \/ rule = other
  \/ IsDirectory(rule) /\ StartsWith(other, rule)
  \/ IsDirectory(other) /\ StartsWith(rule, other)

\* _validate_path_rules
NoneCollide(rules) ==
  \A i \in DOMAIN rules : \A j \in 1..(i - 1) : ~Collide(rules[i], rules[j])

\* Faulty variant: an allow-list may be empty.
EmptyAllowed(rules, nonempty) ==
  (\A i \in DOMAIN rules : Canonical(rules[i])) /\ NoneCollide(rules)

\* _paths, for a list of strings.
ValidRules(rules, nonempty) ==
  /\ nonempty => rules # <<>>
  /\ \A i \in DOMAIN rules : Canonical(rules[i])
  /\ NoneCollide(rules)

-----------------------------------------------------------------------------
(* "allow" says that the policy has paths.include; "include" is its list,  *)
(* and empty without it.                                                   *)

\* filtering._path_rules and the two lookups that use it.
Exact(rules) == {rules[i] : i \in {k \in DOMAIN rules : ~IsDirectory(rules[k])}}
Directories(rules) == {rules[i] : i \in {k \in DOMAIN rules : IsDirectory(rules[k])}}
Listed(path, rules) ==
  path \in Exact(rules) \/ \E d \in Directories(rules) : StartsWith(path, d)

\* is_retained_path, which the plan counts with.
IsRetainedPath(path, p) ==
  (p.allow => Listed(path, p.include)) /\ ~Listed(path, p.exclude)

\* The callback, for which an empty allow-list and none are the same.
IsRemoved(path, p) ==
  LET included == \/ Exact(p.include) = {} /\ Directories(p.include) = {}
                  \/ Listed(path, p.include)
  IN  ~included \/ Listed(path, p.exclude)

\* Faulty variant: an allow-list alone does not start the filter.
FilteredByExclude(p) == p.exclude # <<>>

\* filter_paths calls filter-repo only when there are rules.
IsFiltered(p) == p.allow \/ p.exclude # <<>>

\* rewrite_analysis._matches, and the same words in verify._paths.
Matches(path, rule) ==
  path = rule \/ (IsDirectory(rule) /\ StartsWith(path, rule))
MatchedBy(path, rules) == {i \in DOMAIN rules : Matches(path, rules[i])}

\* verify._paths, for one path.
PathAccepted(path, p) ==
  /\ MatchedBy(path, p.exclude) = {}
  /\ p.allow => MatchedBy(path, p.include) # {}

\* path_rule_effects for the rules of each list and the paths of all retained
\* trees.
Outcome(seen, effective) ==
  IF effective THEN "matched" ELSE IF seen THEN "shadowed" ELSE "unmatched"

IncludeEffects(paths, p) ==
  [i \in DOMAIN p.include |->
     Outcome(\E t \in paths : i \in MatchedBy(t, p.include),
             \E t \in paths : /\ i \in MatchedBy(t, p.include)
                              /\ MatchedBy(t, p.exclude) = {})]

ExcludeEffects(paths, p) ==
  [i \in DOMAIN p.exclude |->
     Outcome(\E t \in paths : i \in MatchedBy(t, p.exclude),
             \E t \in paths : /\ i \in MatchedBy(t, p.exclude)
                              /\ p.allow => MatchedBy(t, p.include) # {})]

-----------------------------------------------------------------------------
ValidPaths(p) == /\ p.allow \in BOOLEAN
                 /\ IF p.allow THEN ValidRules(p.include, TRUE) ELSE p.include = <<>>
                 /\ ValidRules(p.exclude, FALSE)

\* README.md:329-333, the predicate all of them stand for.
Retained(path, p) ==
  /\ p.allow => \E i \in DOMAIN p.include : Matches(path, p.include[i])
  /\ \A i \in DOMAIN p.exclude : ~Matches(path, p.exclude[i])

\* Every place decides as the predicate does.
DecidersAgree(path, p) ==
  /\ IsRetainedPath(path, p) <=> Retained(path, p)
  /\ PathAccepted(path, p) <=> Retained(path, p)
  /\ IF IsFiltered(p) THEN IsRemoved(path, p) <=> ~Retained(path, p)
                      ELSE Retained(path, p)

\* The policy without one of its rules.
WithoutInclude(p, i) ==
  [allow |-> p.allow, include |-> RemoveAt(p.include, i), exclude |-> p.exclude]
WithoutExclude(p, i) ==
  [allow |-> p.allow, include |-> p.include, exclude |-> RemoveAt(p.exclude, i)]

\* What is said of the rules of each list: a rule is "matched" exactly if some
\* path would be decided otherwise without it, "unmatched" exactly if it matches
\* no path.
EffectsExact(include, exclude, paths, p) ==
  /\ \A i \in DOMAIN p.include :
       /\ include[i] = "matched" <=>
            \E t \in paths : Retained(t, p) # Retained(t, WithoutInclude(p, i))
       /\ include[i] = "unmatched" <=>
            \A t \in paths : ~Matches(t, p.include[i])
  /\ \A i \in DOMAIN p.exclude :
       /\ exclude[i] = "matched" <=>
            \E t \in paths : Retained(t, p) # Retained(t, WithoutExclude(p, i))
       /\ exclude[i] = "unmatched" <=>
            \A t \in paths : ~Matches(t, p.exclude[i])
=============================================================================
