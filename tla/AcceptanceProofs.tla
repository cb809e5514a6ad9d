-------------------------- MODULE AcceptanceProofs --------------------------
(***************************************************************************)
(* For any lists of rules and any paths: everybody who decides by a valid  *)
(* policy decides the same, and what plan says of each rule is true.  For  *)
(* any sources and policies: what rewriting makes of a run of commits, by  *)
(* induction over the run, that verify accepts it, and from the inductive  *)
(* invariant Inv what plan, rewrite and verify say of each other.          *)
(***************************************************************************)
EXTENDS Acceptance, SequenceTheorems, FiniteSetTheorems, WellFoundedInduction, TLAPS

-----------------------------------------------------------------------------
(* Rules.                                                                  *)

\* No path of a tree ends in a slash.
LEMMA PathIsNoDirectory ==
  ASSUME NEW path \in Path
  PROVE  ~IsDirectory(path)
<1>1. path \in Seq(Segment) /\ Len(path) \in 1..Len(path)  BY DEF Path
<1>2. path[Len(path)] \in Segment  BY <1>1
<1> QED BY <1>2, SegmentAssumption DEF IsDirectory, Last

\* The lookups by exact and directory rules are the matching of the effects.
LEMMA ListedMatches ==
  ASSUME NEW path \in Path, NEW rules
  PROVE  Listed(path, rules) <=> \E i \in DOMAIN rules : Matches(path, rules[i])
BY PathIsNoDirectory DEF Listed, Exact, Directories, Matches

\* No rule of a valid list is a prefix of another, so at most one matches.
LEMMA AtMostOneMatches ==
  ASSUME NEW rules \in Seq(Seq(STRING)), NoneCollide(rules), NEW path \in Path,
         NEW i \in DOMAIN rules, NEW j \in DOMAIN rules,
         Matches(path, rules[i]), Matches(path, rules[j])
  PROVE  i = j
<1>1. ASSUME NEW r \in Seq(STRING), NEW o \in Seq(STRING),
             Matches(path, r), Matches(path, o)
      PROVE  Collide(r, o)
  <2>1. CASE path = r \/ path = o
    BY <1>1, <2>1, PathIsNoDirectory DEF Matches, Collide
  <2>2. CASE path # r /\ path # o
    <3>1. /\ IsDirectory(r) /\ StartsWith(path, r)
          /\ IsDirectory(o) /\ StartsWith(path, o)
      BY <1>1, <2>2 DEF Matches
    <3>2. Len(r) \in Nat /\ Len(o) \in Nat  OBVIOUS
    <3>3. CASE Len(r) <= Len(o)
      <4>1. ASSUME NEW k \in 1..(Len(r) - 1) PROVE o[k] = r[k]
        <5>1. k \in 1..(Len(o) - 1)  BY <3>2, <3>3
        <5> QED BY <3>1, <5>1 DEF StartsWith
      <4> QED BY <3>1, <3>3, <4>1 DEF Collide, StartsWith
    <3>4. CASE Len(o) <= Len(r)
      <4>1. ASSUME NEW k \in 1..(Len(o) - 1) PROVE r[k] = o[k]
        <5>1. k \in 1..(Len(r) - 1)  BY <3>2, <3>4
        <5> QED BY <3>1, <5>1 DEF StartsWith
      <4> QED BY <3>1, <3>4, <4>1 DEF Collide, StartsWith
    <3> QED BY <3>2, <3>3, <3>4
  <2> QED BY <2>1, <2>2
<1>2. Collide(rules[i], rules[j]) /\ Collide(rules[j], rules[i])
  BY <1>1
<1>3. i \in Nat /\ j \in Nat /\ DOMAIN rules = 1..Len(rules)  OBVIOUS
<1>4. ASSUME NEW a \in DOMAIN rules, NEW b \in DOMAIN rules, b < a,
             Collide(rules[a], rules[b])
      PROVE  FALSE
  <2>1. b \in 1..(a - 1)  BY <1>3, <1>4
  <2> QED BY <1>4, <2>1 DEF NoneCollide
<1>5. i < j \/ j < i \/ i = j  BY <1>3
<1> QED BY <1>2, <1>4, <1>5

\* The rules of a list without one of them.
LEMMA WithoutOne ==
  ASSUME NEW S, NEW s \in Seq(S), NEW i \in DOMAIN s, NEW path
  PROVE  (\E k \in DOMAIN RemoveAt(s, i) : Matches(path, RemoveAt(s, i)[k]))
           <=> \E j \in DOMAIN s \ {i} : Matches(path, s[j])
<1> DEFINE a == SubSeq(s, 1, i - 1)
           b == SubSeq(s, i + 1, Len(s))
           r == a \o b
<1>1. i \in 1..Len(s) /\ Len(s) \in Nat /\ DOMAIN s = 1..Len(s)  OBVIOUS
<1>2. a \in Seq(S) /\ Len(a) = i - 1 /\ \A k \in 1..(i - 1) : a[k] = s[k]
  BY <1>1
<1>3. b \in Seq(S) /\ Len(b) = Len(s) - i /\ \A k \in 1..(Len(s) - i) : b[k] = s[k + i]
  BY <1>1
<1>4. r \in Seq(S) /\ Len(r) = Len(s) - 1 /\ DOMAIN r = 1..(Len(s) - 1)
      /\ \A k \in 1..(Len(s) - 1) : r[k] = IF k < i THEN s[k] ELSE s[k + 1]
  <2> HIDE DEF a, b
  <2>1. r \in Seq(S) /\ Len(r) = Len(s) - 1 /\ DOMAIN r = 1..(Len(s) - 1)
    <3>1. r \in Seq(S) /\ Len(r) = Len(a) + Len(b)
      BY <1>2, <1>3, ConcatProperties
    <3>2. Len(a) + Len(b) = Len(s) - 1  BY <1>1, <1>2, <1>3
    <3>3. DOMAIN r = 1..Len(r)  BY <3>1
    <3> QED BY <3>1, <3>2, <3>3
  <2>2. \A k \in 1..Len(r) : r[k] = IF k <= Len(a) THEN a[k] ELSE b[k - Len(a)]
    BY <1>2, <1>3, ConcatProperties
  <2>3. ASSUME NEW k \in 1..(Len(s) - 1) PROVE r[k] = IF k < i THEN s[k] ELSE s[k + 1]
    <3>1. CASE k < i
      <4>1. k \in 1..(i - 1)  BY <3>1, <1>1
      <4>3. k \in 1..Len(r)  BY <2>1
      <4>4. k <= Len(a)  BY <4>1, <1>1, <1>2
      <4>2. r[k] = a[k] /\ a[k] = s[k]  BY <4>1, <4>3, <4>4, <1>2, <2>2
      <4> QED BY <3>1, <4>2
    <3>2. CASE ~(k < i)
      <4>1. k - (i - 1) \in 1..(Len(s) - i) /\ ~(k <= Len(a))  BY <3>2, <1>1, <1>2
      <4>2. b[k - (i - 1)] = s[k - (i - 1) + i] /\ k - (i - 1) + i = k + 1
        BY <4>1, <1>1, <1>3
      <4> QED BY <3>2, <4>1, <4>2, <1>1, <1>2, <2>1, <2>2
    <3> QED BY <3>1, <3>2
  <2> QED BY <2>1, <2>3
<1>5. RemoveAt(s, i) = r  BY DEF RemoveAt
<1> HIDE DEF r
<1>6. ASSUME NEW k \in DOMAIN r, Matches(path, r[k])
      PROVE  \E j \in DOMAIN s \ {i} : Matches(path, s[j])
  <2> DEFINE j == IF k < i THEN k ELSE k + 1
  <2>1. j \in DOMAIN s \ {i} /\ r[k] = s[j]  BY <1>1, <1>4
  <2> QED BY <1>6, <2>1
<1>7. ASSUME NEW j \in DOMAIN s \ {i}, Matches(path, s[j])
      PROVE  \E k \in DOMAIN r : Matches(path, r[k])
  <2> DEFINE k == IF j < i THEN j ELSE j - 1
  <2>1. k \in DOMAIN r /\ r[k] = s[j]  BY <1>1, <1>4
  <2> QED BY <1>7, <2>1
<1> QED BY <1>5, <1>6, <1>7

-----------------------------------------------------------------------------
(* What a valid policy retains.                                            *)

Lists(p) == p.include \in Seq(Seq(STRING)) /\ p.exclude \in Seq(Seq(STRING))

\* The plan's count, the filter callback with the condition under which it runs,
\* and the verifier decide every path as README's predicate does.
THEOREM EverybodyDecidesAlike ==
  ASSUME NEW p, ValidPaths(p), Lists(p), NEW path \in Path
  PROVE  DecidersAgree(path, p)
<1>1. IsRetainedPath(path, p) <=> Retained(path, p)
  BY ListedMatches DEF IsRetainedPath, Retained
<1>2. PathAccepted(path, p) <=> Retained(path, p)
  BY DEF PathAccepted, MatchedBy, Retained
<1>3. p.allow \in BOOLEAN /\ (p.allow => p.include # <<>>) /\ (~p.allow => p.include = <<>>)
  BY DEF ValidPaths, ValidRules
<1>4. CASE IsFiltered(p)
  <2>1. (Exact(p.include) = {} /\ Directories(p.include) = {}) <=> ~p.allow
    <3>1. ASSUME NEW r \in Seq(Seq(STRING)), r # <<>> PROVE 1 \in DOMAIN r
      BY <3>1
    <3>2. p.allow => 1 \in DOMAIN p.include  BY <1>3, <3>1 DEF Lists
    <3>3. ~p.allow => DOMAIN p.include = {}  BY <1>3
    <3> QED BY <3>2, <3>3 DEF Exact, Directories
  <2>2. IsRemoved(path, p) <=> ~Retained(path, p)
    BY <2>1, ListedMatches DEF IsRemoved, Retained
  <2> QED BY <1>1, <1>2, <1>4, <2>2 DEF DecidersAgree
<1>5. CASE ~IsFiltered(p)
  <2>1. ~p.allow /\ DOMAIN p.exclude = {}  BY <1>5 DEF IsFiltered, Lists
  <2>2. Retained(path, p)  BY <2>1 DEF Retained
  <2> QED BY <1>1, <1>2, <1>5, <2>2 DEF DecidersAgree
<1> QED BY <1>4, <1>5

\* What plan says of the rules of a valid policy is true of any set of paths:
\* a rule called matched is one that makes a difference, and only those are.
THEOREM EffectsAreExact ==
  ASSUME NEW p, ValidPaths(p), Lists(p), NEW paths \in SUBSET Path
  PROVE  EffectsExact(IncludeEffects(paths, p), ExcludeEffects(paths, p), paths, p)
<1>1. p.include \in Seq(Seq(STRING)) /\ p.exclude \in Seq(Seq(STRING))
      /\ NoneCollide(p.include) /\ NoneCollide(p.exclude)
  BY DEF ValidPaths, ValidRules, Lists, NoneCollide
<1>2. ASSUME NEW i \in DOMAIN p.include
      PROVE  /\ WithoutInclude(p, i).allow = p.allow
             /\ WithoutInclude(p, i).include = RemoveAt(p.include, i)
             /\ WithoutInclude(p, i).exclude = p.exclude
  BY DEF WithoutInclude
<1>3. ASSUME NEW i \in DOMAIN p.exclude
      PROVE  /\ WithoutExclude(p, i).allow = p.allow
             /\ WithoutExclude(p, i).include = p.include
             /\ WithoutExclude(p, i).exclude = RemoveAt(p.exclude, i)
  BY DEF WithoutExclude
<1>4. (\E i \in DOMAIN p.include : TRUE) => p.allow
  <2>1. ~p.allow => p.include = <<>>  BY DEF ValidPaths
  <2> QED BY <2>1
<1>5. ASSUME NEW i \in DOMAIN p.include, NEW t \in Path
      PROVE  (Retained(t, p) # Retained(t, WithoutInclude(p, i)))
               <=> Matches(t, p.include[i]) /\ MatchedBy(t, p.exclude) = {}
  <2>1. Matches(t, p.include[i]) => \A j \in DOMAIN p.include \ {i} : ~Matches(t, p.include[j])
    BY <1>1, AtMostOneMatches
  <2>2. (\E k \in DOMAIN RemoveAt(p.include, i) : Matches(t, RemoveAt(p.include, i)[k]))
          <=> \E j \in DOMAIN p.include \ {i} : Matches(t, p.include[j])
    BY <1>1, WithoutOne
  <2>3. Retained(t, WithoutInclude(p, i))
          <=> /\ \E j \in DOMAIN p.include \ {i} : Matches(t, p.include[j])
              /\ \A j \in DOMAIN p.exclude : ~Matches(t, p.exclude[j])
    BY <1>2, <1>4, <2>2 DEF Retained
  <2>4. Retained(t, p)
          <=> /\ \E j \in DOMAIN p.include : Matches(t, p.include[j])
              /\ \A j \in DOMAIN p.exclude : ~Matches(t, p.exclude[j])
    BY <1>4 DEF Retained
  <2>5. Retained(t, p) \in BOOLEAN /\ Retained(t, WithoutInclude(p, i)) \in BOOLEAN
    BY DEF Retained
  <2>6. MatchedBy(t, p.exclude) = {} <=> \A j \in DOMAIN p.exclude : ~Matches(t, p.exclude[j])
    BY DEF MatchedBy
  <2> QED BY <2>1, <2>3, <2>4, <2>5, <2>6
<1>6. ASSUME NEW i \in DOMAIN p.exclude, NEW t \in Path
      PROVE  (Retained(t, p) # Retained(t, WithoutExclude(p, i)))
               <=> /\ Matches(t, p.exclude[i])
                   /\ p.allow => MatchedBy(t, p.include) # {}
  <2>1. Matches(t, p.exclude[i]) => \A j \in DOMAIN p.exclude \ {i} : ~Matches(t, p.exclude[j])
    BY <1>1, AtMostOneMatches
  <2>2. (\E k \in DOMAIN RemoveAt(p.exclude, i) : Matches(t, RemoveAt(p.exclude, i)[k]))
          <=> \E j \in DOMAIN p.exclude \ {i} : Matches(t, p.exclude[j])
    BY <1>1, WithoutOne
  <2>3. Retained(t, WithoutExclude(p, i))
          <=> /\ p.allow => \E j \in DOMAIN p.include : Matches(t, p.include[j])
              /\ \A j \in DOMAIN p.exclude \ {i} : ~Matches(t, p.exclude[j])
    BY <1>3, <2>2 DEF Retained
  <2>4. Retained(t, p) \in BOOLEAN /\ Retained(t, WithoutExclude(p, i)) \in BOOLEAN
    BY DEF Retained
  <2>5. MatchedBy(t, p.include) # {} <=> \E j \in DOMAIN p.include : Matches(t, p.include[j])
    BY DEF MatchedBy
  <2> QED BY <2>1, <2>3, <2>4, <2>5 DEF Retained
<1>7. ASSUME NEW i \in DOMAIN p.include
      PROVE  LET e == IncludeEffects(paths, p)[i]
             IN  /\ e = "matched" <=> \E t \in paths : /\ Matches(t, p.include[i])
                                                      /\ MatchedBy(t, p.exclude) = {}
                 /\ e = "unmatched" <=> \A t \in paths : ~Matches(t, p.include[i])
  BY DEF IncludeEffects, Outcome, MatchedBy
<1>8. ASSUME NEW i \in DOMAIN p.exclude
      PROVE  LET e == ExcludeEffects(paths, p)[i]
             IN  /\ e = "matched" <=>
                      \E t \in paths : /\ Matches(t, p.exclude[i])
                                       /\ p.allow => MatchedBy(t, p.include) # {}
                 /\ e = "unmatched" <=> \A t \in paths : ~Matches(t, p.exclude[i])
  BY DEF ExcludeEffects, Outcome, MatchedBy
<1> QED BY <1>5, <1>6, <1>7, <1>8 DEF EffectsExact

-----------------------------------------------------------------------------
(* The policy and the source of every state.                               *)

ReportTrue ==
  report.ok => /\ Accepted(text)
               /\ report.include = IncludeEffects(RetainedPaths(source, text), text)
               /\ report.exclude = ExcludeEffects(RetainedPaths(source, text), text)

PolicyInv ==
  family \in Families /\ text \in family.texts /\ source \in family.sources /\ ReportTrue

\* The policy and the source are of one family, and a report is of them as they
\* are: whoever edits one of them forgets the report.
THEOREM PolicyInvariant == Spec => []PolicyInv
<1>1. Init => PolicyInv
  BY DEF Init, PolicyInv, ReportTrue, NoReport
<1>2. PolicyInv /\ [Next]_vars => PolicyInv'
  <2> SUFFICES ASSUME PolicyInv, [Next]_vars PROVE PolicyInv'
    OBVIOUS
  <2>1. CASE EditPolicy
    BY <2>1 DEF PolicyInv, ReportTrue, EditPolicy, Forget, NoReport
  <2>2. CASE ChangeSource
    BY <2>2 DEF PolicyInv, ReportTrue, ChangeSource, Forget, NoReport
  <2>3. CASE Plan
    <3>1. CASE Accepted(text) /\ Analysable(source, text)
      <4>1. /\ report'.include = IncludeEffects(RetainedPaths(source, text), text)
            /\ report'.exclude = ExcludeEffects(RetainedPaths(source, text), text)
            /\ UNCHANGED <<family, text, source>>
        BY <2>3, <3>1 DEF Plan
      <4> QED BY <3>1, <4>1 DEF PolicyInv, ReportTrue
    <3>2. CASE ~(Accepted(text) /\ Analysable(source, text))
      <4>1. ~report'.ok /\ UNCHANGED <<family, text, source>>
        BY <2>3, <3>2 DEF Plan, NoReport
      <4> QED BY <4>1 DEF PolicyInv, ReportTrue
    <3> QED BY <3>1, <3>2
  <2>4. ASSUME UNCHANGED <<family, text, source, report>> PROVE PolicyInv'
    BY <2>4 DEF PolicyInv, ReportTrue
  <2>5. ASSUME NEW with \in BOOLEAN, Rewrite(with) PROVE PolicyInv'
    BY <2>4, <2>5 DEF Rewrite
  <2>6. ASSUME NEW i \in DOMAIN made, OlderRelease(i) \/ Tamper(i) PROVE PolicyInv'
    <3>1. OlderRelease(i) => UNCHANGED <<family, text, source, report>>
      BY DEF OlderRelease
    <3>2. Tamper(i) => UNCHANGED <<family, text, source, report, outcome>>
      BY DEF Tamper
    <3> QED BY <2>4, <2>6, <3>1, <3>2
  <2>7. ASSUME NEW i \in DOMAIN made, NEW j \in DOMAIN made, NEW with \in BOOLEAN,
               Verify(i, j, with)
        PROVE  PolicyInv'
    BY <2>4, <2>7 DEF Verify
  <2>8. CASE UNCHANGED vars
    BY <2>4, <2>8 DEF vars
  <2> QED BY <2>1, <2>2, <2>3, <2>5, <2>6, <2>7, <2>8 DEF Next
<1> QED BY <1>1, <1>2, PTL DEF Spec

\* The lists of rules of a policy that from_text accepts are lists of paths, and
\* valid ones.
LEMMA AcceptedLists ==
  ASSUME PolicyInv, Accepted(text) PROVE ValidPaths(text) /\ Lists(text)
BY TextsAssumption DEF PolicyInv, Accepted, Lists

\* The paths that plan counts are paths, so that a rule decides each of them.
LEMMA RetainedPathsArePaths ==
  ASSUME PolicyInv PROVE RetainedPaths(source, text) \in SUBSET Path
<1>1. /\ source.branch \in DOMAIN source.refs
      /\ \A n \in DOMAIN source.refs : source.refs[n].at \in DOMAIN source.commits
      /\ \A i \in DOMAIN source.commits : source.commits[i].tree \subseteq Path
  BY FamiliesAssumption DEF PolicyInv
<1>2. ScopeCommits(source, text) \subseteq DOMAIN source.commits
  BY <1>1 DEF ScopeCommits
<1>3. RetainedCommits(source, text) \subseteq DOMAIN source.commits
  <2>1. RetainedCommits(source, text) \subseteq ScopeCommits(source, text)
    BY DEF RetainedCommits
  <2> QED BY <1>2, <2>1
<1> QED BY <1>1, <1>3 DEF RetainedPaths

\* Planning, filtering and verification decide every path alike, for every
\* policy that is accepted.
THEOREM RulesAgreeAlways == Spec => []RulesAgree
<1>1. PolicyInv => RulesAgree
  BY AcceptedLists, EverybodyDecidesAlike, PathsAssumption DEF RulesAgree
<1> QED BY <1>1, PolicyInvariant, PTL

\* What plan said of the rules stays true of the source it looked at, for every
\* policy and source.
THEOREM EffectsTrueAlways == Spec => []EffectsTrue
<1>1. PolicyInv => EffectsTrue
  BY AcceptedLists, EffectsAreExact, RetainedPathsArePaths
     DEF PolicyInv, ReportTrue, EffectsTrue
<1> QED BY <1>1, PolicyInvariant, PTL

-----------------------------------------------------------------------------
(* What rewriting makes of a run of commits.                               *)

\* A set of naturals that is not empty has a least member.
LEMMA Least ==
  ASSUME NEW T \in SUBSET Nat, T # {}
  PROVE  Min(T) \in T /\ \A m \in T : Min(T) <= m
<1>1. \E x \in T : \A y \in T : ~ (<<y, x>> \in OpToRel(<,Nat))
  BY NatLessThanWellFounded, WFMin
<1>2. \A x, y \in Nat : x < y => <<x, y>> \in OpToRel(<,Nat)
  BY DEF OpToRel
<1>3. \E x \in T : \A y \in T : ~(y < x)
  BY <1>1, <1>2, Zenon
<1>4. \E x \in T : \A y \in T : x <= y
  BY <1>3
<1> QED BY <1>4 DEF Min

\* Induction up to k, for a set: only the least number outside it would be an
\* exception.
LEMMA UpTo ==
  ASSUME NEW k \in Nat, NEW T \in SUBSET (0..k), 0 \in T,
         \A n \in T : n < k => n + 1 \in T
  PROVE  T = 0..k
<1> SUFFICES ASSUME (0..k) \ T # {} PROVE FALSE
  OBVIOUS
<1> DEFINE n == Min((0..k) \ T)
<1>1. n \in (0..k) \ T /\ \A m \in (0..k) \ T : n <= m
  BY Least
<1> HIDE DEF n
<1>2. n # 0 /\ n - 1 \in 0..k
  BY <1>1
<1>3. n - 1 \in T
  BY <1>1, <1>2
<1> QED BY <1>1, <1>2, <1>3

Follows(f, n, a, step) == f[0] = a /\ \A i \in 1..n : f[i] = step[<<i, f[i-1]>>]

\* A function defined by recursion on the naturals exists.
LEMMA Recursion ==
  ASSUME NEW X, NEW a \in X, NEW k \in Nat, NEW step \in [(1..k) \X X -> X]
  PROVE  \E f \in [0..k -> X] : Follows(f, k, a, step)
<1> DEFINE T == {n \in 0..k : \E f \in [0..n -> X] : Follows(f, n, a, step)}
<1>1. 0 \in T
  <2>1. [i \in 0..0 |-> a] \in [0..0 -> X] /\ Follows([i \in 0..0 |-> a], 0, a, step)
    BY DEF Follows
  <2> QED BY <2>1
<1>2. ASSUME NEW n \in T, n < k PROVE n + 1 \in T
  <2>1. PICK f \in [0..n -> X] : Follows(f, n, a, step)
    OBVIOUS
  <2>2. n \in Nat /\ f[n] \in X /\ n + 1 \in 1..k
    BY <1>2
  <2> DEFINE y == step[<<n+1, f[n]>>]
             g == [i \in 0..n+1 |-> IF i = n + 1 THEN y ELSE f[i]]
  <2>3. y \in X
    BY <2>2
  <2> HIDE DEF y
  <2>4. g \in [0..n+1 -> X]
    BY <2>2, <2>3
  <2>5. g[0] = a
    BY <2>1, <2>2 DEF Follows
  <2>6. ASSUME NEW i \in 1..n+1 PROVE g[i] = step[<<i, g[i-1]>>]
    <3>1. CASE i = n + 1
      <4>1. g[i] = y /\ g[i-1] = f[n]
        BY <3>1, <2>2
      <4> QED BY <4>1, <3>1 DEF y
    <3>2. CASE i # n + 1
      <4>1. g[i] = f[i] /\ g[i-1] = f[i-1] /\ i \in 1..n
        BY <3>2, <2>2
      <4>2. \A j \in 1..n : f[j] = step[<<j, f[j-1]>>]
        BY <2>1 DEF Follows
      <4> HIDE DEF g
      <4> QED BY <4>1, <4>2
    <3> QED BY <3>1, <3>2
  <2> HIDE DEF g
  <2>7. Follows(g, n + 1, a, step)
    BY <2>5, <2>6 DEF Follows
  <2>8. n + 1 \in 0..k
    BY <2>2
  <2> QED BY <2>4, <2>7, <2>8
<1>3. T = 0..k
  <2>1. T \in SUBSET (0..k)
    OBVIOUS
  <2> HIDE DEF T
  <2> QED BY <1>1, <1>2, <2>1, UpTo
<1> QED BY <1>3

\* The entries that a run can be rewritten to.
Entry(run, t) ==
  [from : {run[k].id : k \in 1..Len(run)}, time : {run[k].time : k \in 1..Len(run)},
   tree : SUBSET Path,
   message : {Message(t.prefix), Message(t.mixed)} \cup {run[k].id : k \in 1..Len(run)}]

ARun(run) == Len(run) \in Nat \ {0} /\ \A k \in 1..Len(run) : run[k].tree \subseteq Path

\* Rewriting a commit leaves a line of entries.
LEMMA StepOnLines ==
  ASSUME NEW run, ARun(run), NEW t, NEW line \in Seq(Entry(run, t)), NEW k \in 1..Len(run)
  PROVE  RewriteCommit(run, t, line, k) \in Seq(Entry(run, t))
<1> DEFINE old     == IF k = 1 THEN {} ELSE run[k - 1].tree
           new     == run[k].tree
           before  == IF line = <<>> THEN {} ELSE Last(line).tree
           removed == {path \in (old \cup new) \ (old \cap new) : IsRemoved(path, t)}
           tree    == IF IsFiltered(t) THEN (before \ ((old \ new) \ removed))
                                            \cup ((new \ old) \ removed)
                      ELSE new
           message == IF k = 1 THEN Message(t.prefix)
                      ELSE IF IsFiltered(t) /\ removed # {} /\ line # <<>> THEN Message(t.mixed)
                      ELSE run[k].id
           entry   == [from |-> run[k].id, time |-> run[k].time, tree |-> tree, message |-> message]
<1>1. RewriteCommit(run, t, line, k)
        = IF IsFiltered(t) /\ tree = before THEN line ELSE Append(line, entry)
  BY DEF RewriteCommit
<1>2. before \subseteq Path
  <2>1. ASSUME line # <<>> PROVE Last(line) \in Entry(run, t)
    <3>1. Len(line) \in 1..Len(line)  BY <2>1, EmptySeq
    <3> QED BY <3>1 DEF Last
  <2> QED BY <2>1 DEF Entry
<1>3. tree \subseteq Path
  <2>1. new \subseteq Path  BY DEF ARun
  <2> HIDE DEF removed, old, new, before
  <2> QED BY <1>2, <2>1
<1>4. message \in {Message(t.prefix), Message(t.mixed)} \cup {run[j].id : j \in 1..Len(run)}
  <2> HIDE DEF removed
  <2> QED OBVIOUS
<1> HIDE DEF tree, message, before
<1>5. entry \in Entry(run, t)
  BY <1>3, <1>4 DEF Entry
<1> HIDE DEF entry
<1> QED BY <1>1, <1>5, AppendProperties

\* The first k commits of a run leave a line that ends with the retained paths of
\* the last of them, has only retained paths, and starts with the prefix message
\* unless its first commit is another one than the run's.
LineInv(run, t, line, k) ==
  /\ line \in Seq(Entry(run, t))
  /\ line = <<>> => k = 0 \/ IsFiltered(t)
  /\ (IF line = <<>> THEN {} ELSE Last(line).tree)
       = IF k = 0 THEN {} ELSE {path \in run[k].tree : Retained(path, t)}
  /\ \A i \in 1..Len(line) : \A path \in line[i].tree : Retained(path, t)
  /\ line # <<>> => \/ line[1].message = Message(t.prefix)
                    \/ \E j \in 2..Len(run) : line[1].from = run[j].id

\* _rewrite_commit of the next commit keeps what is true of the line made so far.
LEMMA StepKeepsLine ==
  ASSUME NEW run, ARun(run), NEW t, ValidPaths(t), Lists(t), NEW k \in 1..Len(run),
         NEW line, LineInv(run, t, line, k - 1)
  PROVE  LineInv(run, t, RewriteCommit(run, t, line, k), k)
<1> DEFINE old     == IF k = 1 THEN {} ELSE run[k - 1].tree
           new     == run[k].tree
           before  == IF line = <<>> THEN {} ELSE Last(line).tree
           removed == {path \in (old \cup new) \ (old \cap new) : IsRemoved(path, t)}
           tree    == IF IsFiltered(t) THEN (before \ ((old \ new) \ removed))
                                            \cup ((new \ old) \ removed)
                      ELSE new
           message == IF k = 1 THEN Message(t.prefix)
                      ELSE IF IsFiltered(t) /\ removed # {} /\ line # <<>> THEN Message(t.mixed)
                      ELSE run[k].id
           entry   == [from |-> run[k].id, time |-> run[k].time, tree |-> tree, message |-> message]
           next    == RewriteCommit(run, t, line, k)
           kept    == {path \in new : Retained(path, t)}
<1>1. next = IF IsFiltered(t) /\ tree = before THEN line ELSE Append(line, entry)
  BY DEF RewriteCommit
<1>2. line \in Seq(Entry(run, t))
  BY DEF LineInv
<1>3. next \in Seq(Entry(run, t))
  BY <1>2, StepOnLines
<1>4. old \subseteq Path /\ new \subseteq Path
  <2>1. k # 1 => k - 1 \in 1..Len(run)  BY DEF ARun
  <2> QED BY <2>1 DEF ARun
<1>5. \A path \in Path : IF IsFiltered(t) THEN IsRemoved(path, t) <=> ~Retained(path, t)
                                          ELSE Retained(path, t)
  BY EverybodyDecidesAlike DEF DecidersAgree
<1>6. before = {path \in old : Retained(path, t)}
  <2>1. k - 1 = 0 <=> k = 1  BY DEF ARun
  <2>2. before = IF k - 1 = 0 THEN {} ELSE {path \in run[k - 1].tree : Retained(path, t)}
    BY DEF LineInv
  <2> QED BY <2>1, <2>2
<1>7. tree = kept
  <2>1. CASE IsFiltered(t)
    <3>1. \A path \in Path : IsRemoved(path, t) <=> ~Retained(path, t)  BY <1>5, <2>1
    <3>2. removed = {path \in (old \cup new) \ (old \cap new) : ~Retained(path, t)}
      BY <1>4, <3>1
    <3>3. tree = (before \ ((old \ new) \ removed)) \cup ((new \ old) \ removed)
      BY <2>1
    <3> HIDE DEF old, new, before, removed, tree
    <3>4. tree = {path \in new : Retained(path, t)}
      BY <1>6, <3>2, <3>3
    <3> QED BY <3>4
  <2>2. CASE ~IsFiltered(t)
    <3>1. tree = new /\ \A path \in new : Retained(path, t)  BY <1>4, <1>5, <2>2
    <3> HIDE DEF new, tree
    <3> QED BY <3>1
  <2> QED BY <2>1, <2>2
<1>8. entry.tree = tree /\ entry.message = message /\ entry.from = run[k].id
  OBVIOUS
<1>9. k # 1 => k \in 2..Len(run)
  BY DEF ARun
<1>10. message = Message(t.prefix) \/ k \in 2..Len(run)
  BY <1>9
<1>11. k # 0 /\ Len(line) \in Nat /\ DOMAIN line = 1..Len(line)
  BY <1>2
<1>12. CASE IsFiltered(t) /\ tree = before
  <2>1. next = line  BY <1>1, <1>12
  <2>2. before = kept  BY <1>7, <1>12
  <2> HIDE DEF next, tree, kept
  <2>3. (IF next = <<>> THEN {} ELSE Last(next).tree) = kept
    BY <2>1, <2>2
  <2>4. /\ \A i \in 1..Len(line) : \A path \in line[i].tree : Retained(path, t)
        /\ line # <<>> => \/ line[1].message = Message(t.prefix)
                          \/ \E j \in 2..Len(run) : line[1].from = run[j].id
    BY DEF LineInv
  <2>5. LineInv(run, t, line, k)
    BY <1>2, <1>11, <1>12, <2>1, <2>3, <2>4 DEF LineInv, kept
  <2> QED BY <2>1, <2>5 DEF next
<1>13. CASE ~(IsFiltered(t) /\ tree = before)
  <2>1. next = Append(line, entry)
    BY <1>1, <1>13
  <2> HIDE DEF entry, next
  <2>2. entry \in Entry(run, t)
    <3>1. Len(next) = Len(line) + 1 /\ next[Len(line) + 1] = entry
      BY <1>2, <1>3, <2>1, AppendProperties
    <3> QED BY <1>3, <1>11, <3>1
  <2>3. /\ next # <<>> /\ Len(next) = Len(line) + 1 /\ next[Len(line) + 1] = entry
        /\ \A i \in 1..Len(line) : next[i] = line[i]
    BY <1>2, <2>1, <2>2, AppendProperties
  <2>4. Last(next) = entry
    BY <2>3 DEF Last
  <2>5. \A i \in 1..Len(next) : \A path \in next[i].tree : Retained(path, t)
    <3>1. ASSUME NEW i \in 1..Len(next), NEW path \in next[i].tree PROVE Retained(path, t)
      <4>1. CASE i \in 1..Len(line)
        BY <2>3, <3>1, <4>1 DEF LineInv
      <4>2. CASE i = Len(line) + 1
        BY <1>7, <1>8, <2>3, <3>1, <4>2
      <4> QED BY <1>11, <2>3, <4>1, <4>2
    <3> QED BY <3>1
  <2>6. next[1].message = Message(t.prefix) \/ \E j \in 2..Len(run) : next[1].from = run[j].id
    <3>1. CASE line = <<>>
      <4>1. next[1] = entry  BY <1>11, <2>3, <3>1
      <4> QED BY <1>8, <1>10, <4>1
    <3>2. CASE line # <<>>
      <4>1. 1 \in 1..Len(line)  BY <1>2, <3>2, EmptySeq
      <4>2. next[1] = line[1]  BY <2>3, <4>1
      <4> QED BY <3>2, <4>2 DEF LineInv
    <3> QED BY <3>1, <3>2
  <2>7. (IF next = <<>> THEN {} ELSE Last(next).tree) = kept
    BY <1>7, <1>8, <2>3, <2>4
  <2> HIDE DEF tree, message, kept
  <2>8. LineInv(run, t, next, k)
    BY <1>3, <1>11, <2>3, <2>5, <2>6, <2>7 DEF LineInv, kept
  <2> QED BY <2>8 DEF next
<1> QED BY <1>12, <1>13

\* What a run becomes, for runs of any length.
LEMMA RestoredLine ==
  ASSUME NEW run, ARun(run), NEW t, ValidPaths(t), Lists(t)
  PROVE  LET line == Restored(run, t)
         IN  /\ line \in Seq(Entry(run, t)) /\ Len(line) \in Nat \ {0}
             /\ Last(line).tree = {path \in run[Len(run)].tree : Retained(path, t)}
             /\ \A i \in 1..Len(line) :
                  /\ \A path \in line[i].tree : path \in Path /\ Retained(path, t)
                  /\ \E k \in 1..Len(run) : line[i].time = run[k].time
             /\ \/ line[1].message = Message(t.prefix)
                \/ \E j \in 2..Len(run) : line[1].from = run[j].id
<1> DEFINE n == Len(run)
           X == Seq(Entry(run, t))
           step == [p \in (1..n) \X X |-> RewriteCommit(run, t, p[2], p[1])]
           Def(f) == f = [k \in 0..n |-> IF k = 0 THEN <<>>
                                         ELSE RewriteCommit(run, t, f[k - 1], k)]
<1>1. n \in Nat \ {0}
  BY DEF ARun
<1>2. step \in [(1..n) \X X -> X]
  <2>1. \A line \in X, k \in 1..n : RewriteCommit(run, t, line, k) \in X
    BY StepOnLines
  <2> HIDE DEF X, n
  <2> QED BY <2>1
<1>3. <<>> \in X
  OBVIOUS
<1>4. PICK f \in [0..n -> X] : Follows(f, n, <<>>, step)
  <2> HIDE DEF n, X, step
  <2> QED BY <1>1, <1>2, <1>3, Recursion
<1>5. Def(f)
  <2>1. ASSUME NEW k \in 1..n PROVE f[k] = RewriteCommit(run, t, f[k - 1], k)
    <3>1. \A line \in X : step[<<k, line>>] = RewriteCommit(run, t, line, k)
      OBVIOUS
    <3> HIDE DEF step, X, n
    <3>2. f[k - 1] \in X
      BY <1>1
    <3> QED BY <1>4, <3>1, <3>2 DEF Follows
  <2>2. f[0] = <<>>
    BY <1>4 DEF Follows
  <2> HIDE DEF step, X, n
  <2> QED BY <1>1, <2>1, <2>2
<1>6. \E g : Def(g)
  BY <1>5
<1> DEFINE after == CHOOSE g : Def(g)
           line == after[n]
           empty == <<[from |-> run[1].id, time |-> run[1].time, tree |-> {},
                       message |-> Message(t.prefix)]>>
<1>7. Restored(run, t) = IF line # <<>> THEN line ELSE empty
  BY DEF Restored
<1>8. Def(after)
  BY <1>6
<1> HIDE DEF after
<1>9. after[0] = <<>> /\ \A k \in 1..n : after[k] = RewriteCommit(run, t, after[k - 1], k)
  <2> HIDE DEF n
  <2> QED BY <1>1, <1>8
<1> DEFINE T == {k \in 0..n : LineInv(run, t, after[k], k)}
<1>10. 0 \in T
  <2>1. LineInv(run, t, <<>>, 0)
    BY <1>3 DEF LineInv
  <2> QED BY <1>1, <1>9, <2>1
<1>11. ASSUME NEW k \in T, k < n PROVE k + 1 \in T
  <2>1. k + 1 \in 1..n /\ (k + 1) - 1 = k /\ LineInv(run, t, after[k], k)
    BY <1>1, <1>11
  <2>2. LineInv(run, t, RewriteCommit(run, t, after[k], k + 1), k + 1)
    BY <2>1, StepKeepsLine
  <2>3. after[k + 1] = RewriteCommit(run, t, after[k], k + 1) /\ k + 1 \in 0..n
    BY <1>1, <1>9, <2>1
  <2> QED BY <2>2, <2>3
<1>12. LineInv(run, t, line, n)
  <2>1. T \in SUBSET (0..n)  OBVIOUS
  <2> HIDE DEF T, n
  <2>2. T = 0..n  BY <1>1, <1>10, <1>11, <2>1, UpTo
  <2>3. n \in T  BY <1>1, <2>2
  <2> QED BY <2>3 DEF T
<1> DEFINE kept == {path \in run[n].tree : Retained(path, t)}
<1>13. /\ line \in Seq(Entry(run, t))
       /\ (IF line = <<>> THEN {} ELSE Last(line).tree) = kept
       /\ \A i \in 1..Len(line) : \A path \in line[i].tree : Retained(path, t)
       /\ line # <<>> => \/ line[1].message = Message(t.prefix)
                         \/ \E j \in 2..n : line[1].from = run[j].id
  BY <1>1, <1>12 DEF LineInv
<1>14. CASE line # <<>>
  <2>1. Restored(run, t) = line  BY <1>7, <1>14
  <2> HIDE DEF line, kept, n
  <2>2. Len(line) \in Nat \ {0}  BY <1>13, <1>14, EmptySeq
  <2>3. ASSUME NEW i \in 1..Len(line)
        PROVE  /\ line[i].tree \subseteq Path
               /\ \E k \in 1..n : line[i].time = run[k].time
    <3>1. line[i] \in Entry(run, t)  BY <1>13
    <3> QED BY <3>1 DEF Entry, n
  <2> QED BY <1>13, <1>14, <2>1, <2>2, <2>3 DEF kept, n
<1>15. CASE line = <<>>
  <2>1. Restored(run, t) = empty  BY <1>7, <1>15
  <2>2. kept = {}  BY <1>13, <1>15
  <2>3. /\ Len(empty) = 1 /\ empty[1].tree = {}
        /\ empty[1].time = run[1].time /\ empty[1].message = Message(t.prefix)
    OBVIOUS
  <2>4. Last(empty) = empty[1]  BY <2>3 DEF Last
  <2>5. 1 \in 1..n  BY <1>1
  <2>6. empty \in Seq(Entry(run, t))  BY <2>5 DEF Entry
  <2> HIDE DEF empty, line
  <2> QED BY <2>1, <2>2, <2>3, <2>4, <2>5, <2>6 DEF kept, n
<1> QED BY <1>14, <1>15

-----------------------------------------------------------------------------
(* What a rewrite makes, and what verify says of it.                       *)

\* A source is a line of commits counted from one, and its references lead to them.
LEMMA CommitsAreNumbered ==
  ASSUME NEW f \in Families, NEW s \in f.sources
  PROVE  /\ DOMAIN s.commits = 1..Len(s.commits) /\ DOMAIN s.commits \subseteq Nat \ {0}
         /\ \A n \in DOMAIN s.refs : s.refs[n].at \in DOMAIN s.commits
         /\ s.branch \in DOMAIN s.refs
<1>1. DOMAIN s.commits = 1..Len(s.commits)  BY FamiliesAssumption
<1>2. DOMAIN s.commits \subseteq Nat \ {0}
  BY <1>1, SMT
<1> QED BY <1>1, <1>2, FamiliesAssumption

\* An id is resolved to one commit.
LEMMA OneCutoff ==
  ASSUME NEW f \in Families, NEW s \in f.sources, NEW t,
         NEW c \in Resolved(s, t), NEW d \in Resolved(s, t)
  PROVE  c = d
<1>1. /\ c \in DOMAIN s.commits /\ d \in DOMAIN s.commits
      /\ s.commits[c].id = s.commits[d].id
  BY DEF Resolved
<1>2. ~(c < d) /\ ~(d < c)
  <2>1. c < d <=> d < d  BY <1>1, IdsAssumption
  <2>2. d < c <=> c < c  BY <1>1, IdsAssumption
  <2> QED BY <1>1, <2>1, <2>2, CommitsAreNumbered
<1> QED BY <1>1, <1>2, CommitsAreNumbered

\* An id is the id of one commit.
LEMMA IdsDiffer ==
  ASSUME NEW f \in Families, NEW s \in f.sources,
         NEW c \in DOMAIN s.commits, NEW d \in DOMAIN s.commits,
         s.commits[c].id = s.commits[d].id
  PROVE  c = d
<1> DEFINE t == [commit |-> s.commits[c].id]
<1>1. c \in Resolved(s, t) /\ d \in Resolved(s, t)
  BY DEF Resolved
<1> HIDE DEF t
<1> QED BY <1>1, OneCutoff

\* The reference behind a selected name leads to one of the tips that are analysed.
LEMMA SelectedTip ==
  ASSUME NEW s, NEW t, NEW n \in Range(SelectedNames(s, t))
  PROVE  s.refs[n].at \in Tips(s, t)
<1> DEFINE D == Descriptors(s, t)
<1>1. PICK k \in DOMAIN SelectedNames(s, t) : SelectedNames(s, t)[k] = n
  BY DEF Range
<1>2. k \in DOMAIN D /\ D[k].at = s.refs[n].at
  BY <1>1 DEF Descriptors
<1> HIDE DEF D
<1>3. D[k] \in Range(D)
  BY <1>2 DEF Range
<1> QED BY <1>2, <1>3 DEF Tips, D

\* A policy that rewrite accepts, and a source that it can analyse.
Ready(f, s, t) ==
  f \in Families /\ s \in f.sources /\ t \in f.texts /\ Accepted(t) /\ Analysable(s, t)

\* A rewrite that goes on had valid lists and a time from its policy.
LEMMA ReadyLists ==
  ASSUME NEW f, NEW s, NEW t, Ready(f, s, t)
  PROVE  ValidPaths(t) /\ Lists(t) /\ t.time \in Nat
BY TextsAssumption DEF Ready, Accepted, Lists

\* The commits that references lead to are retained.
LEMMA TipsAreRetained ==
  ASSUME NEW f, NEW s, NEW t, Ready(f, s, t)
  PROVE  /\ Tips(s, t) \subseteq RetainedCommits(s, t)
         /\ RetainedCommits(s, t) \subseteq DOMAIN s.commits
         /\ \A n \in Range(SelectedNames(s, t)) : s.refs[n].at \in Tips(s, t)
<1> DEFINE names == SelectedNames(s, t)
           D == Descriptors(s, t)
<1>1. Selectable(s, t)
  BY DEF Ready, Analysable, Inspected
<1>2. \A d \in Range(D) : \E k \in DOMAIN names : d.at = s.refs[names[k]].at
  BY DEF Descriptors, Range
<1>3. RetainedCommits(s, t) \subseteq DOMAIN s.commits
  <2>1. s.refs[s.branch].at \in DOMAIN s.commits
    BY CommitsAreNumbered DEF Ready
  <2>2. ScopeCommits(s, t) \subseteq DOMAIN s.commits
    BY <2>1 DEF ScopeCommits
  <2> QED BY <2>2 DEF RetainedCommits
<1>4. CASE t.mode = "snapshot"
  <2>1. t.keep = <<"HEAD">>
    BY <1>4 DEF Ready, Accepted, ValidKeep
  <2>2. \A k \in DOMAIN names : names[k] = s.branch
    BY <2>1 DEF SelectedNames
  <2>3. \A i \in Tips(s, t) : i = s.refs[s.branch].at
    BY <1>2, <2>2 DEF Tips
  <2>4. s.refs[s.branch].at \in RetainedCommits(s, t)
    BY <1>4 DEF RetainedCommits, ScopeCommits
  <2> QED BY <1>3, <2>3, <2>4, SelectedTip
<1>5. CASE t.mode # "snapshot"
  BY <1>3, <1>5, SelectedTip DEF Ready, Analysable
<1> QED BY <1>4, <1>5

\* What runs to the commit of a reference.
LEMMA RunToTip ==
  ASSUME NEW f, NEW s, NEW t, Ready(f, s, t), NEW i \in Tips(s, t)
  PROVE  LET a == RunStart(s, t, i)
             run == Run(s, a, i)
         IN  /\ a \in DOMAIN s.commits /\ i \in DOMAIN s.commits /\ a <= i
             /\ a..i \subseteq RetainedCommits(s, t)
             /\ ARun(run) /\ Len(run) = i - a + 1
             /\ \A k \in 1..Len(run) : run[k] = s.commits[a + k - 1] /\ a + k - 1 \in a..i
<1> DEFINE R == RetainedCommits(s, t)
           A == {a \in R : a <= i /\ a..i \subseteq R}
           a == RunStart(s, t, i)
           run == Run(s, a, i)
<1>1. R \subseteq DOMAIN s.commits /\ i \in R
  BY TipsAreRetained
<1>2. DOMAIN s.commits = 1..Len(s.commits) /\ DOMAIN s.commits \subseteq Nat \ {0}
  BY CommitsAreNumbered DEF Ready
<1>3. i \in A
  <2>1. i..i = {i}  BY <1>1, <1>2
  <2> QED BY <1>1, <1>2, <2>1
<1>4. A \subseteq Nat
  BY <1>1, <1>2
<1>5. a = Min(A)
  BY DEF RunStart
<1> HIDE DEF A
<1>6. a \in A
  BY <1>3, <1>4, <1>5, Least
<1>7. a \in R /\ a <= i /\ a..i \subseteq R
  BY <1>6 DEF A
<1> HIDE DEF a, R
<1>8. a \in Nat \ {0} /\ i \in Nat \ {0}
  BY <1>1, <1>2, <1>7
<1>9. run = [k \in 1..(i - a + 1) |-> s.commits[a + k - 1]]
  BY <1>8 DEF Run
<1>10. Len(run) = i - a + 1 /\ Len(run) \in Nat \ {0}
  BY <1>7, <1>8, <1>9
<1>11. \A k \in 1..Len(run) : run[k] = s.commits[a + k - 1] /\ a + k - 1 \in a..i
  <2> HIDE DEF run
  <2>1. ASSUME NEW k \in 1..Len(run)
        PROVE  run[k] = s.commits[a + k - 1] /\ a + k - 1 \in a..i
    <3>1. k \in 1..(i - a + 1)  BY <1>10
    <3>2. a + k - 1 \in a..i  BY <1>8, <3>1
    <3>3. run[k] = s.commits[a + k - 1]  BY <1>9, <3>1
    <3> QED BY <3>2, <3>3
  <2> QED BY <2>1
<1>12. \A k \in 1..Len(run) : run[k].tree \subseteq Path
  <2>1. \A j \in DOMAIN s.commits : s.commits[j].tree \subseteq Path
    BY FamiliesAssumption DEF Ready
  <2> HIDE DEF run
  <2> QED BY <1>1, <1>7, <1>11, <2>1
<1> QED BY <1>1, <1>7, <1>10, <1>11, <1>12 DEF ARun, R, a

\* What becomes of the commit of a reference.
LEMMA LineToTip ==
  ASSUME NEW f, NEW s, NEW t, Ready(f, s, t), NEW i \in Tips(s, t)
  PROVE  LET line == Line(s, t, i)
         IN  /\ \E S : line \in Seq(S)
             /\ Len(line) \in Nat \ {0}
             /\ Last(line).tree = {path \in s.commits[i].tree : Retained(path, t)}
             /\ \A k \in 1..Len(line) :
                  /\ \A path \in line[k].tree : path \in Path /\ Retained(path, t)
                  /\ \E j \in RetainedCommits(s, t) : line[k].time = s.commits[j].time
             /\ line[1].from = s.commits[RunStart(s, t, i)].id
                  => line[1].message = Message(t.prefix)
<1> DEFINE a == RunStart(s, t, i)
           run == Run(s, a, i)
           line == Line(s, t, i)
           R == RetainedCommits(s, t)
<1>1. /\ a \in DOMAIN s.commits /\ i \in DOMAIN s.commits /\ a <= i /\ a..i \subseteq R
      /\ ARun(run) /\ Len(run) = i - a + 1
      /\ \A k \in 1..Len(run) : run[k] = s.commits[a + k - 1] /\ a + k - 1 \in a..i
  BY RunToTip
<1>2. R \subseteq DOMAIN s.commits /\ DOMAIN s.commits \subseteq Nat \ {0}
  BY TipsAreRetained, CommitsAreNumbered DEF Ready
<1>3. line = Restored(run, t)
  BY DEF Line
<1>4. ValidPaths(t) /\ Lists(t)
  BY ReadyLists
<1> HIDE DEF a, run, line, R
<1>5. /\ line \in Seq(Entry(run, t)) /\ Len(line) \in Nat \ {0}
      /\ Last(line).tree = {path \in run[Len(run)].tree : Retained(path, t)}
      /\ \A k \in 1..Len(line) :
           /\ \A path \in line[k].tree : path \in Path /\ Retained(path, t)
           /\ \E j \in 1..Len(run) : line[k].time = run[j].time
      /\ \/ line[1].message = Message(t.prefix)
         \/ \E j \in 2..Len(run) : line[1].from = run[j].id
  <2> DEFINE r == Restored(run, t)
  <2>1. /\ r \in Seq(Entry(run, t)) /\ Len(r) \in Nat \ {0}
        /\ Last(r).tree = {path \in run[Len(run)].tree : Retained(path, t)}
        /\ \A k \in 1..Len(r) :
             /\ \A path \in r[k].tree : path \in Path /\ Retained(path, t)
             /\ \E j \in 1..Len(run) : r[k].time = run[j].time
        /\ \/ r[1].message = Message(t.prefix)
           \/ \E j \in 2..Len(run) : r[1].from = run[j].id
    <3>1. ARun(run)  BY <1>1
    <3> QED BY <1>4, <3>1, RestoredLine
  <2>2. line = r  BY <1>3
  <2> QED BY <2>1, <2>2
<1>6. a \in Nat \ {0} /\ i \in Nat \ {0} /\ Len(run) \in 1..Len(run) /\ a + Len(run) - 1 = i
  BY <1>1, <1>2
<1>7. run[Len(run)] = s.commits[i]
  BY <1>1, <1>6
<1>8. ASSUME NEW k \in 1..Len(line) PROVE \E j \in R : line[k].time = s.commits[j].time
  <2>1. PICK j \in 1..Len(run) : line[k].time = run[j].time  BY <1>5
  <2> QED BY <1>1, <2>1
<1>9. ASSUME NEW j \in 2..Len(run), line[1].from = run[j].id, line[1].from = s.commits[a].id
      PROVE  FALSE
  <2>1. j \in 1..Len(run) /\ a + j - 1 # a  BY <1>6
  <2>2. a + j - 1 \in DOMAIN s.commits /\ s.commits[a + j - 1].id = s.commits[a].id
    BY <1>1, <1>2, <1>9, <2>1
  <2> QED BY <1>1, <2>1, <2>2, IdsDiffer DEF Ready
<1> QED BY <1>5, <1>7, <1>8, <1>9 DEF a, line, R

\* What a rewrite makes has the selected references, and each leads to what
\* becomes of its commit.
LEMMA OutputRefs ==
  ASSUME NEW f, NEW s, NEW t, Ready(f, s, t)
  PROVE  LET o == Output(s, t)
         IN  /\ o.branch = s.branch /\ SelectedNames(o, t) = SelectedNames(s, t)
             /\ DOMAIN o.refs = Range(SelectedNames(s, t)) /\ o.branch \in DOMAIN o.refs
             /\ Selectable(o, t) /\ RefsRetained(o, t)
             /\ \A n \in DOMAIN o.refs : /\ o.refs[n].at = Line(s, t, s.refs[n].at)
                                         /\ s.refs[n].at \in Tips(s, t)
<1> DEFINE o == Output(s, t)
           names == SelectedNames(s, t)
<1>1. Selectable(s, t)
  BY DEF Ready, Analysable, Inspected
<1>2. /\ o.branch = s.branch /\ DOMAIN o.refs = Range(names)
      /\ \A n \in Range(names) : o.refs[n].type = s.refs[n].type
                                 /\ o.refs[n].at = Line(s, t, s.refs[n].at)
  BY DEF Output
<1>3. SelectedNames(o, t) = names
  BY <1>2 DEF SelectedNames
<1> HIDE DEF o, names
<1>4. /\ IsInjective(names) /\ Range(names) \subseteq DOMAIN s.refs /\ s.branch \in Range(names)
      /\ \A n \in Range(names) :
           s.refs[n].type \in {"commit"} \cup (IF n \in Tags THEN {"tag"} ELSE {})
  BY <1>1 DEF Selectable, names
<1>5. Selectable(o, t)
  BY <1>2, <1>3, <1>4 DEF Selectable
<1>6. \A n \in Range(names) : s.refs[n].at \in Tips(s, t)
  BY SelectedTip DEF names
<1> QED BY <1>2, <1>3, <1>4, <1>5, <1>6 DEF RefsRetained, o, names

\* Verify accepts its paths.
LEMMA OwnPaths ==
  ASSUME NEW f, NEW s, NEW t, Ready(f, s, t)
  PROVE  PathsAccepted(Output(s, t), t)
<1> DEFINE o == Output(s, t)
<1> SUFFICES ASSUME NEW c \in CommitsOf(o), NEW path \in c.tree PROVE PathAccepted(path, t)
  BY DEF PathsAccepted
<1>1. PICK n \in DOMAIN o.refs : c \in Range(o.refs[n].at)
  BY DEF CommitsOf
<1>2. o.refs[n].at = Line(s, t, s.refs[n].at) /\ s.refs[n].at \in Tips(s, t)
  BY OutputRefs
<1> HIDE DEF o
<1> DEFINE line == Line(s, t, s.refs[n].at)
<1>3. /\ \E S : line \in Seq(S)
      /\ \A k \in 1..Len(line) : \A p \in line[k].tree : p \in Path /\ Retained(p, t)
  BY <1>2, LineToTip
<1>4. c \in Range(line)
  BY <1>1, <1>2
<1> HIDE DEF line
<1>5. PICK k \in 1..Len(line) : c = line[k]
  BY <1>3, <1>4 DEF Range
<1>6. path \in Path /\ Retained(path, t)
  BY <1>3, <1>5
<1> QED BY <1>6, ReadyLists, EverybodyDecidesAlike DEF DecidersAgree

\* Its roots are synthetic, unless filtering pruned the first commit of a run
\* and kept a later one.
LEMMA OwnRoots ==
  ASSUME NEW f, NEW s, NEW t, Ready(f, s, t),
         \A i \in Tips(s, t) : Line(s, t, i)[1].from = s.commits[RunStart(s, t, i)].id
  PROVE  RootSynthetic(Output(s, t), t)
<1> DEFINE o == Output(s, t)
<1>1. \A n \in DOMAIN o.refs : o.refs[n].at = Line(s, t, s.refs[n].at) /\ s.refs[n].at \in Tips(s, t)
  BY OutputRefs
<1> HIDE DEF o
<1>2. ASSUME NEW root \in RootsOf(o) PROVE root[1].message = Message(t.prefix)
  <2>1. PICK n \in DOMAIN o.refs : root = SubSeq(o.refs[n].at, 1, 1)
    BY DEF RootsOf
  <2> DEFINE line == Line(s, t, s.refs[n].at)
  <2>2. /\ \E S : line \in Seq(S)
        /\ Len(line) \in Nat \ {0} /\ line[1].message = Message(t.prefix)
    BY <1>1, LineToTip
  <2>3. root = SubSeq(line, 1, 1)
    BY <1>1, <2>1
  <2> HIDE DEF line
  <2>4. root[1] = line[1]
    BY <2>2, <2>3
  <2> QED BY <2>2, <2>4
<1>3. ASSUME NEW c \in CommitsOf(o), t.time # 0 PROVE c.time >= CutoffEpoch(t)
  <2>1. PICK n \in DOMAIN o.refs : c \in Range(o.refs[n].at)
    BY DEF CommitsOf
  <2> DEFINE line == Line(s, t, s.refs[n].at)
  <2>2. /\ \E S : line \in Seq(S)
        /\ \A k \in 1..Len(line) :
             \E j \in RetainedCommits(s, t) : line[k].time = s.commits[j].time
    BY <1>1, LineToTip
  <2>3. c \in Range(line)
    BY <1>1, <2>1
  <2> HIDE DEF line
  <2>4. PICK k \in 1..Len(line) : c = line[k]
    BY <2>2, <2>3 DEF Range
  <2>5. PICK j \in RetainedCommits(s, t) : c.time = s.commits[j].time
    BY <2>2, <2>4
  <2>6. t.mode # "snapshot" /\ t.commit = "none"
    BY <1>3 DEF Ready, Accepted
  <2> QED BY <2>5, <2>6 DEF RetainedCommits
<1> QED BY <1>2, <1>3 DEF RootSynthetic, o

\* HEAD of it has as many paths as plan counts.
LEMMA PathsAsCounted ==
  ASSUME NEW f, NEW s, NEW t, Ready(f, s, t)
  PROVE  OutputPaths(Output(s, t)) = HeadPathCount(s, t)
<1> DEFINE o == Output(s, t)
           i == s.refs[s.branch].at
<1>1. /\ o.branch = s.branch /\ o.branch \in DOMAIN o.refs
      /\ \A n \in DOMAIN o.refs : o.refs[n].at = Line(s, t, s.refs[n].at) /\ s.refs[n].at \in Tips(s, t)
  BY OutputRefs
<1> HIDE DEF o
<1>2. o.refs[o.branch].at = Line(s, t, i) /\ i \in Tips(s, t)
  BY <1>1
<1> HIDE DEF i
<1>3. Last(Line(s, t, i)).tree = {path \in s.commits[i].tree : Retained(path, t)}
  BY <1>2, LineToTip
<1>4. s.commits[i].tree \subseteq Path
  BY <1>2, TipsAreRetained, FamiliesAssumption DEF Ready
<1>5. \A path \in Path : IsRetainedPath(path, t) <=> Retained(path, t)
  BY ReadyLists, EverybodyDecidesAlike DEF DecidersAgree
<1>6. {path \in s.commits[i].tree : Retained(path, t)}
        = {path \in s.commits[i].tree : IsRetainedPath(path, t)}
  BY <1>4, <1>5
<1>7. OutputPaths(o) = Cardinality(Last(Line(s, t, i)).tree)
  BY <1>2 DEF OutputPaths
<1>8. HeadPathCount(s, t) = Cardinality({path \in s.commits[i].tree : IsRetainedPath(path, t)})
  BY DEF HeadPathCount, i
<1> QED BY <1>3, <1>6, <1>7, <1>8 DEF o

-----------------------------------------------------------------------------
(* What verify says of what a rewrite made, before anything changes.       *)

\* The first retained commit is the cutoff commit.
LEMMA CutoffIsFirst ==
  ASSUME NEW f, NEW s, NEW t, Ready(f, s, t), t.commit # "none",
         NEW c \in Resolved(s, t)
  PROVE  Min(RetainedCommits(s, t)) = c
<1> DEFINE R == RetainedCommits(s, t)
<1>1. DOMAIN s.commits \subseteq Nat \ {0} /\ c \in DOMAIN s.commits
  BY CommitsAreNumbered DEF Ready, Resolved
<1>2. \A d \in Resolved(s, t) : d = c
  BY OneCutoff DEF Ready
<1>3. t.mode # "snapshot"
  BY DEF Ready, Accepted
<1>4. R = {i \in ScopeCommits(s, t) : \E d \in Resolved(s, t) : d <= i}
  BY <1>3 DEF RetainedCommits
<1>5. \A i \in R : c <= i
  BY <1>2, <1>4
<1>6. s.branch \in Range(SelectedNames(s, t))
  BY DEF Ready, Analysable, Inspected, Selectable
<1>7. PICK tip \in Tips(s, t) : TRUE
  BY <1>6, SelectedTip
<1>8. c <= tip
  BY <1>2 DEF Ready, Analysable
<1>9. c \in ScopeCommits(s, t)
  BY <1>1, <1>3, <1>7, <1>8 DEF ScopeCommits
<1>10. c \in R
  BY <1>1, <1>4, <1>9
<1>11. R \subseteq Nat
  BY <1>1, TipsAreRetained
<1> HIDE DEF R
<1>12. Min(R) \in R /\ \A i \in R : Min(R) <= i
  BY <1>10, <1>11, Least
<1> QED BY <1>5, <1>10, <1>11, <1>12 DEF R

\* If HEAD is all there is, so is its root.
LEMMA HeadRoot ==
  ASSUME NEW f, NEW s, NEW t, Ready(f, s, t), t.keep = <<"HEAD">>
  PROVE  Cardinality(RootsOf(Output(s, t))) = 1
<1> DEFINE o == Output(s, t)
<1>1. DOMAIN o.refs = Range(SelectedNames(s, t))
  BY OutputRefs
<1>2. Range(SelectedNames(s, t)) = {s.branch}
  <2>1. DOMAIN t.keep = {1} /\ t.keep[1] = "HEAD"  OBVIOUS
  <2>2. SelectedNames(s, t) = [i \in {1} |-> s.branch]  BY <2>1 DEF SelectedNames
  <2> QED BY <2>2 DEF Range
<1> HIDE DEF o
<1>3. RootsOf(o) = {SubSeq(o.refs[s.branch].at, 1, 1)}
  BY <1>1, <1>2 DEF RootsOf
<1> QED BY <1>3, FS_Singleton DEF o

\* A receipt that was issued and is whole binds what it was issued for.
Holds(r, s, t) ==
  LET new == Receipt(s, t, Output(s, t))
  IN  \E version \in {1, new.version} :
        /\ version = 1 => t.keep = <<"HEAD">> /\ t.mode = "complete"
        /\ r = [new EXCEPT !.version = version]

\* A receipt made from a source and a policy binds the output made from the same.
LEMMA OwnReceipt ==
  ASSUME NEW f, NEW s, NEW t, Ready(f, s, t), t.commit # "none", NEW r, Holds(r, s, t)
  PROVE  ReceiptBinds(Output(s, t), t, s, r)
<1> DEFINE o == Output(s, t)
           new == Receipt(s, t, o)
<1>1. PICK version \in {1, new.version} :
        /\ version = 1 => t.keep = <<"HEAD">> /\ t.mode = "complete"
        /\ r = [new EXCEPT !.version = version]
  BY DEF Holds
<1>2. /\ r.version = version /\ r.fingerprint = new.fingerprint /\ r.cutoff = new.cutoff
      /\ r.boundaryTree = new.boundaryTree /\ r.scope = new.scope
      /\ r.boundaries = new.boundaries /\ r.sourceRefs = new.sourceRefs
      /\ r.digest = new.digest /\ r.head = new.head /\ r.roots = new.roots
      /\ r.outputRefs = new.outputRefs /\ r.whole = new.whole
  <2>1. {"version", "fingerprint", "cutoff", "boundaryTree", "scope", "boundaries", "sourceRefs",
         "digest", "head", "roots", "outputRefs", "whole"} \subseteq DOMAIN new
    BY DEF Receipt
  <2> HIDE DEF new
  <2> QED BY <1>1, <2>1
<1>3. /\ new.version = (IF t.keep = <<"HEAD">> THEN 2 ELSE 3)
      /\ new.fingerprint = Fingerprint(s)
      /\ new.cutoff = s.commits[Min(RetainedCommits(s, t))].id
      /\ new.boundaryTree = s.commits[Min(RetainedCommits(s, t))].tree
      /\ new.scope = ScopeFingerprint(s, t) /\ new.boundaries = BoundaryCount(s)
      /\ new.sourceRefs = SourceRefs(s, t) /\ new.digest = t
      /\ new.head = o.refs[o.branch].at /\ new.roots = RootsOf(o)
      /\ new.outputRefs = Descriptors(o, t) /\ new.whole = TRUE
  BY DEF Receipt
<1>4. Selectable(o, t)
  BY OutputRefs
<1>5. Inspected(s, t) /\ Resolved(s, t) # {} /\ t.mode # "snapshot"
  BY DEF Ready, Analysable, Accepted
<1>6. ASSUME NEW c \in Resolved(s, t)
      PROVE  new.cutoff = t.commit /\ s.commits[c].tree = new.boundaryTree
  <2>1. s.commits[c].id = t.commit  BY DEF Resolved
  <2>2. Min(RetainedCommits(s, t)) = c  BY CutoffIsFirst
  <2> HIDE DEF new
  <2> QED BY <1>3, <2>1, <2>2
<1>7. r.version # 3 => Cardinality(RootsOf(o)) = 1
  BY <1>1, <1>2, <1>3, HeadRoot
<1> HIDE DEF o, new
<1>8. t.commit = r.cutoff /\ \A c \in Resolved(s, t) : s.commits[c].tree = r.boundaryTree
  BY <1>2, <1>5, <1>6
<1>9. r.version = 1 => t.mode = "complete"
  BY <1>1, <1>2
<1>10. ReceiptBinds(o, t, s, r)
  BY <1>2, <1>3, <1>4, <1>5, <1>7, <1>8, <1>9 DEF ReceiptBinds
<1> QED BY <1>10 DEF o

\* The receipt that goes with a policy and its cutoff, and a scope file that
\* belongs to it or that an older release did not write.
Receipted(r, s, t) == /\ r = {} <=> t.commit = "none"
                      /\ \A one \in r : Holds(one, s, t)
Scoped(scope, r, s, t) ==
  \/ scope = {ScopeFile(s, t)}
  \/ /\ scope = {} /\ t.mode = "complete"
     /\ t.commit # "none" => \E one \in r : one.version = 1

\* Only a root that lost its message can speak against it.
LEMMA OwnJudge ==
  ASSUME NEW f, NEW s, NEW t, Ready(f, s, t), NEW r, Receipted(r, s, t),
         NEW scope, Scoped(scope, r, s, t), NEW with, with <=> t.commit # "none"
  PROVE  Judge(Output(s, t), scope, t, s, r, with)
           = IF RootSynthetic(Output(s, t), t) THEN "accepted" ELSE "root.synthetic"
<1> DEFINE o == Output(s, t)
<1>1. Accepted(t)
  BY DEF Ready
<1>2. Evidence(o, t, s, r, with)
  <2>1. CASE t.commit = "none"
    BY <2>1 DEF Evidence
  <2>2. CASE t.commit # "none"
    <3>1. PICK one \in r : Holds(one, s, t)  BY <2>2 DEF Receipted
    <3>2. ReceiptBinds(o, t, s, one)  BY <2>2, <3>1, OwnReceipt
    <3> QED BY <2>2, <3>2 DEF Evidence
  <2> QED BY <2>1, <2>2
<1>3. o.branch \in DOMAIN o.refs /\ RefsRetained(o, t)
  BY OutputRefs
<1>4. PathsAccepted(o, t)
  BY OwnPaths
<1>5. ScopeAccepted(scope, t, Legacy(t, r))
  <2>1. CASE scope = {ScopeFile(s, t)}
    <3>1. ScopeFile(s, t).mode = t.mode /\ ScopeFile(s, t).coverage = Coverage(t.mode)
      BY DEF ScopeFile
    <3>2. t.mode \in Modes  BY <1>1 DEF Accepted
    <3>3. scope # {}  BY <2>1
    <3> QED BY <2>1, <3>1, <3>2, <3>3 DEF ScopeAccepted
  <2>2. CASE scope = {} /\ t.mode = "complete"
             /\ (t.commit # "none" => \E one \in r : one.version = 1)
    BY <2>2 DEF ScopeAccepted, Legacy
  <2> QED BY <2>1, <2>2 DEF Scoped
<1> HIDE DEF o
<1>6. Judge(o, scope, t, s, r, with)
        = IF RootSynthetic(o, t) THEN "accepted" ELSE "root.synthetic"
  BY <1>1, <1>2, <1>3, <1>4, <1>5 DEF Judge
<1> QED BY <1>6 DEF o

-----------------------------------------------------------------------------
(* Types, and what is known of every artifact and verdict.                 *)

Parts == {"text", "source", "output", "receipt", "scope"}

\* A sequence over a set is a sequence over what occurs in it.
LEMMA InItsRange ==
  ASSUME NEW S, NEW s \in Seq(S)
  PROVE  s \in Seq(Range(s))
<1>1. DOMAIN s = 1..Len(s) /\ Len(s) \in Nat /\ \A k \in 1..Len(s) : s[k] \in Range(s)
  BY DEF Range
<1> QED BY <1>1

\* What is in a sequence after one entry was replaced (Tamper, OlderRelease).
LEMMA ReplacedEntry ==
  ASSUME NEW s, s \in Seq(Range(s)), NEW i \in DOMAIN s, NEW x, NEW r, r = [s EXCEPT ![i] = x]
  PROVE  /\ r \in Seq(Range(r)) /\ Len(r) = Len(s) /\ DOMAIN r = DOMAIN s
         /\ r[i] = x /\ \A k \in DOMAIN s \ {i} : r[k] = s[k]
<1>1. DOMAIN s = 1..Len(s) /\ Len(s) \in Nat  OBVIOUS
<1>2. DOMAIN r = 1..Len(s) /\ r = [k \in 1..Len(s) |-> IF k = i THEN x ELSE s[k]]
  BY <1>1
<1>3. r \in Seq(Range(s) \cup {x}) /\ Len(r) = Len(s)
  <2>1. s \in Seq(Range(s) \cup {x}) /\ i \in 1..Len(s)
    <3>1. \A k \in 1..Len(s) : s[k] \in Range(s) \cup {x}  BY DEF Range
    <3> QED BY <1>1, <3>1
  <2> QED BY <2>1, ExceptSeq
<1>4. r \in Seq(Range(r))  BY <1>3, InItsRange
<1> QED BY <1>1, <1>2, <1>3, <1>4

\* What is in a sequence after an entry was appended (Rewrite publishes).
LEMMA AppendedEntry ==
  ASSUME NEW s, s \in Seq(Range(s)), NEW x, NEW r, r = Append(s, x)
  PROVE  /\ r \in Seq(Range(r)) /\ Len(r) = Len(s) + 1 /\ DOMAIN r = DOMAIN s \cup {Len(r)}
         /\ r[Len(r)] = x /\ \A k \in DOMAIN s : r[k] = s[k]
<1> DEFINE S == Range(s) \cup {x}
<1>1. s \in Seq(S)
  <2>1. \A k \in 1..Len(s) : s[k] \in S  BY DEF Range
  <2> QED BY <2>1
<1>2. r \in Seq(S) /\ Len(r) = Len(s) + 1 /\ Len(s) \in Nat
      /\ DOMAIN r = 1..(Len(s) + 1) /\ DOMAIN s = 1..Len(s)
      /\ (\A k \in 1..Len(s) : r[k] = s[k]) /\ r[Len(s) + 1] = x
  BY <1>1, AppendProperties
<1>3. r \in Seq(Range(r))  BY <1>2, InItsRange
<1> QED BY <1>2, <1>3

\* verify ends with one of the results it may report.
LEMMA JudgeTypes ==
  ASSUME NEW o, NEW f, NEW t, NEW s, NEW r, NEW with
  PROVE  Judge(o, f, t, s, r, with) \in Results \ {"none"}
BY DEF Judge, Results

\* So does rewrite, before it publishes.
LEMMA AttemptTypes ==
  ASSUME NEW s, NEW t, NEW with
  PROVE  Attempt(s, t, with) \in Results \ {"none"}
BY JudgeTypes DEF Attempt, Results

\* A receipt stays what was issued when it is damaged, or older.
LEMMA IssuedStays ==
  ASSUME NEW one, NEW r, Issued(one, r)
  PROVE  /\ Issued(one, [r EXCEPT !.whole = FALSE])
         /\ one.text.keep = <<"HEAD">> /\ one.text.mode = "complete" =>
              Issued(one, [r EXCEPT !.version = 1])
<1> DEFINE new == Receipt(one.source, one.text, Output(one.source, one.text))
<1>1. PICK version \in {1, new.version}, whole \in BOOLEAN :
        /\ version = 1 => one.text.keep = <<"HEAD">> /\ one.text.mode = "complete"
        /\ r = [new EXCEPT !.version = version, !.whole = whole]
  BY DEF Issued
<1>2. [r EXCEPT !.whole = FALSE] = [new EXCEPT !.version = version, !.whole = FALSE]
  <2> HIDE DEF new
  <2> QED BY <1>1
<1>3. [r EXCEPT !.version = 1] = [new EXCEPT !.version = 1, !.whole = whole]
  <2> HIDE DEF new
  <2> QED BY <1>1
<1>4. Issued(one, [r EXCEPT !.whole = FALSE])
  BY <1>1, <1>2 DEF Issued
<1>5. one.text.keep = <<"HEAD">> /\ one.text.mode = "complete" =>
        Issued(one, [r EXCEPT !.version = 1])
  BY <1>1, <1>3 DEF Issued
<1> QED BY <1>4, <1>5

\* What Damage and OlderRelease leave of an artifact.
LEMMA ChangedArtifact ==
  ASSUME TypeOK, MadeInv, NEW i \in DOMAIN made, OlderRelease(i) \/ Tamper(i)
  PROVE  /\ made' \in Seq(Range(made')) /\ Len(made') = Len(made) /\ DOMAIN made' = DOMAIN made
         /\ \A k \in DOMAIN made : /\ DOMAIN made'[k] = Parts
                                   /\ made'[k].text = made[k].text
                                   /\ made'[k].source = made[k].source
                                   /\ made'[k].receipt = {} <=> made[k].receipt = {}
                                   /\ \A r \in made'[k].receipt : Issued(made[k], r)
<1> DEFINE Changed(x) == /\ made' = [made EXCEPT ![i] = x]
                         /\ DOMAIN x = Parts /\ x.text = made[i].text
                         /\ x.source = made[i].source
                         /\ x.receipt = {} <=> made[i].receipt = {}
                         /\ \A r \in x.receipt : Issued(made[i], r)
<1>1. DOMAIN made[i] = Parts /\ \A r \in made[i].receipt : Issued(made[i], r)
  BY DEF TypeOK, MadeInv, Parts
<1>2. \E x : Changed(x)
  <2>1. ASSUME NEW o, made' = [made EXCEPT ![i].output = o]
        PROVE  Changed([made[i] EXCEPT !.output = o])
    BY <1>1, <2>1 DEF Parts
  <2>2. ASSUME NEW f, made' = [made EXCEPT ![i].scope = f]
        PROVE  Changed([made[i] EXCEPT !.scope = f])
    BY <1>1, <2>2 DEF Parts
  <2>3. ASSUME made' = [made EXCEPT ![i].receipt = {[r EXCEPT !.whole = FALSE] : r \in @}]
        PROVE  Changed([made[i] EXCEPT !.receipt = {[r EXCEPT !.whole = FALSE] : r \in @}])
    <3> DEFINE R == {[r EXCEPT !.whole = FALSE] : r \in made[i].receipt}
    <3>1. ASSUME NEW q \in R PROVE Issued(made[i], q)
      <4>1. PICK r \in made[i].receipt : q = [r EXCEPT !.whole = FALSE]  OBVIOUS
      <4>2. Issued(made[i], [r EXCEPT !.whole = FALSE])  BY <1>1, IssuedStays
      <4> QED BY <4>1, <4>2
    <3>4. R = {} <=> made[i].receipt = {}  OBVIOUS
    <3> HIDE DEF R
    <3>2. made' = [made EXCEPT ![i] = [made[i] EXCEPT !.receipt = R]]  BY <2>3 DEF R
    <3>3. Changed([made[i] EXCEPT !.receipt = R])  BY <1>1, <3>1, <3>2, <3>4 DEF Parts
    <3> QED BY <3>3 DEF R
  <2>4. CASE Tamper(i)
    <3> HIDE DEF Changed
    <3>1. CASE ChangeOutput(i)
      <4> DEFINE o == made[i].output
      <4>1. ASSUME NEW n, NEW k, NEW path,
                   made' = [made EXCEPT ![i].output = AddPath(o, n, k, path)]
            PROVE  \E x : Changed(x)
        BY <2>1, <4>1
      <4>2. ASSUME NEW n, made' = [made EXCEPT ![i].output = RemoveRef(o, n)]
            PROVE  \E x : Changed(x)
        BY <2>1, <4>2
      <4>3. ASSUME NEW n, NEW new, made' = [made EXCEPT ![i].output = AddRef(o, new, n)]
            PROVE  \E x : Changed(x)
        BY <2>1, <4>3
      <4> QED BY <3>1, <4>1, <4>2, <4>3 DEF ChangeOutput
    <3>2. CASE ChangeScope(i)
      <4>1. ASSUME NEW f, made' = [made EXCEPT ![i].scope = f]
            PROVE  \E x : Changed(x)
        BY <2>2, <4>1
      <4> QED BY <3>2, <4>1 DEF ChangeScope
    <3>3. CASE DamageReceipt(i)
      BY <2>3, <3>3 DEF DamageReceipt
    <3> QED BY <2>4, <3>1, <3>2, <3>3 DEF Tamper
  <2>5. CASE OlderRelease(i)
    <3> DEFINE R == {[r EXCEPT !.version = 1] : r \in made[i].receipt}
               x == [made[i] EXCEPT !.scope = {}, !.receipt = R]
    <3>1. ASSUME NEW q \in R PROVE Issued(made[i], q)
      <4>1. PICK r \in made[i].receipt : q = [r EXCEPT !.version = 1]  OBVIOUS
      <4>2. made[i].text.keep = <<"HEAD">> /\ made[i].text.mode = "complete"
        BY <2>5 DEF OlderRelease
      <4>3. Issued(made[i], [r EXCEPT !.version = 1])  BY <1>1, <4>2, IssuedStays
      <4> QED BY <4>1, <4>3
    <3>2. made' = [made EXCEPT ![i].scope = {}, ![i].receipt = R]
      BY <2>5 DEF OlderRelease
    <3>4. R = {} <=> made[i].receipt = {}  OBVIOUS
    <3> HIDE DEF R
    <3>3. Changed(x)  BY <1>1, <3>1, <3>2, <3>4 DEF Parts
    <3> QED BY <3>3
  <2> QED BY <2>4, <2>5
<1>3. PICK x : Changed(x)  BY <1>2
<1>4. made \in Seq(Range(made))  BY DEF TypeOK
<1>5. /\ made' \in Seq(Range(made')) /\ Len(made') = Len(made) /\ DOMAIN made' = DOMAIN made
      /\ made'[i] = x /\ \A k \in DOMAIN made \ {i} : made'[k] = made[k]
  <2>1. made' = [made EXCEPT ![i] = x]  BY <1>3
  <2>2. made' \in Seq(Range(made'))  BY <2>1, <1>4, ReplacedEntry
  <2>3. Len(made') = Len(made) /\ DOMAIN made' = DOMAIN made /\ made'[i] = x
    BY <2>1, <1>4, ReplacedEntry
  <2>4. \A k \in DOMAIN made \ {i} : made'[k] = made[k]
    BY <2>1, <1>4, ReplacedEntry
  <2> QED BY <2>2, <2>3, <2>4
<1>6. \A k \in DOMAIN made : /\ DOMAIN made[k] = Parts
                             /\ \A r \in made[k].receipt : Issued(made[k], r)
  BY DEF TypeOK, MadeInv, Parts
<1>7. ASSUME NEW k \in DOMAIN made
      PROVE  /\ DOMAIN made'[k] = Parts
             /\ made'[k].text = made[k].text
             /\ made'[k].source = made[k].source
             /\ made'[k].receipt = {} <=> made[k].receipt = {}
             /\ \A r \in made'[k].receipt : Issued(made[k], r)
  <2>1. CASE k = i  BY <1>3, <1>5, <2>1
  <2>2. CASE k # i  BY <1>5, <1>6, <2>2
  <2> QED BY <2>1, <2>2
<1> QED BY <1>5, <1>7

\* The number that plan reports for HEAD is a number.
LEMMA HeadPathsAreCounted ==
  ASSUME PolicyInv PROVE HeadPathCount(source, text) \in Nat
<1> DEFINE tree == source.commits[source.refs[source.branch].at].tree
<1>1. IsFiniteSet(tree)
  BY FamiliesAssumption DEF PolicyInv
<1>2. IsFiniteSet({path \in tree : IsRetainedPath(path, text)})
  <2> HIDE DEF tree
  <2> QED BY <1>1, FS_Subset
<1> QED BY <1>2, FS_CardinalityType DEF HeadPathCount

\* The new artifact of a rewrite.
LEMMA NewArtifact ==
  ASSUME TypeOK, MadeInv, NEW with \in BOOLEAN, Rewrite(with)
  PROVE  /\ made' \in Seq(Range(made')) /\ Len(made') <= MaxMade
         /\ \A k \in DOMAIN made : k \in DOMAIN made' /\ made'[k] = made[k]
         /\ \A k \in DOMAIN made' \ DOMAIN made :
              /\ DOMAIN made'[k] = Parts
              /\ made'[k].text = text /\ made'[k].source = source
              /\ Publishes(text, source)
              /\ made'[k].receipt = {} <=> text.commit = "none"
              /\ \A r \in made'[k].receipt : Issued(made'[k], r)
<1>1. made \in Seq(Range(made)) /\ Len(made) \in Nat /\ MaxMade \in Nat /\ Len(made) < MaxMade
  BY BoundsAssumption DEF TypeOK, Rewrite
<1>2. CASE UNCHANGED made
  BY <1>1, <1>2
<1>3. CASE Attempt(source, text, with) = "accepted" /\ made' = Append(made, Artifact(source, text, with))
  <2> DEFINE x == Artifact(source, text, with)
  <2>1. /\ made' \in Seq(Range(made')) /\ Len(made') = Len(made) + 1
        /\ DOMAIN made' = DOMAIN made \cup {Len(made')}
        /\ made'[Len(made')] = x /\ \A k \in DOMAIN made : made'[k] = made[k]
    <3>1. made' = Append(made, x)  BY <1>3
    <3> HIDE DEF x
    <3>2. made' \in Seq(Range(made'))  BY <1>1, <3>1, AppendedEntry
    <3>3. Len(made') = Len(made) + 1 /\ DOMAIN made' = DOMAIN made \cup {Len(made')}
      BY <1>1, <3>1, AppendedEntry
    <3>4. made'[Len(made')] = x  BY <1>1, <3>1, AppendedEntry
    <3>5. \A k \in DOMAIN made : made'[k] = made[k]  BY <1>1, <3>1, AppendedEntry
    <3> QED BY <3>2, <3>3, <3>4, <3>5
  <2>2. Publishes(text, source) /\ with = (text.commit # "none")
    <3>1. Accepted(text) /\ Analysable(source, text) /\ with = (text.commit # "none")
          /\ Judge(x.output, x.scope, text, source, x.receipt, with) = "accepted"
      BY <1>3 DEF Attempt
    <3>2. x.output = Output(source, text)  BY DEF Artifact
    <3> HIDE DEF x
    <3> QED BY <3>1, <3>2 DEF Judge, Publishes
  <2>3. /\ DOMAIN x = Parts /\ x.text = text /\ x.source = source
        /\ x.receipt = IF with THEN {Receipt(source, text, Output(source, text))} ELSE {}
    BY DEF Artifact, Parts
  <2>4. ASSUME NEW r \in x.receipt PROVE Issued(x, r)
    <3> DEFINE new == Receipt(source, text, Output(source, text))
    <3>1. r = new  BY <2>3, <2>4
    <3>2. new.version # 1 /\ new.whole = TRUE /\ new = [k \in DOMAIN new |-> new[k]]
      BY DEF Receipt
    <3>3. x.text = text /\ x.source = source  BY <2>3
    <3> HIDE DEF new, x
    <3>4. new = [new EXCEPT !.version = new.version, !.whole = TRUE]  BY <3>2
    <3>5. new = Receipt(x.source, x.text, Output(x.source, x.text))  BY <3>3 DEF new
    <3>6. \E version \in {1, new.version}, whole \in BOOLEAN :
            /\ version = 1 => x.text.keep = <<"HEAD">> /\ x.text.mode = "complete"
            /\ r = [new EXCEPT !.version = version, !.whole = whole]
      BY <3>1, <3>2, <3>4
    <3> QED BY <3>5, <3>6 DEF Issued
  <2>5. x.receipt = {} <=> text.commit = "none"
    BY <2>2, <2>3
  <2> HIDE DEF x
  <2>6. ASSUME NEW k \in DOMAIN made' \ DOMAIN made PROVE made'[k] = x
    BY <2>1
  <2>7. Len(made') <= MaxMade
    BY <1>1, <2>1
  <2> QED BY <2>1, <2>2, <2>3, <2>4, <2>5, <2>6, <2>7
<1> QED BY <1>2, <1>3 DEF Rewrite

\* plan writes a report of the right type.
LEMMA TypesOfPlan ==
  ASSUME TypeOK, PolicyInv, Plan PROVE report'.ok \in BOOLEAN /\ report'.count \in Nat
<1>1. CASE Accepted(text) /\ Analysable(source, text)
  <2>1. report'.ok = TRUE /\ report'.count = HeadPathCount(source, text)
    BY <1>1 DEF Plan
  <2> QED BY <2>1, HeadPathsAreCounted
<1>2. CASE ~(Accepted(text) /\ Analysable(source, text))
  BY <1>2 DEF Plan, NoReport
<1> QED BY <1>1, <1>2

\* A verdict is of artifacts that exist, as they are.
LEMMA StillJudged ==
  ASSUME JudgedInv, UNCHANGED <<text, source, verdict>>,
         \A k \in DOMAIN made : k \in DOMAIN made' /\ made'[k] = made[k]
  PROVE  JudgedInv'
<1>1. CASE verdict = NoVerdict
  BY <1>1 DEF JudgedInv, NoVerdict
<1>2. CASE verdict # NoVerdict
  <2>1. verdict.output \in DOMAIN made /\ verdict.receipt \in {0} \cup DOMAIN made
    BY <1>2 DEF JudgedInv
  <2>2. made'[verdict.output] = made[verdict.output] /\ Given' = Given
    BY <2>1 DEF Given
  <2> QED BY <1>2, <2>1, <2>2 DEF JudgedInv
<1> QED BY <1>1, <1>2

\* No step changes what is known of the artifacts that there are, and every
\* artifact that is added is known as well.
LEMMA MadeStays ==
  ASSUME TypeOK, MadeInv, UNCHANGED family,
         made' \in Seq(Range(made')), Len(made') <= MaxMade,
         \A k \in DOMAIN made' :
           /\ DOMAIN made'[k] = Parts
           /\ \/ \E i \in DOMAIN made : /\ made'[k].text = made[i].text
                                        /\ made'[k].source = made[i].source
                                        /\ made'[k].receipt = {} <=> made[i].receipt = {}
                                        /\ \A r \in made'[k].receipt : Issued(made[i], r)
              \/ /\ made'[k].text \in family.texts /\ made'[k].source \in family.sources
                 /\ Publishes(made'[k].text, made'[k].source)
                 /\ made'[k].receipt = {} <=> made'[k].text.commit = "none"
                 /\ \A r \in made'[k].receipt : Issued(made'[k], r)
  PROVE  /\ MadeInv'
         /\ made' \in Seq(Range(made')) /\ Len(made') <= MaxMade
         /\ \A k \in DOMAIN made' :
              /\ DOMAIN made'[k] = {"text", "source", "output", "receipt", "scope"}
              /\ made'[k].text \in family'.texts /\ made'[k].source \in family'.sources
              /\ made'[k].text.version = 1 /\ ~made'[k].text.unknown
<1>1. ASSUME NEW k \in DOMAIN made'
      PROVE  /\ made'[k].text \in family.texts /\ made'[k].source \in family.sources
             /\ Publishes(made'[k].text, made'[k].source)
             /\ made'[k].receipt = {} <=> made'[k].text.commit = "none"
             /\ \A r \in made'[k].receipt : Issued(made'[k], r)
  <2>1. ASSUME NEW i \in DOMAIN made, made'[k].text = made[i].text,
               made'[k].source = made[i].source,
               made'[k].receipt = {} <=> made[i].receipt = {},
               \A r \in made'[k].receipt : Issued(made[i], r)
        PROVE  /\ made'[k].text \in family.texts /\ made'[k].source \in family.sources
               /\ Publishes(made'[k].text, made'[k].source)
               /\ made'[k].receipt = {} <=> made'[k].text.commit = "none"
               /\ \A r \in made'[k].receipt : Issued(made'[k], r)
    <3>1. /\ made[i].text \in family.texts /\ made[i].source \in family.sources
          /\ Publishes(made[i].text, made[i].source)
          /\ made[i].receipt = {} <=> made[i].text.commit = "none"
      BY DEF TypeOK, MadeInv
    <3>2. ASSUME NEW r, Issued(made[i], r) PROVE Issued(made'[k], r)
      <4> DEFINE new == Receipt(made[i].source, made[i].text, Output(made[i].source, made[i].text))
      <4>1. new = Receipt(made'[k].source, made'[k].text, Output(made'[k].source, made'[k].text))
        BY <2>1
      <4> QED BY <2>1, <3>2, <4>1 DEF Issued
    <3> QED BY <2>1, <3>1, <3>2
  <2> QED BY <1>1, <2>1
<1>2. \A k \in DOMAIN made' : made'[k].text.version = 1 /\ ~made'[k].text.unknown
  BY <1>1 DEF Publishes, Accepted
<1> QED BY <1>1, <1>2 DEF MadeInv, Parts

\* What rewrite says of a policy and a source that it accepts: that they go
\* together with the receipt, or that a root lost its message.
LEMMA AttemptResult ==
  ASSUME NEW f \in Families, NEW t \in f.texts, NEW s \in f.sources, NEW with \in BOOLEAN
  PROVE  LET result == Attempt(s, t, with)
         IN  \/ result = "usage"
             \/ result = "policy" /\ ~Accepted(t)
             \/ result = "source" /\ ~Analysable(s, t)
             \/ result = "root.synthetic" /\ ~RootSynthetic(Output(s, t), t)
             \/ result = "accepted" /\ Publishes(t, s)
<1> DEFINE o == Output(s, t)
           new == Artifact(s, t, with)
<1>1. CASE Accepted(t) /\ with = (t.commit # "none") /\ Analysable(s, t)
  <2>1. Ready(f, s, t)  BY <1>1 DEF Ready
  <2>2. /\ new.output = o /\ new.scope = {ScopeFile(s, t)}
        /\ new.receipt = IF with THEN {Receipt(s, t, o)} ELSE {}
    BY DEF Artifact
  <2>3. Attempt(s, t, with) = Judge(new.output, new.scope, t, s, new.receipt, with)
    BY <1>1 DEF Attempt
  <2>4. Holds(Receipt(s, t, o), s, t)
    <3> DEFINE made0 == Receipt(s, t, o)
    <3>1. made0.version # 1 /\ made0 = [k \in DOMAIN made0 |-> made0[k]]  BY DEF Receipt
    <3> HIDE DEF made0
    <3>2. made0 = [made0 EXCEPT !.version = made0.version]  BY <3>1
    <3> QED BY <3>1, <3>2 DEF Holds, made0
  <2> HIDE DEF new, o
  <2>5. Receipted(new.receipt, s, t) /\ Scoped(new.scope, new.receipt, s, t)
    BY <1>1, <2>2, <2>4 DEF Receipted, Scoped
  <2>6. Judge(Output(s, t), new.scope, t, s, new.receipt, with)
          = IF RootSynthetic(Output(s, t), t) THEN "accepted" ELSE "root.synthetic"
    BY <1>1, <2>1, <2>5, OwnJudge
  <2>7. Attempt(s, t, with)
          = IF RootSynthetic(Output(s, t), t) THEN "accepted" ELSE "root.synthetic"
    BY <2>2, <2>3, <2>6 DEF o
  <2> QED BY <1>1, <2>7 DEF Publishes
<1>2. CASE ~(Accepted(t) /\ with = (t.commit # "none") /\ Analysable(s, t))
  BY <1>2 DEF Attempt
<1> QED BY <1>1, <1>2

\* An answer stays true while neither what was asked about nor the answer changes.
LEMMA AskedStays ==
  ASSUME AskedInv, UNCHANGED <<text, source, report, outcome>>
  PROVE  AskedInv'
BY DEF AskedInv

\* plan writes its report of the source and the policy it reads now, and forgets the
\* outcome of an earlier rewrite.
LEMMA AskedByPlan == ASSUME AskedInv, Plan PROVE AskedInv'
<1>1. UNCHANGED <<text, source, outcome>>
  BY DEF Plan
<1>2. report'.ok => /\ Accepted(text) /\ Analysable(source, text)
                    /\ report'.count = HeadPathCount(source, text)
  BY DEF Plan, NoReport
<1> QED BY <1>1, <1>2 DEF AskedInv

\* rewrite writes its outcome of the source and the policy it reads now.
LEMMA AskedByRewrite ==
  ASSUME TypeOK, AskedInv, NEW with \in BOOLEAN, Rewrite(with)
  PROVE  AskedInv'
<1> DEFINE result == Attempt(source, text, with)
<1>1. /\ UNCHANGED <<text, source, report>> /\ outcome'.result = result
      /\ result = "accepted" => outcome'.paths = OutputPaths(Output(source, text))
  BY DEF Rewrite, NotAsked
<1>2. \/ result = "usage"
      \/ result = "policy" /\ ~Accepted(text)
      \/ result = "source" /\ ~Analysable(source, text)
      \/ result = "root.synthetic" /\ ~RootSynthetic(Output(source, text), text)
      \/ result = "accepted" /\ Publishes(text, source)
  BY AttemptResult DEF TypeOK
<1> HIDE DEF result
<1> QED BY <1>1, <1>2 DEF AskedInv

\* Every command, edit and damage keeps the invariant.
LEMMA InvStep == ASSUME Inv, PolicyInv, [Next]_vars PROVE Inv'
<1> USE BoundsAssumption
<1>1. /\ family \in Families /\ text \in family.texts /\ source \in family.sources
      /\ report.ok \in BOOLEAN /\ report.count \in Nat
      /\ outcome.result \in Results /\ verdict.result \in Results
      /\ edits \in 0..MaxEdits
      /\ made \in Seq(Range(made)) /\ Len(made) <= MaxMade
      /\ \A i \in DOMAIN made : /\ DOMAIN made[i] = Parts
                                /\ \A r \in made[i].receipt : Issued(made[i], r)
  BY DEF Inv, TypeOK, MadeInv, Parts
<1>2. TypeOK /\ MadeInv /\ JudgedInv /\ AskedInv
  BY DEF Inv
<1>3. NoReport.ok \in BOOLEAN /\ NoReport.count \in Nat
      /\ NotAsked.result \in Results /\ NoVerdict.result \in Results
  BY DEF NoReport, NotAsked, NoVerdict, Results
<1>4. ASSUME UNCHANGED <<family, made>>,
             text' \in family.texts /\ source' \in family.sources,
             report'.ok \in BOOLEAN /\ report'.count \in Nat,
             outcome'.result \in Results /\ verdict'.result \in Results,
             edits' \in 0..MaxEdits
      PROVE  TypeOK' /\ MadeInv'
  <2>1. TypeOK'
    <3>1. made' = made /\ family' = family  BY <1>4
    <3>2. made' \in Seq(Range(made')) /\ Len(made') <= MaxMade  BY <1>1, <3>1
    <3>3. \A i \in DOMAIN made' :
            /\ DOMAIN made'[i] = {"text", "source", "output", "receipt", "scope"}
            /\ made'[i].text \in family'.texts /\ made'[i].source \in family'.sources
            /\ made'[i].text.version = 1 /\ ~made'[i].text.unknown
      BY <1>2, <3>1 DEF TypeOK
    <3> QED BY <1>1, <1>4, <3>2, <3>3 DEF TypeOK
  <2>2. MadeInv'
    <3>1. ASSUME NEW i \in DOMAIN made
          PROVE  /\ Publishes(made[i].text, made[i].source)
                 /\ made[i].receipt = {} <=> made[i].text.commit = "none"
                 /\ \A r \in made[i].receipt : Issued(made[i], r)
      BY <1>2 DEF MadeInv
    <3>2. made' = made  BY <1>4
    <3> QED BY <3>1, <3>2 DEF MadeInv
  <2> QED BY <2>1, <2>2
<1>5. ASSUME verdict' = NoVerdict PROVE JudgedInv'
  BY <1>5 DEF JudgedInv, NoVerdict
<1>6. CASE EditPolicy \/ ChangeSource
  <2>1. /\ UNCHANGED <<family, made>> /\ text' \in family.texts /\ source' \in family.sources
        /\ report' = NoReport /\ outcome' = NotAsked /\ verdict' = NoVerdict
        /\ edits' \in 0..MaxEdits
    BY <1>1, <1>6 DEF EditPolicy, ChangeSource, Forget
  <2>2. AskedInv'  BY <2>1 DEF AskedInv, NoReport, NotAsked
  <2> QED BY <1>3, <1>4, <1>5, <2>1, <2>2 DEF Inv
<1>7. CASE Plan
  <2>1. UNCHANGED <<family, text, source, outcome, made, verdict, edits>>
    BY <1>7 DEF Plan
  <2>2. report'.ok \in BOOLEAN /\ report'.count \in Nat
    BY <1>2, <1>7, TypesOfPlan
  <2>3. TypeOK' /\ MadeInv'  BY <1>1, <1>4, <2>1, <2>2
  <2>4. JudgedInv'  BY <1>2, <2>1, StillJudged
  <2>5. AskedInv'  BY <1>2, <1>7, AskedByPlan
  <2> QED BY <2>3, <2>4, <2>5 DEF Inv
<1>8. ASSUME NEW with \in BOOLEAN, Rewrite(with) PROVE Inv'
  <2>1. UNCHANGED <<family, text, source, report, verdict, edits>>
    BY <1>8 DEF Rewrite
  <2>2. outcome'.result \in Results
    BY <1>8, AttemptTypes DEF Rewrite, NotAsked
  <2>3. /\ made' \in Seq(Range(made')) /\ Len(made') <= MaxMade
        /\ \A k \in DOMAIN made : k \in DOMAIN made' /\ made'[k] = made[k]
        /\ \A k \in DOMAIN made' \ DOMAIN made :
             /\ DOMAIN made'[k] = Parts
             /\ made'[k].text = text /\ made'[k].source = source
             /\ Publishes(text, source)
             /\ made'[k].receipt = {} <=> text.commit = "none"
             /\ \A r \in made'[k].receipt : Issued(made'[k], r)
    BY <1>2, <1>8, NewArtifact
  <2>4. /\ MadeInv'
        /\ \A k \in DOMAIN made' :
             /\ DOMAIN made'[k] = {"text", "source", "output", "receipt", "scope"}
             /\ made'[k].text \in family'.texts /\ made'[k].source \in family'.sources
             /\ made'[k].text.version = 1 /\ ~made'[k].text.unknown
    BY <1>1, <1>2, <2>1, <2>3, MadeStays
  <2>5. TypeOK'  BY <1>1, <2>1, <2>2, <2>3, <2>4 DEF TypeOK
  <2>6. JudgedInv'  BY <1>2, <2>1, <2>3, StillJudged
  <2>7. AskedInv'  BY <1>2, <1>8, AskedByRewrite
  <2> QED BY <2>4, <2>5, <2>6, <2>7 DEF Inv
<1>9. ASSUME NEW i \in DOMAIN made, OlderRelease(i) \/ Tamper(i) PROVE Inv'
  <2>1. UNCHANGED <<family, text, source, report, outcome>> /\ verdict' = NoVerdict
        /\ edits' \in 0..MaxEdits
    BY <1>1, <1>9 DEF OlderRelease, Tamper
  <2>2. /\ made' \in Seq(Range(made')) /\ Len(made') = Len(made) /\ DOMAIN made' = DOMAIN made
        /\ \A k \in DOMAIN made : /\ DOMAIN made'[k] = Parts
                                  /\ made'[k].text = made[k].text
                                  /\ made'[k].source = made[k].source
                                  /\ made'[k].receipt = {} <=> made[k].receipt = {}
                                  /\ \A r \in made'[k].receipt : Issued(made[k], r)
    BY <1>2, <1>9, ChangedArtifact
  <2>3. /\ MadeInv'
        /\ \A k \in DOMAIN made' :
             /\ DOMAIN made'[k] = {"text", "source", "output", "receipt", "scope"}
             /\ made'[k].text \in family'.texts /\ made'[k].source \in family'.sources
             /\ made'[k].text.version = 1 /\ ~made'[k].text.unknown
    BY <1>1, <1>2, <2>1, <2>2, MadeStays
  <2>4. TypeOK'  BY <1>1, <1>3, <2>1, <2>2, <2>3 DEF TypeOK
  <2>5. JudgedInv'  BY <1>5, <2>1
  <2>6. AskedInv'  BY <1>2, <2>1, AskedStays
  <2> QED BY <2>3, <2>4, <2>5, <2>6 DEF Inv
<1>10. ASSUME NEW i \in DOMAIN made, NEW j \in DOMAIN made, NEW with \in BOOLEAN,
              Verify(i, j, with)
       PROVE  Inv'
  <2>1. UNCHANGED <<family, text, source, report, outcome, made, edits>>
    BY <1>10 DEF Verify
  <2>2. /\ verdict'.output = i /\ verdict'.receipt = IF with THEN j ELSE 0
        /\ verdict'.result = Judge(made[i].output, made[i].scope, text, source,
                                   IF with THEN made[j].receipt ELSE {}, with)
    BY <1>10 DEF Verify
  <2>3. TypeOK' /\ MadeInv'
    <3>1. verdict'.result \in Results  BY <2>2, JudgeTypes
    <3> QED BY <1>1, <1>4, <2>1, <3>1
  <2>4. JudgedInv'
    <3>1. j # 0
      BY <1>1
    <3>2. CASE with
      <4>1. verdict'.receipt = j /\ (verdict'.receipt # 0) = TRUE /\ Given' = made[j].receipt
        BY <2>1, <2>2, <3>1, <3>2 DEF Given
      <4>2. verdict'.result = Judge(made'[i].output, made'[i].scope, text', source', Given', TRUE)
        BY <2>1, <2>2, <3>2, <4>1
      <4> QED BY <2>1, <2>2, <4>1, <4>2 DEF JudgedInv
    <3>3. CASE ~with
      <4>1. verdict'.receipt = 0 /\ (verdict'.receipt # 0) = FALSE /\ Given' = {}
        BY <2>1, <2>2, <3>3 DEF Given
      <4>2. verdict'.result = Judge(made'[i].output, made'[i].scope, text', source', Given', FALSE)
        BY <2>1, <2>2, <3>3, <4>1
      <4> QED BY <2>1, <2>2, <4>1, <4>2 DEF JudgedInv
    <3> QED BY <3>2, <3>3
  <2>5. AskedInv'  BY <1>2, <2>1, AskedStays
  <2> QED BY <2>3, <2>4, <2>5 DEF Inv
<1>11. CASE UNCHANGED vars
  <2>1. TypeOK' /\ MadeInv'  BY <1>1, <1>4, <1>11 DEF vars
  <2>2. JudgedInv'  BY <1>2, <1>11, StillJudged DEF vars
  <2>3. AskedInv'  BY <1>2, <1>11, AskedStays DEF vars
  <2> QED BY <2>1, <2>2, <2>3 DEF Inv
<1> QED BY <1>6, <1>7, <1>8, <1>9, <1>10, <1>11 DEF Next

\* Whatever is edited, damaged or swapped, every artifact was made by a policy
\* and from a source that rewrite accepts, its receipt says so, and a verdict is
\* of everything as it is now.
THEOREM ArtifactInvariant == Spec => []Inv
<1>1. Init => Inv
  BY BoundsAssumption
     DEF Init, Inv, TypeOK, MadeInv, JudgedInv, AskedInv, NoReport, NotAsked, NoVerdict, Results, Range
<1>2. Inv /\ PolicyInv /\ [Next]_vars => Inv'
  BY InvStep
<1> QED BY <1>1, <1>2, PolicyInvariant, PTL DEF Spec

-----------------------------------------------------------------------------
(* What a verdict is worth.                                                *)

\* The run to a selected reference starts at the cutoff commit.
LEMMA RunStartsAtCutoff ==
  ASSUME NEW f \in Families, NEW s \in f.sources, NEW t, t.mode # "snapshot", t.commit # "none",
         NEW c \in Resolved(s, t), NEW i \in Tips(s, t), i \in DOMAIN s.commits, c <= i
  PROVE  RunStart(s, t, i) = c
<1> DEFINE R == RetainedCommits(s, t)
           A == {a \in R : a <= i /\ a..i \subseteq R}
<1>1. DOMAIN s.commits = 1..Len(s.commits) /\ c \in DOMAIN s.commits
      /\ DOMAIN s.commits \subseteq Nat \ {0}
  BY CommitsAreNumbered DEF Resolved
<1>2. \A k \in R : k \in DOMAIN s.commits /\ c <= k
  BY OneCutoff DEF RetainedCommits, ScopeCommits
<1>3. ASSUME NEW k \in c..i PROVE k \in R
  <2>1. k \in 1..i /\ i \in 1..Len(s.commits)
    BY <1>1
  <2>2. k \in DOMAIN s.commits /\ k <= i /\ c <= k
    BY <1>1, <2>1
  <2> QED BY <2>2 DEF RetainedCommits, ScopeCommits
<1>4. c \in A /\ \A a \in A : c <= a
  BY <1>1, <1>2, <1>3
<1>5. A \subseteq Nat  BY <1>1, <1>2
<1>6. RunStart(s, t, i) = Min(A)  BY DEF RunStart
<1> HIDE DEF A
<1>7. Min(A) \in A /\ \A a \in A : Min(A) <= a
  BY <1>4, <1>5, Least
<1>8. Min(A) \in Nat /\ c \in Nat /\ Min(A) <= c /\ c <= Min(A)
  BY <1>4, <1>5, <1>7
<1> QED BY <1>6, <1>8

\* Between the cutoff commit and a commit that two sources have in common, they
\* have the same commits.
LEMMA SameRun ==
  ASSUME NEW f \in Families, NEW s \in f.sources, NEW r \in f.sources, NEW t,
         NEW c \in Resolved(s, t), NEW d \in Resolved(r, t),
         NEW i \in DOMAIN s.commits, NEW j \in DOMAIN r.commits,
         s.commits[i].id = r.commits[j].id, c <= i
  PROVE  d <= j /\ Run(s, c, i) = Run(r, d, j)
<1>1. /\ c \in DOMAIN s.commits /\ d \in DOMAIN r.commits
      /\ s.commits[c].id = t.commit /\ r.commits[d].id = t.commit
  BY DEF Resolved
<1>2. c \in Nat /\ d \in Nat /\ i \in Nat /\ j \in Nat /\ 0 < c /\ 0 < d
  BY <1>1, CommitsAreNumbered
<1>3. c < i <=> d < j
  BY <1>1, IdsAssumption
<1>4. i < c <=> j < d
  BY <1>1, IdsAssumption
<1>5. d <= j
  BY <1>2, <1>4
<1>6. \A k \in 0..(i - 1) : k < j => s.commits[i - k] = r.commits[j - k]
  BY IdsAssumption
<1>7. ASSUME i - c < j - d PROVE FALSE
  <2>1. i - c \in 0..(i - 1) /\ i - c < j /\ i - (i - c) = c  BY <1>2, <1>7
  <2>2. s.commits[c] = r.commits[j - (i - c)]  BY <1>6, <2>1
  <2>3. j - (i - c) \in 1..j /\ j - (i - c) # d  BY <1>2, <1>7
  <2>4. j - (i - c) \in DOMAIN r.commits  BY <1>2, <2>3, CommitsAreNumbered
  <2>5. j - (i - c) \in Resolved(r, t)  BY <1>1, <2>2, <2>4 DEF Resolved
  <2> QED BY <2>3, <2>5, OneCutoff
<1>8. ASSUME j - d < i - c PROVE FALSE
  <2>1. j - d \in 0..(i - 1) /\ j - d < j /\ j - (j - d) = d  BY <1>2, <1>5, <1>8
  <2>2. s.commits[i - (j - d)] = r.commits[d]  BY <1>6, <2>1
  <2>3. i - (j - d) \in 1..i /\ i - (j - d) # c  BY <1>2, <1>5, <1>8
  <2>4. i - (j - d) \in DOMAIN s.commits  BY <1>2, <2>3, CommitsAreNumbered
  <2>5. i - (j - d) \in Resolved(s, t)  BY <1>1, <2>2, <2>4 DEF Resolved
  <2> QED BY <2>3, <2>5, OneCutoff
<1>9. i - c = j - d
  BY <1>2, <1>7, <1>8
<1>10. ASSUME NEW k \in 1..(i - c + 1)
       PROVE  s.commits[c + k - 1] = r.commits[d + k - 1]
  <2>1. i - (c + k - 1) \in 0..(i - 1) /\ i - (c + k - 1) < j
        /\ i - (i - (c + k - 1)) = c + k - 1 /\ j - (i - (c + k - 1)) = d + k - 1
    BY <1>2, <1>9
  <2> QED BY <1>6, <2>1
<1>11. SubSeq(s.commits, c, i) = [k \in 1..(i - c + 1) |-> s.commits[c + k - 1]]
  BY <1>2
<1>12. SubSeq(r.commits, d, j) = [k \in 1..(j - d + 1) |-> r.commits[d + k - 1]]
  BY <1>2
<1> QED BY <1>5, <1>9, <1>10, <1>11, <1>12 DEF Run

\* Sources with the same references have the same output, if both have the
\* cutoff commit.
LEMMA OutputIsBound ==
  ASSUME NEW f \in Families, NEW s \in f.sources, NEW r \in f.sources, NEW t,
         t.mode # "snapshot", t.commit # "none",
         Analysable(s, t), Resolved(r, t) # {}, Fingerprint(s) = Fingerprint(r)
  PROVE  Output(s, t) = Output(r, t)
<1> DEFINE names == SelectedNames(s, t)
<1>1. s.branch = r.branch /\ DOMAIN s.refs = DOMAIN r.refs
      /\ \A n \in DOMAIN s.refs :
           /\ s.refs[n].type = r.refs[n].type
           /\ s.commits[s.refs[n].at].id = r.commits[r.refs[n].at].id
  <2> DEFINE F(x) == [n \in DOMAIN x.refs |-> <<x.refs[n].type, x.commits[x.refs[n].at].id>>]
  <2>1. s.branch = r.branch /\ F(s) = F(r)
    <3>1. Fingerprint(s).branch = s.branch /\ Fingerprint(s).refs = F(s)  BY DEF Fingerprint
    <3>2. Fingerprint(r).branch = r.branch /\ Fingerprint(r).refs = F(r)  BY DEF Fingerprint
    <3> QED BY <3>1, <3>2
  <2>2. DOMAIN s.refs = DOMAIN r.refs
    BY <2>1
  <2>3. ASSUME NEW n \in DOMAIN s.refs
        PROVE  /\ s.refs[n].type = r.refs[n].type
               /\ s.commits[s.refs[n].at].id = r.commits[r.refs[n].at].id
    <3>1. F(s)[n] = <<s.refs[n].type, s.commits[s.refs[n].at].id>>  OBVIOUS
    <3>2. F(r)[n] = <<r.refs[n].type, r.commits[r.refs[n].at].id>>  BY <2>2
    <3> HIDE DEF F
    <3> QED BY <2>1, <3>1, <3>2
  <2> QED BY <2>1, <2>2, <2>3
<1>2. SelectedNames(r, t) = names
  BY <1>1 DEF SelectedNames
<1>3. Range(names) \subseteq DOMAIN s.refs
  BY DEF Analysable, Inspected, Selectable
<1>4. PICK c \in Resolved(s, t) : \A i \in Tips(s, t) : c <= i
  BY DEF Analysable
<1>5. PICK d \in Resolved(r, t) : TRUE
  OBVIOUS
<1>6. \A n \in Range(names) : s.refs[n].at \in Tips(s, t)
  BY SelectedTip
<1>7. \A n \in Range(names) : r.refs[n].at \in Tips(r, t)
  BY <1>2, SelectedTip
<1>8. ASSUME NEW n \in Range(names)
      PROVE  Line(s, t, s.refs[n].at) = Line(r, t, r.refs[n].at)
  <2> DEFINE i == s.refs[n].at
             j == r.refs[n].at
  <2>1. i \in DOMAIN s.commits /\ j \in DOMAIN r.commits
    BY <1>1, <1>3, CommitsAreNumbered
  <2>2. c <= i /\ s.commits[i].id = r.commits[j].id
    BY <1>1, <1>3, <1>4, <1>6
  <2>3. i \in Tips(s, t) /\ j \in Tips(r, t)
    BY <1>6, <1>7
  <2> HIDE DEF i, j
  <2>4. d <= j /\ Run(s, c, i) = Run(r, d, j)
    <3>1. d <= j  BY <2>1, <2>2, SameRun
    <3>2. Run(s, c, i) = Run(r, d, j)  BY <2>1, <2>2, SameRun
    <3> QED BY <3>1, <3>2
  <2>5. RunStart(s, t, i) = c
    BY <2>1, <2>2, <2>3, RunStartsAtCutoff
  <2>6. RunStart(r, t, j) = d
    BY <2>1, <2>3, <2>4, RunStartsAtCutoff
  <2>7. Line(s, t, i) = Line(r, t, j)
    BY <2>4, <2>5, <2>6 DEF Line
  <2> QED BY <2>7 DEF i, j
<1> HIDE DEF names
<1>9. [n \in Range(names) |-> [type |-> s.refs[n].type, at |-> Line(s, t, s.refs[n].at)]]
        = [n \in Range(names) |-> [type |-> r.refs[n].type, at |-> Line(r, t, r.refs[n].at)]]
  BY <1>1, <1>3, <1>8
<1> QED BY <1>1, <1>2, <1>9 DEF Output, names

\* What an accepted verdict says of the output, step by step of verify.
LEMMA AcceptedVerdict ==
  ASSUME Inv, verdict.result = "accepted"
  PROVE  LET o == made[verdict.output].output
         IN  /\ verdict.output \in DOMAIN made /\ verdict.receipt \in {0} \cup DOMAIN made
             /\ Accepted(text) /\ Evidence(o, text, source, Given, verdict.receipt # 0)
             /\ RootSynthetic(o, text) /\ RefsRetained(o, text) /\ PathsAccepted(o, text)
BY DEF Inv, JudgedInv, NoVerdict, Judge

\* The first half of VerdictSound: the accepted output is what the policy asks for.
LEMMA TrueVerdict == Inv => VerdictTrue
<1> SUFFICES ASSUME Inv, verdict.result = "accepted" PROVE VerdictTrue
  BY DEF VerdictTrue
<1> DEFINE o == made[verdict.output].output
<1>1. RootSynthetic(o, text) /\ RefsRetained(o, text) /\ PathsAccepted(o, text)
  BY AcceptedVerdict
<1>2. text.time \in Nat
  BY TextsAssumption DEF Inv, TypeOK
<1> HIDE DEF o
<1>3. ASSUME NEW c \in CommitsOf(o), NEW path \in c.tree
      PROVE  Retained(path, text)
  BY <1>1, <1>3 DEF PathsAccepted, PathAccepted, MatchedBy, Retained
<1>4. ASSUME NEW c \in CommitsOf(o)
      PROVE  c.time \notin Before(text)
  <2>1. CASE text.time = 0
    BY <2>1 DEF Before
  <2>2. CASE text.time # 0
    <3>1. c.time >= CutoffEpoch(text)
      BY <1>1, <2>2 DEF RootSynthetic
    <3>2. 2 * CutoffEpoch(text) >= text.time /\ CutoffEpoch(text) \in Nat
      BY <1>2 DEF CutoffEpoch
    <3> QED BY <1>2, <3>1, <3>2 DEF Before
  <2> QED BY <2>1, <2>2
<1> QED BY <1>1, <1>3, <1>4 DEF VerdictTrue, RefsRetained, o

\* Its second half: it is the output of the source that the receipt names.
LEMMA BindingVerdict == Inv => VerdictBinds
<1> SUFFICES ASSUME Inv, verdict.result = "accepted", text.commit # "none" PROVE VerdictBinds
  BY DEF VerdictBinds
<1> DEFINE one == made[verdict.receipt]
           o   == made[verdict.output].output
           old == Output(one.source, text)
           new == Output(source, text)
<1>1. Accepted(text) /\ Evidence(o, text, source, Given, verdict.receipt # 0)
      /\ verdict.receipt \in {0} \cup DOMAIN made
  BY AcceptedVerdict
<1>2. verdict.receipt \in DOMAIN made /\ \E r \in one.receipt : ReceiptBinds(o, text, source, r)
  BY <1>1 DEF Evidence, Given
<1>3. PICK r \in one.receipt : ReceiptBinds(o, text, source, r)
  BY <1>2
<1>4. /\ one.source \in family.sources /\ source \in family.sources /\ family \in Families
      /\ Analysable(one.source, one.text) /\ Issued(one, r)
  BY <1>2, <1>3 DEF Inv, TypeOK, MadeInv, Publishes
<1> DEFINE issued == Receipt(one.source, one.text, Output(one.source, one.text))
<1>5. PICK version \in {1, issued.version}, whole \in BOOLEAN :
        /\ version = 1 => one.text.keep = <<"HEAD">> /\ one.text.mode = "complete"
        /\ r = [issued EXCEPT !.version = version, !.whole = whole]
  <2>1. Issued(one, r)  BY <1>4
  <2> HIDE DEF one
  <2> QED BY <2>1 DEF Issued
<1>6. /\ r.version = version /\ r.digest = issued.digest /\ r.fingerprint = issued.fingerprint
      /\ r.head = issued.head /\ r.roots = issued.roots /\ r.outputRefs = issued.outputRefs
  <2>1. {"version", "whole", "digest", "fingerprint", "head", "roots", "outputRefs"}
          \subseteq DOMAIN issued
    BY DEF Receipt
  <2> HIDE DEF issued
  <2> QED BY <1>5, <2>1
<1>7. /\ issued.digest = one.text /\ issued.fingerprint = Fingerprint(one.source)
      /\ issued.version = IF one.text.keep = <<"HEAD">> THEN 2 ELSE 3
  BY DEF Receipt
<1>8. one.text = text /\ Fingerprint(one.source) = Fingerprint(source)
  <2>1. r.digest = text /\ Fingerprint(source) = r.fingerprint
    <3> HIDE DEF o
    <3> QED BY <1>3 DEF ReceiptBinds
  <2> HIDE DEF issued, one
  <2> QED BY <1>6, <1>7, <2>1
<1>9. /\ issued.head = old.refs[old.branch].at /\ issued.roots = RootsOf(old)
      /\ issued.outputRefs = Descriptors(old, text)
  BY <1>8 DEF Receipt
<1>10. old = new
  <2>1. text.mode # "snapshot"  BY <1>1 DEF Accepted
  <2>2. Resolved(source, text) # {}  BY <1>3 DEF ReceiptBinds
  <2> QED BY <1>4, <1>8, <2>1, <2>2, OutputIsBound
<1> HIDE DEF issued, old, new, o, one
<1>11. /\ o.refs[o.branch].at = new.refs[new.branch].at /\ RootsOf(o) = RootsOf(new)
  BY <1>3, <1>6, <1>9, <1>10 DEF ReceiptBinds
<1>12. ASSUME text.keep # <<"HEAD">> PROVE Descriptors(o, text) = Descriptors(new, text)
  <2>1. r.version = 3  BY <1>5, <1>6, <1>7, <1>8, <1>12
  <2> QED BY <1>3, <1>6, <1>9, <1>10, <2>1 DEF ReceiptBinds
<1> QED BY <1>8, <1>11, <1>12 DEF VerdictBinds, one, o, new

\* An accepted verdict is worth what it says, for all policies, sources and
\* damages: the output has only paths, references and times that the policy
\* retains, and with a commit cutoff it is what rewriting the source as it is
\* now would make, also if source, policy, output and receipt were swapped.
THEOREM VerdictSoundAlways == Spec => []VerdictSound
<1>1. Inv => VerdictSound
  BY TrueVerdict, BindingVerdict DEF VerdictSound
<1> QED BY <1>1, ArtifactInvariant, PTL

\* The second half of PlanTrue: the rewrite publishes what plan counted.
LEMMA PlanAndRewriteAgree == Inv => PlanPredicts
<1> SUFFICES ASSUME Inv PROVE PlanPredicts
  OBVIOUS
<1>1. AskedInv /\ family \in Families /\ text \in family.texts /\ source \in family.sources
  BY DEF Inv, TypeOK
<1>2. report.ok => Ready(family, source, text) /\ report.count = HeadPathCount(source, text)
  BY <1>1 DEF AskedInv, Ready
<1>3. report.ok => outcome.result \in {"none", "usage", "accepted", "root.synthetic"}
  BY <1>1, <1>2 DEF AskedInv, Ready
<1>4. outcome.result = "accepted" => Accepted(text) /\ Analysable(source, text)
                                     /\ outcome.paths = OutputPaths(Output(source, text))
  BY <1>1 DEF AskedInv, Publishes
<1>5. ASSUME report.ok, outcome.result = "root.synthetic"
      PROVE  \E i \in Tips(source, text) :
               Line(source, text, i)[1].from # source.commits[RunStart(source, text, i)].id
  <2>1. ~RootSynthetic(Output(source, text), text)
    BY <1>1, <1>5 DEF AskedInv
  <2> QED BY <1>2, <1>5, <2>1, OwnRoots
<1>6. report.ok /\ outcome.result = "accepted" => outcome.paths = report.count
  BY <1>2, <1>4, PathsAsCounted
<1> QED BY <1>3, <1>4, <1>5, <1>6 DEF PlanPredicts

\* What plan says comes true, for all policies and sources: of the rules, of
\* the number of paths, and of whether rewrite publishes, unless filtering
\* prunes a root.
THEOREM PlanTrueAlways == Spec => []PlanTrue
<1>1. Inv => PlanPredicts
  BY PlanAndRewriteAgree
<1>2. Inv /\ EffectsTrue => PlanTrue
  BY <1>1 DEF PlanTrue
<1> QED BY <1>2, ArtifactInvariant, EffectsTrueAlways, PTL

\* An unchanged output is accepted, from what Inv says of an artifact and its receipt.
LEMMA OwnVerdict == Inv => OwnAccepted
<1> DEFINE one == made[verdict.output]
<1> SUFFICES ASSUME Inv, verdict.result # "none", verdict.output = Len(made),
                    one.text = text, one.source = source, one.output = Output(source, text),
                    IF text.commit = "none" THEN verdict.receipt = 0
                    ELSE verdict.receipt = verdict.output /\ \A r \in one.receipt : r.whole,
                    \/ one.scope = {ScopeFile(source, text)}
                    \/ /\ one.scope = {} /\ text.mode = "complete"
                       /\ text.commit # "none" => \E r \in one.receipt : r.version = 1
             PROVE  verdict.result = "accepted"
  BY DEF OwnAccepted
<1>1. /\ verdict.output \in DOMAIN made
      /\ verdict.result = Judge(one.output, one.scope, text, source, Given, verdict.receipt # 0)
  BY DEF Inv, JudgedInv, NoVerdict
<1>2. /\ Publishes(text, source)
      /\ one.receipt = {} <=> text.commit = "none"
      /\ \A r \in one.receipt : Issued(one, r)
  BY <1>1 DEF Inv, MadeInv
<1>3. Ready(family, source, text) /\ RootSynthetic(Output(source, text), text)
  BY <1>2 DEF Publishes, Ready, Inv, TypeOK
<1>4. verdict.output # 0
  BY <1>1 DEF Inv, TypeOK
<1> DEFINE with == verdict.receipt # 0
<1>5. with = (text.commit # "none") /\ Given = one.receipt
  BY <1>2, <1>4 DEF Given
<1>6. ASSUME NEW r \in one.receipt PROVE Holds(r, source, text)
  <2> DEFINE new == Receipt(source, text, Output(source, text))
  <2>1. PICK version \in {1, new.version}, whole \in BOOLEAN :
          /\ version = 1 => text.keep = <<"HEAD">> /\ text.mode = "complete"
          /\ r = [new EXCEPT !.version = version, !.whole = whole]
    <3>1. Issued(one, r) /\ one.text = text /\ one.source = source  BY <1>2
    <3> HIDE DEF one
    <3> QED BY <3>1 DEF Issued
  <2>2. new.whole = TRUE /\ "whole" \in DOMAIN new /\ "version" \in DOMAIN new
        /\ new = [k \in DOMAIN new |-> new[k]]
    BY DEF Receipt
  <2>3. r.whole = TRUE
    <3>1. r.whole /\ text.commit # "none"  BY <1>2, <1>6
    <3>2. r.whole = whole
      <4> HIDE DEF new
      <4> QED BY <2>1, <2>2
    <3> QED BY <3>1, <3>2
  <2>4. r = [new EXCEPT !.version = version]
    <3> HIDE DEF new
    <3>1. whole = TRUE  BY <2>1, <2>2, <2>3
    <3> QED BY <2>1, <2>2, <3>1
  <2> QED BY <2>1, <2>4 DEF Holds
<1> HIDE DEF one, with
<1>7. Judge(Output(source, text), one.scope, text, source, one.receipt, with)
        = IF RootSynthetic(Output(source, text), text) THEN "accepted" ELSE "root.synthetic"
  <2>1. Receipted(one.receipt, source, text)
    BY <1>2, <1>6 DEF Receipted
  <2>2. Scoped(one.scope, one.receipt, source, text)
    BY DEF Scoped
  <2>3. with <=> text.commit # "none"
    BY <1>5
  <2> QED BY <1>3, <2>1, <2>2, <2>3, OwnJudge
<1> QED BY <1>1, <1>3, <1>5, <1>7 DEF one, with

\* What rewrite published is accepted by verify as long as nothing changes, for
\* all policies and sources, also if an older release made it.
THEOREM OwnAcceptedAlways == Spec => []OwnAccepted
<1>1. Inv => OwnAccepted
  BY OwnVerdict
<1> QED BY <1>1, ArtifactInvariant, PTL
=============================================================================
