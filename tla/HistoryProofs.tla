--------------------------- MODULE HistoryProofs ---------------------------
(***************************************************************************)
(* Proofs about History, for every number of commits, source and policy.   *)
(* Its definitions recurse, so the first part shows that functions defined *)
(* by recursion exist (from the least-number principle) and with them that *)
(* Closure is the least closed set, that Among selects, and what pruning   *)
(* leaves of the retained graph.  The second part has one lemma per action *)
(* for the inductive invariant Inv, the third the properties.              *)
(***************************************************************************)
EXTENDS History, FiniteSetTheorems, SequenceTheorems, WellFoundedInduction, TLAPS

-----------------------------------------------------------------------------
(* Induction and recursion over the naturals.                              *)

\* A set of naturals that is not empty has a least member.
LEMMA Least ==
  ASSUME NEW T \in SUBSET Nat, T # {}
  PROVE  \E n \in T : \A m \in T : n <= m
<1>1. \E x \in T : \A y \in T : ~ (<<y, x>> \in OpToRel(<,Nat))
  BY NatLessThanWellFounded, WFMin
<1>2. \A x, y \in Nat : x < y => <<x, y>> \in OpToRel(<,Nat)
  BY DEF OpToRel
<1>3. \E x \in T : \A y \in T : ~(y < x)
  BY <1>1, <1>2, Zenon
<1> QED BY <1>3

\* Induction, for a set: only the least natural outside it would be an exception.
LEMMA SetInduction ==
  ASSUME NEW T \in SUBSET Nat, 0 \in T, \A n \in T : n + 1 \in T
  PROVE  T = Nat
<1> SUFFICES ASSUME Nat \ T # {} PROVE FALSE
  OBVIOUS
<1>1. PICK n \in Nat \ T : \A m \in Nat \ T : n <= m
  BY Least
<1>2. n # 0 /\ n - 1 \in Nat /\ n - 1 \in T
  BY <1>1
<1> QED BY <1>2

Follows(f, n, a, step) ==
  f[0] = a /\ \A i \in 1..n : f[i] = step[<<i, f[i-1]>>]

\* A function defined by recursion on the naturals exists.
LEMMA Recursion ==
  ASSUME NEW X, NEW a \in X, NEW k \in Nat, NEW step \in [(1..k) \X X -> X]
  PROVE  \E f \in [0..k -> X] : Follows(f, k, a, step)
<1> DEFINE T == {n \in Nat : n <= k => \E f \in [0..n -> X] : Follows(f, n, a, step)}
<1>1. 0 \in T
  <2>1. [i \in 0..0 |-> a] \in [0..0 -> X] /\ Follows([i \in 0..0 |-> a], 0, a, step)
    BY DEF Follows
  <2> QED BY <2>1
<1>2. ASSUME NEW n \in T PROVE n + 1 \in T
  <2> SUFFICES ASSUME n + 1 <= k
               PROVE  \E f \in [0..n+1 -> X] : Follows(f, n+1, a, step)
    OBVIOUS
  <2>1. PICK f \in [0..n -> X] : Follows(f, n, a, step)
    OBVIOUS
  <2>2. n \in Nat /\ f[n] \in X /\ n + 1 \in 1..k
    OBVIOUS
  <2> DEFINE y == step[<<n+1, f[n]>>]
             g == [i \in 0..n+1 |-> IF i = n + 1 THEN y ELSE f[i]]
  <2>3. y \in X
    BY <2>2
  <2> HIDE DEF y
  <2>4. g \in [0..n+1 -> X]
    BY <2>2, <2>3
  <2>5. g[0] = a
    BY <2>1, <2>2 DEF Follows
  <2>6. ASSUME NEW i \in 1..n+1 PROVE g[i] = step[<<i, g[i-1]>>]
    <3>1. CASE i = n + 1
      <4>1. g[i] = y /\ g[i-1] = f[n]
        BY <3>1, <2>2
      <4> QED BY <4>1, <3>1 DEF y
    <3>2. CASE i # n + 1
      <4>1. g[i] = f[i] /\ g[i-1] = f[i-1] /\ i \in 1..n
        BY <3>2, <2>2
      <4> QED BY <4>1, <2>1 DEF Follows
    <3> QED BY <3>1, <3>2
  <2> HIDE DEF g
  <2> QED BY <2>4, <2>5, <2>6 DEF Follows
<1>3. T = Nat
  <2>1. T \in SUBSET Nat
    OBVIOUS
  <2> HIDE DEF T
  <2> QED BY <1>1, <1>2, <2>1, SetInduction
<1>4. k \in T
  BY <1>3
<1> QED BY <1>4

-----------------------------------------------------------------------------
(* Closures, as the least closed sets.                                     *)

Grown(parents, seen) == seen \cup UNION {Range(parents[x]) : x \in seen \cap DOMAIN parents}

IsWalk(walk, parents, S, k) ==
  walk[0] = S /\ \A n \in 1..k : walk[n] = Grown(parents, walk[n-1])

\* The recursive function in Closure exists, so that Closure is its last value.
LEMMA ClosureIsWalk ==
  ASSUME NEW parents, NEW S, IsFiniteSet(DOMAIN parents)
  PROVE  \E walk : /\ IsWalk(walk, parents, S, Cardinality(DOMAIN parents))
                   /\ Closure(parents, S) = walk[Cardinality(DOMAIN parents)] \cap DOMAIN parents
<1> DEFINE k == Cardinality(DOMAIN parents)
           U == S \cup UNION {Range(parents[x]) : x \in DOMAIN parents}
           X == SUBSET U
           step == [p \in (1..k) \X X |-> Grown(parents, p[2])]
           Def(f) == f = [n \in 0..k |-> IF n = 0 THEN S ELSE Grown(parents, f[n-1])]
<1>1. k \in Nat
  BY FS_CardinalityType
<1>2. \A V \in SUBSET U : Grown(parents, V) \in SUBSET U
  BY DEF Grown
<1>3. step \in [(1..k) \X X -> X]
  BY <1>2
<1>4. S \in X
  OBVIOUS
<1>5. PICK f \in [0..k -> X] : Follows(f, k, S, step)
  <2> HIDE DEF k, X, step
  <2> QED BY <1>1, <1>3, <1>4, Recursion
<1>6. Def(f)
  <2>1. ASSUME NEW n \in 1..k PROVE f[n] = Grown(parents, f[n-1])
    <3>1. \A V \in X : step[<<n, V>>] = Grown(parents, V)
      OBVIOUS
    <3> HIDE DEF step, k, X
    <3>2. f[n-1] \in X
      BY <1>1
    <3> QED BY <1>5, <3>1, <3>2 DEF Follows
  <2>2. f[0] = S
    BY <1>5 DEF Follows
  <2> HIDE DEF step, k, X
  <2> QED BY <1>1, <2>1, <2>2
<1>7. \E g : Def(g)
  BY <1>6
<1>8. PICK w : Def(w) /\ Closure(parents, S) = w[k] \cap DOMAIN parents
  BY <1>7 DEF Closure, Grown
<1>9. IsWalk(w, parents, S, k)
  <2> HIDE DEF k
  <2> QED BY <1>1, <1>8 DEF IsWalk
<1> QED BY <1>8, <1>9

\* Induction up to k, for a set.
LEMMA UpTo ==
  ASSUME NEW k \in Nat, NEW T \in SUBSET (0..k), 0 \in T,
         \A n \in T : n < k => n + 1 \in T
  PROVE  T = 0..k
<1> DEFINE V == {n \in Nat : n <= k => n \in T}
<1>1. 0 \in V /\ \A n \in V : n + 1 \in V
  OBVIOUS
<1>2. V = Nat
  <2>1. V \in SUBSET Nat
    OBVIOUS
  <2> HIDE DEF V
  <2> QED BY <1>1, <2>1, SetInduction
<1>3. ASSUME NEW n \in 0..k PROVE n \in T
  BY <1>2
<1> QED BY <1>3

\* The closure stays within every set that has its start and is closed.
LEMMA ClosureStays ==
  ASSUME NEW parents, NEW S, IsFiniteSet(DOMAIN parents), NEW C, S \subseteq C,
         \A x \in C \cap DOMAIN parents : Range(parents[x]) \subseteq C
  PROVE  Closure(parents, S) \subseteq C
<1> DEFINE k == Cardinality(DOMAIN parents)
<1>1. k \in Nat
  BY FS_CardinalityType
<1>2. PICK w : IsWalk(w, parents, S, k) /\ Closure(parents, S) = w[k] \cap DOMAIN parents
  BY ClosureIsWalk
<1> DEFINE T == {n \in 0..k : w[n] \subseteq C}
<1> HIDE DEF k
<1>3. 0 \in T
  BY <1>1, <1>2 DEF IsWalk
<1>4. ASSUME NEW n \in T, n < k PROVE n + 1 \in T
  <2>1. n + 1 \in 1..k /\ (n + 1) - 1 = n /\ w[n] \subseteq C
    BY <1>1, <1>4
  <2>2. w[n+1] = Grown(parents, w[n])
    BY <2>1, <1>2 DEF IsWalk
  <2>3. w[n+1] \subseteq C
    BY <2>1, <2>2 DEF Grown
  <2> QED BY <2>1, <2>3
<1>5. T = 0..k
  <2> HIDE DEF T
  <2>1. T \in SUBSET (0..k)
    BY DEF T
  <2> QED BY <1>1, <1>3, <1>4, <2>1, UpTo
<1>6. k \in T
  BY <1>1, <1>5
<1> QED BY <1>2, <1>6

\* Only what has parents is in a closure.
LEMMA ClosureInDomain ==
  ASSUME NEW parents, NEW S, IsFiniteSet(DOMAIN parents)
  PROVE  Closure(parents, S) \subseteq DOMAIN parents
BY ClosureIsWalk

\* A closure has the starting points that have parents.
LEMMA ClosureStarts ==
  ASSUME NEW parents, NEW S, IsFiniteSet(DOMAIN parents)
  PROVE  S \cap DOMAIN parents \subseteq Closure(parents, S)
<1> DEFINE k == Cardinality(DOMAIN parents)
<1>1. k \in Nat
  BY FS_CardinalityType
<1>2. PICK w : IsWalk(w, parents, S, k) /\ Closure(parents, S) = w[k] \cap DOMAIN parents
  BY ClosureIsWalk
<1> DEFINE T == {n \in 0..k : S \subseteq w[n]}
<1> HIDE DEF k
<1>3. 0 \in T
  BY <1>1, <1>2 DEF IsWalk
<1>4. ASSUME NEW n \in T, n < k PROVE n + 1 \in T
  <2>1. n + 1 \in 1..k /\ (n + 1) - 1 = n /\ S \subseteq w[n]
    BY <1>1, <1>4
  <2>2. w[n+1] = Grown(parents, w[n])
    BY <2>1, <1>2 DEF IsWalk
  <2>3. S \subseteq w[n+1]
    BY <2>1, <2>2 DEF Grown
  <2> QED BY <2>1, <2>3
<1>5. T = 0..k
  <2> HIDE DEF T
  <2>1. T \in SUBSET (0..k)
    BY DEF T
  <2> QED BY <1>1, <1>3, <1>4, <2>1, UpTo
<1>6. k \in T
  BY <1>1, <1>5
<1> QED BY <1>2, <1>6

\* The walk takes as many steps as there are objects, so nothing is beyond it:
\* either a step found nothing new, or every step found another object.
LEMMA ClosureIsClosed ==
  ASSUME NEW parents, NEW S, IsFiniteSet(DOMAIN parents), NEW x \in Closure(parents, S)
  PROVE  Range(parents[x]) \cap DOMAIN parents \subseteq Closure(parents, S)
<1> DEFINE D == DOMAIN parents
           k == Cardinality(D)
           Closed(V) == \A y \in V \cap D : Range(parents[y]) \cap D \subseteq V
<1>1. k \in Nat
  BY FS_CardinalityType
<1>2. PICK w : IsWalk(w, parents, S, k) /\ Closure(parents, S) = w[k] \cap D
  BY ClosureIsWalk
<1> DEFINE T == {n \in 0..k : Closed(w[n]) \/ Cardinality(w[n] \cap D) >= n}
<1>3. \A V : IsFiniteSet(V \cap D) /\ Cardinality(V \cap D) \in Nat
  BY FS_Intersection, FS_CardinalityType
<1> HIDE DEF k
<1>4. 0 \in T
  BY <1>1, <1>3
<1>5. ASSUME NEW n \in T, n < k PROVE n + 1 \in T
  <2>1. n \in 0..k /\ n + 1 \in 1..k /\ n + 1 \in 0..k /\ (n + 1) - 1 = n
    BY <1>1, <1>5
  <2>2. w[n+1] = Grown(parents, w[n])
    BY <2>1, <1>2 DEF IsWalk
  <2>3. CASE Closed(w[n])
    <3>1. w[n+1] \cap D = w[n] \cap D
      BY <2>2, <2>3 DEF Grown
    <3>2. w[n] \subseteq w[n+1]
      BY <2>2 DEF Grown
    <3>3. Closed(w[n+1])
      BY <2>3, <3>1, <3>2
    <3> QED BY <2>1, <3>3
  <2>4. CASE ~Closed(w[n])
    <3>1. PICK y \in w[n] \cap D, z \in D : z \in Range(parents[y]) \ w[n]
      BY <2>4
    <3>2. (w[n] \cap D) \cup {z} \subseteq w[n+1] \cap D
      BY <2>2, <3>1 DEF Grown
    <3>3. /\ IsFiniteSet((w[n] \cap D) \cup {z})
          /\ Cardinality((w[n] \cap D) \cup {z}) = Cardinality(w[n] \cap D) + 1
      BY <1>3, <3>1, FS_AddElement
    <3>4. Cardinality((w[n] \cap D) \cup {z}) <= Cardinality(w[n+1] \cap D)
      BY <1>3, <3>2, FS_Subset
    <3>5. Cardinality(w[n] \cap D) >= n
      BY <1>5, <2>4
    <3>6. Cardinality(w[n+1] \cap D) >= n + 1
      <4> DEFINE a == Cardinality(w[n] \cap D)
                 b == Cardinality((w[n] \cap D) \cup {z})
                 e == Cardinality(w[n+1] \cap D)
      <4>1. a \in Nat /\ e \in Nat /\ b = a + 1 /\ b <= e /\ a >= n /\ n \in Nat
        <5>1. a \in Nat /\ e \in Nat
          BY <1>3
        <5>2. b = a + 1
          BY <3>3
        <5>3. b <= e
          BY <3>4
        <5>4. a >= n
          BY <3>5
        <5> QED BY <2>1, <5>1, <5>2, <5>3, <5>4
      <4> HIDE DEF a, b, e
      <4>2. e >= n + 1
        BY <4>1
      <4> QED BY <4>2 DEF e
    <3> QED BY <2>1, <3>6
  <2> QED BY <2>3, <2>4
<1>6. T = 0..k
  <2> HIDE DEF T
  <2>1. T \in SUBSET (0..k)
    BY DEF T
  <2> QED BY <1>1, <1>4, <1>5, <2>1, UpTo
<1>7. k \in T
  BY <1>1, <1>6
<1>8. Closed(w[k])
  <2>1. CASE Cardinality(w[k] \cap D) >= k
    <3>1. w[k] \cap D \in SUBSET D /\ Cardinality(w[k] \cap D) <= Cardinality(D)
      BY FS_Subset
    <3>2. Cardinality(w[k] \cap D) = Cardinality(D)
      BY <1>1, <1>3, <2>1, <3>1 DEF k
    <3>3. w[k] \cap D = D
      BY <3>1, <3>2, FS_Subset
    <3> QED BY <3>3
  <2> QED BY <1>7, <2>1
<1> QED BY <1>2, <1>8

-----------------------------------------------------------------------------
(* Selections of a sequence.                                               *)

\* The members of a sequence with one more.
LEMMA RangeOfAppend ==
  ASSUME NEW X, NEW s \in Seq(X), NEW e \in X
  PROVE  Range(Append(s, e)) = Range(s) \cup {e}
<1>1. /\ DOMAIN s = 1..Len(s) /\ Len(s) \in Nat
      /\ DOMAIN Append(s, e) = 1..(Len(s) + 1)
  <2>1. Append(s, e) \in Seq(X) /\ Len(Append(s, e)) = Len(s) + 1
    BY AppendProperties
  <2> QED BY <2>1, LenProperties
<1>2. /\ \A i \in 1..Len(s) : Append(s, e)[i] = s[i]
      /\ Append(s, e)[Len(s) + 1] = e
  BY AppendProperties
<1> QED BY <1>1, <1>2 DEF Range

Chosen(S, seq, n, v) == IF seq[n] \in S THEN Append(v, seq[n]) ELSE v

IsSelection(w, S, seq, k) ==
  w[0] = <<>> /\ \A n \in 1..k : w[n] = Chosen(S, seq, n, w[n-1])

\* The recursive function in Among exists, so that Among is its last value.
LEMMA AmongIsSelection ==
  ASSUME NEW S, NEW X, NEW seq \in Seq(X)
  PROVE  \E w : IsSelection(w, S, seq, Len(seq)) /\ Among(S, seq) = w[Len(seq)]
<1> DEFINE k == Len(seq)
           Y == Seq(X)
           step == [p \in (1..k) \X Y |-> Chosen(S, seq, p[1], p[2])]
           Def(f) == f = [n \in 0..k |-> IF n = 0 THEN <<>> ELSE Chosen(S, seq, n, f[n-1])]
<1>1. k \in Nat
  OBVIOUS
<1>2. \A n \in 1..k, v \in Y : Chosen(S, seq, n, v) \in Y
  BY DEF Chosen
<1>3. step \in [(1..k) \X Y -> Y]
  BY <1>2
<1>4. <<>> \in Y
  OBVIOUS
<1>5. PICK f \in [0..k -> Y] : Follows(f, k, <<>>, step)
  <2> HIDE DEF k, Y, step
  <2> QED BY <1>1, <1>3, <1>4, Recursion
<1>6. Def(f)
  <2>1. ASSUME NEW n \in 1..k PROVE f[n] = Chosen(S, seq, n, f[n-1])
    <3>1. \A v \in Y : step[<<n, v>>] = Chosen(S, seq, n, v)
      OBVIOUS
    <3> HIDE DEF step, k, Y
    <3>2. f[n-1] \in Y
      BY <1>1
    <3>3. f[n] = step[<<n, f[n-1]>>]
      BY <1>5 DEF Follows
    <3> QED BY <3>1, <3>2, <3>3
  <2>2. f[0] = <<>>
    BY <1>5 DEF Follows
  <2> HIDE DEF step, k, Y
  <2> QED BY <1>1, <2>1, <2>2
<1>7. \E g : Def(g)
  BY <1>6
<1>8. PICK w : Def(w) /\ Among(S, seq) = w[k]
  BY <1>7 DEF Among, Chosen
<1>9. IsSelection(w, S, seq, k)
  <2> HIDE DEF k
  <2> QED BY <1>1, <1>8 DEF IsSelection
<1> QED BY <1>8, <1>9

\* What Among keeps of a sequence.
LEMMA AmongKeeps ==
  ASSUME NEW S, NEW X, NEW seq \in Seq(X)
  PROVE  Among(S, seq) \in Seq(X \cap S) /\ Range(Among(S, seq)) = Range(seq) \cap S
<1> DEFINE k == Len(seq)
           Y == Seq(X \cap S)
<1>1. k \in Nat /\ DOMAIN seq = 1..k /\ \A i \in 1..k : seq[i] \in X
  OBVIOUS
<1>2. PICK w : IsSelection(w, S, seq, k) /\ Among(S, seq) = w[k]
  BY AmongIsSelection
<1> DEFINE Had(n) == {seq[i] : i \in 1..n} \cap S
           T == {n \in 0..k : w[n] \in Y /\ Range(w[n]) = Had(n)}
<1> HIDE DEF k
<1>3. 0 \in T
  <2>1. w[0] = <<>> /\ <<>> \in Y
    BY <1>2 DEF IsSelection
  <2>2. Range(<<>>) = {}
    BY DEF Range
  <2>3. Had(0) = {}
    OBVIOUS
  <2>4. w[0] \in Y /\ Range(w[0]) = Had(0)
    BY <2>1, <2>2, <2>3
  <2>5. 0 \in 0..k
    BY <1>1
  <2> HIDE DEF Had, Y
  <2> QED BY <2>4, <2>5
<1>4. ASSUME NEW n \in T, n < k PROVE n + 1 \in T
  <2>1. n + 1 \in 1..k /\ (n + 1) - 1 = n /\ w[n] \in Y /\ Range(w[n]) = Had(n)
    BY <1>1, <1>4
  <2>2. w[n+1] = IF seq[n+1] \in S THEN Append(w[n], seq[n+1]) ELSE w[n]
    BY <2>1, <1>2 DEF IsSelection, Chosen
  <2>3. Had(n+1) = Had(n) \cup ({seq[n+1]} \cap S)
    BY <1>1, <2>1
  <2> HIDE DEF Had
  <2>4. CASE seq[n+1] \in S
    <3>1. seq[n+1] \in X \cap S
      BY <1>1, <2>1, <2>4
    <3>2. w[n+1] \in Y /\ Range(w[n+1]) = Range(w[n]) \cup {seq[n+1]}
      BY <2>1, <2>2, <2>4, <3>1, RangeOfAppend, AppendProperties
    <3>3. {seq[n+1]} \cap S = {seq[n+1]}
      BY <2>4
    <3>4. w[n+1] \in Y /\ Range(w[n+1]) = Had(n+1)
      BY <2>1, <2>3, <3>2, <3>3
    <3> HIDE DEF Y
    <3> QED BY <1>1, <2>1, <3>4
  <2>5. CASE seq[n+1] \notin S
    <3>1. {seq[n+1]} \cap S = {} /\ w[n+1] = w[n]
      BY <2>2, <2>5
    <3>2. w[n+1] \in Y /\ Range(w[n+1]) = Had(n+1)
      BY <2>1, <2>3, <3>1
    <3> HIDE DEF Y
    <3> QED BY <1>1, <2>1, <3>2
  <2> QED BY <2>4, <2>5
<1>5. T = 0..k
  <2>1. T \in SUBSET (0..k)
    BY DEF T
  <2> HIDE DEF T
  <2> QED BY <1>1, <1>3, <1>4, <2>1, UpTo
<1>6. k \in T
  BY <1>1, <1>5
<1>7. Had(k) = Range(seq) \cap S
  BY <1>1 DEF Range
<1> QED BY <1>2, <1>6, <1>7

\* The closure is the least closed set: only what has parents counts.
LEMMA ClosureLeast ==
  ASSUME NEW parents, NEW S, IsFiniteSet(DOMAIN parents), NEW C,
         S \cap DOMAIN parents \subseteq C,
         \A x \in C \cap DOMAIN parents : Range(parents[x]) \cap DOMAIN parents \subseteq C
  PROVE  Closure(parents, S) \subseteq C
<1> DEFINE D == DOMAIN parents
           V == C \cup ((S \cup UNION {Range(parents[x]) : x \in D}) \ D)
<1>1. S \subseteq V
  OBVIOUS
<1>2. ASSUME NEW x \in V \cap D PROVE Range(parents[x]) \subseteq V
  <2>1. x \in C \cap D /\ Range(parents[x]) \cap D \subseteq C
    OBVIOUS
  <2>2. Range(parents[x]) \subseteq UNION {Range(parents[y]) : y \in D}
    OBVIOUS
  <2> QED BY <2>1, <2>2
<1>3. Closure(parents, S) \subseteq V
  <2> HIDE DEF V
  <2> QED BY <1>1, <1>2, ClosureStays
<1>4. Closure(parents, S) \subseteq D
  BY ClosureInDomain
<1> QED BY <1>3, <1>4

\* What is above a member of the closure is in the closure.
LEMMA ClosureTransitive ==
  ASSUME NEW parents, NEW S, IsFiniteSet(DOMAIN parents), NEW x \in Closure(parents, S)
  PROVE  Closure(parents, {x}) \subseteq Closure(parents, S)
<1>1. \A y \in Closure(parents, S) :
         Range(parents[y]) \cap DOMAIN parents \subseteq Closure(parents, S)
  BY ClosureIsClosed
<1> QED BY <1>1, ClosureLeast

\* A commit, and what is above its parents.
LEMMA ClosureUnfolds ==
  ASSUME NEW parents, IsFiniteSet(DOMAIN parents), NEW x \in DOMAIN parents
  PROVE  Closure(parents, {x}) =
           {x} \cup UNION {Closure(parents, {y}) : y \in Range(parents[x]) \cap DOMAIN parents}
<1> DEFINE D == DOMAIN parents
           Above(y) == Closure(parents, {y})
           V == {x} \cup UNION {Above(y) : y \in Range(parents[x]) \cap D}
<1>1. \A y \in D : y \in Above(y)
  BY ClosureStarts
<1>2. \A y \in D : \A z \in Above(y) : Range(parents[z]) \cap D \subseteq Above(y)
  BY ClosureIsClosed
<1>3. Above(x) \subseteq V
  <2>1. ASSUME NEW z \in V \cap D PROVE Range(parents[z]) \cap D \subseteq V
    <3> HIDE DEF Above
    <3>1. CASE z = x
      BY <1>1, <3>1
    <3>2. CASE z # x
      <4>1. PICK y \in Range(parents[x]) \cap D : z \in Above(y)
        BY <3>2
      <4> QED BY <1>2, <4>1
    <3> QED BY <3>1, <3>2
  <2>2. {x} \cap D \subseteq V
    OBVIOUS
  <2> HIDE DEF V
  <2> QED BY <2>1, <2>2, ClosureLeast DEF Above
<1>4. ASSUME NEW y \in Range(parents[x]) \cap D PROVE Above(y) \subseteq Above(x)
  <2>1. y \in Above(x)
    <3> HIDE DEF Above
    <3> QED BY <1>1, <1>2
  <2> QED BY <2>1, ClosureTransitive
<1>5. V \subseteq Above(x)
  <2> HIDE DEF Above
  <2> QED BY <1>1, <1>4
<1> QED BY <1>3, <1>5

-----------------------------------------------------------------------------
(* The graph of the retained commits.                                      *)

\* The retained commits are a graph of their own, older commits first.
RetainedGraph ==
  /\ DOMAIN retained \subseteq Commits
  /\ \A c \in DOMAIN retained : /\ retained[c] \in Seq(DOMAIN retained)
                                /\ \A p \in Range(retained[c]) : p < c

Anc(c) == Closure(retained, {c})

\* There are finitely many retained commits.
LEMMA RetainedFinite ==
  ASSUME RetainedGraph
  PROVE  IsFiniteSet(DOMAIN retained) /\ IsFiniteSet(Commits)
<1>1. IsFiniteSet(Commits)
  BY NAssumption, FS_Interval DEF Commits
<1> QED BY <1>1, FS_Subset DEF RetainedGraph

\* A retained commit is its own ancestor, and no ancestor is younger.
LEMMA AncIsBelow ==
  ASSUME RetainedGraph, NEW c \in DOMAIN retained
  PROVE  c \in Anc(c) /\ Anc(c) \subseteq DOMAIN retained /\ \A a \in Anc(c) : a <= c
<1>1. \A p \in DOMAIN retained : p \in Int
  BY NAssumption DEF RetainedGraph, Commits
<1> DEFINE C == {a \in DOMAIN retained : a <= c}
<1>2. {c} \cap DOMAIN retained \subseteq C
  BY <1>1
<1>3. \A x \in C \cap DOMAIN retained : Range(retained[x]) \cap DOMAIN retained \subseteq C
  BY <1>1 DEF RetainedGraph
<1>4. Anc(c) \subseteq C
  <2> HIDE DEF C
  <2> QED BY <1>2, <1>3, ClosureLeast, RetainedFinite DEF Anc
<1>5. c \in Anc(c)
  BY ClosureStarts, RetainedFinite DEF Anc
<1> QED BY <1>4, <1>5

\* Ancestors are the commit itself and those of its retained parents.
LEMMA AncUnfolds ==
  ASSUME RetainedGraph, NEW c \in DOMAIN retained
  PROVE  Anc(c) = {c} \cup UNION {Anc(p) : p \in Range(retained[c])}
<1>1. Range(retained[c]) \cap DOMAIN retained = Range(retained[c])
  BY RangeOfSeq DEF RetainedGraph
<1> QED BY <1>1, ClosureUnfolds, RetainedFinite DEF Anc

\* The ancestors of an ancestor are ancestors.
LEMMA AncTransitive ==
  ASSUME RetainedGraph, NEW c \in DOMAIN retained, NEW a \in Anc(c)
  PROVE  Anc(a) \subseteq Anc(c)
BY ClosureTransitive, RetainedFinite DEF Anc

-----------------------------------------------------------------------------
(* What the pass of git filter-repo makes of them.                         *)

Fate == [to : 0..N, parents : Seq(Commits), above : SUBSET Commits]

\* The commits that pruning left, and what it did to a commit.
Stay(after) == {c \in DOMAIN after : after[c].to = c}
FateOf(after, c) ==
  /\ after[c].to \in Stay(after) \cup {0}
  /\ Content(c) = Content(after[c].to)
  /\ Range(after[c].parents) \subseteq Stay(after)
  /\ \A p \in Range(after[c].parents) : p < c
  /\ after[c].above = Stay(after) \cap Anc(c)
  /\ after[c].above = IF after[c].to = 0 THEN {} ELSE after[after[c].to].above
  /\ after[c].to = c =>
       after[c].above = {c} \cup UNION {after[p].above : p \in Range(after[c].parents)}

Survived(after, n) ==
  /\ after \in [DOMAIN retained \cap 1..n -> Fate]
  /\ \A c \in DOMAIN after : FateOf(after, c)

Passed(after, n) ==
  IF n \in DOMAIN retained THEN With(after, n, Survive(after, n)) ELSE after

\* The pass adds one commit to the function and leaves the others as they are.
LEMMA PassedFunction ==
  ASSUME RetainedGraph, NEW n \in DOMAIN retained, NEW after, DOMAIN after = DOMAIN retained \cap 1..(n-1)
  PROVE  /\ DOMAIN Passed(after, n) = DOMAIN retained \cap 1..n
         /\ Passed(after, n) = [c \in DOMAIN Passed(after, n) |-> Passed(after, n)[c]]
         /\ Passed(after, n)[n] = Survive(after, n)
         /\ \A c \in DOMAIN after : Passed(after, n)[c] = after[c]
<1>1. n \in Int /\ n >= 1
  BY NAssumption DEF RetainedGraph, Commits
<1> DEFINE s == Survive(after, n)
           g == With(after, n, s)
<1>2. Passed(after, n) = g
  BY DEF Passed
<1>3. /\ DOMAIN g = DOMAIN after \cup {n}
      /\ g = [c \in DOMAIN g |-> g[c]]
      /\ g[n] = s
      /\ \A c \in DOMAIN after \ {n} : g[c] = after[c]
  <2> HIDE DEF s
  <2> QED BY DEF Over, With
<1>4. n \notin DOMAIN after /\ DOMAIN after \cup {n} = DOMAIN retained \cap 1..n
  BY <1>1
<1> HIDE DEF g
<1> QED BY <1>2, <1>3, <1>4

\* The parents of a commit, before and after they moved.
LEMMA MovedParents ==
  ASSUME RetainedGraph, NEW n \in DOMAIN retained, NEW after, Survived(after, n - 1)
  PROVE  /\ DOMAIN after = DOMAIN retained \cap 1..(n-1)
         /\ \A i \in DOMAIN retained[n] :
              /\ retained[n][i] \in DOMAIN after /\ FateOf(after, retained[n][i])
              /\ Moved(after, n)[i] = after[retained[n][i]].to
              /\ Moved(after, n)[i] \in Stay(after) \cup {0}
         /\ Moved(after, n) \in Seq(0..N)
         /\ DOMAIN Moved(after, n) = DOMAIN retained[n]
         /\ \A i \in Left(after, n) : /\ i \in DOMAIN retained[n]
                                      /\ Moved(after, n)[i] \in Stay(after)
         /\ Stay(after) \subseteq DOMAIN after /\ 0 \notin Stay(after)
<1>1. n \in Int /\ n >= 1 /\ DOMAIN retained \subseteq 1..N /\ N \in Nat
  BY NAssumption DEF RetainedGraph, Commits
<1>2. DOMAIN after = DOMAIN retained \cap 1..(n-1) /\ \A c \in DOMAIN after : FateOf(after, c)
  BY DEF Survived
<1>3. /\ Len(retained[n]) \in Nat /\ DOMAIN retained[n] = 1..Len(retained[n])
      /\ \A i \in DOMAIN retained[n] : retained[n][i] \in DOMAIN retained /\ retained[n][i] < n
  BY DEF RetainedGraph, Range
<1>4. \A i \in DOMAIN retained[n] : retained[n][i] \in DOMAIN after /\ FateOf(after, retained[n][i])
  BY <1>1, <1>2, <1>3
<1>5. Stay(after) \subseteq DOMAIN after /\ 0 \notin Stay(after)
  BY <1>1, <1>2 DEF Stay
<1>6. \A i \in DOMAIN retained[n] : /\ Moved(after, n)[i] = after[retained[n][i]].to
                                    /\ Moved(after, n)[i] \in Stay(after) \cup {0}
  BY <1>4 DEF Moved, FateOf
<1>7. DOMAIN Moved(after, n) = DOMAIN retained[n]
  BY DEF Moved
<1>8. Moved(after, n) \in Seq(0..N)
  <2>1. \A i \in 1..Len(retained[n]) : after[retained[n][i]].to \in 0..N
    BY <1>1, <1>2, <1>3, <1>5, <1>6
  <2>2. Moved(after, n) = [i \in 1..Len(retained[n]) |-> after[retained[n][i]].to]
    BY <1>3 DEF Moved
  <2>3. Moved(after, n) \in [1..Len(retained[n]) -> 0..N]
    BY <2>1, <2>2
  <2> QED BY <1>3, <2>3, SeqDef
<1>9. \A i \in Left(after, n) : i \in DOMAIN retained[n] /\ Moved(after, n)[i] \in Stay(after)
  BY <1>6 DEF Left
<1> QED BY <1>2, <1>4, <1>5, <1>6, <1>7, <1>8, <1>9

\* Of the parents that are left, one that is not idle is above each other one:
\* the last of those above it that did not move, or else the first.
LEMMA NotIdle ==
  ASSUME RetainedGraph, NEW n \in DOMAIN retained, NEW after, Survived(after, n - 1),
         NEW i \in Left(after, n)
  PROVE  \E j \in Left(after, n) : /\ ~Idle(after, n, j)
                                   /\ Moved(after, n)[i] \in after[Moved(after, n)[j]].above
<1> DEFINE new == Moved(after, n)
           left == Left(after, n)
           old == retained[n]
           B == {j \in left : new[i] \in after[new[j]].above}
<1>1. /\ \A j \in left : new[j] \in Stay(after) /\ j \in DOMAIN old
      /\ DOMAIN after = DOMAIN retained \cap 1..(n-1)
      /\ Stay(after) \subseteq DOMAIN after
  BY MovedParents
<1>2. DOMAIN old = 1..Len(old) /\ Len(old) \in Nat /\ DOMAIN retained \subseteq Nat /\ n \in Nat
  BY NAssumption DEF RetainedGraph, Commits
<1>3. \A a \in Stay(after) : after[a].above = Stay(after) \cap Anc(a)
  BY <1>1 DEF Survived, FateOf
<1>4. \A a \in Stay(after), b \in Stay(after) :
         /\ a \in after[a].above
         /\ a \in after[b].above => a <= b /\ after[a].above \subseteq after[b].above
  BY <1>1, <1>2, <1>3, AncIsBelow, AncTransitive
<1> HIDE DEF new, left, old
<1>5. i \in B
  BY <1>1, <1>4 DEF left
<1>6. PICK m \in {new[j] : j \in B} : \A k \in B : new[k] <= m
  <2> DEFINE V == {n - new[j] : j \in B}
  <2>1. \A j \in B : new[j] \in Nat /\ n - new[j] \in Nat
    BY <1>1, <1>2
  <2>2. V \in SUBSET Nat /\ V # {}
    BY <1>5, <2>1
  <2>3. PICK v \in V : \A u \in V : v <= u
    <3> HIDE DEF V
    <3> QED BY <2>2, Least
  <2>4. PICK j \in B : v = n - new[j]
    OBVIOUS
  <2>5. \A k \in B : n - new[j] <= n - new[k]
    BY <2>3, <2>4
  <2>6. \A k \in B : new[k] <= new[j]
    BY <1>2, <2>1, <2>5
  <2> QED BY <2>6
<1>7. \A j \in B : \A k \in left : new[j] \in after[new[k]].above => k \in B
  BY <1>1, <1>4
<1>8. CASE \E j \in B : new[j] = m /\ new[j] = old[j]
  <2>1. PICK j \in B : new[j] = old[j]
    BY <1>8
  <2>2. ~Idle(after, n, j)
    BY <2>1 DEF Idle, new, old
  <2> QED BY <2>1, <2>2 DEF left, new
<1>9. CASE \A j \in B : new[j] = m => new[j] # old[j]
  <2> DEFINE V == {j \in B : new[j] = m}
  <2>1. V \in SUBSET Nat /\ V # {}
    BY <1>1, <1>2, <1>6
  <2>2. PICK j \in V : \A k \in V : j <= k
    <3> HIDE DEF V
    <3> QED BY <2>1, Least
  <2>3. j \in B /\ new[j] = m /\ j \in left /\ j \in Nat
    BY <2>1
  <2>4. ASSUME Idle(after, n, j) PROVE FALSE
    <3>1. PICK k \in left \ {j} : /\ new[j] \in after[new[k]].above
                                  /\ new[j] = new[k] => k < j \/ new[k] = old[k]
      BY <2>4 DEF Idle, left, new, old
    <3>2. k \in B
      BY <1>7, <2>3, <3>1
    <3>3. new[j] <= new[k] /\ new[k] <= m
      BY <1>1, <1>4, <1>6, <2>3, <3>1, <3>2
    <3>4. new[k] = m
      BY <1>1, <1>2, <2>3, <3>2, <3>3
    <3>5. k < j
      BY <1>9, <2>3, <3>1, <3>2, <3>4
    <3>6. k \in V
      BY <3>2, <3>4
    <3>7. k \in Nat /\ j <= k
      BY <2>1, <2>2, <3>6
    <3> QED BY <2>3, <3>5, <3>7
  <2> QED BY <2>3, <2>4 DEF left, new
<1> QED BY <1>8, <1>9

\* What is above the parents that are left.
AboveLeft(after, n) == UNION {after[Moved(after, n)[i]].above : i \in Left(after, n)}

\* What is above the parents that are left is what is left above the parents.
LEMMA AboveParents ==
  ASSUME RetainedGraph, NEW n \in DOMAIN retained, NEW after, Survived(after, n - 1)
  PROVE  AboveLeft(after, n) = Stay(after) \cap UNION {Anc(p) : p \in Range(retained[n])}
<1> DEFINE new == Moved(after, n)
           old == retained[n]
<1>1. ASSUME NEW i \in DOMAIN old
      PROVE  Stay(after) \cap Anc(old[i]) = IF new[i] = 0 THEN {} ELSE after[new[i]].above
  <2>1. FateOf(after, old[i]) /\ new[i] = after[old[i]].to
    <3>1. \A k \in DOMAIN retained[n] : FateOf(after, retained[n][k])
      BY MovedParents
    <3>2. \A k \in DOMAIN retained[n] : Moved(after, n)[k] = after[retained[n][k]].to
      BY DEF Moved
    <3> QED BY <3>1, <3>2
  <2>2. /\ after[old[i]].above = Stay(after) \cap Anc(old[i])
        /\ after[old[i]].above = IF new[i] = 0 THEN {} ELSE after[new[i]].above
    <3> HIDE DEF new
    <3> QED BY <2>1 DEF FateOf
  <2> HIDE DEF new, old
  <2> QED BY <2>2
<1>2. Left(after, n) = {i \in DOMAIN old : new[i] # 0}
  BY DEF Left
<1> HIDE DEF new, old
<1>3. AboveLeft(after, n) = UNION {Stay(after) \cap Anc(old[i]) : i \in DOMAIN old}
  <2>1. AboveLeft(after, n) = UNION {after[new[i]].above : i \in Left(after, n)}
    BY DEF AboveLeft, new
  <2> QED BY <1>1, <1>2, <2>1
<1>4. Range(old) = {old[i] : i \in DOMAIN old}
  BY DEF Range
<1> QED BY <1>3, <1>4 DEF old

\* The only parent that is left, unless there is none, is left; a parent that is
\* dropped as redundant has nothing above it that the others have not.
LEMMA TipIsLeft ==
  ASSUME RetainedGraph, NEW n \in DOMAIN retained, NEW after, Survived(after, n - 1)
  PROVE  /\ TipLeft(after, n) \in Stay(after) \cup {0}
         /\ Cardinality(TipsLeft(after, n)) <= 1 =>
              AboveLeft(after, n) = IF TipLeft(after, n) = 0 THEN {}
                                    ELSE after[TipLeft(after, n)].above
<1> DEFINE new == Moved(after, n)
           tips == TipsLeft(after, n)
           t == TipLeft(after, n)
<1>1. tips = {new[i] : i \in {k \in Left(after, n) : ~Idle(after, n, k)}}
  BY DEF TipsLeft
<1>2. tips \subseteq Stay(after) /\ 0 \notin Stay(after)
  <2>1. \A i \in Left(after, n) : new[i] \in Stay(after)
    BY MovedParents
  <2>2. 0 \notin Stay(after)
    BY MovedParents
  <2> HIDE DEF new, tips
  <2> QED BY <1>1, <2>1, <2>2
<1>3. t = IF tips = {} THEN 0 ELSE CHOOSE p \in tips : TRUE
  BY DEF TipLeft
<1> HIDE DEF tips, t
<1>4. tips # {} => t \in tips
  BY <1>3
<1>5. tips = {} => t = 0
  BY <1>3
<1>6. t \in Stay(after) \cup {0}
  BY <1>2, <1>4, <1>5
<1>7. ASSUME Cardinality(tips) <= 1
      PROVE  AboveLeft(after, n) = IF t = 0 THEN {} ELSE after[t].above
  <2>1. IsFiniteSet(tips) /\ Cardinality(tips) \in Nat
    <3>1. tips \subseteq DOMAIN retained
      BY <1>2, MovedParents
    <3> QED BY <3>1, RetainedFinite, FS_Subset, FS_CardinalityType
  <2>2. Cardinality(tips) = 0 \/ Cardinality(tips) = 1
    BY <1>7, <2>1
  <2>3. tips = {} \/ tips = {t}
    <3>1. Cardinality(tips) = 0 => tips = {}
      BY <2>1, FS_EmptySet
    <3>2. Cardinality(tips) = 1 => \E x : tips = {x}
      BY <2>1, FS_Singleton
    <3> QED BY <1>4, <2>2, <3>1, <3>2
  <2>4. \A i \in Left(after, n) :
          \E j \in Left(after, n) : /\ new[j] \in tips /\ new[i] \in after[new[j]].above
    BY <1>1, NotIdle
  <2>5. AboveLeft(after, n) = UNION {after[new[i]].above : i \in Left(after, n)}
    BY DEF AboveLeft
  <2>6. \A i \in Left(after, n) : new[i] \in Stay(after)
    BY MovedParents
  <2>7. /\ \A a \in Stay(after) : after[a].above = Stay(after) \cap Anc(a) /\ a \in DOMAIN retained
    BY MovedParents DEF Survived, FateOf
  <2>8. \A a, b \in Stay(after) : a \in after[b].above => after[a].above \subseteq after[b].above
    BY <2>7, AncTransitive
  <2> HIDE DEF new
  <2>9. CASE tips = {}
    <3>1. Left(after, n) = {}
      BY <2>4, <2>9
    <3> QED BY <1>5, <2>5, <2>9, <3>1
  <2>10. CASE tips = {t}
    <3>1. \A i \in Left(after, n) : new[i] \in after[t].above
      BY <2>4, <2>10
    <3>2. t \in Stay(after) /\ t # 0
      BY <1>2, <2>10
    <3>3. \A i \in Left(after, n) : after[new[i]].above \subseteq after[t].above
      BY <2>6, <2>8, <3>1, <3>2
    <3>4. \E i \in Left(after, n) : new[i] = t
      BY <1>1, <2>10 DEF new
    <3> QED BY <2>5, <3>2, <3>3, <3>4
  <2> QED BY <2>3, <2>9, <2>10
<1> QED BY <1>6, <1>7 DEF t, tips

\* What the pass makes of one commit.
LEMMA SurvivesOne ==
  ASSUME RetainedGraph, NEW n \in DOMAIN retained, NEW after, Survived(after, n - 1)
  PROVE  LET s == Survive(after, n)
             others == Stay(after) \cap UNION {Anc(p) : p \in Range(retained[n])}
         IN  /\ s \in Fate
             /\ s.to \in Stay(after) \cup {0, n}
             /\ Content(n) = Content(s.to)
             /\ Range(s.parents) \subseteq Stay(after)
             /\ s.to # n => s.above = others /\ s.above = IF s.to = 0 THEN {} ELSE after[s.to].above
             /\ s.to = n => /\ s.above = {n} \cup others
                            /\ s.above = {n} \cup UNION {after[p].above : p \in Range(s.parents)}
<1> DEFINE s == Survive(after, n)
           new == Moved(after, n)
           t == TipLeft(after, n)
           kept == Among(Commits, new)
           goes == Cardinality(TipsLeft(after, n)) <= 1 /\ Content(n) = Content(t)
           above == IF t = 0 THEN {} ELSE after[t].above
           all == {n} \cup UNION {after[p].above : p \in Range(kept)}
           others == Stay(after) \cap UNION {Anc(p) : p \in Range(retained[n])}
<1>1. s = IF goes THEN [to |-> t, parents |-> <<>>, above |-> above]
          ELSE [to |-> n, parents |-> kept, above |-> all]
  BY DEF Survive
<1>2. /\ Stay(after) \subseteq DOMAIN after /\ 0 \notin Stay(after)
      /\ DOMAIN after = DOMAIN retained \cap 1..(n-1)
  BY MovedParents
<1>3. n \in Commits /\ n \notin Stay(after) /\ n # 0 /\ Stay(after) \subseteq Commits /\ 0 \in 0..N
      /\ Commits \subseteq 0..N
  BY <1>2, NAssumption DEF RetainedGraph, Commits
<1>4. \A p \in Stay(after) : after[p].above \subseteq Commits
  BY <1>2 DEF Survived, Fate
<1>5. kept \in Seq(Commits) /\ Range(kept) = {new[i] : i \in Left(after, n)}
  <2>1. new \in Seq(0..N)
    BY MovedParents
  <2>2. kept \in Seq((0..N) \cap Commits) /\ Range(kept) = Range(new) \cap Commits
    <3> HIDE DEF new
    <3> QED BY <2>1, AmongKeeps
  <2>3. (0..N) \cap Commits = Commits
    BY <1>3
  <2>4. Range(new) \cap Commits = {new[i] : i \in Left(after, n)}
    <3>1. DOMAIN new = DOMAIN retained[n]
      BY MovedParents
    <3>2. Left(after, n) = {i \in DOMAIN retained[n] : new[i] # 0}
      BY DEF Left
    <3>3. \A i \in Left(after, n) : new[i] \in Stay(after)
      BY MovedParents
    <3>4. Range(new) = {new[i] : i \in DOMAIN new}
      BY DEF Range
    <3>5. 0 \notin Commits
      BY DEF Commits
    <3> HIDE DEF new
    <3> QED BY <1>3, <3>1, <3>2, <3>3, <3>4, <3>5
  <2> HIDE DEF kept
  <2> QED BY <2>2, <2>3, <2>4
<1>6. Range(kept) \subseteq Stay(after)
  <2>1. \A i \in Left(after, n) : new[i] \in Stay(after)
    BY MovedParents
  <2> HIDE DEF new, kept
  <2> QED BY <1>5, <2>1
<1>7. AboveLeft(after, n) = others
  BY AboveParents
<1>8. UNION {after[p].above : p \in Range(kept)} = AboveLeft(after, n)
  <2> HIDE DEF kept
  <2> QED BY <1>5 DEF AboveLeft
<1>9. t \in Stay(after) \cup {0}
  BY TipIsLeft
<1>10. goes => above = others
  <2>1. Cardinality(TipsLeft(after, n)) <= 1 => AboveLeft(after, n) = above
    BY TipIsLeft
  <2> HIDE DEF above, others, t
  <2> QED BY <1>7, <2>1
<1> HIDE DEF others, kept, t
<1>11. CASE goes
  <2>1. /\ s.to = t /\ s.parents = <<>> /\ s.above = above
        /\ s = [to |-> t, parents |-> <<>>, above |-> above]
    <3> HIDE DEF above, goes
    <3> QED BY <1>1, <1>11
  <2>2. above \subseteq Commits
    BY <1>4, <1>9
  <2>3. s \in Fate
    <3>1. t \in 0..N /\ <<>> \in Seq(Commits)
      BY <1>3, <1>9
    <3> HIDE DEF above, s
    <3> QED BY <2>1, <2>2, <3>1 DEF Fate
  <2>4. Content(n) = Content(s.to) /\ s.to # n
    BY <1>3, <1>9, <1>11, <2>1
  <2>5. Range(s.parents) = {}
    <3> HIDE DEF s
    <3> QED BY <2>1 DEF Range
  <2>6. s.above = IF s.to = 0 THEN {} ELSE after[s.to].above
    <3> HIDE DEF s
    <3> QED BY <2>1
  <2> HIDE DEF above, goes, s
  <2>7. s.to \in Stay(after) \cup {0, n}
    BY <1>9, <2>1
  <2>8. s.above = others
    BY <1>10, <1>11, <2>1
  <2> QED BY <2>3, <2>4, <2>5, <2>6, <2>7, <2>8 DEF s, others
<1>12. CASE ~goes
  <2>1. /\ s.to = n /\ s.parents = kept /\ s.above = all
        /\ s = [to |-> n, parents |-> kept, above |-> all]
    <3> HIDE DEF all, above, goes
    <3> QED BY <1>1, <1>12
  <2>2. all \subseteq Commits
    BY <1>3, <1>4, <1>6
  <2>3. s \in Fate
    <3>1. n \in 0..N
      BY <1>3
    <3> HIDE DEF all, s
    <3> QED BY <1>5, <2>1, <2>2, <3>1 DEF Fate
  <2>4. all = {n} \cup others
    <3> HIDE DEF others
    <3> QED BY <1>7, <1>8
  <2>5. s.above = {n} \cup UNION {after[p].above : p \in Range(s.parents)}
    <3> HIDE DEF s
    <3> QED BY <2>1
  <2> HIDE DEF all, goes, s
  <2>6. /\ Content(n) = Content(s.to) /\ s.to \in Stay(after) \cup {0, n}
        /\ Range(s.parents) \subseteq Stay(after)
        /\ s.above = {n} \cup others
    BY <1>6, <2>1, <2>4
  <2> QED BY <2>1, <2>3, <2>5, <2>6 DEF s, others
<1> QED BY <1>11, <1>12

\* One more commit, in or out of the retained ones, leaves everything so.
LEMMA PassedKeeps ==
  ASSUME RetainedGraph, NEW n \in Commits, NEW after, Survived(after, n - 1)
  PROVE  Survived(Passed(after, n), n)
<1> DEFINE g == Passed(after, n)
           s == Survive(after, n)
<1>1. n \in Nat /\ n >= 1 /\ 0 \notin Commits
  BY NAssumption DEF Commits
<1>2. CASE n \notin DOMAIN retained
  <2>1. g = after /\ DOMAIN retained \cap 1..n = DOMAIN retained \cap 1..(n-1)
    BY <1>1, <1>2 DEF Passed
  <2> QED BY <2>1 DEF Survived
<1>3. CASE n \in DOMAIN retained
  <2>1. /\ after \in [DOMAIN retained \cap 1..(n-1) -> Fate]
        /\ DOMAIN after = DOMAIN retained \cap 1..(n-1)
        /\ \A c \in DOMAIN after : FateOf(after, c)
    BY DEF Survived
  <2>2. /\ DOMAIN g = DOMAIN retained \cap 1..n
        /\ g = [c \in DOMAIN g |-> g[c]]
        /\ g[n] = s
        /\ \A c \in DOMAIN after : g[c] = after[c]
    <3> HIDE DEF g, s
    <3>1. DOMAIN g = DOMAIN retained \cap 1..n
      BY <1>3, <2>1, PassedFunction DEF g
    <3>2. g = [c \in DOMAIN g |-> g[c]]
      BY <1>3, <2>1, PassedFunction DEF g
    <3>3. g[n] = s
      BY <1>3, <2>1, PassedFunction DEF g, s
    <3>4. n \notin DOMAIN after
      BY <1>1, <2>1
    <3>5. \A c \in DOMAIN after : g[c] = after[c]
      BY <1>3, <3>4 DEF g, Passed, With, Over
    <3> QED BY <3>1, <3>2, <3>3, <3>5
  <2>3. DOMAIN g = DOMAIN after \cup {n} /\ n \notin DOMAIN after
    BY <1>1, <1>3, <2>1, <2>2
  <2> DEFINE others == Stay(after) \cap UNION {Anc(p) : p \in Range(retained[n])}
  <2>4. /\ s \in Fate
        /\ s.to \in Stay(after) \cup {0, n}
        /\ Content(n) = Content(s.to)
        /\ Range(s.parents) \subseteq Stay(after)
        /\ s.to # n => s.above = others /\ s.above = IF s.to = 0 THEN {} ELSE after[s.to].above
        /\ s.to = n => /\ s.above = {n} \cup others
                       /\ s.above = {n} \cup UNION {after[p].above : p \in Range(s.parents)}
    BY <1>3, SurvivesOne
  <2> HIDE DEF g, s
  <2>5. g \in [DOMAIN retained \cap 1..n -> Fate]
    BY <2>1, <2>2, <2>3, <2>4
  <2>6. Stay(g) = Stay(after) \cup (IF s.to = n THEN {n} ELSE {})
    BY <2>2, <2>3 DEF Stay
  <2>7. Stay(after) \subseteq DOMAIN after /\ 0 \notin DOMAIN after /\ DOMAIN after \subseteq DOMAIN retained
    BY <2>1 DEF Stay
  <2>8. \A c \in DOMAIN after : n \notin Anc(c)
    BY <1>1, <2>1, AncIsBelow
  <2>9. ASSUME NEW c \in DOMAIN after PROVE FateOf(g, c)
    <3>1. FateOf(after, c) /\ g[c] = after[c] /\ c # n
      BY <2>1, <2>2, <2>3
    <3>2. Stay(g) \cap Anc(c) = Stay(after) \cap Anc(c)
      BY <2>6, <2>8
    <3>3. /\ after[c].to \in Stay(after) \cup {0}
          /\ after[c].to # 0 => g[after[c].to] = after[after[c].to]
          /\ Range(after[c].parents) \subseteq Stay(after)
          /\ \A p \in Range(after[c].parents) : g[p] = after[p]
      BY <2>2, <2>7, <3>1 DEF FateOf
    <3>4. UNION {g[p].above : p \in Range(g[c].parents)}
            = UNION {after[p].above : p \in Range(after[c].parents)}
      BY <3>1, <3>3
    <3>5. g[c].to \in Stay(g) \cup {0} /\ Content(c) = Content(g[c].to)
      BY <2>6, <3>1 DEF FateOf
    <3>6. Range(g[c].parents) \subseteq Stay(g) /\ g[c].above = Stay(g) \cap Anc(c)
      BY <2>6, <3>1, <3>2 DEF FateOf
    <3>7. g[c].above = IF g[c].to = 0 THEN {} ELSE g[g[c].to].above
      BY <3>1, <3>3 DEF FateOf
    <3>8. g[c].to = c =>
            g[c].above = {c} \cup UNION {g[p].above : p \in Range(g[c].parents)}
      BY <3>1, <3>4 DEF FateOf
    <3>9. \A p \in Range(g[c].parents) : p < c
      BY <3>1 DEF FateOf
    <3> QED BY <3>5, <3>6, <3>7, <3>8, <3>9 DEF FateOf
  <2>10. FateOf(g, n)
    <3>1. Anc(n) = {n} \cup UNION {Anc(p) : p \in Range(retained[n])}
      BY <1>3, AncUnfolds
    <3>2. Stay(g) \cap Anc(n) = others \cup (IF s.to = n THEN {n} ELSE {})
      <4>1. \A p \in Range(retained[n]) : n \notin Anc(p)
        <5>1. \A p \in Range(retained[n]) : p \in DOMAIN retained /\ p < n
          BY <1>3, RangeOfSeq DEF RetainedGraph
        <5> QED BY <1>1, <1>3, <5>1, AncIsBelow DEF RetainedGraph, Commits
      <4>2. n \notin Stay(after)
        BY <2>3, <2>7
      <4> QED BY <2>6, <3>1, <4>1, <4>2
    <3>3. \A p \in Stay(after) : g[p] = after[p]
      BY <2>2, <2>7
    <3>4. UNION {g[p].above : p \in Range(s.parents)} = UNION {after[p].above : p \in Range(s.parents)}
      BY <2>4, <3>3
    <3>5. g[n].to \in Stay(g) \cup {0} /\ Content(n) = Content(g[n].to)
      BY <2>2, <2>4, <2>6
    <3>6. Range(g[n].parents) \subseteq Stay(g)
      BY <2>2, <2>4, <2>6
    <3> HIDE DEF others
    <3>7. g[n].above = Stay(g) \cap Anc(n)
      BY <2>2, <2>4, <3>2
    <3>8. g[n].above = IF g[n].to = 0 THEN {} ELSE g[g[n].to].above
      <4>1. CASE s.to = n
        BY <1>1, <2>2, <4>1
      <4>2. CASE s.to # n
        BY <2>2, <2>4, <3>3, <4>2
      <4> QED BY <4>1, <4>2
    <3>9. g[n].to = n => g[n].above = {n} \cup UNION {g[p].above : p \in Range(g[n].parents)}
      BY <2>2, <2>4, <3>4
    <3>10. \A p \in Range(g[n].parents) : p < n
      <4>1. \A p \in DOMAIN after : p < n
        BY <1>1, <2>1
      <4> QED BY <2>2, <2>4, <2>7, <4>1
    <3> QED BY <3>5, <3>6, <3>7, <3>8, <3>9, <3>10 DEF FateOf
  <2>11. \A c \in DOMAIN g : FateOf(g, c)
    BY <2>3, <2>9, <2>10
  <2> QED BY <2>5, <2>11 DEF Survived, g
<1> QED BY <1>2, <1>3

\* What git filter-repo's pass makes of the retained commits.
LEMMA SurvivingHolds ==
  ASSUME RetainedGraph
  PROVE  Survived(Surviving, N)
<1> DEFINE X == UNION {[D -> Fate] : D \in SUBSET Commits}
           Sound(n, after) == IF Passed(after, n) \in X THEN Passed(after, n) ELSE after
           step == [p \in (1..N) \X X |-> Sound(p[1], p[2])]
           Def(f) == f = [n \in 0..N |-> IF n = 0 THEN <<>> ELSE Passed(f[n-1], n)]
<1>1. N \in Nat /\ Commits = 1..N
  BY NAssumption DEF Commits
<1>2. step \in [(1..N) \X X -> X]
  <2>1. \A n \in 1..N, after \in X : Sound(n, after) \in X
    <3> HIDE DEF X
    <3> QED OBVIOUS
  <2> HIDE DEF X, Sound
  <2> QED BY <2>1
<1>3. <<>> \in X /\ Survived(<<>>, 0)
  <2>1. <<>> \in [{} -> Fate]
    OBVIOUS
  <2>2. {} \in SUBSET Commits /\ DOMAIN retained \cap 1..0 = {}
    OBVIOUS
  <2> QED BY <2>1, <2>2 DEF Survived
<1>4. \A n \in 0..N : \A after : Survived(after, n) => after \in X
  BY DEF Survived, RetainedGraph
<1>5. PICK f \in [0..N -> X] : Follows(f, N, <<>>, step)
  <2> HIDE DEF X, step
  <2> QED BY <1>1, <1>2, <1>3, Recursion
<1>6. ASSUME NEW w, w[0] = <<>>, NEW T \in SUBSET (0..N), T = {n \in 0..N : Survived(w[n], n)},
             \A n \in T : n < N => w[n+1] = Passed(w[n], n+1)
      PROVE  T = 0..N
  <2>1. 0 \in T
    BY <1>1, <1>3, <1>6
  <2>2. ASSUME NEW n \in T, n < N PROVE n + 1 \in T
    <3>1. n + 1 \in Commits /\ (n + 1) - 1 = n /\ n + 1 \in 0..N
      BY <1>1, <2>2
    <3>2. Survived(w[n], (n + 1) - 1) /\ w[n+1] = Passed(w[n], n+1)
      BY <1>6, <2>2, <3>1
    <3>3. Survived(w[n+1], n+1)
      BY <3>1, <3>2, PassedKeeps
    <3> QED BY <1>6, <3>1, <3>3
  <2> QED BY <1>1, <2>1, <2>2, UpTo
<1>7. \A n \in 1..N : f[n] = Passed(f[n-1], n)
  <2> DEFINE T == {n \in 0..N : Survived(f[n], n)}
  <2>1. \A n \in 1..N : f[n] = Sound(n, f[n-1])
    <3>1. \A n \in 1..N, after \in X : step[<<n, after>>] = Sound(n, after)
      <4> HIDE DEF X, Sound
      <4> QED OBVIOUS
    <3> HIDE DEF step, X, Sound
    <3>2. \A n \in 1..N : f[n-1] \in X
      BY <1>1
    <3> QED BY <1>5, <3>1, <3>2 DEF Follows
  <2>2. f[0] = <<>>
    BY <1>5 DEF Follows
  <2>3. ASSUME NEW n \in T, n < N PROVE f[n+1] = Passed(f[n], n+1)
    <3>1. n + 1 \in Commits /\ (n + 1) - 1 = n /\ n + 1 \in 0..N /\ Survived(f[n], n)
      BY <1>1, <2>3
    <3>2. Survived(Passed(f[n], n+1), n+1)
      BY <3>1, PassedKeeps
    <3>3. Passed(f[n], n+1) \in X
      BY <1>4, <3>1, <3>2
    <3>4. f[n+1] = Sound(n+1, f[n])
      BY <1>1, <2>1, <3>1
    <3> HIDE DEF X
    <3> QED BY <3>3, <3>4
  <2>4. T = 0..N
    <3>1. T \in SUBSET (0..N)
      OBVIOUS
    <3>2. \A n \in T : n < N => f[n+1] = Passed(f[n], n+1)
      BY <2>3
    <3> HIDE DEF X
    <3> QED BY <1>6, <2>2, <3>1, <3>2
  <2>5. ASSUME NEW n \in 1..N PROVE f[n] = Passed(f[n-1], n)
    <3>1. n - 1 \in 0..N /\ n - 1 < N /\ (n - 1) + 1 = n
      BY <1>1
    <3>2. n - 1 \in T
      BY <2>4, <3>1
    <3> HIDE DEF T
    <3>3. f[(n-1)+1] = Passed(f[n-1], (n-1)+1)
      BY <2>3, <3>1, <3>2
    <3> QED BY <3>1, <3>3
  <2> QED BY <2>5
<1>8. Def(f)
  <2>1. f[0] = <<>>
    BY <1>5 DEF Follows
  <2> HIDE DEF X
  <2> QED BY <1>1, <1>7, <2>1
<1>9. \E g : Def(g)
  BY <1>8
<1>10. PICK w : Def(w) /\ Surviving = w[N]
  BY <1>9 DEF Surviving, Passed
<1>11. w[0] = <<>> /\ \A n \in 1..N : w[n] = Passed(w[n-1], n)
  BY <1>1, <1>10
<1>12. {n \in 0..N : Survived(w[n], n)} = 0..N
  <2>1. \A n \in 0..N : n < N => w[n+1] = Passed(w[n], n+1)
    <3>1. ASSUME NEW n \in 0..N, n < N PROVE w[n+1] = Passed(w[n], n+1)
      <4>1. n + 1 \in 1..N /\ (n + 1) - 1 = n
        BY <1>1, <3>1
      <4>2. w[n+1] = Passed(w[(n+1)-1], n+1)
        BY <1>11, <4>1
      <4> QED BY <4>1, <4>2
    <3> QED BY <3>1
  <2> QED BY <1>6, <1>11, <2>1
<1>13. N \in {n \in 0..N : Survived(w[n], n)}
  BY <1>1, <1>12
<1> QED BY <1>10, <1>13

-----------------------------------------------------------------------------
(* What the assumptions say of the source and the policy, and what follows *)
(* for the retained commits.                                               *)

Given == source \in Sources /\ policy \in Policies

\* What the assumptions say of the source and of the policy.
LEMMA GivenTypes ==
  ASSUME Given
  PROVE  /\ source.parents \in [Commits -> Seq(Commits)]
         /\ \A c \in Commits : \A p \in Range(source.parents[c]) : p < c
         /\ source.target \in [Names -> Commits]
         /\ policy.keep \subseteq Names /\ "HEAD" \in policy.keep
         /\ policy.rules \in BOOLEAN /\ policy.cutoff \in {0} \cup Commits
         /\ policy.mode = "snapshot" => policy.keep = {"HEAD"}
<1>1. source \in SourceType /\ policy \in PolicyType
  BY SourcesAssumption, PoliciesAssumption DEF Given
<1>2. source.parents \in [Commits -> Seq(Commits)] /\ source.target \in [Names -> Commits]
  BY <1>1 DEF SourceType
<1>3. policy.keep \subseteq Names /\ policy.rules \in BOOLEAN /\ policy.cutoff \in {0} \cup Commits
  BY <1>1 DEF PolicyType
<1> QED BY <1>2, <1>3, SourcesAssumption, PoliciesAssumption DEF Given

\* There are finitely many source commits.
LEMMA CommitsFinite == IsFiniteSet(Commits)
BY NAssumption, FS_Interval DEF Commits

\* What is above commits of the source.
LEMMA HistoryFacts ==
  ASSUME Given, NEW S
  PROVE  /\ History(S) \subseteq Commits
         /\ S \cap Commits \subseteq History(S)
         /\ \A c \in History(S) : Range(source.parents[c]) \subseteq History(S)
<1>1. DOMAIN source.parents = Commits
  BY GivenTypes
<1>2. \A c \in Commits : Range(source.parents[c]) \subseteq Commits
  BY GivenTypes, RangeOfSeq
<1>3. History(S) \subseteq Commits
  BY <1>1, CommitsFinite, ClosureInDomain DEF History
<1>4. S \cap Commits \subseteq History(S)
  BY <1>1, CommitsFinite, ClosureStarts DEF History
<1>5. \A c \in History(S) : Range(source.parents[c]) \cap Commits \subseteq History(S)
  BY <1>1, CommitsFinite, ClosureIsClosed DEF History
<1> QED BY <1>2, <1>3, <1>4, <1>5

\* The commits that _retained keeps, with the parents that they keep.
LEMMA RetainedFacts ==
  ASSUME Given, Retainable
  PROVE  /\ DOMAIN RetainedParents = Eligible
         /\ Eligible \subseteq History(Targets) /\ Targets \subseteq Eligible
         /\ policy.mode # "snapshot" =>
              \A c \in Eligible : IF policy.cutoff = 0 THEN c \in source.recent
                                  ELSE policy.cutoff \in History({c})
         /\ \A c \in Eligible :
              /\ RetainedParents[c] \in Seq(Eligible)
              /\ Range(RetainedParents[c]) \subseteq Range(source.parents[c])
<1>1. /\ source.target \in [Names -> Commits] /\ policy.keep \subseteq Names
      /\ source.parents \in [Commits -> Seq(Commits)]
      /\ policy.mode = "snapshot" => policy.keep = {"HEAD"}
  BY GivenTypes
<1>2. Targets \subseteq Commits /\ Targets \subseteq Eligible
  BY <1>1 DEF Targets, Retainable
<1>3. Scope \subseteq History(Targets)
  <2>1. CASE policy.mode = "snapshot"
    <3>1. Scope = Targets
      BY <1>1, <2>1 DEF Scope, Targets
    <3> QED BY <1>2, <3>1, HistoryFacts
  <2>2. CASE policy.mode # "snapshot"
    BY <2>2 DEF Scope
  <2> QED BY <2>1, <2>2
<1>4. Eligible \subseteq Scope
  BY DEF Eligible
<1>5. Eligible \subseteq Commits
  BY <1>3, <1>4, HistoryFacts
<1>6. DOMAIN RetainedParents = Eligible
  BY DEF RetainedParents
<1>7. policy.mode # "snapshot" =>
         \A c \in Eligible : IF policy.cutoff = 0 THEN c \in source.recent
                             ELSE policy.cutoff \in History({c})
  BY DEF Eligible
<1>8. ASSUME NEW c \in Eligible
      PROVE  /\ RetainedParents[c] \in Seq(Eligible)
             /\ Range(RetainedParents[c]) \subseteq Range(source.parents[c])
  <2>1. RetainedParents[c] = IF policy.mode = "snapshot" THEN <<>>
                             ELSE Among(Eligible, source.parents[c])
    BY DEF RetainedParents
  <2>2. source.parents[c] \in Seq(Commits)
    BY <1>1, <1>5
  <2>3. /\ Among(Eligible, source.parents[c]) \in Seq(Commits \cap Eligible)
        /\ Range(Among(Eligible, source.parents[c])) = Range(source.parents[c]) \cap Eligible
    BY <2>2, AmongKeeps
  <2>4. Commits \cap Eligible = Eligible
    BY <1>5
  <2>5. <<>> \in Seq(Eligible) /\ Range(<<>>) = {}
    BY DEF Range
  <2> QED BY <2>1, <2>3, <2>4, <2>5
<1> QED BY <1>2, <1>3, <1>4, <1>6, <1>7, <1>8

\* The retained commits are a graph that has every selected tip.
LEMMA RetainedIsGraph ==
  ASSUME Given, Retainable, retained = RetainedParents
  PROVE  RetainedGraph /\ Targets \subseteq DOMAIN retained /\ DOMAIN retained \subseteq History(Targets)
<1>1. DOMAIN retained = Eligible /\ Eligible \subseteq Commits
  BY RetainedFacts, HistoryFacts
<1>2. \A c \in DOMAIN retained : /\ retained[c] \in Seq(DOMAIN retained)
                                 /\ \A p \in Range(retained[c]) : p < c
  BY <1>1, RetainedFacts, GivenTypes
<1> QED BY <1>1, <1>2, RetainedFacts DEF RetainedGraph

\* Every selected reference has a retained root.
LEMMA RootExists ==
  ASSUME Given, Retainable, retained = RetainedParents, NEW n \in policy.keep
  PROVE  RootOf(n) \in DOMAIN retained
<1> DEFINE H == History({source.target[n]})
           roots == {k \in DOMAIN retained : retained[k] = <<>> /\ k \in H}
<1>1. /\ DOMAIN retained = Eligible /\ RetainedGraph /\ Targets \subseteq DOMAIN retained
      /\ DOMAIN retained \subseteq Nat
  BY RetainedIsGraph, RetainedFacts, NAssumption DEF RetainedGraph, Commits
<1>2. source.target[n] \in DOMAIN retained /\ source.target[n] \in H
  <2>1. source.target[n] \in Targets /\ source.target[n] \in Commits
    BY GivenTypes DEF Targets
  <2>2. {source.target[n]} \cap Commits \subseteq H
    BY HistoryFacts
  <2> HIDE DEF H
  <2> QED BY <1>1, <2>1, <2>2
<1>3. DOMAIN retained \cap H \in SUBSET Nat /\ DOMAIN retained \cap H # {}
  <2> HIDE DEF H
  <2> QED BY <1>1, <1>2
<1>4. PICK c \in DOMAIN retained \cap H : \A k \in DOMAIN retained \cap H : c <= k
  <2> HIDE DEF H
  <2> QED BY <1>3, Least
<1>5. retained[c] = <<>>
  <2> SUFFICES ASSUME retained[c] # <<>> PROVE FALSE
    OBVIOUS
  <2>1. retained[c] \in Seq(DOMAIN retained)
    BY <1>1 DEF RetainedGraph
  <2>2. PICK p : p \in Range(retained[c])
    <3>1. Len(retained[c]) \in Nat \ {0} /\ DOMAIN retained[c] = 1..Len(retained[c])
      BY <2>1, EmptySeq
    <3>2. 1 \in DOMAIN retained[c]
      BY <3>1
    <3> QED BY <3>2 DEF Range
  <2>3. p \in DOMAIN retained /\ p < c
    BY <1>1, <2>1, <2>2, RangeOfSeq DEF RetainedGraph
  <2>4. p \in Range(source.parents[c])
    BY <1>1, <2>2, RetainedFacts
  <2>5. p \in H
    BY <2>4, HistoryFacts
  <2>6. c <= p /\ c \in Nat /\ p \in Nat
    <3> HIDE DEF H
    <3> QED BY <1>1, <1>4, <2>3, <2>5
  <2> QED BY <2>3, <2>6
<1>6. roots \in SUBSET Nat /\ roots # {}
  <2> HIDE DEF H
  <2> QED BY <1>1, <1>4, <1>5
<1>7. \E k \in roots : \A m \in roots : k <= m
  <2> HIDE DEF roots
  <2> QED BY <1>6, Least
<1>8. \E k \in DOMAIN retained : k \in roots /\ \A m \in roots : k <= m
  BY <1>7
<1>9. RootOf(n) = CHOOSE k \in DOMAIN retained : k \in roots /\ \A m \in roots : k <= m
  BY DEF RootOf
<1> HIDE DEF roots
<1> QED BY <1>8, <1>9

-----------------------------------------------------------------------------
(* The invariant.                                                          *)

IInv == Given /\ Inv

Fixed == UNCHANGED <<source, policy, retained>>

\* The terms of the invariant that no step changes once the source is analysed.
LEMMA SameTerms ==
  ASSUME Fixed
  PROVE  /\ Surviving' = Surviving /\ Selected' = Selected
         /\ RetainedParents' = RetainedParents /\ Retainable' = Retainable
         /\ \A c : OriginalCommit(c)' = OriginalCommit(c)
         /\ \A c : CompactCommit(c)' = CompactCommit(c)
         /\ \A survive, c : FilteredCommit(survive, c)' = FilteredCommit(survive, c)
         /\ \A survive : Standing(survive)' = Standing(survive)
         /\ \A survive, n : Final(survive, n)' = Final(survive, n)
<1> USE DEF Fixed
<1>1. Surviving' = Surviving
  BY DEF Surviving, With, Survive, TipLeft, TipsLeft, Left, Moved, Idle, Content, Kept, Over,
         Among, Commits
<1>2. Selected' = Selected
  BY DEF Selected
<1>3. RetainedParents' = RetainedParents /\ Retainable' = Retainable
  BY DEF RetainedParents, Retainable, Eligible, Scope, Targets, History
<1>4. \A c : OriginalCommit(c)' = OriginalCommit(c)
  BY DEF OriginalCommit
<1>5. \A c : CompactCommit(c)' = CompactCommit(c)
  BY DEF CompactCommit
<1>6. \A c : Touches(c)' = Touches(c)
  BY DEF Touches
<1>7. \A survive, c : FilteredCommit(survive, c)' = FilteredCommit(survive, c)
  BY <1>5, <1>6 DEF FilteredCommit
<1>8. \A survive : Standing(survive)' = Standing(survive)
  BY DEF Standing
<1>9. \A n : RootOf(n)' = RootOf(n)
  BY DEF RootOf, History
<1>10. \A survive, n : Final(survive, n)' = Final(survive, n)
  BY <1>9 DEF Final
<1> QED BY <1>1, <1>2, <1>3, <1>4, <1>5, <1>7, <1>8, <1>10

\* What the invariant says of the retained commits and of the pass over them.
Analysed == stage \notin {"start", "refused"}

\* What the analysis settles for all later steps, also of what pruning will leave.
LEMMA AnalysedFacts ==
  ASSUME IInv, Analysed
  PROVE  /\ RetainedGraph /\ Targets \subseteq DOMAIN retained
         /\ DOMAIN retained \subseteq History(Targets)
         /\ Survived(Surviving, N)
         /\ Standing(Surviving) \subseteq DOMAIN retained
         /\ \A c \in Standing(Surviving) : policy.rules =>
              Range(Surviving[c].parents) \subseteq Standing(Surviving)
         /\ \A n \in policy.keep :
              \/ \E c \in Standing(Surviving) : Final(Surviving, n) = Rewritten(c)
              \/ \E c \in DOMAIN retained : Final(Surviving, n) = Empty(c)
<1>1. Given /\ Retainable /\ retained = RetainedParents
  BY DEF IInv, Inv, RetainedInv, Analysed
<1>2. /\ RetainedGraph /\ Targets \subseteq DOMAIN retained
      /\ DOMAIN retained \subseteq History(Targets)
  BY <1>1, RetainedIsGraph
<1>3. Survived(Surviving, N)
  BY <1>2, SurvivingHolds
<1>4. DOMAIN retained \cap 1..N = DOMAIN retained /\ 0 \notin DOMAIN retained
  <2>1. DOMAIN retained \subseteq 1..N /\ N \in Nat
    BY <1>2, NAssumption DEF RetainedGraph, Commits
  <2>2. 0 \notin 1..N
    BY <2>1
  <2> QED BY <2>1, <2>2
<1>5. DOMAIN Surviving = DOMAIN retained /\ \A c \in DOMAIN retained : FateOf(Surviving, c)
  BY <1>3, <1>4 DEF Survived
<1>6. Standing(Surviving) \subseteq DOMAIN retained
  BY DEF Standing
<1>7. policy.rules => Standing(Surviving) = Stay(Surviving)
  BY <1>5 DEF Standing, Stay
<1>8. \A c \in Standing(Surviving) : policy.rules =>
        Range(Surviving[c].parents) \subseteq Standing(Surviving)
  BY <1>5, <1>6, <1>7 DEF FateOf
<1>9. ASSUME NEW n \in policy.keep
      PROVE  \/ \E c \in Standing(Surviving) : Final(Surviving, n) = Rewritten(c)
             \/ \E c \in DOMAIN retained : Final(Surviving, n) = Empty(c)
  <2>1. source.target[n] \in DOMAIN retained
    BY <1>2 DEF Targets
  <2>2. CASE ~policy.rules
    <3>1. Final(Surviving, n) = Rewritten(source.target[n])
      BY <1>4, <2>1, <2>2 DEF Final
    <3>2. source.target[n] \in Standing(Surviving)
      BY <2>1, <2>2 DEF Standing
    <3> QED BY <3>1, <3>2
  <2>3. CASE policy.rules
    <3> DEFINE to == Surviving[source.target[n]].to
    <3>1. to \in Stay(Surviving) \cup {0}
      BY <1>5, <2>1 DEF FateOf
    <3>2. Final(Surviving, n) = IF to = 0 THEN Empty(RootOf(n)) ELSE Rewritten(to)
      BY <2>3 DEF Final
    <3>3. RootOf(n) \in DOMAIN retained
      BY <1>1, RootExists
    <3> HIDE DEF to
    <3> QED BY <1>7, <2>3, <3>1, <3>2, <3>3
  <2> QED BY <2>2, <2>3
<1> QED BY <1>2, <1>3, <1>6, <1>8, <1>9

-----------------------------------------------------------------------------
(* Shapes of objects and references.                                       *)

\* What ObjectsInv says of an object, of any repository, at any stage.
Shape(d, st, changed, o) ==
  \/ /\ st \in {"cloned", "compacted", "filtered", "restored"} \/ changed
     /\ o[2] \in Commits /\ o = Original(o[2]) /\ d[o] = OriginalCommit(o[2])
  \/ /\ \/ st = "compacted"
        \/ st \in {"filtered", "restored"} /\ o[2] \notin Standing(Surviving)
     /\ o[2] \in DOMAIN retained /\ o = Rewritten(o[2]) /\ d[o] = CompactCommit(o[2])
  \/ /\ st \in {"filtered", "restored"} \cup Finished
     /\ o[2] \in Standing(Surviving) /\ o = Rewritten(o[2])
     /\ d[o] = IF policy.rules THEN FilteredCommit(Surviving, o[2]) ELSE CompactCommit(o[2])
  \/ /\ st \in {"restored"} \cup Finished
     /\ o = Empty(o[2]) /\ d[o] = EmptyCommit
     /\ \E n \in policy.keep : o = Final(Surviving, n)

\* The invariant of the objects, in terms of their shapes.
LEMMA ObjectsNow == ObjectsInv <=> \A o \in DOMAIN db : Shape(db, stage, tampered, o)
BY DEF ObjectsInv, Shape, IsOriginal, IsCompact, IsOutput, IsEmpty

\* A step that leaves every object in shape keeps the invariant of the objects.
LEMMA ObjectsNext ==
  ASSUME Fixed, \A o \in DOMAIN db' : Shape(db', stage', tampered', o)
  PROVE  ObjectsInv'
<1>1. /\ Surviving' = Surviving
      /\ \A c : OriginalCommit(c)' = OriginalCommit(c)
      /\ \A c : CompactCommit(c)' = CompactCommit(c)
      /\ \A survive, c : FilteredCommit(survive, c)' = FilteredCommit(survive, c)
      /\ \A survive : Standing(survive)' = Standing(survive)
      /\ \A survive, n : Final(survive, n)' = Final(survive, n)
  BY SameTerms
<1>2. policy' = policy /\ retained' = retained
  BY DEF Fixed
<1> DEFINE S == Surviving
<1>3. ASSUME NEW o \in DOMAIN db'
      PROVE  \/ /\ stage' \in {"cloned", "compacted", "filtered", "restored"} \/ tampered'
                /\ IsOriginal(o)'
             \/ /\ \/ stage' = "compacted"
                   \/ stage' \in {"filtered", "restored"} /\ o[2] \notin Standing(S)'
                /\ IsCompact(o)'
             \/ stage' \in {"filtered", "restored"} \cup Finished /\ IsOutput(S, o)'
             \/ stage' \in {"restored"} \cup Finished /\ IsEmpty(S, o)'
  <2>1. Shape(db', stage', tampered', o)
    OBVIOUS
  <2>2. S' = S
    BY <1>1
  <2>3. IsOriginal(o)' <=> o[2] \in Commits /\ o = Original(o[2]) /\ db'[o] = OriginalCommit(o[2])
    BY <1>1 DEF IsOriginal
  <2>4. IsCompact(o)' <=> /\ o[2] \in DOMAIN retained /\ o = Rewritten(o[2])
                          /\ db'[o] = CompactCommit(o[2])
    BY <1>1, <1>2 DEF IsCompact
  <2>5. IsOutput(S, o)' <=>
          /\ o[2] \in Standing(S) /\ o = Rewritten(o[2])
          /\ db'[o] = IF policy.rules THEN FilteredCommit(S, o[2]) ELSE CompactCommit(o[2])
    BY <1>1, <1>2 DEF IsOutput
  <2>6. IsEmpty(S, o)' <=>
          /\ o = Empty(o[2]) /\ db'[o] = EmptyCommit
          /\ \E n \in policy.keep : o = Final(S, n)
    BY <1>1, <1>2 DEF IsEmpty, EmptyCommit
  <2>7. Standing(S)' = Standing(S)
    BY <1>1
  <2> QED BY <2>1, <2>2, <2>3, <2>4, <2>5, <2>6, <2>7 DEF Shape
<1> QED BY <1>3 DEF ObjectsInv

\* A record that is an object of the model.
Proper(x) == Range(x.parents) \subseteq Objects /\ x.message \in {"source", "prefix", "mixed"}

\* The commits that compaction and path filtering make are objects of the model.
LEMMA CommitsAreProper ==
  ASSUME IInv, Analysed
  PROVE  /\ \A c \in Commits : Proper(OriginalCommit(c))
         /\ \A c \in DOMAIN retained : Proper(CompactCommit(c))
         /\ policy.rules => \A c \in Standing(Surviving) : Proper(FilteredCommit(Surviving, c))
         /\ Proper(EmptyCommit)
<1>1. Given
  BY DEF IInv
<1>2. /\ RetainedGraph /\ DOMAIN retained \subseteq Commits
      /\ Standing(Surviving) \subseteq DOMAIN retained
      /\ \A c \in Standing(Surviving) : policy.rules =>
           Range(Surviving[c].parents) \subseteq Standing(Surviving)
  BY AnalysedFacts DEF RetainedGraph
<1>3. \A c \in Commits : Original(c) \in Objects /\ Rewritten(c) \in Objects
  BY DEF Objects
<1>4. ASSUME NEW c \in Commits PROVE Proper(OriginalCommit(c))
  <2>1. Range(source.parents[c]) \subseteq Commits
    BY <1>1, GivenTypes, RangeOfSeq
  <2>2. Range(Map(Original, source.parents[c])) \subseteq Objects
    BY <1>3, <2>1 DEF Map, Range
  <2> QED BY <2>2 DEF Proper, OriginalCommit
<1>5. ASSUME NEW c \in DOMAIN retained PROVE Proper(CompactCommit(c))
  <2>1. Range(retained[c]) \subseteq Commits
    BY <1>2, RangeOfSeq DEF RetainedGraph
  <2>2. Range(Map(Rewritten, retained[c])) \subseteq Objects
    BY <1>3, <2>1 DEF Map, Range
  <2> QED BY <2>2 DEF Proper, CompactCommit
<1>6. ASSUME policy.rules, NEW c \in Standing(Surviving)
      PROVE  Proper(FilteredCommit(Surviving, c))
  <2>1. Range(Surviving[c].parents) \subseteq Commits
    BY <1>2, <1>6
  <2>2. Range(Map(Rewritten, Surviving[c].parents)) \subseteq Objects
    BY <1>3, <2>1 DEF Map, Range
  <2>3. CompactCommit(c).message \in {"source", "prefix", "mixed"}
    BY DEF CompactCommit
  <2> QED BY <2>2, <2>3 DEF Proper, FilteredCommit
<1>7. Proper(EmptyCommit)
  BY DEF Proper, EmptyCommit, Range
<1> QED BY <1>4, <1>5, <1>6, <1>7

\* Objects in shape are objects of the model.
LEMMA ShapesAreTyped ==
  ASSUME IInv, Analysed, NEW d, NEW st, NEW changed, \A o \in DOMAIN d : Shape(d, st, changed, o)
  PROVE  DOMAIN d \subseteq Objects /\ \A o \in DOMAIN d : Proper(d[o])
<1>1. /\ DOMAIN retained \subseteq Commits /\ Standing(Surviving) \subseteq DOMAIN retained
      /\ \A n \in policy.keep :
              \/ \E c \in Standing(Surviving) : Final(Surviving, n) = Rewritten(c)
              \/ \E c \in DOMAIN retained : Final(Surviving, n) = Empty(c)
  BY AnalysedFacts DEF RetainedGraph
<1>2. /\ \A c \in Commits : Proper(OriginalCommit(c))
      /\ \A c \in DOMAIN retained : Proper(CompactCommit(c))
      /\ policy.rules => \A c \in Standing(Surviving) : Proper(FilteredCommit(Surviving, c))
      /\ Proper(EmptyCommit)
  BY CommitsAreProper
<1>3. ASSUME NEW o \in DOMAIN d PROVE o \in Objects /\ Proper(d[o])
  <2>1. CASE o[2] \in Commits /\ o = Original(o[2]) /\ d[o] = OriginalCommit(o[2])
    BY <1>2, <2>1 DEF Objects
  <2>2. CASE o[2] \in DOMAIN retained /\ o = Rewritten(o[2]) /\ d[o] = CompactCommit(o[2])
    BY <1>1, <1>2, <2>2 DEF Objects
  <2>3. CASE /\ o[2] \in Standing(Surviving) /\ o = Rewritten(o[2])
             /\ d[o] = IF policy.rules THEN FilteredCommit(Surviving, o[2])
                       ELSE CompactCommit(o[2])
    BY <1>1, <1>2, <2>3 DEF Objects
  <2>4. CASE o = Empty(o[2]) /\ d[o] = EmptyCommit /\ \E n \in policy.keep : o = Final(Surviving, n)
    <3>1. \A c, e : Empty(c) # Rewritten(e) /\ (Empty(c) = Empty(e) => c = e)
      BY DEF Empty, Rewritten
    <3>2. o[2] \in DOMAIN retained
      BY <1>1, <2>4, <3>1
    <3> QED BY <1>1, <1>2, <2>4, <3>2 DEF Objects
  <2> QED BY <2>1, <2>2, <2>3, <2>4 DEF Shape
<1> QED BY <1>3

Stages == {"start", "refused", "analysed", "cloned", "compacted", "filtered",
           "restored", "cleaned", "attested", "verified", "rejected"}
Recoveries == {Recovery(n) : n \in policy.keep}

\* What RefsInv says of references, at any stage.
RefsShape(r, st, changed) ==
  /\ r = [x \in DOMAIN r |-> r[x]]
  /\ st \in {"start", "refused", "analysed"} => r = <<>>
  /\ st = "cloned" => DOMAIN r \subseteq Selected
  /\ st = "compacted" =>
       /\ Recoveries \subseteq DOMAIN r
       /\ \A x \in DOMAIN r : r[x] = Rewritten(source.target[x[2]])
  /\ st = "filtered" =>
       /\ \A x \in DOMAIN r : r[x] = Final(Surviving, x[2])
       /\ \A n \in policy.keep :
            Recovery(n) \in DOMAIN r <=> Final(Surviving, n)[1] = "rewritten"
  /\ st \in {"compacted", "filtered"} => DOMAIN r \subseteq Selected \cup Recoveries
  /\ st \in {"restored"} \cup Finished /\ ~changed =>
       /\ DOMAIN r = Selected
       /\ \A x \in DOMAIN r : r[x] = Final(Surviving, x[2])

\* The invariant of the references, in terms of their shape.
LEMMA RefsNow == RefsInv <=> RefsShape(refs, stage, tampered)
BY DEF RefsInv, RefsShape, Recoveries

\* A step that leaves the references in shape keeps their invariant.
LEMMA RefsNext ==
  ASSUME Fixed, RefsShape(refs', stage', tampered')
  PROVE  RefsInv'
<1>1. /\ Surviving' = Surviving /\ Selected' = Selected
      /\ \A survive, n : Final(survive, n)' = Final(survive, n)
  BY SameTerms
<1>2. policy' = policy /\ source' = source
  BY DEF Fixed
<1>3. \A n : Final(Surviving, n)' = Final(Surviving, n)
  BY <1>1
<1> QED BY <1>1, <1>2, <1>3 DEF RefsInv, RefsShape, Recoveries

\* After the analysis, a step that keeps to the shapes keeps the invariant.
LEMMA InvNext ==
  ASSUME IInv, Analysed, Fixed, stage' \in Stages \ {"start", "refused"},
         \A o \in DOMAIN db' : Shape(db', stage', tampered', o),
         RefsShape(refs', stage', tampered'),
         DOMAIN refs' \subseteq {Ref(n) : n \in Names} \cup {Recovery(n) : n \in Names},
         Range(refs') \subseteq DOMAIN db',
         stage' \in {"compacted", "filtered", "restored"} =>
           {Rewritten(c) : c \in DOMAIN retained} \subseteq DOMAIN db',
         stage' \in Finished /\ ~tampered' =>
           \A o \in DOMAIN db' : Range(db'[o].parents) \subseteq DOMAIN db',
         marked' \in BOOLEAN, remote' \in BOOLEAN, tampered' \in BOOLEAN,
         ReceiptInv'
  PROVE  Inv'
<1>1. DOMAIN db' \subseteq Objects /\ \A o \in DOMAIN db' : Proper(db'[o])
  BY ShapesAreTyped
<1>2. RetainedGraph
  BY AnalysedFacts
<1>3. /\ DOMAIN retained \subseteq Commits
      /\ \A c \in DOMAIN retained : Range(retained[c]) \subseteq DOMAIN retained
  BY <1>2, RangeOfSeq DEF RetainedGraph
<1>4. TypeOK'
  <2>1. policy \in Policies
    BY DEF IInv, Given
  <2> QED BY <1>1, <1>3, <2>1 DEF TypeOK, Stages, Proper, Fixed, Objects, Commits
<1>5. RetainedInv'
  <2>1. retained = RetainedParents /\ Retainable
    BY DEF IInv, Inv, RetainedInv, Analysed
  <2> QED BY <2>1, SameTerms DEF RetainedInv, Fixed
<1>6. ObjectsInv'
  BY ObjectsNext
<1>7. CommitsInv'
  BY DEF CommitsInv, Fixed
<1>8. RefsInv'
  BY RefsNext
<1> QED BY <1>4, <1>5, <1>6, <1>7, <1>8 DEF Inv

-----------------------------------------------------------------------------
(* The steps.                                                              *)

\* Before the clone there is nothing.
LEMMA NothingYet ==
  ASSUME IInv, stage \in {"start", "analysed"}
  PROVE  refs = <<>> /\ DOMAIN db = {} /\ tampered = FALSE
<1>1. ~tampered /\ tampered \in BOOLEAN /\ refs = <<>>
  BY RefsNow DEF IInv, Inv, ReceiptInv, RefsShape, TypeOK
<1>2. \A o \in DOMAIN db : Shape(db, stage, tampered, o)
  BY ObjectsNow DEF IInv, Inv
<1>3. \A o \in DOMAIN db : FALSE
  BY <1>1, <1>2 DEF Shape, Finished
<1> QED BY <1>1, <1>3

\* Initially there is nothing that could break the invariant.
LEMMA InitInv == Init => IInv
<1> SUFFICES ASSUME Init PROVE IInv
  OBVIOUS
<1>1. DOMAIN db = {} /\ DOMAIN refs = {} /\ Range(refs) = {} /\ DOMAIN retained = {}
  BY DEF Init, Range
<1>2. TypeOK /\ RetainedInv /\ ObjectsInv /\ CommitsInv /\ ReceiptInv
  BY <1>1 DEF Init, TypeOK, RetainedInv, ObjectsInv, CommitsInv, ReceiptInv
<1>3. RefsInv
  BY DEF Init, RefsInv, Finished
<1> QED BY <1>2, <1>3 DEF IInv, Inv, Given, Init

\* The steps that leave the repository as it is.
LEMMA EarlySteps ==
  ASSUME IInv, Analyse \/ Refuse \/ CloneFails
  PROVE  Inv'
<1>1. /\ stage \in {"start", "analysed"} /\ stage' \in {"analysed", "refused"}
      /\ UNCHANGED <<source, policy, refs, db, marked, remote, receipt, tampered>>
  BY DEF Analyse, Refuse, CloneFails, Step
<1>2. refs' = <<>> /\ DOMAIN db' = {} /\ tampered' = FALSE
  BY <1>1, NothingYet
<1>3. RetainedInv'
  <2>1. CASE Analyse
    <3>1. RetainedParents' = RetainedParents /\ Retainable' = Retainable
      BY <1>1 DEF RetainedParents, Retainable, Eligible, Scope, Targets, History
    <3> QED BY <2>1, <3>1 DEF Analyse, RetainedInv
  <2>2. CASE Refuse \/ CloneFails
    BY <2>2 DEF Refuse, CloneFails, Step, RetainedInv
  <2> QED BY <2>1, <2>2
<1>4. /\ DOMAIN retained' \subseteq Commits
      /\ \A c \in DOMAIN retained' : Range(retained'[c]) \subseteq DOMAIN retained'
  <2>1. CASE Analyse
    <3>1. retained' = RetainedParents /\ Retainable /\ Given
      BY <2>1 DEF Analyse, IInv
    <3>2. /\ DOMAIN RetainedParents = Eligible /\ Eligible \subseteq Commits
          /\ \A c \in Eligible : Range(RetainedParents[c]) \subseteq Eligible
      BY <3>1, RetainedFacts, HistoryFacts, RangeOfSeq
    <3> QED BY <3>1, <3>2
  <2>2. CASE Refuse \/ CloneFails
    BY <2>2 DEF Refuse, CloneFails, IInv, Inv, TypeOK
  <2> QED BY <2>1, <2>2
<1>5. TypeOK'
  <2>1. Range(refs') = {} /\ DOMAIN refs' = {}
    BY <1>2 DEF Range
  <2>2. policy' \in Policies /\ marked' \in BOOLEAN /\ remote' \in BOOLEAN
    BY <1>1 DEF IInv, Inv, TypeOK
  <2> QED BY <1>1, <1>2, <1>4, <2>1, <2>2 DEF TypeOK
<1>6. ObjectsInv' /\ CommitsInv'
  BY <1>1, <1>2 DEF ObjectsInv, CommitsInv
<1>7. RefsInv'
  <2>1. refs' = [r \in DOMAIN refs' |-> refs'[r]]
    BY <1>2
  <2> QED BY <1>1, <1>2, <2>1 DEF RefsInv, Finished
<1>8. ReceiptInv'
  BY <1>1, <1>2 DEF ReceiptInv
<1> QED BY <1>3, <1>5, <1>6, <1>7, <1>8 DEF Inv

\* The clone has source commits only.
LEMMA CloneStep ==
  ASSUME IInv, Clone
  PROVE  Inv'
<1>1. /\ Analysed /\ Fixed /\ stage' = "cloned" /\ tampered' = tampered
      /\ marked' = (source.shallow # {}) /\ remote' = remote
  BY DEF Clone, Step, Analysed, Fixed
<1>2. tampered = FALSE /\ Given /\ remote \in BOOLEAN
  BY NothingYet DEF Clone, Step, IInv, Inv, TypeOK
<1> DEFINE H == History(Range(source.target))
           names == {n \in policy.keep : n = "HEAD" \/ source.kind # "branch"}
<1>3. /\ H \subseteq Commits
      /\ Range(source.target) \subseteq H
  <2>1. Range(source.target) \subseteq Commits
    BY <1>2, GivenTypes DEF Range
  <2> QED BY <1>2, <2>1, HistoryFacts
<1>4. /\ refs' = [r \in {Ref(n) : n \in names} |-> Original(source.target[r[2]])]
      /\ db' = [o \in {Original(c) : c \in H} |->
             [parents |-> Map(Original, source.parents[o[2]]),
              tree |-> source.tree[o[2]], message |-> "source"]]
  BY DEF Clone
<1>5. db' = [o \in {Original(c) : c \in H} |-> OriginalCommit(o[2])]
  BY <1>4 DEF OriginalCommit
<1> HIDE DEF H, names
<1>6. ASSUME NEW o \in DOMAIN db' PROVE Shape(db', stage', tampered', o)
  <2>1. PICK c \in H : o = Original(c)
    BY <1>5
  <2>2. o[2] = c /\ c \in Commits /\ db'[o] = OriginalCommit(c)
    BY <1>3, <1>5, <2>1 DEF Original
  <2> QED BY <1>1, <2>1, <2>2 DEF Shape
<1>7. DOMAIN refs' \subseteq Selected /\ refs' = [r \in DOMAIN refs' |-> refs'[r]]
  BY <1>4 DEF Selected, names
<1>8. RefsShape(refs', stage', tampered')
  BY <1>1, <1>7 DEF RefsShape, Finished
<1>9. DOMAIN refs' \subseteq {Ref(n) : n \in Names} \cup {Recovery(n) : n \in Names}
  BY <1>2, <1>7, GivenTypes DEF Selected
<1>10. Range(refs') \subseteq DOMAIN db'
  <2>1. \A n \in names : source.target[n] \in H
    BY <1>2, <1>3, GivenTypes DEF names, Range
  <2>2. \A r \in DOMAIN refs' : refs'[r] \in DOMAIN db'
    BY <1>4, <1>5, <2>1 DEF Ref
  <2> QED BY <2>2 DEF Range
<1>11. marked' \in BOOLEAN /\ remote' \in BOOLEAN /\ tampered' \in BOOLEAN
  BY <1>1, <1>2
<1>12. ReceiptInv'
  BY <1>1, <1>2 DEF ReceiptInv
<1> QED BY <1>1, <1>6, <1>8, <1>9, <1>10, <1>11, <1>12, InvNext DEF Stages, Finished

\* Compaction adds a commit for every retained one and moves the references there.
LEMMA CompactStep ==
  ASSUME IInv, Compact
  PROVE  Inv'
<1>1. /\ Analysed /\ Fixed /\ stage = "cloned" /\ stage' = "compacted" /\ tampered' = tampered
      /\ marked' = marked /\ remote' = remote
  BY DEF Compact, Step, Analysed, Fixed
<1>2. tampered = FALSE /\ marked \in BOOLEAN /\ remote \in BOOLEAN /\ Given
  BY <1>1 DEF IInv, Inv, TypeOK, ReceiptInv
<1>3. /\ RetainedGraph /\ Targets \subseteq DOMAIN retained
  BY <1>1, AnalysedFacts
<1> DEFINE new == {Rewritten(c) : c \in DOMAIN retained}
           made == [o \in new |-> CompactCommit(o[2])]
           tags == IF source.kind = "annotated-tag" THEN {Ref("other")} ELSE {}
           moved == [r \in Selected \cup Recoveries |-> Rewritten(source.target[r[2]])]
<1>4. db' = Over(made, db) /\ refs' = Without(tags, Over(moved, refs))
  BY DEF Compact, CompactCommit, CompactParents, Recoveries
<1>5. DOMAIN refs \subseteq Selected /\ \A o \in DOMAIN db : Shape(db, "cloned", FALSE, o)
  <2>1. RefsShape(refs, "cloned", FALSE)
    BY <1>1, <1>2, RefsNow DEF IInv, Inv
  <2>2. \A o \in DOMAIN db : Shape(db, "cloned", FALSE, o)
    BY <1>1, <1>2, ObjectsNow DEF IInv, Inv
  <2> QED BY <2>1, <2>2 DEF RefsShape
<1>6. /\ DOMAIN db' = DOMAIN db \cup new
      /\ \A o \in new : db'[o] = CompactCommit(o[2])
      /\ \A o \in DOMAIN db \ new : db'[o] = db[o]
  <2>1. DOMAIN made = new /\ \A o \in new : made[o] = CompactCommit(o[2])
    OBVIOUS
  <2> HIDE DEF made, new
  <2> QED BY <1>4, <2>1 DEF Over
<1>7. /\ DOMAIN refs' = (Selected \cup Recoveries) \ tags
      /\ refs' = [r \in DOMAIN refs' |-> refs'[r]]
      /\ \A r \in DOMAIN refs' : refs'[r] = Rewritten(source.target[r[2]])
  <2>1. /\ DOMAIN moved = Selected \cup Recoveries
        /\ \A r \in Selected \cup Recoveries : moved[r] = Rewritten(source.target[r[2]])
    OBVIOUS
  <2> HIDE DEF moved, tags
  <2>2. /\ DOMAIN Over(moved, refs) = Selected \cup Recoveries
        /\ \A r \in Selected \cup Recoveries :
             Over(moved, refs)[r] = Rewritten(source.target[r[2]])
    BY <1>5, <2>1 DEF Over
  <2> QED BY <1>4, <2>2 DEF Without
<1> HIDE DEF made, moved
<1>8. ASSUME NEW o \in DOMAIN db' PROVE Shape(db', stage', tampered', o)
  <2>1. CASE o \in new
    <3>1. PICK c \in DOMAIN retained : o = Rewritten(c)
      BY <2>1
    <3>2. o[2] = c /\ db'[o] = CompactCommit(c)
      BY <1>6, <2>1, <3>1 DEF Rewritten
    <3>3. o[2] \in DOMAIN retained /\ o = Rewritten(o[2]) /\ db'[o] = CompactCommit(o[2])
      BY <3>1, <3>2
    <3> HIDE DEF new
    <3> QED BY <1>1, <3>3 DEF Shape, Finished
  <2>2. CASE o \notin new
    <3>1. o \in DOMAIN db /\ db'[o] = db[o] /\ Shape(db, "cloned", FALSE, o)
      BY <1>5, <1>6, <2>2
    <3> QED BY <1>1, <3>1 DEF Shape, Finished
  <2> QED BY <2>1, <2>2
<1>9. /\ \A n, m : Ref(n) # Recovery(m)
      /\ \A n : Ref(n)[2] = n /\ Recovery(n)[2] = n
  BY DEF Ref, Recovery
<1>10. RefsShape(refs', stage', tampered')
  <2>1. Recoveries \subseteq DOMAIN refs'
    BY <1>7, <1>9 DEF Recoveries
  <2>2. DOMAIN refs' \subseteq Selected \cup Recoveries
    BY <1>7
  <2> QED BY <1>1, <1>7, <2>1, <2>2 DEF RefsShape, Finished
<1>11. DOMAIN refs' \subseteq {Ref(n) : n \in Names} \cup {Recovery(n) : n \in Names}
  BY <1>2, <1>7, GivenTypes DEF Selected, Recoveries
<1>12. Range(refs') \subseteq DOMAIN db'
  <2>1. \A n \in policy.keep : Rewritten(source.target[n]) \in new
    BY <1>3 DEF Targets
  <2>2. \A r \in DOMAIN refs' : refs'[r] \in new
    <3> HIDE DEF new
    <3>1. \A r \in DOMAIN refs' : r[2] \in policy.keep
      BY <1>7, <1>9 DEF Selected, Recoveries
    <3> QED BY <1>7, <2>1, <3>1
  <2> QED BY <1>6, <2>2 DEF Range
<1>13. ReceiptInv'
  BY <1>1, <1>2 DEF ReceiptInv
<1>14. {Rewritten(c) : c \in DOMAIN retained} \subseteq DOMAIN db'
  BY <1>6
<1> QED BY <1>1, <1>2, <1>8, <1>10, <1>11, <1>12, <1>13, <1>14, InvNext DEF Stages, Finished

\* Path filtering.
LEMMA FilterStep ==
  ASSUME IInv, Filter
  PROVE  Inv'
<1>1. /\ Analysed /\ Fixed /\ stage = "compacted" /\ stage' = "filtered" /\ tampered' = tampered
      /\ marked' = marked /\ remote' = remote
  BY DEF Filter, Step, Analysed, Fixed
<1>2. tampered = FALSE /\ marked \in BOOLEAN /\ remote \in BOOLEAN /\ Given
  BY <1>1 DEF IInv, Inv, TypeOK, ReceiptInv
<1> DEFINE S == Surviving
           new == {Rewritten(c) : c \in DOMAIN retained}
<1>3. /\ RetainedGraph /\ Targets \subseteq DOMAIN retained
      /\ Standing(S) \subseteq DOMAIN retained
      /\ \A n \in policy.keep :
           \/ \E c \in Standing(S) : Final(S, n) = Rewritten(c)
           \/ \E c \in DOMAIN retained : Final(S, n) = Empty(c)
  BY <1>1, AnalysedFacts
<1>4. \A o \in DOMAIN db : Shape(db, "compacted", FALSE, o)
  BY <1>1, <1>2, ObjectsNow DEF IInv, Inv
<1>5. new \subseteq DOMAIN db /\ Range(refs) \subseteq DOMAIN db
  BY <1>1 DEF IInv, Inv, CommitsInv, TypeOK
<1>6. RefsShape(refs, "compacted", FALSE)
  BY <1>1, <1>2, RefsNow DEF IInv, Inv
<1>7. /\ refs = [x \in DOMAIN refs |-> refs[x]]
      /\ Recoveries \subseteq DOMAIN refs /\ DOMAIN refs \subseteq Selected \cup Recoveries
      /\ \A x \in DOMAIN refs : refs[x] = Rewritten(source.target[x[2]])
  BY <1>6 DEF RefsShape
<1>8. /\ \A n, m : Ref(n) # Recovery(m)
      /\ \A n : Ref(n)[2] = n /\ Recovery(n)[2] = n
      /\ \A c : Rewritten(c)[2] = c /\ Rewritten(c)[1] = "rewritten" /\ Empty(c)[1] = "empty"
      /\ \A c, k : Original(c) # Rewritten(k)
  BY DEF Ref, Recovery, Rewritten, Empty, Original
<1>9. \A x \in DOMAIN refs : x[2] \in policy.keep /\ source.target[x[2]] \in DOMAIN retained
  BY <1>3, <1>7, <1>8 DEF Selected, Recoveries, Targets
<1> HIDE DEF S
<1>10. CASE ~policy.rules
  <2>1. refs' = refs /\ db' = db
    BY <1>10 DEF Filter
  <2>2. Standing(S) = DOMAIN retained
    BY <1>10 DEF Standing
  <2>3. \A n \in policy.keep : Final(S, n) = Rewritten(source.target[n])
    <3>1. 0 \notin DOMAIN retained
      BY <1>3, NAssumption DEF RetainedGraph, Commits
    <3>2. \A n \in policy.keep : source.target[n] # 0
      BY <1>3, <3>1 DEF Targets
    <3> QED BY <1>10, <3>2 DEF Final
  <2>4. ASSUME NEW o \in DOMAIN db' PROVE Shape(db', stage', tampered', o)
    <3>1. o \in DOMAIN db /\ Shape(db, "compacted", FALSE, o)
      BY <1>4, <2>1
    <3> QED BY <1>1, <1>10, <2>1, <2>2, <3>1 DEF Shape, S, Finished
  <2>5. RefsShape(refs', stage', tampered')
    <3>1. \A x \in DOMAIN refs : refs[x] = Final(S, x[2])
      BY <1>7, <1>9, <2>3
    <3>2. \A n \in policy.keep : Recovery(n) \in DOMAIN refs /\ Final(S, n)[1] = "rewritten"
      BY <1>7, <1>8, <2>3 DEF Recoveries
    <3> QED BY <1>1, <1>7, <2>1, <3>1, <3>2 DEF RefsShape, S, Finished
  <2>6. DOMAIN refs' \subseteq {Ref(n) : n \in Names} \cup {Recovery(n) : n \in Names}
    BY <2>1 DEF IInv, Inv, TypeOK
  <2>7. ReceiptInv'
    BY <1>1, <1>2 DEF ReceiptInv
  <2>8. {Rewritten(c) : c \in DOMAIN retained} \subseteq DOMAIN db' /\ Range(refs') \subseteq DOMAIN db'
    BY <1>5, <2>1
  <2> QED BY <1>1, <1>2, <2>4, <2>5, <2>6, <2>7, <2>8, InvNext DEF Stages, Finished
<1>11. CASE policy.rules
  <2> DEFINE alive == {r \in DOMAIN refs : S[refs[r][2]].to # 0}
             kept == {k \in DOMAIN retained : S[k].to = k}
             left == {Rewritten(c) : c \in kept}
             made == [o \in left |-> FilteredCommit(S, o[2])]
  <2>1. kept = Standing(S)
    BY <1>11 DEF Standing
  <2>2. refs' = [r \in alive |-> Rewritten(S[refs[r][2]].to)]
    BY <1>11 DEF Filter, S
  <2>3. \A c \in kept : db[Rewritten(c)] = CompactCommit(c)
    <3>1. ASSUME NEW c \in kept PROVE db[Rewritten(c)] = CompactCommit(c)
      <4>1. Rewritten(c) \in DOMAIN db
        BY <1>5
      <4>2. Shape(db, "compacted", FALSE, Rewritten(c))
        BY <1>4, <4>1
      <4> QED BY <1>8, <4>2 DEF Shape, Finished
    <3> QED BY <3>1
  <2>4. db' = Over(made, db)
    <3>1. \A o \in left : /\ o[2] \in kept /\ db[Rewritten(o[2])].message = CompactCommit(o[2]).message
      BY <1>8, <2>3
    <3>2. \A o \in left : FilteredCommit(S, o[2]) =
                           [parents |-> Map(Rewritten, S[o[2]].parents),
                            tree |-> Kept(source.tree[o[2]]),
                            message |-> FilteredMessage(o[2], S[o[2]].parents)]
      BY <3>1 DEF FilteredCommit, FilteredMessage
    <3>3. db' = Over([o \in left |-> [parents |-> Map(Rewritten, S[o[2]].parents),
                                      tree |-> Kept(source.tree[o[2]]),
                                      message |-> FilteredMessage(o[2], S[o[2]].parents)]], db)
      BY <1>11 DEF Filter, S
    <3> HIDE DEF left
    <3>4. made = [o \in left |-> [parents |-> Map(Rewritten, S[o[2]].parents),
                                  tree |-> Kept(source.tree[o[2]]),
                                  message |-> FilteredMessage(o[2], S[o[2]].parents)]]
      BY <3>2
    <3> QED BY <3>3, <3>4
  <2>5. /\ DOMAIN db' = DOMAIN db
        /\ \A o \in left : db'[o] = FilteredCommit(S, o[2])
        /\ \A o \in DOMAIN db \ left : db'[o] = db[o]
    <3>1. DOMAIN made = left /\ \A o \in left : made[o] = FilteredCommit(S, o[2])
      OBVIOUS
    <3>2. left \subseteq DOMAIN db
      BY <1>5
    <3> HIDE DEF made, left
    <3> QED BY <2>4, <3>1, <3>2 DEF Over
  <2> HIDE DEF made
  <2>6. ASSUME NEW o \in DOMAIN db' PROVE Shape(db', stage', tampered', o)
    <3>1. CASE o \in left
      <4>1. PICK c \in kept : o = Rewritten(c)
        BY <3>1
      <4>2. o[2] = c /\ c \in Standing(S) /\ db'[o] = FilteredCommit(S, c)
        BY <1>8, <2>1, <2>5, <3>1, <4>1
      <4> QED BY <1>1, <1>11, <4>1, <4>2 DEF Shape, S
    <3>2. CASE o \notin left
      <4>1. db'[o] = db[o] /\ Shape(db, "compacted", FALSE, o)
        BY <1>4, <2>5, <3>2
      <4>2. o = Rewritten(o[2]) => o[2] \notin Standing(S)
        BY <2>1, <3>2
      <4> QED BY <1>1, <4>1, <4>2 DEF Shape, S, Finished
    <3> QED BY <3>1, <3>2
  <2>7. \A r \in DOMAIN refs : refs[r][2] = source.target[r[2]]
    BY <1>7, <1>8
  <2>8. \A n \in policy.keep :
          Final(S, n) = IF S[source.target[n]].to = 0 THEN Empty(RootOf(n))
                        ELSE Rewritten(S[source.target[n]].to)
    BY <1>11 DEF Final
  <2>9. /\ DOMAIN refs' = alive /\ refs' = [r \in DOMAIN refs' |-> refs'[r]]
        /\ \A r \in alive : refs'[r] = Final(S, r[2])
    <3>1. \A r \in alive : Final(S, r[2]) = Rewritten(S[refs[r][2]].to)
      BY <1>9, <2>7, <2>8
    <3> HIDE DEF alive
    <3> QED BY <2>2, <3>1
  <2>10. \A n \in policy.keep : Recovery(n) \in alive <=> Final(S, n)[1] = "rewritten"
    <3>1. ASSUME NEW n \in policy.keep
          PROVE  Recovery(n) \in alive <=> S[source.target[n]].to # 0
      <4>1. Recovery(n) \in DOMAIN refs /\ Recovery(n)[2] = n
        BY <1>7, <1>8 DEF Recoveries
      <4> QED BY <2>7, <4>1
    <3> HIDE DEF alive
    <3> QED BY <1>8, <2>8, <3>1
  <2>11. RefsShape(refs', stage', tampered')
    <3>1. DOMAIN refs' \subseteq Selected \cup Recoveries
      BY <1>7, <2>9
    <3> HIDE DEF alive
    <3> QED BY <1>1, <2>9, <2>10, <3>1 DEF RefsShape, S, Finished
  <2>12. DOMAIN refs' \subseteq {Ref(n) : n \in Names} \cup {Recovery(n) : n \in Names}
    BY <2>9 DEF IInv, Inv, TypeOK
  <2>13. ReceiptInv'
    BY <1>1, <1>2 DEF ReceiptInv
  <2>14. Range(refs') \subseteq DOMAIN db'
    <3>1. ASSUME NEW r \in alive PROVE refs'[r] \in DOMAIN db'
      <4>1. Final(S, r[2]) = Rewritten(S[source.target[r[2]]].to)
        BY <1>9, <2>7, <2>8
      <4>2. r[2] \in policy.keep /\ Final(S, r[2])[1] = "rewritten"
        BY <1>8, <1>9, <4>1
      <4>3. PICK c \in Standing(S) : Final(S, r[2]) = Rewritten(c)
        BY <1>3, <1>8, <4>2
      <4>4. Rewritten(c) \in DOMAIN db
        BY <1>3, <1>5
      <4> QED BY <2>5, <2>9, <4>3, <4>4
    <3> QED BY <2>9, <3>1 DEF Range
  <2>15. {Rewritten(c) : c \in DOMAIN retained} \subseteq DOMAIN db'
    BY <1>5, <2>5
  <2> QED BY <1>1, <1>2, <2>6, <2>11, <2>12, <2>13, <2>14, <2>15, InvNext DEF Stages, Finished
<1> QED BY <1>10, <1>11

\* Every selected reference comes back, on a commit that is left or on an empty root.
LEMMA RestoreStep ==
  ASSUME IInv, Restore
  PROVE  Inv'
<1>1. /\ Analysed /\ Fixed /\ stage = "filtered" /\ stage' = "restored" /\ tampered' = tampered
      /\ marked' = marked /\ remote' = remote
  BY DEF Restore, Step, Analysed, Fixed
<1>2. tampered = FALSE /\ marked \in BOOLEAN /\ remote \in BOOLEAN /\ Given
  BY <1>1 DEF IInv, Inv, TypeOK, ReceiptInv
<1> DEFINE S == Surviving
           ends == {Final(S, n) : n \in policy.keep}
<1>3. /\ Standing(S) \subseteq DOMAIN retained
      /\ \A n \in policy.keep :
           \/ \E c \in Standing(S) : Final(S, n) = Rewritten(c)
           \/ \E c \in DOMAIN retained : Final(S, n) = Empty(c)
  BY <1>1, AnalysedFacts
<1>4. \A o \in DOMAIN db : Shape(db, "filtered", FALSE, o)
  BY <1>1, <1>2, ObjectsNow DEF IInv, Inv
<1>5. {Rewritten(c) : c \in DOMAIN retained} \subseteq DOMAIN db
  BY <1>1 DEF IInv, Inv, CommitsInv
<1>6. RefsShape(refs, "filtered", FALSE)
  BY <1>1, <1>2, RefsNow DEF IInv, Inv
<1>7. /\ DOMAIN refs \subseteq Selected \cup Recoveries
      /\ \A x \in DOMAIN refs : refs[x] = Final(S, x[2])
      /\ \A n \in policy.keep : Recovery(n) \in DOMAIN refs <=> Final(S, n)[1] = "rewritten"
  BY <1>6 DEF RefsShape
<1>8. /\ \A n, m : Ref(n) # Recovery(m)
      /\ \A n : Ref(n)[2] = n /\ Recovery(n)[2] = n
      /\ \A c : Rewritten(c)[2] = c /\ Rewritten(c)[1] = "rewritten"
      /\ \A c : Empty(c)[2] = c /\ Empty(c)[1] = "empty"
  BY DEF Ref, Recovery, Rewritten, Empty
<1>9. ASSUME NEW n \in policy.keep PROVE Restored(n) = Final(S, n)
  <2>1. CASE Recovery(n) \in DOMAIN refs
    <3>1. Restored(n) = refs[Recovery(n)]
      BY <2>1 DEF Restored
    <3> HIDE DEF S
    <3> QED BY <1>7, <1>8, <2>1, <3>1
  <2>2. CASE Recovery(n) \notin DOMAIN refs
    <3>1. Restored(n) = Empty(RootOf(n))
      BY <2>2 DEF Restored
    <3>2. \/ Final(S, n) = Empty(RootOf(n))
          \/ \E c : Final(S, n) = Rewritten(c)
      BY DEF Final
    <3> HIDE DEF S
    <3> QED BY <1>7, <1>8, <2>2, <3>1, <3>2
  <2> QED BY <2>1, <2>2
<1>10. {Restored(n) : n \in policy.keep} = ends
  BY <1>9
<1>11. /\ DOMAIN db' = DOMAIN db \cup ends
       /\ \A o \in DOMAIN db : db'[o] = db[o]
       /\ \A o \in ends \ DOMAIN db : db'[o] = EmptyCommit
  <2> HIDE DEF ends
  <2>1. db' = Over([o \in ends \ DOMAIN db |-> EmptyCommit], db)
    BY <1>10 DEF Restore, EmptyCommit
  <2> QED BY <2>1 DEF Over
<1>12. ASSUME NEW o \in ends \ DOMAIN db
       PROVE  o = Empty(o[2]) /\ \E n \in policy.keep : o = Final(S, n)
  <2>1. PICK n \in policy.keep : o = Final(S, n)
    OBVIOUS
  <2>2. \A c \in Standing(S) : o # Rewritten(c)
    BY <1>3, <1>5
  <2>3. \E c \in DOMAIN retained : o = Empty(c)
    BY <1>3, <2>1, <2>2
  <2> QED BY <1>8, <2>1, <2>3
<1> HIDE DEF ends
<1>13. ASSUME NEW o \in DOMAIN db' PROVE Shape(db', stage', tampered', o)
  <2>1. CASE o \in DOMAIN db
    <3>1. db'[o] = db[o] /\ Shape(db, "filtered", FALSE, o)
      BY <1>4, <1>11, <2>1
    <3> QED BY <1>1, <3>1 DEF Shape, Finished
  <2>2. CASE o \notin DOMAIN db
    <3>1. o \in ends \ DOMAIN db
      BY <1>11, <2>2
    <3> QED BY <1>1, <1>11, <1>12, <3>1 DEF Shape, Finished
  <2> QED BY <2>1, <2>2
<1>14. /\ DOMAIN refs' = Selected /\ refs' = [r \in DOMAIN refs' |-> refs'[r]]
       /\ \A r \in Selected : refs'[r] = Final(S, r[2])
  <2> DEFINE back == [r \in Selected |-> Restored(r[2])]
  <2>1. DOMAIN back = Selected /\ \A r \in Selected : back[r] = Final(S, r[2])
    <3>1. \A r \in Selected : r[2] \in policy.keep
      BY <1>8 DEF Selected
    <3> QED BY <1>9, <3>1
  <2>2. refs' = Without(Recoveries, Over(back, refs))
    BY DEF Restore, Recoveries
  <2>3. Recoveries \cap Selected = {}
    BY <1>8 DEF Recoveries, Selected
  <2> HIDE DEF back, S
  <2>4. /\ DOMAIN Over(back, refs) = Selected \cup DOMAIN refs
        /\ \A r \in Selected : Over(back, refs)[r] = Final(S, r[2])
    BY <2>1 DEF Over
  <2>5. (Selected \cup DOMAIN refs) \ Recoveries = Selected
    BY <1>7, <2>3
  <2> QED BY <2>2, <2>3, <2>4, <2>5 DEF Without
<1>15. RefsShape(refs', stage', tampered')
  BY <1>1, <1>14 DEF RefsShape, Finished
<1>16. DOMAIN refs' \subseteq {Ref(n) : n \in Names} \cup {Recovery(n) : n \in Names}
  BY <1>2, <1>14, GivenTypes DEF Selected
<1>17. Range(refs') \subseteq DOMAIN db'
  <2>1. \A r \in Selected : refs'[r] \in ends
    BY <1>8, <1>14 DEF Selected, ends
  <2> QED BY <1>11, <1>14, <2>1 DEF Range
<1>18. ReceiptInv'
  BY <1>1, <1>2 DEF ReceiptInv
<1>19. {Rewritten(c) : c \in DOMAIN retained} \subseteq DOMAIN db'
  BY <1>5, <1>11
<1> QED BY <1>1, <1>2, <1>13, <1>15, <1>16, <1>17, <1>18, <1>19, InvNext DEF Stages, Finished

\* A repository has finitely many objects.
LEMMA ObjectsFinite == IsFiniteSet(Objects)
<1>1. /\ IsFiniteSet({Original(c) : c \in Commits})
      /\ IsFiniteSet({Rewritten(c) : c \in Commits})
      /\ IsFiniteSet({Empty(c) : c \in Commits})
  <2> DEFINE X == {Original(c) : c \in Commits}
             Y == {Rewritten(c) : c \in Commits}
             Z == {Empty(c) : c \in Commits}
  <2>1. IsFiniteSet(X)
    <3>1. [c \in Commits |-> Original(c)] \in Surjection(Commits, X)
      BY DEF Surjection
    <3> QED BY <3>1, CommitsFinite, FS_Surjection
  <2>2. IsFiniteSet(Y)
    <3>1. [c \in Commits |-> Rewritten(c)] \in Surjection(Commits, Y)
      BY DEF Surjection
    <3> QED BY <3>1, CommitsFinite, FS_Surjection
  <2>3. IsFiniteSet(Z)
    <3>1. [c \in Commits |-> Empty(c)] \in Surjection(Commits, Z)
      BY DEF Surjection
    <3> QED BY <3>1, CommitsFinite, FS_Surjection
  <2> QED BY <2>1, <2>2, <2>3
<1> QED BY <1>1, FS_Union DEF Objects

\* The parents of what the rewrite produces are retained commits that are left.
LEMMA OutputParents ==
  ASSUME IInv, Analysed
  PROVE  /\ Range(EmptyCommit.parents) = {}
         /\ \A c \in Standing(Surviving) :
              \A p \in Range((IF policy.rules THEN FilteredCommit(Surviving, c)
                              ELSE CompactCommit(c)).parents) :
                \E k \in Standing(Surviving) : p = Rewritten(k)
<1> DEFINE S == Surviving
<1>1. /\ RetainedGraph /\ Standing(S) \subseteq DOMAIN retained
      /\ \A c \in Standing(S) : policy.rules =>
           Range(S[c].parents) \subseteq Standing(S)
  BY AnalysedFacts
<1>2. \A seq : Range(Map(Rewritten, seq)) = {Rewritten(x) : x \in Range(seq)}
  BY DEF Map, Range
<1>3. ASSUME policy.rules, NEW c \in Standing(S), NEW p \in Range(FilteredCommit(S, c).parents)
      PROVE  \E k \in Standing(S) : p = Rewritten(k)
  <2>1. p \in Range(Map(Rewritten, S[c].parents))
    BY <1>3 DEF FilteredCommit
  <2>2. PICK k \in Range(S[c].parents) : p = Rewritten(k)
    <3> HIDE DEF S
    <3> QED BY <1>2, <2>1, ZenonT(40)
  <2> HIDE DEF S
  <2> QED BY <1>1, <1>3, <2>2
<1>4. ASSUME ~policy.rules, NEW c \in Standing(S), NEW p \in Range(CompactCommit(c).parents)
      PROVE  \E k \in Standing(S) : p = Rewritten(k)
  <2>1. p \in Range(Map(Rewritten, retained[c]))
    BY <1>4 DEF CompactCommit
  <2>2. PICK k \in Range(retained[c]) : p = Rewritten(k)
    BY <1>2, <2>1, ZenonT(40)
  <2>3. retained[c] \in Seq(DOMAIN retained)
    BY <1>1 DEF RetainedGraph
  <2>4. k \in DOMAIN retained
    BY <2>2, <2>3, RangeOfSeq
  <2>5. k \in Standing(S)
    BY <1>4, <2>4 DEF Standing
  <2> QED BY <2>2, <2>5
<1>5. Range(EmptyCommit.parents) = {}
  BY DEF EmptyCommit, Range
<1> HIDE DEF S
<1>6. ASSUME NEW c \in Standing(S),
             NEW p \in Range((IF policy.rules THEN FilteredCommit(S, c)
                              ELSE CompactCommit(c)).parents)
      PROVE  \E k \in Standing(S) : p = Rewritten(k)
  BY <1>3, <1>4, <1>6
<1> QED BY <1>5, <1>6 DEF S

\* What a step leaves after the cleanup: the objects that the references show.
LEMMA CleanStep ==
  ASSUME IInv, Clean
  PROVE  Inv'
<1>1. /\ Analysed /\ Fixed /\ stage = "restored" /\ stage' = "cleaned" /\ tampered' = tampered
      /\ marked' = FALSE /\ remote' = remote
  BY DEF Clean, Step, Analysed, Fixed
<1>2. tampered = FALSE /\ remote \in BOOLEAN /\ Given
  BY <1>1 DEF IInv, Inv, TypeOK, ReceiptInv
<1> DEFINE S == Surviving
           out(c) == IF policy.rules THEN FilteredCommit(S, c) ELSE CompactCommit(c)
           pure(o) == \/ o[2] \in Standing(S) /\ o = Rewritten(o[2]) /\ db[o] = out(o[2])
                      \/ /\ o = Empty(o[2]) /\ db[o] = EmptyCommit
                         /\ \E n \in policy.keep : o = Final(S, n)
           seen == Closure(Parents(db), Range(refs))
<1>3. /\ Standing(S) \subseteq DOMAIN retained
      /\ \A n \in policy.keep :
           \/ \E c \in Standing(S) : Final(S, n) = Rewritten(c)
           \/ \E c \in DOMAIN retained : Final(S, n) = Empty(c)
  BY <1>1, AnalysedFacts
<1>4. \A o \in DOMAIN db : Shape(db, "restored", FALSE, o)
  BY <1>1, <1>2, ObjectsNow DEF IInv, Inv
<1>5. /\ {Rewritten(c) : c \in DOMAIN retained} \subseteq DOMAIN db
      /\ Range(refs) \subseteq DOMAIN db /\ DOMAIN db \subseteq Objects
  BY <1>1 DEF IInv, Inv, CommitsInv, TypeOK
<1>6. RefsShape(refs, "restored", FALSE)
  BY <1>1, <1>2, RefsNow DEF IInv, Inv
<1>7. /\ DOMAIN refs = Selected /\ refs = [r \in DOMAIN refs |-> refs[r]]
      /\ \A r \in Selected : refs[r] = Final(S, r[2])
  BY <1>6 DEF RefsShape
<1>8. /\ \A n : Ref(n)[2] = n
      /\ \A c : Rewritten(c)[2] = c /\ Empty(c)[2] = c
      /\ \A c, k : /\ Original(c) # Rewritten(k) /\ Original(c) # Empty(k)
                   /\ Rewritten(c) # Empty(k)
  BY DEF Ref, Original, Rewritten, Empty
<1>9. refs' = refs
  <2>1. refs' = [r \in DOMAIN refs \ (DOMAIN refs \ Selected) |-> refs[r]]
    BY DEF Clean, Without
  <2>2. DOMAIN refs \ (DOMAIN refs \ Selected) = DOMAIN refs
    BY <1>7
  <2> QED BY <1>7, <2>1, <2>2
<1>10. IsFiniteSet(DOMAIN db) /\ DOMAIN Parents(db) = DOMAIN db
       /\ \A o \in DOMAIN db : Parents(db)[o] = db[o].parents
  BY <1>5, ObjectsFinite, FS_Subset DEF Parents
<1>11. db' = [o \in seen |-> db[o]] /\ seen \subseteq DOMAIN db
  <2>1. db' = Restrict(db, seen)
    BY <1>9 DEF Clean, Collected
  <2>2. seen \subseteq DOMAIN db
    BY <1>10, ClosureInDomain
  <2> HIDE DEF seen
  <2> QED BY <2>1, <2>2 DEF Restrict
<1>12. \A c \in Standing(S) : Rewritten(c) \in DOMAIN db /\ pure(Rewritten(c))
  <2>1. ASSUME NEW c \in Standing(S) PROVE Rewritten(c) \in DOMAIN db /\ pure(Rewritten(c))
    <3>1. Rewritten(c) \in DOMAIN db
      BY <1>3, <1>5
    <3>2. Shape(db, "restored", FALSE, Rewritten(c))
      BY <1>4, <3>1
    <3> QED BY <1>8, <3>1, <3>2 DEF Shape, Finished
  <2> QED BY <2>1
<1>13. ASSUME NEW o \in Range(refs) PROVE pure(o)
  <2>1. o \in DOMAIN db
    BY <1>5
  <2>2. Shape(db, "restored", FALSE, o)
    BY <1>4, <2>1
  <2>3. PICK n \in policy.keep : o = Final(S, n)
    <3>1. \A r \in DOMAIN refs : r[2] \in policy.keep
      BY <1>7, <1>8 DEF Selected
    <3> QED BY <1>7, <3>1 DEF Range
  <2>4. CASE \E c \in Standing(S) : o = Rewritten(c)
    <3> HIDE DEF pure
    <3> QED BY <1>12, <2>4
  <2>5. CASE \E c \in DOMAIN retained : o = Empty(c)
    BY <1>8, <2>2, <2>5 DEF Shape, Finished
  <2> QED BY <1>3, <2>3, <2>4, <2>5
<1>14. ASSUME NEW o \in DOMAIN db, pure(o), NEW p \in Range(db[o].parents)
       PROVE  p \in DOMAIN db /\ pure(p)
  <2>1. /\ Range(EmptyCommit.parents) = {}
        /\ \A c \in Standing(S) : \A k \in Range(out(c).parents) :
             \E e \in Standing(S) : k = Rewritten(e)
    BY <1>1, OutputParents
  <2>2. o[2] \in Standing(S) /\ db[o] = out(o[2])
    BY <1>14, <2>1
  <2> HIDE DEF out
  <2>3. \E e \in Standing(S) : p = Rewritten(e)
    BY <1>14, <2>1, <2>2
  <2> HIDE DEF pure
  <2> QED BY <1>12, <2>3
<1> HIDE DEF S, pure, seen
<1>15. seen \subseteq {o \in DOMAIN db : pure(o)}
  <2> DEFINE C == {o \in DOMAIN db : pure(o)}
  <2>1. Range(refs) \cap DOMAIN Parents(db) \subseteq C
    BY <1>5, <1>13
  <2>2. \A x \in C \cap DOMAIN Parents(db) :
          Range(Parents(db)[x]) \cap DOMAIN Parents(db) \subseteq C
    BY <1>10, <1>14
  <2>3. IsFiniteSet(DOMAIN Parents(db))
    BY <1>10
  <2> HIDE DEF C
  <2>4. seen \subseteq C
    BY <2>1, <2>2, <2>3, ClosureLeast DEF seen
  <2> QED BY <2>4 DEF C
<1>16. DOMAIN db' = seen /\ \A o \in seen : db'[o] = db[o]
  BY <1>11
<1>17. ASSUME NEW o \in DOMAIN db' PROVE Shape(db', stage', tampered', o)
  <2>1. db'[o] = db[o] /\ pure(o)
    BY <1>15, <1>16
  <2> QED BY <1>1, <2>1 DEF Shape, Finished, pure, S
<1>18. ASSUME NEW o \in DOMAIN db' PROVE Range(db'[o].parents) \subseteq DOMAIN db'
  <2>1. o \in seen /\ o \in DOMAIN db /\ pure(o) /\ db'[o] = db[o]
    BY <1>15, <1>16
  <2>2. Range(db[o].parents) \subseteq DOMAIN db
    BY <1>14, <2>1
  <2>3. \A x \in seen : Range(Parents(db)[x]) \cap DOMAIN Parents(db) \subseteq seen
    BY <1>10, ClosureIsClosed DEF seen
  <2> QED BY <1>10, <1>16, <2>1, <2>2, <2>3
<1>19. RefsShape(refs', stage', tampered')
  BY <1>1, <1>7, <1>9 DEF RefsShape, Finished, S
<1>20. DOMAIN refs' \subseteq {Ref(n) : n \in Names} \cup {Recovery(n) : n \in Names}
  BY <1>2, <1>7, <1>9, GivenTypes DEF Selected
<1>21. Range(refs') \subseteq DOMAIN db'
  <2>1. Range(refs) \cap DOMAIN db \subseteq seen
    BY <1>10, ClosureStarts DEF seen
  <2> QED BY <1>5, <1>9, <1>16, <2>1
<1>22. ReceiptInv'
  BY <1>1, <1>2 DEF ReceiptInv
<1> QED BY <1>1, <1>2, <1>17, <1>18, <1>19, <1>20, <1>21, <1>22, InvNext DEF Stages, Finished

\* The receipt binds the references as they are.
LEMMA AttestStep ==
  ASSUME IInv, Attest
  PROVE  Inv'
<1>1. /\ Analysed /\ Fixed /\ stage = "cleaned" /\ stage' = "attested"
      /\ UNCHANGED <<refs, db, marked, remote, tampered>>
  BY DEF Attest, Step, Analysed, Fixed
<1>2. /\ tampered = FALSE /\ marked \in BOOLEAN /\ remote \in BOOLEAN
      /\ DOMAIN refs \subseteq {Ref(n) : n \in Names} \cup {Recovery(n) : n \in Names}
      /\ Range(refs) \subseteq DOMAIN db
  BY <1>1 DEF IInv, Inv, TypeOK, ReceiptInv
<1>3. \A o \in DOMAIN db' : Shape(db', stage', tampered', o)
  <2>1. \A o \in DOMAIN db : Shape(db, "cleaned", FALSE, o)
    BY <1>1, <1>2, ObjectsNow DEF IInv, Inv
  <2> QED BY <1>1, <1>2, <2>1 DEF Shape, Finished
<1>4. RefsShape(refs, "cleaned", FALSE)
  BY <1>1, <1>2, RefsNow DEF IInv, Inv
<1>5. RefsShape(refs', stage', tampered')
  BY <1>1, <1>2, <1>4 DEF RefsShape, Finished
<1>6. \A o \in DOMAIN db : Range(db[o].parents) \subseteq DOMAIN db
  BY <1>1, <1>2 DEF IInv, Inv, CommitsInv, Finished
<1>7. ReceiptInv'
  <2>1. refs = [r \in Selected |-> refs[r]]
    <3>1. DOMAIN refs = Selected /\ refs = [x \in DOMAIN refs |-> refs[x]]
      BY <1>4 DEF RefsShape, Finished
    <3> QED BY <3>1
  <2>2. policy.cutoff # 0 => receipt'.refs = refs
    BY DEF Attest
  <2>3. Selected' = Selected /\ policy' = policy
    BY <1>1, SameTerms DEF Fixed
  <2>4. policy.cutoff # 0 => receipt'.refs = [r \in Selected |-> receipt'.refs[r]]
    BY <2>1, <2>2
  <2> QED BY <1>1, <1>2, <2>3, <2>4 DEF ReceiptInv
<1> QED BY <1>1, <1>2, <1>3, <1>5, <1>6, <1>7, InvNext DEF Stages, Finished

\* The verification changes nothing but the verdict.
LEMMA VerifyStep ==
  ASSUME IInv, Verify
  PROVE  Inv'
<1>1. /\ Analysed /\ Fixed /\ stage = "attested" /\ stage' \in {"verified", "rejected"}
      /\ UNCHANGED <<refs, db, marked, remote, receipt, tampered>>
      /\ stage' = "verified" => Accepted
  BY DEF Verify, Step, Analysed, Fixed
<1>2. /\ tampered \in BOOLEAN /\ marked \in BOOLEAN /\ remote \in BOOLEAN
      /\ DOMAIN refs \subseteq {Ref(n) : n \in Names} \cup {Recovery(n) : n \in Names}
      /\ Range(refs) \subseteq DOMAIN db
  BY <1>1 DEF IInv, Inv, TypeOK
<1>3. \A o \in DOMAIN db' : Shape(db', stage', tampered', o)
  <2>1. \A o \in DOMAIN db : Shape(db, "attested", tampered, o)
    BY <1>1, ObjectsNow DEF IInv, Inv
  <2> QED BY <1>1, <2>1 DEF Shape, Finished
<1>4. RefsShape(refs', stage', tampered')
  <2>1. RefsShape(refs, "attested", tampered)
    BY <1>1, RefsNow DEF IInv, Inv
  <2> QED BY <1>1, <2>1 DEF RefsShape, Finished
<1>5. ~tampered => \A o \in DOMAIN db : Range(db[o].parents) \subseteq DOMAIN db
  BY <1>1 DEF IInv, Inv, CommitsInv, Finished
<1>6. Accepted' = Accepted
  BY <1>1 DEF Accepted, ReceiptMatches, HeadSymbolic, Complete, Graph, RootSynthetic,
              RefsRetained, PathsExcluded, RemotesAbsent, ReachableOnly, Selected, Roots,
              Reachable, Parents, Fixed
<1>7. ReceiptInv'
  <2>1. policy.cutoff # 0 => receipt.refs = [r \in Selected |-> receipt.refs[r]]
    BY <1>1 DEF IInv, Inv, ReceiptInv
  <2>2. Selected' = Selected /\ policy' = policy
    BY <1>1, SameTerms DEF Fixed
  <2> QED BY <1>1, <1>6, <2>1, <2>2 DEF ReceiptInv
<1> QED BY <1>1, <1>2, <1>3, <1>4, <1>5, <1>7, InvNext DEF Stages, Finished

\* What somebody else may do to the output.
LEMMA TamperStep ==
  ASSUME IInv, Tamper
  PROVE  Inv'
<1>1. /\ Analysed /\ Fixed /\ stage = "attested" /\ stage' = "attested" /\ tampered' = TRUE
      /\ receipt' = receipt
  BY DEF Tamper, Step, Analysed, Fixed
<1>2. /\ Given /\ marked \in BOOLEAN /\ remote \in BOOLEAN
      /\ DOMAIN refs \subseteq {Ref(n) : n \in Names} \cup {Recovery(n) : n \in Names}
      /\ Range(refs) \subseteq DOMAIN db
  BY <1>1 DEF IInv, Inv, TypeOK
<1>3. \A o \in DOMAIN db : Shape(db, "attested", TRUE, o)
  <2>1. \A o \in DOMAIN db : Shape(db, "attested", tampered, o)
    BY <1>1, ObjectsNow DEF IInv, Inv
  <2> QED BY <2>1 DEF Shape, Finished
<1>4. refs = [x \in DOMAIN refs |-> refs[x]]
  BY RefsNow DEF IInv, Inv, RefsShape
<1>5. ASSUME NEW c \in Commits
      PROVE  /\ DOMAIN db \subseteq DOMAIN Fetched(c) /\ Original(c) \in DOMAIN Fetched(c)
             /\ \A o \in DOMAIN Fetched(c) : Shape(Fetched(c), "attested", TRUE, o)
  <2> DEFINE new == {Original(k) : k \in History({c})}
             made == [o \in new |-> OriginalCommit(o[2])]
  <2>1. Fetched(c) = Over(made, db)
    BY DEF Fetched, OriginalCommit
  <2>2. DOMAIN made = new /\ \A o \in new : made[o] = OriginalCommit(o[2])
    OBVIOUS
  <2>3. \A o \in new : o[2] \in Commits /\ o = Original(o[2])
    BY <1>2, HistoryFacts DEF Original
  <2>4. Original(c) \in new
    BY <1>2, HistoryFacts
  <2> HIDE DEF made, new
  <2>5. /\ DOMAIN Fetched(c) = DOMAIN db \cup new
        /\ \A o \in new : Fetched(c)[o] = OriginalCommit(o[2])
        /\ \A o \in DOMAIN db \ new : Fetched(c)[o] = db[o]
    BY <2>1, <2>2 DEF Over
  <2>6. ASSUME NEW o \in DOMAIN Fetched(c) PROVE Shape(Fetched(c), "attested", TRUE, o)
    <3>1. CASE o \in new
      BY <2>3, <2>5, <3>1 DEF Shape
    <3>2. CASE o \notin new
      <4>1. o \in DOMAIN db /\ Fetched(c)[o] = db[o] /\ Shape(db, "attested", TRUE, o)
        BY <1>3, <2>5, <3>2
      <4> QED BY <4>1 DEF Shape
    <3> QED BY <3>1, <3>2
  <2> QED BY <2>4, <2>5, <2>6
<1>6. ASSUME NEW n \in Names, NEW v
      PROVE  /\ DOMAIN With(refs, Ref(n), v) = DOMAIN refs \cup {Ref(n)}
             /\ Range(With(refs, Ref(n), v)) \subseteq Range(refs) \cup {v}
             /\ With(refs, Ref(n), v) =
                  [x \in DOMAIN With(refs, Ref(n), v) |-> With(refs, Ref(n), v)[x]]
  BY DEF With, Over, Range
<1> DEFINE Sound(d, r, m, w) ==
             /\ \A x \in DOMAIN d : Shape(d, "attested", TRUE, x)
             /\ DOMAIN r \subseteq {Ref(n) : n \in Names} \cup {Recovery(n) : n \in Names}
             /\ Range(r) \subseteq DOMAIN d
             /\ r = [x \in DOMAIN r |-> r[x]]
             /\ m \in BOOLEAN /\ w \in BOOLEAN
<1>7. Sound(db', refs', marked', remote')
  <2>1. ASSUME NEW c \in Commits, NEW n \in Names,
               refs' = With(refs, Ref(n), Original(c)), db' = Fetched(c),
               UNCHANGED <<marked, remote>>
        PROVE  Sound(db', refs', marked', remote')
    <3>1. /\ DOMAIN refs' = DOMAIN refs \cup {Ref(n)}
          /\ Range(refs') \subseteq Range(refs) \cup {Original(c)}
      BY <1>6, <2>1
    <3>2. refs' = [x \in DOMAIN refs' |-> refs'[x]]
      BY <1>6, <2>1, ZenonT(40)
    <3>3. DOMAIN db \subseteq DOMAIN db' /\ Original(c) \in DOMAIN db'
      BY <1>5, <2>1
    <3>4. \A o \in DOMAIN db' : Shape(db', "attested", TRUE, o)
      BY <1>5, <2>1
    <3>5. marked' \in BOOLEAN /\ remote' \in BOOLEAN
      BY <1>2, <2>1
    <3> QED BY <1>2, <3>1, <3>2, <3>3, <3>4, <3>5
  <2>2. ASSUME NEW o \in DOMAIN db, NEW n \in Names,
               refs' = With(refs, Ref(n), o), UNCHANGED <<db, marked, remote>>
        PROVE  Sound(db', refs', marked', remote')
    <3>1. /\ DOMAIN refs' = DOMAIN refs \cup {Ref(n)}
          /\ Range(refs') \subseteq Range(refs) \cup {o}
      BY <1>6, <2>2
    <3>2. refs' = [x \in DOMAIN refs' |-> refs'[x]]
      BY <1>6, <2>2
    <3>3. \A x \in DOMAIN db' : Shape(db', "attested", TRUE, x)
      BY <1>3, <2>2
    <3>4. marked' \in BOOLEAN /\ remote' \in BOOLEAN
      BY <1>2, <2>2
    <3> QED BY <1>2, <2>2, <3>1, <3>2, <3>3, <3>4
  <2>3. ASSUME NEW r \in DOMAIN refs, refs' = Without({r}, refs), UNCHANGED <<db, marked, remote>>
        PROVE  Sound(db', refs', marked', remote')
    <3>1. DOMAIN refs' \subseteq DOMAIN refs /\ Range(refs') \subseteq Range(refs)
          /\ refs' = [x \in DOMAIN refs' |-> refs'[x]]
      BY <2>3 DEF Without, Range
    <3> QED BY <1>2, <1>3, <2>3, <3>1
  <2>4. ASSUME NEW c \in Commits, db' = Fetched(c), UNCHANGED <<refs, marked, remote>>
        PROVE  Sound(db', refs', marked', remote')
    BY <1>2, <1>4, <1>5, <2>4
  <2>5. ASSUME UNCHANGED <<refs, db>>, marked' \in BOOLEAN, remote' \in BOOLEAN
        PROVE  Sound(db', refs', marked', remote')
    BY <1>2, <1>3, <1>4, <2>5
  <2> QED BY <1>2, <2>1, <2>2, <2>3, <2>4, <2>5 DEF Tamper
<1>8. RefsShape(refs', stage', tampered')
  BY <1>1, <1>7 DEF RefsShape
<1>9. ReceiptInv'
  <2>1. policy.cutoff # 0 => receipt.refs = [r \in Selected |-> receipt.refs[r]]
    BY <1>1 DEF IInv, Inv, ReceiptInv
  <2>2. Selected' = Selected /\ policy' = policy
    BY <1>1, SameTerms DEF Fixed
  <2> QED BY <1>1, <2>1, <2>2 DEF ReceiptInv
<1> QED BY <1>1, <1>7, <1>8, <1>9, InvNext DEF Stages

-----------------------------------------------------------------------------
(* The theorems.                                                           *)

\* Every step keeps the invariant.
LEMMA NextInv ==
  ASSUME IInv, [Next]_vars
  PROVE  IInv'
<1>1. CASE Next
  <2>1. Given'
    BY <1>1 DEF IInv, Given, Next, Analyse, Refuse, Clone, CloneFails, Compact, Filter, Restore,
                Clean, Attest, Tamper, Verify
  <2>2. Inv'
    BY <1>1, EarlySteps, CloneStep, CompactStep, FilterStep, RestoreStep, CleanStep, AttestStep,
       TamperStep, VerifyStep DEF Next
  <2> QED BY <2>1, <2>2 DEF IInv
<1>2. CASE UNCHANGED vars
  <2>1. /\ UNCHANGED <<source, policy, stage, retained, refs, db, marked, remote, receipt, tampered>>
        /\ Fixed
    BY <1>2 DEF vars, Fixed
  <2>2. Given' /\ TypeOK'
    BY <2>1 DEF IInv, Inv, Given, TypeOK, Objects, Commits
  <2>3. RetainedInv'
    BY <2>1, SameTerms DEF IInv, Inv, RetainedInv
  <2>4. ObjectsInv'
    <3>1. \A o \in DOMAIN db : Shape(db, stage, tampered, o)
      BY ObjectsNow DEF IInv, Inv
    <3> QED BY <2>1, <3>1, ObjectsNext
  <2>5. RefsInv'
    <3>1. RefsShape(refs, stage, tampered)
      BY RefsNow DEF IInv, Inv
    <3> QED BY <2>1, <3>1, RefsNext
  <2>6. CommitsInv'
    BY <2>1 DEF IInv, Inv, CommitsInv
  <2>7. ReceiptInv'
    <3>1. Accepted' = Accepted
      BY <2>1 DEF Accepted, ReceiptMatches, HeadSymbolic, Complete, Graph, RootSynthetic,
                  RefsRetained, PathsExcluded, RemotesAbsent, ReachableOnly, Selected, Roots,
                  Reachable, Parents
    <3>2. Selected' = Selected
      BY <2>1, SameTerms
    <3> QED BY <2>1, <3>1, <3>2 DEF IInv, Inv, ReceiptInv
  <2> QED BY <2>2, <2>3, <2>4, <2>5, <2>6, <2>7 DEF IInv, Inv
<1> QED BY <1>1, <1>2

\* The invariant always holds, of a source and a policy that were given.
LEMMA AlwaysIInv == Spec => []IInv
<1>1. Init => IInv
  BY InitInv
<1>2. IInv /\ [Next]_vars => IInv'
  BY NextInv
<1> QED BY <1>1, <1>2, PTL DEF Spec

\* The inductive invariant of the rewrite: every object of the staged repository
\* is a source commit, a compacted one, one that path filtering left or an empty
\* root, each in the steps that may still have it; every reference is where the
\* retained commits and the pruning put it; what verify accepted, it accepts.
THEOREM HistoryInvariant == Spec => []Inv
<1>1. IInv => Inv
  BY DEF IInv
<1> QED BY <1>1, AlwaysIInv, PTL

\* What nobody changed is made of commits that are left and of empty roots.
LEMMA ProducedObjects ==
  ASSUME IInv, Produced, NEW o \in DOMAIN db
  PROVE  \/ /\ o[2] \in Standing(Surviving) /\ o = Rewritten(o[2])
            /\ db[o] = IF policy.rules THEN FilteredCommit(Surviving, o[2]) ELSE CompactCommit(o[2])
         \/ /\ o = Empty(o[2]) /\ db[o] = EmptyCommit
            /\ \E n \in policy.keep : o = Final(Surviving, n)
<1>1. Shape(db, stage, tampered, o)
  BY ObjectsNow DEF IInv, Inv
<1> QED BY <1>1 DEF Produced, Shape

\* What nobody changed has the selected references, and everything they lead to.
LEMMA ProducedFacts ==
  ASSUME IInv, Produced
  PROVE  /\ Analysed /\ Given
         /\ DOMAIN refs = Selected
         /\ \A r \in Selected : refs[r] = Final(Surviving, r[2])
         /\ Range(refs) \subseteq DOMAIN db
         /\ IsFiniteSet(DOMAIN db)
         /\ \A o \in DOMAIN db : Range(db[o].parents) \subseteq DOMAIN db
<1>1. Analysed /\ Given /\ stage \in Finished /\ ~tampered
  BY DEF IInv, Produced, Analysed, Finished
<1>2. RefsShape(refs, stage, tampered)
  BY RefsNow DEF IInv, Inv
<1>3. DOMAIN refs = Selected /\ \A r \in Selected : refs[r] = Final(Surviving, r[2])
  BY <1>1, <1>2 DEF RefsShape
<1>4. Range(refs) \subseteq DOMAIN db /\ DOMAIN db \subseteq Objects
  BY DEF IInv, Inv, TypeOK
<1>5. \A o \in DOMAIN db : Range(db[o].parents) \subseteq DOMAIN db
  BY <1>1 DEF IInv, Inv, CommitsInv
<1> QED BY <1>1, <1>3, <1>4, <1>5, ObjectsFinite, FS_Subset

\* Output and empty roots stand for retained commits.
LEMMA KeepsOnlyRetained == IInv => OnlyRetainedObjects
<1> SUFFICES ASSUME IInv, Produced, NEW o \in DOMAIN db
             PROVE  /\ o[1] # "original" /\ o[2] \in History(Targets)
                    /\ policy.mode # "snapshot" =>
                         IF policy.cutoff = 0 THEN o[2] \in source.recent
                         ELSE policy.cutoff \in History({o[2]})
  BY DEF OnlyRetainedObjects
<1>1. Analysed /\ Given
  BY ProducedFacts
<1>2. /\ DOMAIN retained \subseteq History(Targets)
      /\ Standing(Surviving) \subseteq DOMAIN retained
      /\ \A n \in policy.keep :
           \/ \E c \in Standing(Surviving) : Final(Surviving, n) = Rewritten(c)
           \/ \E c \in DOMAIN retained : Final(Surviving, n) = Empty(c)
  BY <1>1, AnalysedFacts
<1>3. Retainable /\ retained = RetainedParents
  BY <1>1 DEF IInv, Inv, RetainedInv, Analysed
<1>4. DOMAIN retained = Eligible
      /\ (policy.mode # "snapshot" =>
            \A c \in Eligible : IF policy.cutoff = 0 THEN c \in source.recent
                                ELSE policy.cutoff \in History({c}))
  BY <1>1, <1>3, RetainedFacts
<1>5. /\ \A c : /\ Rewritten(c)[1] = "rewritten" /\ Empty(c)[1] = "empty"
                /\ Rewritten(c)[2] = c /\ Empty(c)[2] = c
      /\ \A c, k : Rewritten(c) # Empty(k)
  BY DEF Rewritten, Empty
<1>6. o[1] # "original" /\ o[2] \in DOMAIN retained
  <2>1. CASE o[2] \in Standing(Surviving) /\ o = Rewritten(o[2])
    BY <1>2, <1>5, <2>1
  <2>2. CASE o = Empty(o[2]) /\ \E n \in policy.keep : o = Final(Surviving, n)
    <3>1. \E c \in DOMAIN retained : o = Empty(c)
      BY <1>2, <1>5, <2>2
    <3> QED BY <1>5, <2>2, <3>1
  <2> QED BY <2>1, <2>2, ProducedObjects
<1> QED BY <1>2, <1>4, <1>6

\* Once the clone is cleaned, nothing in it is a commit that the cutoff or the
\* selection leaves out: what gc and the bare clone keep is what the references
\* show, and that is output and empty roots only (cleanup.py:35).
THEOREM OnlyRetainedObjectsAlways == Spec => []OnlyRetainedObjects
BY AlwaysIInv, KeepsOnlyRetained, PTL

\* A reference ends at the commit that stands for its source commit, with the same content.
LEMMA KeepsContent == IInv => ReferencesKeepContent
<1> SUFFICES ASSUME IInv, Produced, NEW n \in policy.keep
             PROVE  LET old == source.tree[source.target[n]]
                    IN  db[refs[Ref(n)]].tree = IF policy.rules THEN Kept(old) ELSE old
  BY ProducedFacts DEF ReferencesKeepContent
<1> DEFINE S == Surviving
           c == source.target[n]
           e == Final(S, n)
<1>1. Analysed /\ Given /\ refs[Ref(n)] = e /\ e \in DOMAIN db
  <2>1. Ref(n) \in Selected /\ Ref(n)[2] = n
    BY DEF Selected, Ref
  <2>2. /\ Analysed /\ Given /\ DOMAIN refs = Selected
        /\ \A r \in Selected : refs[r] = Final(Surviving, r[2])
        /\ Range(refs) \subseteq DOMAIN db
    BY ProducedFacts
  <2>3. refs[Ref(n)] \in Range(refs)
    BY <2>1, <2>2 DEF Range
  <2> QED BY <2>1, <2>2, <2>3
<1>2. /\ RetainedGraph /\ Targets \subseteq DOMAIN retained
      /\ Survived(S, N)
  BY <1>1, AnalysedFacts
<1>3. c \in DOMAIN retained /\ DOMAIN retained \cap 1..N = DOMAIN retained /\ 0 \notin DOMAIN retained
  <2>1. 0 \notin 1..N
    BY NAssumption
  <2> QED BY <1>2, <2>1 DEF Targets, RetainedGraph, Commits
<1>4. FateOf(S, c) /\ DOMAIN S = DOMAIN retained
  BY <1>2, <1>3 DEF Survived
<1>5. /\ \A k : Rewritten(k)[2] = k /\ Empty(k)[2] = k
      /\ \A k, j : Rewritten(k) # Empty(j)
  BY DEF Rewritten, Empty
<1>6. \/ e = Rewritten(e[2]) /\ db[e] = IF policy.rules THEN FilteredCommit(S, e[2])
                                        ELSE CompactCommit(e[2])
      \/ e = Empty(e[2]) /\ db[e] = EmptyCommit
  BY <1>1, ProducedObjects
<1>7. CASE ~policy.rules
  <2>1. e = Rewritten(c)
    BY <1>3, <1>7 DEF Final
  <2>2. db[e] = CompactCommit(c)
    <3> HIDE DEF e, c
    <3> QED BY <1>5, <1>6, <1>7, <2>1
  <2>3. db[e].tree = source.tree[c]
    <3> HIDE DEF e, c
    <3> QED BY <2>2 DEF CompactCommit
  <2> QED BY <1>1, <1>7, <2>3
<1>8. CASE policy.rules
  <2> DEFINE to == S[c].to
  <2>1. e = IF to = 0 THEN Empty(RootOf(n)) ELSE Rewritten(to)
    BY <1>8 DEF Final
  <2>2. Content(c) = Content(to)
    BY <1>4 DEF FateOf
  <2>3. Content(c) = Kept(source.tree[c])
    BY <1>3 DEF Content
  <2>4. db[e].tree = Content(to)
    <3>1. CASE to = 0
      <4>1. Content(to) = <<0, 0>>
        BY <3>1 DEF Content
      <4> HIDE DEF e, to
      <4>2. db[e] = EmptyCommit
        BY <1>5, <1>6, <2>1, <3>1
      <4> QED BY <4>1, <4>2 DEF EmptyCommit
    <3>2. CASE to # 0
      <4>1. Content(to) = Kept(source.tree[to])
        BY <3>2 DEF Content
      <4> HIDE DEF e, to
      <4>2. db[e] = FilteredCommit(S, to)
        BY <1>5, <1>6, <1>8, <2>1, <3>2
      <4> QED BY <4>1, <4>2 DEF FilteredCommit
    <3> QED BY <3>1, <3>2
  <2> HIDE DEF e, to, c
  <2> QED BY <1>1, <1>8, <2>2, <2>3, <2>4 DEF c
<1> QED BY <1>7, <1>8

\* Whatever pruning, the recovery references and the empty roots did, a selected
\* reference of the output leads to the allowed paths of its source commit.
THEOREM ReferencesKeepContentAlways == Spec => []ReferencesKeepContent
BY AlwaysIInv, KeepsContent, PTL

\* The two ways in which a message of a commit that touched removed paths is lost.
LEMMA KeepsTouchedMessages == IInv => TouchedMessagesGone
<1> SUFFICES ASSUME IInv, stage = "verified", ~tampered, policy.rules,
                    NEW o \in DOMAIN db, o[1] = "rewritten", Touches(o[2])
             PROVE  db[o].message # "source"
  BY DEF TouchedMessagesGone
<1>1. DOMAIN db = Reachable /\ \A x \in Roots : db[x].message = "prefix"
  BY DEF IInv, Inv, ReceiptInv, Accepted, ReachableOnly, RootSynthetic
<1>2. db[o] = FilteredCommit(Surviving, o[2])
  <2>1. Empty(o[2])[1] = "empty"
    BY DEF Empty
  <2> QED BY <2>1, ProducedObjects DEF Produced
<1>3. CASE Surviving[o[2]].parents # <<>>
  <2>1. FilteredCommit(Surviving, o[2]).message = "mixed"
    BY <1>3 DEF FilteredCommit
  <2> QED BY <1>2, <2>1
<1>4. CASE Surviving[o[2]].parents = <<>>
  <2>1. FilteredCommit(Surviving, o[2]).parents = <<>>
    BY <1>4 DEF FilteredCommit, Map
  <2>2. o \in Roots
    BY <1>1, <1>2, <2>1 DEF Roots
  <2> QED BY <1>1, <2>2
<1> QED BY <1>3, <1>4

\* No commit whose changes touched a removed path shows its message in an output
\* that verify accepted: with a parent it got the mixed prefix, and without one it
\* is a root, which has to be synthetic (filtering.py:42).
THEOREM TouchedMessagesGoneAlways == Spec => []TouchedMessagesGone
BY AlwaysIInv, KeepsTouchedMessages, PTL

\* The oldest source commit of an accepted repository would be a root with its own message.
LEMMA NoOriginals ==
  ASSUME IInv, stage = "verified", NEW o \in DOMAIN db
  PROVE  o[1] # "original"
<1> DEFINE T == {c \in Commits : Original(c) \in DOMAIN db}
<1>1. /\ DOMAIN db = Reachable /\ \A x \in Roots : db[x].message = "prefix"
      /\ \A x \in Reachable : Range(db[x].parents) \subseteq DOMAIN db
  BY DEF IInv, Inv, ReceiptInv, Accepted, ReachableOnly, RootSynthetic, Graph
<1>2. /\ \A c : Original(c)[1] = "original" /\ Original(c)[2] = c
      /\ \A c : Rewritten(c)[1] = "rewritten" /\ Empty(c)[1] = "empty"
  BY DEF Original, Rewritten, Empty
<1>3. \A x \in DOMAIN db : x[1] = "original" =>
        x[2] \in Commits /\ x = Original(x[2]) /\ db[x] = OriginalCommit(x[2])
  <2>1. \A x \in DOMAIN db : Shape(db, stage, tampered, x)
    BY ObjectsNow DEF IInv, Inv
  <2> QED BY <1>2, <2>1 DEF Shape
<1>4. ASSUME T # {} PROVE FALSE
  <2>1. T \in SUBSET Nat
    BY NAssumption DEF Commits
  <2>2. PICK c \in T : \A k \in T : c <= k
    <3> HIDE DEF T
    <3> QED BY <1>4, <2>1, Least
  <2>3. /\ Original(c) \in DOMAIN db /\ db[Original(c)] = OriginalCommit(c)
        /\ source.parents[c] \in Seq(Commits)
        /\ \A p \in Range(source.parents[c]) : p < c
    BY <1>2, <1>3, GivenTypes DEF IInv
  <2>4. source.parents[c] = <<>>
    <3> SUFFICES ASSUME source.parents[c] # <<>> PROVE FALSE
      OBVIOUS
    <3>1. 1 \in DOMAIN source.parents[c]
      <4>1. Len(source.parents[c]) \in Nat \ {0}
            /\ DOMAIN source.parents[c] = 1..Len(source.parents[c])
        BY <2>3, EmptySeq
      <4> QED BY <4>1
    <3> DEFINE p == source.parents[c][1]
    <3>2. p \in Range(source.parents[c]) /\ p \in Commits /\ p < c
      BY <2>3, <3>1, RangeOfSeq DEF Range
    <3>3. Original(p) \in Range(db[Original(c)].parents)
      BY <2>3, <3>1 DEF OriginalCommit, Map, Range
    <3>4. Original(p) \in DOMAIN db
      BY <1>1, <2>3, <3>3
    <3>5. p \in T /\ c \in Nat /\ p \in Nat
      BY <2>1, <3>2, <3>4
    <3> HIDE DEF T, p
    <3> QED BY <2>2, <3>2, <3>5
  <2>5. OriginalCommit(c).parents = <<>> /\ OriginalCommit(c).message = "source"
    BY <2>4 DEF OriginalCommit, Map
  <2>6. Original(c) \in Roots
    BY <1>1, <2>3, <2>5 DEF Roots
  <2> QED BY <1>1, <2>3, <2>5, <2>6
<1> QED BY <1>3, <1>4

\* What the verification looks at is all that the verdict says.
LEMMA VerdictIsSound == IInv => VerdictHolds
<1> SUFFICES ASSUME IInv, stage = "verified" PROVE VerdictHolds
  BY DEF VerdictHolds
<1>1. /\ ReceiptMatches /\ Complete /\ RefsRetained /\ PathsExcluded /\ RemotesAbsent
      /\ ReachableOnly
  BY DEF IInv, Inv, ReceiptInv, Accepted
<1>2. \A o \in DOMAIN db : o[1] # "original"
  BY NoOriginals
<1>3. policy.rules => \A o \in DOMAIN db : db[o].tree[2] = 0
  BY <1>1 DEF PathsExcluded, ReachableOnly
<1>4. DOMAIN refs = Selected /\ DOMAIN db = Reachable /\ ~marked /\ ~remote
  BY <1>1 DEF RefsRetained, ReachableOnly, Complete, RemotesAbsent
<1>5. ASSUME policy.cutoff # 0 PROVE refs = receipt.refs
  <2>1. receipt.refs = [r \in Selected |-> receipt.refs[r]] /\ refs = [r \in DOMAIN refs |-> refs[r]]
    BY <1>5 DEF IInv, Inv, ReceiptInv, RefsInv
  <2>2. CASE policy.keep = {"HEAD"}
    <3>1. Selected = {Ref("HEAD")}
      BY <2>2 DEF Selected
    <3>2. refs[Ref("HEAD")] = receipt.refs[Ref("HEAD")]
      BY <1>1, <1>5, <2>2 DEF ReceiptMatches
    <3>3. \A r \in Selected : refs[r] = receipt.refs[r]
      BY <3>1, <3>2
    <3> QED BY <1>4, <2>1, <3>3
  <2>3. CASE policy.keep # {"HEAD"}
    <3>1. Restrict(refs, Selected) = receipt.refs
      BY <1>1, <1>5, <2>3 DEF ReceiptMatches
    <3>2. Restrict(refs, Selected) = [r \in Selected |-> refs[r]]
      BY DEF Restrict
    <3> QED BY <1>4, <2>1, <3>1, <3>2
  <2> QED BY <2>2, <2>3
<1> QED BY <1>2, <1>3, <1>4, <1>5 DEF VerdictHolds

\* Whoever changed the output, and whatever they fetched into it: what verify
\* accepts has no source commit, no removed path, no other reference, nothing
\* missing or unreachable, and its receipt names every reference (verify.py:318).
THEOREM VerdictHoldsAlways == Spec => []VerdictHolds
BY AlwaysIInv, VerdictIsSound, PTL

\* Who a commit of the output has for parents, and which commits of the output
\* are then above it: those above it among the retained ones.
Kin(c) == IF policy.rules THEN Surviving[c].parents ELSE retained[c]
Up(c) == Standing(Surviving) \cap Anc(c)

\* The parents in the output lead exactly to what is left of the ancestors.
LEMMA KinFacts ==
  ASSUME IInv, Analysed, NEW c \in Standing(Surviving)
  PROVE  /\ c \in Up(c)
         /\ Range(Kin(c)) \subseteq Standing(Surviving)
         /\ \A p \in Range(Kin(c)) : p < c
         /\ Up(c) = {c} \cup UNION {Up(p) : p \in Range(Kin(c))}
         /\ \A k \in Up(c) : Up(k) \subseteq Up(c)
<1> DEFINE S == Surviving
<1>1. /\ RetainedGraph /\ Survived(S, N) /\ Standing(S) \subseteq DOMAIN retained
      /\ DOMAIN retained \subseteq 1..N
  BY AnalysedFacts DEF RetainedGraph, Commits
<1>2. c \in DOMAIN retained /\ c \in Up(c) /\ \A k \in Anc(c) : Anc(k) \subseteq Anc(c)
  BY <1>1, AncIsBelow, AncTransitive DEF Up
<1>3. \A k \in Up(c) : Up(k) \subseteq Up(c)
  BY <1>2 DEF Up
<1>4. CASE policy.rules
  <2>1. Kin(c) = S[c].parents
    BY <1>4 DEF Kin
  <2>2. DOMAIN S = DOMAIN retained /\ \A k \in DOMAIN S : FateOf(S, k)
    BY <1>1 DEF Survived
  <2> HIDE DEF S
  <2>3. Standing(S) = Stay(S)
    BY <1>4, <2>2 DEF Standing, Stay
  <2>4. \A k \in Standing(S) : S[k].above = Up(k)
    BY <1>1, <2>2, <2>3 DEF FateOf, Up, S
  <2>5. FateOf(S, c) /\ S[c].to = c
    BY <1>2, <1>4, <2>2 DEF Standing, S
  <2>6. Range(Kin(c)) \subseteq Standing(S) /\ \A p \in Range(Kin(c)) : p < c
    BY <2>1, <2>3, <2>5 DEF FateOf
  <2>7. S[c].above = {c} \cup UNION {S[p].above : p \in Range(Kin(c))}
    BY <2>1, <2>5 DEF FateOf
  <2>8. UNION {S[p].above : p \in Range(Kin(c))} = UNION {Up(p) : p \in Range(Kin(c))}
    BY <2>4, <2>6
  <2>9. Up(c) = {c} \cup UNION {Up(p) : p \in Range(Kin(c))}
    BY <2>4, <2>7, <2>8 DEF S
  <2> QED BY <1>2, <1>3, <2>6, <2>9 DEF S
<1>5. CASE ~policy.rules
  <2>1. Kin(c) = retained[c] /\ Standing(S) = DOMAIN retained
    BY <1>5 DEF Kin, Standing
  <2>2. Range(Kin(c)) \subseteq DOMAIN retained /\ \A p \in Range(Kin(c)) : p < c
    BY <1>1, <1>2, <2>1, RangeOfSeq DEF RetainedGraph
  <2>3. Anc(c) = {c} \cup UNION {Anc(p) : p \in Range(Kin(c))}
    BY <1>1, <1>2, <2>1, AncUnfolds
  <2>4. \A k \in DOMAIN retained : Up(k) = Anc(k)
    BY <1>1, <2>1, AncIsBelow DEF Up
  <2>5. UNION {Up(p) : p \in Range(Kin(c))} = UNION {Anc(p) : p \in Range(Kin(c))}
    BY <2>2, <2>4
  <2>6. Up(c) = {c} \cup UNION {Up(p) : p \in Range(Kin(c))}
    BY <1>2, <2>3, <2>4, <2>5
  <2> QED BY <1>2, <1>3, <2>1, <2>2, <2>6
<1> QED BY <1>4, <1>5

\* From parents to ancestors, by the least closed set in one direction and by the
\* oldest commit that would be an exception in the other.
LEMMA KeepsAncestry == IInv => AncestryPreserved
<1> SUFFICES ASSUME IInv, Produced,
                    NEW a \in DOMAIN db, a[1] = "rewritten",
                    NEW b \in DOMAIN db, b[1] = "rewritten"
             PROVE  a \in Closure(Parents(db), {b}) <=> a[2] \in Closure(retained, {b[2]})
  BY DEF AncestryPreserved
<1> DEFINE S == Surviving
           Above(o) == Closure(Parents(db), {o})
<1>1. /\ Analysed /\ IsFiniteSet(DOMAIN db)
      /\ \A o \in DOMAIN db : Range(db[o].parents) \subseteq DOMAIN db
  BY ProducedFacts
<1>2. /\ DOMAIN Parents(db) = DOMAIN db
      /\ \A o \in DOMAIN db : Parents(db)[o] = db[o].parents
  BY DEF Parents
<1>3. \A c : Rewritten(c)[2] = c /\ Empty(c)[1] = "empty" /\ Rewritten(c)[1] = "rewritten"
  BY DEF Rewritten, Empty
<1>4. ASSUME NEW o \in DOMAIN db, o[1] = "rewritten"
      PROVE  /\ o[2] \in Standing(S) /\ o = Rewritten(o[2])
             /\ Range(Parents(db)[o]) = {Rewritten(p) : p \in Range(Kin(o[2]))}
  <2>1. /\ o[2] \in Standing(S) /\ o = Rewritten(o[2])
        /\ db[o] = IF policy.rules THEN FilteredCommit(S, o[2]) ELSE CompactCommit(o[2])
    BY <1>3, <1>4, ProducedObjects
  <2> HIDE DEF S
  <2>2. db[o].parents = Map(Rewritten, Kin(o[2]))
    BY <2>1 DEF FilteredCommit, CompactCommit, Kin, S
  <2>3. Range(Map(Rewritten, Kin(o[2]))) = {Rewritten(p) : p \in Range(Kin(o[2]))}
    BY DEF Map, Range
  <2> QED BY <1>2, <2>1, <2>2, <2>3
<1>5. \A c \in Standing(S) :
        /\ c \in Up(c)
        /\ Range(Kin(c)) \subseteq Standing(S)
        /\ \A p \in Range(Kin(c)) : p < c
        /\ Up(c) = {c} \cup UNION {Up(p) : p \in Range(Kin(c))}
        /\ \A k \in Up(c) : Up(k) \subseteq Up(c)
  BY <1>1, KinFacts
<1>6. a[2] \in Standing(S) /\ b[2] \in Standing(S) /\ a = Rewritten(a[2]) /\ b = Rewritten(b[2])
  BY <1>4
<1>7. a[2] \in Up(b[2]) <=> a[2] \in Closure(retained, {b[2]})
  BY <1>6 DEF Up, Anc
<1> HIDE DEF S
<1>8. ASSUME a \in Above(b) PROVE a[2] \in Up(b[2])
  <2> DEFINE C == {Rewritten(k) : k \in Up(b[2])}
  <2>1. {b} \cap DOMAIN Parents(db) \subseteq C
    BY <1>5, <1>6
  <2>2. ASSUME NEW x \in C \cap DOMAIN Parents(db), NEW p \in Range(Parents(db)[x])
        PROVE  p \in C
    <3>1. PICK k \in Up(b[2]) : x = Rewritten(k)
      OBVIOUS
    <3>2. x[1] = "rewritten" /\ x[2] = k /\ x \in DOMAIN db
      BY <1>2, <1>3, <3>1
    <3>3. PICK q \in Range(Kin(k)) : p = Rewritten(q)
      BY <1>4, <2>2, <3>2
    <3>4. k \in Standing(S) /\ q \in Standing(S) /\ q \in Up(q)
      BY <1>4, <1>5, <3>2, <3>3
    <3>5. q \in Up(k)
      BY <1>5, <3>3, <3>4
    <3> QED BY <1>5, <1>6, <3>1, <3>3, <3>5
  <2> HIDE DEF C
  <2>3. Above(b) \subseteq C
    BY <1>1, <1>2, <2>1, <2>2, ClosureLeast
  <2>4. a \in C
    BY <1>8, <2>3
  <2> QED BY <1>3, <2>4 DEF C
<1>9. ASSUME a[2] \in Up(b[2]) PROVE a \in Above(b)
  <2> DEFINE T == {c \in Standing(S) : /\ Rewritten(c) \in DOMAIN db /\ a[2] \in Up(c)
                                       /\ a \notin Above(Rewritten(c))}
  <2>1. \A o \in DOMAIN db : o \in Above(o)
    BY <1>1, <1>2, ClosureStarts
  <2>2. \A o \in DOMAIN db : \A p \in Range(Parents(db)[o]) : p \in DOMAIN db /\ Above(p) \subseteq Above(o)
    <3>1. ASSUME NEW o \in DOMAIN db, NEW p \in Range(Parents(db)[o])
          PROVE  p \in DOMAIN db /\ Above(p) \subseteq Above(o)
      <4>1. p \in DOMAIN db
        BY <1>1, <1>2, <3>1
      <4>2. p \in Above(o)
        <5>1. \A y \in Above(o) :
                Range(Parents(db)[y]) \cap DOMAIN Parents(db) \subseteq Above(o)
          BY <1>1, <1>2, ClosureIsClosed
        <5> HIDE DEF Above
        <5> QED BY <1>2, <2>1, <3>1, <4>1, <5>1
      <4> QED BY <1>1, <1>2, <4>1, <4>2, ClosureTransitive
    <3> HIDE DEF Above
    <3> QED BY <3>1
  <2> HIDE DEF Above
  <2>3. ASSUME T # {} PROVE FALSE
    <3>1. T \in SUBSET Nat
      <4>1. Standing(S) \subseteq DOMAIN retained /\ DOMAIN retained \subseteq 1..N
        BY <1>1, AnalysedFacts DEF RetainedGraph, Commits, S
      <4> QED BY <4>1, NAssumption
    <3>2. PICK c \in T : \A k \in T : c <= k
      <4> HIDE DEF T
      <4> QED BY <2>3, <3>1, Least
    <3>3. a[2] # c
      BY <1>6, <2>1, <3>2
    <3>4. PICK p \in Range(Kin(c)) : a[2] \in Up(p)
      BY <1>5, <3>2, <3>3
    <3>5. p \in Standing(S) /\ p < c
      BY <1>5, <3>4
    <3>6. Rewritten(p) \in Range(Parents(db)[Rewritten(c)])
      BY <1>3, <1>4, <3>2, <3>4
    <3>7. Rewritten(p) \in DOMAIN db /\ Above(Rewritten(p)) \subseteq Above(Rewritten(c))
      BY <2>2, <3>2, <3>6
    <3>8. p \in T
      BY <3>2, <3>4, <3>5, <3>7
    <3>9. c \in Nat /\ p \in Nat /\ c <= p
      <4> HIDE DEF T
      <4> QED BY <3>1, <3>2, <3>8
    <3> QED BY <3>5, <3>9
  <2> QED BY <1>6, <1>9, <2>3
<1> QED BY <1>7, <1>8, <1>9

\* Two commits of the output are one above the other exactly when they are among
\* the retained commits: compaction and pruning, which moves parents past every
\* commit that it drops and drops parents that have become redundant, lose no
\* line of descent and invent none (README:495).
THEOREM AncestryPreservedAlways == Spec => []AncestryPreserved
BY AlwaysIInv, KeepsAncestry, PTL
=============================================================================
