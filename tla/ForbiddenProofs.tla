-------------------------- MODULE ForbiddenProofs --------------------------
(***************************************************************************)
(* Whatever the patterns and the bodies are, a verification passes exactly *)
(* if no body contains a pattern, and the patterns are exactly the records *)
(* of the arguments, the files and standard input.                         *)
(***************************************************************************)
EXTENDS Forbidden, FiniteSetTheorems, SequenceTheorems, WellFoundedInduction, TLAPS

\* The part of Inv that matching needs.
CoreInv == TypeOK /\ ForbiddenInv

-----------------------------------------------------------------------------
(* Suffixes of what was read.                                              *)

\* What ends a suffix ends the whole.
LEMMA SuffixEnds ==
  ASSUME NEW t \in Seq(Byte), NEW k \in 0..Len(t), NEW n \in Seq(Byte),
         NEW m \in Seq(Byte), EndsWith(t, k, n), Suffix(m, n)
  PROVE  EndsWith(t, k, m)
<1>1. Len(m) <= Len(n) /\ Len(n) <= k  BY DEF EndsWith, Suffix
<1>2. ASSUME NEW i \in 1..Len(m) PROVE m[i] = t[k - Len(m) + i]
  <2>1. m[i] = n[Len(n) - Len(m) + i]  BY DEF Suffix, EndsWith
  <2>2. Len(n) - Len(m) + i \in 1..Len(n)  BY <1>1
  <2>3. n[Len(n) - Len(m) + i] = t[k - Len(n) + (Len(n) - Len(m) + i)]
    BY <2>2 DEF EndsWith
  <2> QED BY <2>1, <2>3, <1>1
<1> QED BY <1>1, <1>2 DEF EndsWith

\* Of two ends of one text the shorter is a suffix of the longer.
LEMMA EndsNest ==
  ASSUME NEW t \in Seq(Byte), NEW k \in 0..Len(t), NEW n \in Seq(Byte),
         NEW m \in Seq(Byte), EndsWith(t, k, n), EndsWith(t, k, m),
         Len(m) <= Len(n)
  PROVE  Suffix(m, n)
<1>1. ASSUME NEW i \in 1..Len(m) PROVE m[i] = n[Len(n) - Len(m) + i]
  <2>1. m[i] = t[k - Len(m) + i]  BY DEF EndsWith
  <2>2. Len(n) - Len(m) + i \in 1..Len(n)  OBVIOUS
  <2>3. n[Len(n) - Len(m) + i] = t[k - Len(n) + (Len(n) - Len(m) + i)]
    BY <2>2 DEF EndsWith
  <2> QED BY <2>1, <2>3
<1> QED BY <1>1 DEF Suffix, EndsWith

\* Two ends of one length are the same.
LEMMA EndsEqual ==
  ASSUME NEW t \in Seq(Byte), NEW k \in 0..Len(t), NEW n \in Seq(Byte),
         NEW m \in Seq(Byte), EndsWith(t, k, n), EndsWith(t, k, m),
         Len(m) = Len(n)
  PROVE  m = n
<1>1. \A i \in 1..Len(m) : m[i] = n[i]  BY DEF EndsWith
<1> QED BY <1>1

\* One byte more.
LEMMA EndsAppend ==
  ASSUME NEW t \in Seq(Byte), NEW k \in 0..(Len(t) - 1), NEW n \in Seq(Byte),
         NEW b \in Byte
  PROVE  EndsWith(t, k + 1, Append(n, b)) <=> EndsWith(t, k, n) /\ t[k + 1] = b
<1> DEFINE c == Append(n, b)
<1>1. c \in Seq(Byte) /\ Len(c) = Len(n) + 1 /\ c[Len(n) + 1] = b
      /\ \A i \in 1..Len(n) : c[i] = n[i]
  OBVIOUS
<1>2. ASSUME EndsWith(t, k + 1, c) PROVE EndsWith(t, k, n) /\ t[k + 1] = b
  <2>1. Len(c) <= k + 1 /\ \A i \in 1..Len(c) : c[i] = t[k + 1 - Len(c) + i]
    BY <1>2 DEF EndsWith
  <2>2. c[Len(n) + 1] = t[k + 1]  BY <2>1, <1>1
  <2>3. ASSUME NEW i \in 1..Len(n) PROVE n[i] = t[k - Len(n) + i]
    <3>0. i \in 1..Len(c) /\ i \in Nat /\ k + 1 - Len(c) + i = k - Len(n) + i  BY <1>1
    <3>1. c[i] = t[k + 1 - Len(c) + i]  BY <2>1, <3>0
    <3> QED BY <3>0, <3>1, <1>1
  <2> QED BY <2>1, <2>2, <2>3, <1>1 DEF EndsWith
<1>3. ASSUME EndsWith(t, k, n), t[k + 1] = b PROVE EndsWith(t, k + 1, c)
  <2>1. ASSUME NEW i \in 1..Len(c) PROVE c[i] = t[k + 1 - Len(c) + i]
    <3>1. CASE i = Len(n) + 1  BY <3>1, <1>1, <1>3
    <3>2. CASE i \in 1..Len(n)
      <4>1. n[i] = t[k - Len(n) + i]  BY <3>2, <1>3 DEF EndsWith
      <4> QED BY <4>1, <3>2, <1>1
    <3> QED BY <3>1, <3>2, <1>1
  <2> QED BY <2>1, <1>1, <1>3, SMTT(30) DEF EndsWith
<1> QED BY <1>2, <1>3

\* A part of a text.
LEMMA PartOfText ==
  ASSUME NEW t \in Seq(Byte), NEW i \in 1..(Len(t) + 1), NEW j \in 0..Len(t)
  PROVE  /\ SubSeq(t, i, j) \in Seq(Byte)
         /\ Len(SubSeq(t, i, j)) = IF i <= j THEN j - i + 1 ELSE 0
         /\ \A k \in 1..(j - i + 1) : SubSeq(t, i, j)[k] = t[i + k - 1]
<1>1. \A k \in i..j : t[k] \in Byte  OBVIOUS
<1>2. i \in Int /\ j \in Int  OBVIOUS
<1> QED BY <1>1, <1>2, SubSeqProperties

\* A text and its last byte.
LEMMA FrontLast ==
  ASSUME NEW n \in Seq(Byte), n # Root
  PROVE  /\ Front(n) \in Seq(Byte) /\ Len(Front(n)) = Len(n) - 1 /\ Len(n) \in Nat \ {0}
         /\ Last(n) \in Byte /\ n = Append(Front(n), Last(n))
         /\ \A i \in 1..(Len(n) - 1) : Front(n)[i] = n[i]
<1>1. Len(n) \in Nat \ {0}  BY EmptySeq DEF Root
<1>2. /\ Front(n) \in Seq(Byte) /\ Len(Front(n)) = Len(n) - 1
      /\ \A i \in 1..(Len(n) - 1) : Front(n)[i] = n[i]
  <2>1. 1 \in 1..(Len(n) + 1) /\ Len(n) - 1 \in 0..Len(n)  BY <1>1
  <2>2. /\ Front(n) \in Seq(Byte)
        /\ Len(Front(n)) = IF 1 <= Len(n) - 1 THEN Len(n) - 1 - 1 + 1 ELSE 0
        /\ \A i \in 1..(Len(n) - 1 - 1 + 1) : Front(n)[i] = n[1 + i - 1]
    BY <2>1, PartOfText DEF Front
  <2>3. Len(Front(n)) = Len(n) - 1
    <3>1. CASE Len(n) = 1  BY <2>2, <3>1
    <3>2. \A k \in Nat \ {0} : k = 1 \/ (1 <= k - 1 /\ k - 1 - 1 + 1 = k - 1)
      OBVIOUS
    <3>3. Len(n) = 1 \/ (1 <= Len(n) - 1 /\ Len(n) - 1 - 1 + 1 = Len(n) - 1)
      BY <1>1, <3>2
    <3> QED BY <2>2, <3>1, <3>3
  <2>4. ASSUME NEW i \in 1..(Len(n) - 1) PROVE Front(n)[i] = n[i]
    <3>1. i \in 1..(Len(n) - 1 - 1 + 1) /\ 1 + i - 1 = i  BY <1>1
    <3> QED BY <2>2, <3>1
  <2> QED BY <2>2, <2>3, <2>4
<1>3. Last(n) \in Byte /\ Last(n) = n[Len(n)]  BY <1>1 DEF Last
<1> DEFINE f == Front(n)
           b == Last(n)
<1>4. f \in Seq(Byte) /\ b \in Byte /\ Len(f) = Len(n) - 1 /\ b = n[Len(n)]
      /\ \A i \in 1..(Len(n) - 1) : f[i] = n[i]
  BY <1>2, <1>3
<1> HIDE DEF f, b
<1>5. Append(f, b) \in Seq(Byte) /\ Len(Append(f, b)) = Len(n)
  BY <1>1, <1>4
<1>6. \A i \in 1..Len(n) : Append(f, b)[i] = n[i]
  BY <1>1, <1>4
<1>7. n = Append(f, b)  BY <1>5, <1>6, SeqEqual
<1> QED BY <1>1, <1>2, <1>3, <1>7 DEF f, b

\* Going on in the trie appends a byte and going back to the parent removes it.
LEMMA FrontAppend ==
  ASSUME NEW n \in Seq(Byte), NEW b \in Byte
  PROVE  /\ Append(n, b) \in Seq(Byte) /\ Append(n, b) # Root
         /\ Len(Append(n, b)) = Len(n) + 1
         /\ Front(Append(n, b)) = n /\ Last(Append(n, b)) = b
BY DEF Front, Last, Root

\* A shorter end of a text that has one byte more.
LEMMA EndsFront ==
  ASSUME NEW t \in Seq(Byte), NEW k \in 0..(Len(t) - 1), NEW n \in Seq(Byte),
         n # Root, EndsWith(t, k + 1, n)
  PROVE  EndsWith(t, k, Front(n)) /\ Last(n) = t[k + 1]
<1>1. EndsWith(t, k + 1, Append(Front(n), Last(n)))  BY FrontLast
<1> QED BY <1>1, FrontLast, EndsAppend

\* Only the first k bytes matter.
LEMMA EndsSame ==
  ASSUME NEW t \in Seq(Byte), NEW u \in Seq(Byte), NEW k \in 0..Len(t), k <= Len(u),
         \A i \in 1..k : t[i] = u[i], NEW n \in Seq(Byte)
  PROVE  EndsWith(t, k, n) <=> EndsWith(u, k, n)
<1>1. ASSUME Len(n) <= k, NEW i \in 1..Len(n) PROVE t[k - Len(n) + i] = u[k - Len(n) + i]
  <2>1. k - Len(n) + i \in 1..k  BY <1>1
  <2> QED BY <2>1
<1> QED BY <1>1 DEF EndsWith

\* Every text ends with the empty one.
LEMMA EndsRoot ==
  ASSUME NEW t \in Seq(Byte), NEW k \in Nat
  PROVE  EndsWith(t, k, Root) /\ Len(Root) = 0 /\ Root \in Seq(Byte)
         /\ \A n \in Seq(Byte) : Len(n) = 0 => n = Root
BY EmptySeq DEF EndsWith, Root

-----------------------------------------------------------------------------
(* The trie.                                                               *)

\* The first k bytes of a text.
LEMMA Prefix ==
  ASSUME NEW t \in Seq(Byte), NEW k \in 0..Len(t)
  PROVE  /\ SubSeq(t, 1, k) \in Seq(Byte) /\ Len(SubSeq(t, 1, k)) = k
         /\ \A i \in 1..k : SubSeq(t, 1, k)[i] = t[i]
<1>1. 1 \in 1..(Len(t) + 1) /\ k \in Nat  OBVIOUS
<1>2. /\ SubSeq(t, 1, k) \in Seq(Byte)
      /\ Len(SubSeq(t, 1, k)) = IF 1 <= k THEN k - 1 + 1 ELSE 0
      /\ \A i \in 1..(k - 1 + 1) : SubSeq(t, 1, k)[i] = t[1 + i - 1]
  BY <1>1, PartOfText
<1>3. ASSUME NEW i \in 1..k PROVE SubSeq(t, 1, k)[i] = t[i]
  <2>1. i \in 1..(k - 1 + 1) /\ 1 + i - 1 = i  BY <1>1
  <2> QED BY <1>2, <2>1
<1> QED BY <1>1, <1>2, <1>3

\* The nodes are texts, among them every pattern and every beginning of a node.
LEMMA TrieNodes ==
  ASSUME NEW ps, ps \subseteq Seq(Byte), ps # {},
         NEW ns, ns = UNION {{SubSeq(p, 1, k) : k \in 0..Len(p)} : p \in ps}
  PROVE  /\ ns \subseteq Seq(Byte) /\ ps \subseteq ns /\ Root \in ns
         /\ \A n \in ns : \A k \in 0..Len(n) : SubSeq(n, 1, k) \in ns
<1>1. \A n : n \in ns <=> \E p \in ps : \E k \in 0..Len(p) : n = SubSeq(p, 1, k)
  OBVIOUS
<1>2. \A p \in ps : \A k \in 0..Len(p) :
        /\ SubSeq(p, 1, k) \in Seq(Byte) /\ Len(SubSeq(p, 1, k)) = k
        /\ \A i \in 1..k : SubSeq(p, 1, k)[i] = p[i]
  BY Prefix
<1>3. ns \subseteq Seq(Byte)
  <2>1. ASSUME NEW n \in ns PROVE n \in Seq(Byte)
    <3>1. PICK p \in ps : \E k \in 0..Len(p) : n = SubSeq(p, 1, k)  BY <1>1
    <3>2. PICK k \in 0..Len(p) : n = SubSeq(p, 1, k)  BY <3>1
    <3> QED BY <1>2, <3>1, <3>2
  <2> QED BY <2>1
<1>4. ASSUME NEW p \in ps PROVE p \in ns
  <2>1. p \in Seq(Byte) /\ Len(p) \in 0..Len(p)  OBVIOUS
  <2>2. SubSeq(p, 1, Len(p)) = p  BY <2>1, SubSeqFull
  <2> QED BY <1>1, <2>1, <2>2
<1>5. Root \in ns
  <2>1. PICK p \in ps : TRUE  OBVIOUS
  <2>2. p \in Seq(Byte) /\ 0 \in 0..Len(p)  BY <2>1
  <2>3. SubSeq(p, 1, 0) = Root  BY SubSeqEmpty DEF Root
  <2> QED BY <1>1, <2>1, <2>2, <2>3
<1>6. ASSUME NEW n \in ns, NEW k \in 0..Len(n) PROVE SubSeq(n, 1, k) \in ns
  <2>1. PICK p \in ps : \E j \in 0..Len(p) : n = SubSeq(p, 1, j)  BY <1>1
  <2>2. PICK j \in 0..Len(p) : n = SubSeq(p, 1, j)  BY <2>1
  <2>3. n \in Seq(Byte) /\ Len(n) = j /\ \A i \in 1..j : n[i] = p[i]
    BY <1>2, <2>1, <2>2
  <2>4. k \in 0..Len(p) /\ p \in Seq(Byte)  BY <2>1, <2>3
  <2>5. SubSeq(n, 1, k) \in Seq(Byte) /\ Len(SubSeq(n, 1, k)) = k
        /\ \A i \in 1..k : SubSeq(n, 1, k)[i] = n[i]
    BY <2>3, Prefix
  <2>6. SubSeq(p, 1, k) \in Seq(Byte) /\ Len(SubSeq(p, 1, k)) = k
        /\ \A i \in 1..k : SubSeq(p, 1, k)[i] = p[i]
    BY <2>4, Prefix
  <2>7. \A i \in 1..k : SubSeq(n, 1, k)[i] = SubSeq(p, 1, k)[i]
    <3>1. \A i \in 1..k : i \in 1..j  BY <2>3
    <3> QED BY <2>3, <2>5, <2>6, <3>1
  <2> DEFINE u == SubSeq(n, 1, k)
             w == SubSeq(p, 1, k)
  <2>9. u \in Seq(Byte) /\ w \in Seq(Byte) /\ Len(u) = Len(w) /\ \A i \in 1..Len(u) : u[i] = w[i]
    BY <2>5, <2>6, <2>7
  <2>10. w \in ns  BY <1>1, <2>1, <2>4
  <2> HIDE DEF u, w
  <2>8. u = w  BY <2>9, SeqEqual
  <2>11. u \in ns  BY <2>8, <2>10
  <2> QED BY <2>11 DEF u
<1> QED BY <1>3, <1>4, <1>5, <1>6

\* A set of nodes with all their beginnings.
Trie == /\ nodes \subseteq Seq(Byte) /\ Root \in nodes
        /\ \A n \in nodes : \A k \in 0..Len(n) : SubSeq(n, 1, k) \in nodes

\* Every node but the root hangs on another one: each insertion starts at the root.
LEMMA FrontIsNode ==
  ASSUME Trie, NEW n \in nodes, n # Root PROVE Front(n) \in nodes
<1>1. n \in Seq(Byte)  BY DEF Trie
<1>2. Len(n) \in Nat \ {0}  BY <1>1, FrontLast
<1>3. Len(n) - 1 \in 0..Len(n)  BY <1>2
<1> QED BY <1>3 DEF Trie, Front

\* When s is the longest node, among those shorter than limit, that the first k
\* bytes of t end with and that the next byte continues, then where s goes with
\* that byte is the longest that one byte more ends with.
Candidate(t, k, m) == EndsWith(t, k, m) /\ Append(m, t[k + 1]) \in nodes

\* Walking along failures until the next byte fits finds the longest node that the text
\* ends with: what is longer would have a longer front, and the walk visits those first.
LEMMA LongestGoesOn ==
  ASSUME Trie, NEW t \in Seq(Byte), NEW k \in 0..(Len(t) - 1), NEW limit \in Nat,
         NEW s \in nodes, EndsWith(t, k, s), ~Stuck(s, t[k + 1]),
         \A m \in nodes : Len(m) < limit /\ Candidate(t, k, m) => Len(m) <= Len(s)
  PROVE  LET g == Go(s, t[k + 1])
         IN  /\ g \in nodes /\ EndsWith(t, k + 1, g) /\ Len(g) <= Len(s) + 1
             /\ \A m \in nodes : Len(m) <= limit /\ EndsWith(t, k + 1, m) => Len(m) <= Len(g)
<1> DEFINE b == t[k + 1]
           g == Go(s, b)
<1>0. k \in Nat /\ k + 1 \in 1..Len(t) /\ k + 1 \in 0..Len(t) /\ k + 1 \in Nat  OBVIOUS
<1>1. b \in Byte  BY <1>0
<1>2. s \in Seq(Byte) /\ nodes \subseteq Seq(Byte) /\ Root \in nodes  BY DEF Trie
<1>3. /\ Append(s, b) \in Seq(Byte) /\ Len(Append(s, b)) = Len(s) + 1
      /\ EndsWith(t, k + 1, Append(s, b))
  <2>1. Append(s, b) \in Seq(Byte) /\ Len(Append(s, b)) = Len(s) + 1  BY <1>1, <1>2, FrontAppend
  <2>2. EndsWith(t, k + 1, Append(s, b))  BY <1>1, <1>2, EndsAppend
  <2> QED BY <2>1, <2>2
<1>4. g \in nodes /\ EndsWith(t, k + 1, g) /\ Len(g) <= Len(s) + 1
  <2>1. EndsWith(t, k + 1, Root) /\ Len(Root) = 0  BY <1>0, EndsRoot
  <2>2. Len(s) \in Nat  BY <1>2
  <2>3. CASE Append(s, b) \in nodes
    <3>1. g = Append(s, b)  BY <2>3 DEF Go
    <3> QED BY <1>3, <2>2, <2>3, <3>1
  <2>4. CASE Append(s, b) \notin nodes
    <3>1. g = Root  BY <2>4 DEF Go
    <3> QED BY <1>2, <2>1, <2>2, <3>1
  <2> QED BY <2>3, <2>4
<1>5. ASSUME NEW m \in nodes, Len(m) <= limit, EndsWith(t, k + 1, m) PROVE Len(m) <= Len(g)
  <2>0. m \in Seq(Byte) /\ g \in Seq(Byte) /\ Len(g) \in Nat  BY <1>2, <1>4
  <2>1. CASE m = Root  BY <2>0, <2>1, <1>0, EndsRoot
  <2>2. CASE m # Root
    <3>1. /\ Front(m) \in Seq(Byte) /\ Len(Front(m)) = Len(m) - 1 /\ Len(m) \in Nat \ {0}
          /\ m = Append(Front(m), Last(m))
      BY <2>0, <2>2, FrontLast
    <3>2. Front(m) \in nodes  BY <2>2, FrontIsNode
    <3>3. EndsWith(t, k, Front(m)) /\ Last(m) = b  BY <1>5, <2>0, <2>2, EndsFront
    <3>4. Candidate(t, k, Front(m))  BY <3>1, <3>3 DEF Candidate
    <3>5. Len(Front(m)) < limit  BY <1>5, <3>1
    <3>6. Len(Front(m)) <= Len(s)  BY <3>2, <3>4, <3>5
    <3>7. CASE Append(s, b) \in nodes
      <4>1. g = Append(s, b)  BY <3>7 DEF Go
      <4> QED BY <1>2, <1>3, <3>1, <3>6, <4>1
    <3>8. CASE Append(s, b) \notin nodes
      <4>1. s = Root  BY <3>8 DEF Stuck
      <4>2. Len(Front(m)) = 0  BY <1>0, <3>1, <3>6, <4>1, EndsRoot
      <4>3. Front(m) = s  BY <1>0, <3>1, <4>1, <4>2, EndsRoot
      <4>4. m = Append(s, b)  BY <3>1, <3>3, <4>3
      <4> QED BY <3>8, <4>4
    <3> QED BY <3>7, <3>8
  <2> QED BY <2>1, <2>2
<1> QED BY <1>4, <1>5

\* When the longest such node cannot be continued, the longest is no longer than
\* what its failure leads to.
LEMMA LongestFallsBack ==
  ASSUME Trie, NEW t \in Seq(Byte), NEW k \in 0..(Len(t) - 1), NEW limit \in Nat,
         NEW s \in nodes, EndsWith(t, k, s), Linked(s), Append(s, t[k + 1]) \notin nodes,
         \A m \in nodes : Len(m) < limit /\ Candidate(t, k, m) => Len(m) <= Len(s)
  PROVE  /\ failure[s] \in nodes /\ EndsWith(t, k, failure[s]) /\ Len(failure[s]) < Len(s)
         /\ \A m \in nodes : Len(m) < limit /\ Candidate(t, k, m) => Len(m) <= Len(failure[s])
<1>1. s \in Seq(Byte) /\ nodes \subseteq Seq(Byte) /\ k \in 0..Len(t)  BY DEF Trie
<1>2. /\ failure[s] \in nodes /\ Len(failure[s]) < Len(s) /\ Suffix(failure[s], s)
      /\ \A m \in nodes : Len(m) < Len(s) /\ Suffix(m, s) => Len(m) <= Len(failure[s])
  BY DEF Linked
<1>3. EndsWith(t, k, failure[s])
  <2>1. failure[s] \in Seq(Byte)  BY <1>1, <1>2
  <2> QED BY <1>1, <1>2, <2>1, SuffixEnds
<1>4. ASSUME NEW m \in nodes, Len(m) < limit, Candidate(t, k, m)
      PROVE  Len(m) <= Len(failure[s])
  <2>1. Len(m) <= Len(s) /\ EndsWith(t, k, m) /\ Append(m, t[k + 1]) \in nodes
    BY <1>4 DEF Candidate
  <2>2. m \in Seq(Byte) /\ Len(m) \in Nat /\ Len(s) \in Nat  BY <1>1
  <2>3. Len(m) # Len(s)
    <3>1. ASSUME Len(m) = Len(s) PROVE m = s  BY <1>1, <2>1, <2>2, <3>1, EndsEqual
    <3> QED BY <2>1, <3>1
  <2>4. Suffix(m, s)  BY <1>1, <2>1, <2>2, EndsNest
  <2>5. Len(m) < Len(s)  BY <2>1, <2>2, <2>3
  <2> QED BY <1>2, <2>4, <2>5
<1> QED BY <1>2, <1>3, <1>4

-----------------------------------------------------------------------------
(* Collecting.                                                             *)

InputTypes ==
  /\ given \in Cases
  /\ stream \in 0..Len(given.streams) /\ offset \in Nat
  /\ pending \in Seq(Byte) /\ Len(pending) <= InputLimit + ChunkSize
  /\ records \in Seq(Seq(Byte)) /\ total \in Nat /\ used \in Nat
  /\ seen \subseteq patterns /\ patterns \subseteq Seq(Byte)
TrieTypes ==
  /\ nodes \subseteq Seq(Byte) /\ terminal \subseteq nodes
  /\ failure \in [nodes -> nodes]
  /\ {parent, child, fall, state} \subseteq nodes
  /\ queue \subseteq nodes /\ todo \subseteq nodes
ScanTypes == body \in 0..Len(given.bodies) /\ fed \in Nat /\ end \in Nat
Results == {"none", "rejected", "unreadable", "clean", "forbidden", "failed"}
StepTypes ==
  /\ pc \in Collecting \cup Linking \cup Scanning \cup {"done"}
  /\ verdict \in Results

\* The types, split by the loop that writes them.
LEMMA TypeParts == TypeOK <=> InputTypes /\ TrieTypes /\ ScanTypes /\ StepTypes
BY DEF TypeOK, InputTypes, TrieTypes, ScanTypes, StepTypes, Results

\* What is given is typed.
LEMMA GivenTypes ==
  ASSUME given \in Cases
  PROVE  /\ given.values \in Seq(Seq(Byte)) /\ given.streams \in Seq(Seq(Byte))
         /\ given.bodies \in Seq(Seq(Byte))
BY CasesAssumption

\* While records are collected there is no automaton.
LEMMA CollectFrame ==
  ASSUME CoreInv, pc \in Collecting, UNCHANGED <<given, trieVars, linkVars, scanVars>>,
         InputTypes', StepTypes', ReadInv', pc' \in Collecting \cup {"done"}
  PROVE  CoreInv'
<1>1. TrieTypes' /\ ScanTypes'
  BY TypeParts DEF CoreInv, TrieTypes, ScanTypes, trieVars, linkVars, scanVars
<1>2. TypeOK'
  BY <1>1 DEF TypeOK, InputTypes, TrieTypes, ScanTypes, StepTypes, Results
<1>3. TrieInv' /\ LinkInv' /\ WalkInv' /\ ScanInv'
  BY DEF TrieInv, LinkInv, WalkInv, ScanInv, Collecting, Linking, Scanning
<1> QED BY <1>2, <1>3 DEF CoreInv, ForbiddenInv

\* The steps of collecting leave the rest as it is.
LEMMA CollectReads ==
  ASSUME CoreInv, pc \in Collecting, UNCHANGED <<linkVars, scanVars>>,
         pc' \in Collecting \cup {"done"}, pc' = "done" <=> verdict' # "none",
         pc' = "read" => Len(pending') <= InputLimit,
         pc' \in {"read", "cut"} => stream' # 0,
         pc' \in {"reset", "validate"} => pending' = <<>>,
         Root \notin patterns'
  PROVE  ReadInv'
BY DEF CoreInv, ForbiddenInv, ReadInv, Collecting, Linking, linkVars, scanVars

\* There is no verdict before the end.
LEMMA Running ==
  ASSUME CoreInv, pc # "done" PROVE verdict = "none"
BY DEF CoreInv, ForbiddenInv, ReadInv

\* append of a record refuses it or keeps it.
LEMMA AppendTypes ==
  ASSUME InputTypes, NEW record \in Seq(Byte), NEW next, AppendRecord(record, next)
  PROVE  /\ records' \in Seq(Seq(Byte)) /\ total' \in Nat
         /\ \/ pc' = "done" /\ verdict' = "rejected"
            \/ pc' = next /\ verdict' = verdict
<1> DEFINE size == total + Len(record)
<1>1. size \in Nat  BY DEF InputTypes
<1>2. records \in Seq(Seq(Byte)) /\ total \in Nat  BY DEF InputTypes
<1>3. Append(records, record) \in Seq(Seq(Byte))  BY <1>2, AppendProperties
<1>4. CASE Len(record) > InputLimit \/ size > TotalLimit - used
  BY <1>2, <1>4 DEF AppendRecord, Stop
<1>5. CASE ~(Len(record) > InputLimit \/ size > TotalLimit - used)
  BY <1>1, <1>3, <1>5 DEF AppendRecord, Goto
<1> QED BY <1>4, <1>5

\* read_records: the next chunk.
LEMMA ReadChunkKeeps ==
  ASSUME CoreInv, ReadChunk PROVE CoreInv'
<1> DEFINE text == given.streams[stream]
           upto == Smaller(offset + ChunkSize, Len(text))
           chunk == SubSeq(text, offset + 1, upto)
<1>0. InputTypes /\ StepTypes  BY TypeParts DEF CoreInv
<1>1. /\ pc = "read" /\ offset < Len(text) /\ pending' = pending \o chunk /\ offset' = upto
      /\ pc' = "cut" /\ verdict' = verdict
      /\ UNCHANGED <<given, stream, records, total, seen, used, patterns,
                     trieVars, linkVars, scanVars>>
  BY DEF ReadChunk, Goto
<1>2. stream \in 1..Len(given.streams)
  BY <1>0, <1>1, GivenTypes DEF InputTypes, CoreInv, ForbiddenInv, ReadInv
<1>3. text \in Seq(Byte) /\ Len(text) \in Nat
  BY <1>0, <1>2, GivenTypes DEF InputTypes
<1> HIDE DEF text
<1>4. upto \in Nat /\ upto <= Len(text) /\ offset < upto /\ upto - offset <= ChunkSize
      /\ offset \in Nat
  BY <1>0, <1>1, <1>3, LimitsAssumption DEF InputTypes, Smaller
<1>5. chunk \in Seq(Byte) /\ Len(chunk) = upto - offset
  <2>1. offset + 1 \in 1..(Len(text) + 1) /\ upto \in 0..Len(text) /\ offset + 1 <= upto
        /\ upto - (offset + 1) + 1 = upto - offset
    BY <1>3, <1>4
  <2> QED BY <1>3, <2>1, PartOfText
<1> HIDE DEF chunk, upto
<1>6. Len(pending) <= InputLimit /\ pending \in Seq(Byte) /\ stream # 0
  BY <1>0, <1>1 DEF InputTypes, CoreInv, ForbiddenInv, ReadInv
<1>7. pending' \in Seq(Byte) /\ Len(pending') = Len(pending) + Len(chunk)
  BY <1>1, <1>5, <1>6, ConcatProperties
<1>8. Len(pending') <= InputLimit + ChunkSize
  BY <1>4, <1>5, <1>6, <1>7, LimitsAssumption
<1>9. InputTypes' /\ StepTypes'
  BY <1>0, <1>1, <1>4, <1>7, <1>8 DEF InputTypes, StepTypes, Collecting
<1>10. ReadInv'
  BY <1>1, <1>6, Running, CollectReads DEF Collecting, CoreInv, ForbiddenInv, ReadInv
<1> QED BY <1>1, <1>9, <1>10, CollectFrame DEF Collecting

\* read_records: a complete record is cut from what is pending.
LEMMA CutRecordKeeps ==
  ASSUME CoreInv, CutRecord PROVE CoreInv'
<1>0. InputTypes /\ StepTypes  BY TypeParts DEF CoreInv
<1>1. PICK first \in Newlines :
        /\ AppendRecord(SubSeq(pending, 1, first - 1), "cut")
        /\ pending' = SubSeq(pending, first + 1, Len(pending))
  BY DEF CutRecord
<1>2. /\ pc = "cut"
      /\ UNCHANGED <<given, stream, offset, seen, used, patterns, trieVars, linkVars, scanVars>>
  BY DEF CutRecord
<1>3. pending \in Seq(Byte) /\ Len(pending) <= InputLimit + ChunkSize /\ Len(pending) \in Nat
  BY <1>0 DEF InputTypes
<1>4. first \in 1..Len(pending)  BY <1>3 DEF Newlines
<1> DEFINE record == SubSeq(pending, 1, first - 1)
           rest == SubSeq(pending, first + 1, Len(pending))
<1>5. record \in Seq(Byte)
  <2>1. 1 \in 1..(Len(pending) + 1) /\ first - 1 \in 0..Len(pending)  BY <1>3, <1>4
  <2> QED BY <1>3, <2>1, PartOfText
<1>6. rest \in Seq(Byte) /\ Len(rest) <= Len(pending)
  <2>1. first + 1 \in 1..(Len(pending) + 1) /\ Len(pending) \in 0..Len(pending)  BY <1>3, <1>4
  <2>2. /\ rest \in Seq(Byte)
        /\ Len(rest) = IF first + 1 <= Len(pending) THEN Len(pending) - (first + 1) + 1 ELSE 0
    BY <1>3, <2>1, PartOfText
  <2> HIDE DEF rest
  <2> QED BY <1>3, <1>4, <2>2
<1> HIDE DEF record, rest
<1>7. /\ records' \in Seq(Seq(Byte)) /\ total' \in Nat
      /\ \/ pc' = "done" /\ verdict' = "rejected"
         \/ pc' = "cut" /\ verdict' = verdict
  BY <1>0, <1>1, <1>5, AppendTypes DEF record
<1>8. pending' \in Seq(Byte) /\ Len(pending') <= InputLimit + ChunkSize
  BY <1>1, <1>3, <1>6, LimitsAssumption DEF rest
<1>9. InputTypes' /\ StepTypes'
  BY <1>0, <1>2, <1>7, <1>8 DEF InputTypes, StepTypes, Collecting, Results
<1>10. ReadInv'
  BY <1>2, <1>7, Running, CollectReads DEF Collecting, CoreInv, ForbiddenInv, ReadInv
<1> QED BY <1>2, <1>7, <1>9, <1>10, CollectFrame DEF Collecting

\* read_records: the rest of the stream is a record too.
LEMMA EndStreamKeeps ==
  ASSUME CoreInv, EndStream PROVE CoreInv'
<1>0. InputTypes /\ StepTypes  BY TypeParts DEF CoreInv
<1>1. /\ pc = "read" /\ pending' = <<>>
      /\ UNCHANGED <<given, stream, offset, seen, used, patterns, trieVars, linkVars, scanVars>>
  BY DEF EndStream
<1>2. /\ records' \in Seq(Seq(Byte)) /\ total' \in Nat
      /\ \/ pc' = "done" /\ verdict' = "rejected"
         \/ pc' = "reset" /\ verdict' = verdict
  <2>1. CASE pending # <<>>
    BY <1>0, <2>1, AppendTypes DEF EndStream, InputTypes
  <2>2. CASE pending = <<>>
    BY <1>0, <2>2 DEF EndStream, InputTypes, Goto
  <2> QED BY <2>1, <2>2
<1>3. pending' \in Seq(Byte) /\ Len(pending') <= InputLimit + ChunkSize
  BY <1>1, EmptySeq, LimitsAssumption
<1>4. InputTypes' /\ StepTypes'
  BY <1>0, <1>1, <1>2, <1>3 DEF InputTypes, StepTypes, Collecting, Results
<1>5. ReadInv'
  BY <1>1, <1>2, Running, CollectReads DEF Collecting, CoreInv, ForbiddenInv, ReadInv
<1> QED BY <1>1, <1>2, <1>4, <1>5, CollectFrame DEF Collecting

\* _validated: the next record is counted and becomes a pattern.
LEMMA ValidateKeeps ==
  ASSUME CoreInv, Validate PROVE CoreInv'
<1>0. InputTypes /\ StepTypes  BY TypeParts DEF CoreInv
<1> DEFINE record == Head(records)
<1>1. /\ pc = "validate" /\ records # <<>>
      /\ UNCHANGED <<given, stream, offset, pending, trieVars, linkVars, scanVars>>
  BY DEF Validate
<1>2. records \in Seq(Seq(Byte)) /\ record \in Seq(Byte) /\ Tail(records) \in Seq(Seq(Byte))
  BY <1>0, <1>1, HeadTailProperties DEF InputTypes
<1>3. Len(record) \in Nat /\ total + Len(record) \in Nat /\ used + Len(record) \in Nat
  BY <1>0, <1>2 DEF InputTypes
<1>4. \/ /\ pc' = "done" /\ verdict' = "rejected"
         /\ UNCHANGED <<records, total, seen, used, patterns>>
      \/ /\ pc' = "validate" /\ verdict' = verdict /\ Len(record) \in 1..InputLimit
         /\ records' = Tail(records) /\ total' = total + Len(record)
         /\ seen' = seen \cup {record} /\ patterns' = patterns \cup {record}
         /\ used' \in {used, used + Len(record)}
  <2>1. CASE Len(record) \notin 1..InputLimit \/ total + Len(record) > TotalLimit
    BY <2>1 DEF Validate, Stop
  <2>2. CASE ~(Len(record) \notin 1..InputLimit \/ total + Len(record) > TotalLimit)
    BY <2>2 DEF Validate, Goto
  <2> QED BY <2>1, <2>2
<1> HIDE DEF record
<1>5. InputTypes'
  <2>1. records' \in Seq(Seq(Byte)) /\ total' \in Nat /\ used' \in Nat
        /\ seen' \subseteq patterns' /\ patterns' \subseteq Seq(Byte)
    BY <1>0, <1>2, <1>3, <1>4 DEF InputTypes
  <2> QED BY <1>0, <1>1, <2>1 DEF InputTypes
<1>6. StepTypes'  BY <1>0, <1>4 DEF StepTypes, Collecting, Results
<1>7. Root \notin patterns'
  <2>1. Root \notin patterns  BY DEF CoreInv, ForbiddenInv, ReadInv
  <2>2. Len(record) \in 1..InputLimit => record # Root  BY EmptySeq DEF Root
  <2> QED BY <1>4, <2>1, <2>2
<1>8. ReadInv'
  <2>1. pc' \in {"done", "validate"} /\ (pc' = "done" <=> verdict' # "none")
    BY <1>1, <1>4, Running
  <2>2. pending' = <<>>  BY <1>1 DEF CoreInv, ForbiddenInv, ReadInv
  <2> QED BY <1>1, <1>7, <2>1, <2>2, CollectReads DEF Collecting
<1> QED BY <1>1, <1>4, <1>5, <1>6, <1>8, CollectFrame DEF Collecting

\* The other steps of collect.
LEMMA CollectKeeps ==
  ASSUME CoreInv, CheckPending \/ StartValidation \/ NextStream \/ InputFails PROVE CoreInv'
<1>0. InputTypes /\ StepTypes  BY TypeParts DEF CoreInv
<1>1. CASE CheckPending
  <2>1. /\ pc = "cut" /\ UNCHANGED <<given, inputVars, trieVars, linkVars, scanVars>>
        /\ \/ pc' = "done" /\ verdict' = "rejected"
           \/ pc' = "read" /\ verdict' = verdict /\ ~(Len(pending) > InputLimit)
    BY <1>1 DEF CheckPending, Goto, Stop
  <2>2. InputTypes' /\ StepTypes'
    BY <1>0, <2>1 DEF InputTypes, StepTypes, Collecting, Results, inputVars
  <2>3. pc' = "read" => Len(pending') <= InputLimit
    BY <1>0, <2>1, LimitsAssumption DEF InputTypes, inputVars
  <2>4. ReadInv'
    BY <2>1, <2>3, Running, CollectReads DEF Collecting, inputVars, CoreInv, ForbiddenInv, ReadInv
  <2> QED BY <2>1, <2>2, <2>4, CollectFrame DEF Collecting
<1>2. CASE StartValidation
  <2>1. /\ pc = "reset" /\ pc' = "validate" /\ verdict' = verdict /\ total' = 0 /\ seen' = {}
        /\ UNCHANGED <<given, stream, offset, pending, records, used, patterns,
                       trieVars, linkVars, scanVars>>
    BY <1>2 DEF StartValidation, Goto
  <2>2. InputTypes' /\ StepTypes'
    BY <1>0, <2>1 DEF InputTypes, StepTypes, Collecting
  <2>3. ReadInv'
    BY <2>1, Running, CollectReads DEF Collecting, CoreInv, ForbiddenInv, ReadInv
  <2> QED BY <2>1, <2>2, <2>3, CollectFrame DEF Collecting
<1>3. CASE NextStream
  <2>1. /\ pc = "validate" /\ stream < Len(given.streams) /\ stream' = stream + 1
        /\ offset' = 0 /\ total' = 0 /\ pc' = "read" /\ verdict' = verdict
        /\ UNCHANGED <<given, pending, records, seen, used, patterns,
                       trieVars, linkVars, scanVars>>
    BY <1>3 DEF NextStream, Goto
  <2>2. Len(given.streams) \in Nat /\ pending = <<>>
    BY <1>0, <2>1, GivenTypes DEF InputTypes, CoreInv, ForbiddenInv, ReadInv
  <2>3. stream' \in 0..Len(given.streams) /\ stream' # 0
    BY <1>0, <2>1, <2>2 DEF InputTypes
  <2>4. InputTypes' /\ StepTypes'
    BY <1>0, <2>1, <2>3 DEF InputTypes, StepTypes, Collecting
  <2>5. Len(pending') <= InputLimit  BY <2>1, <2>2, EmptySeq, LimitsAssumption
  <2>6. ReadInv'
    BY <2>1, <2>3, <2>5, Running, CollectReads DEF Collecting, CoreInv, ForbiddenInv, ReadInv
  <2> QED BY <2>1, <2>4, <2>6, CollectFrame DEF Collecting
<1>4. CASE InputFails
  <2>1. /\ pc \in {"validate", "read"} /\ pc' = "done" /\ verdict' = "unreadable"
        /\ UNCHANGED <<given, inputVars, trieVars, linkVars, scanVars>>
    BY <1>4 DEF InputFails, Stop
  <2>2. InputTypes' /\ StepTypes'
    BY <1>0, <2>1 DEF InputTypes, StepTypes, Results, inputVars
  <2>3. ReadInv'
    BY <2>1, CollectReads DEF Collecting, inputVars, CoreInv, ForbiddenInv, ReadInv
  <2> QED BY <2>1, <2>2, <2>3, CollectFrame DEF Collecting
<1> QED BY <1>1, <1>2, <1>3, <1>4

-----------------------------------------------------------------------------
(* Linking.                                                                *)

\* A length that is not zero and at most one is one.
LEMMA LengthOne ==
  ASSUME NEW x \in Nat, NEW y \in Nat, y = 1, x >= 1, x <= y
  PROVE  x = y
OBVIOUS

\* Moving a part from the whole to what was counted before keeps the bound.
LEMMA ShareCounted ==
  ASSUME NEW c \in Nat, NEW d \in Nat, NEW part \in Nat, NEW left \in Nat,
         NEW all, NEW size \in Nat,
         all = part + left, c + all <= size, d <= c + part
  PROVE  d + left <= size
OBVIOUS

\* Matcher: all patterns are inserted, and the children of the root are queued.
LEMMA EndCollectKeeps ==
  ASSUME CoreInv, EndCollect PROVE CoreInv'
<1>0. InputTypes /\ StepTypes /\ TrieTypes /\ ScanTypes  BY TypeParts DEF CoreInv
<1>1. pc = "validate" /\ UNCHANGED <<given, inputVars, parent, todo, child, fall, scanVars>>
  BY DEF EndCollect
<1>2. CASE /\ pc' = "done" /\ verdict' \in {"rejected", "clean"} /\ UNCHANGED <<trieVars, queue>>
  <2>1. UNCHANGED linkVars  BY <1>1, <1>2 DEF linkVars
  <2>2. InputTypes' /\ StepTypes'
    BY <1>0, <1>1, <1>2 DEF InputTypes, StepTypes, Results, inputVars
  <2>3. ReadInv'
    BY <1>1, <1>2, <2>1, CollectReads DEF Collecting, inputVars, CoreInv, ForbiddenInv, ReadInv
  <2> QED BY <1>1, <1>2, <2>1, <2>2, <2>3, CollectFrame DEF Collecting
<1>3. CASE /\ patterns # {}
           /\ nodes' = UNION {{SubSeq(p, 1, k) : k \in 0..Len(p)} : p \in patterns}
           /\ failure' = [n \in nodes' |-> Root]
           /\ terminal' = patterns
           /\ queue' = {n \in nodes' : Len(n) = 1}
           /\ Goto("link")
  <2>1. /\ patterns \subseteq Seq(Byte) /\ Root \notin patterns /\ body = 0
        /\ parent = Root /\ child = Root /\ fall = Root /\ state = Root /\ todo = {}
    BY <1>0, <1>1 DEF InputTypes, CoreInv, ForbiddenInv, ReadInv, Collecting
  <2>2. /\ nodes' \subseteq Seq(Byte) /\ patterns \subseteq nodes' /\ Root \in nodes'
        /\ \A n \in nodes' : \A k \in 0..Len(n) : SubSeq(n, 1, k) \in nodes'
    <3> HIDE <1>0
    <3>1. patterns \subseteq Seq(Byte) /\ patterns # {}  BY <2>1, <1>3
    <3>2. nodes' = UNION {{SubSeq(p, 1, k) : k \in 0..Len(p)} : p \in patterns}  BY <1>3
    <3> QED BY <3>1, <3>2, TrieNodes
  <2>3. /\ pc' = "link" /\ verdict' = verdict /\ terminal' = patterns /\ patterns' = patterns
        /\ failure' = [n \in nodes' |-> Root] /\ queue' = {n \in nodes' : Len(n) = 1}
        /\ parent' = Root /\ child' = Root /\ fall' = Root /\ state' = Root /\ todo' = {}
        /\ body' = 0
    BY <1>1, <1>3, <2>1 DEF Goto, inputVars, scanVars
  <2>4. TypeOK'
    <3>1. InputTypes' /\ StepTypes' /\ ScanTypes'
      BY <1>0, <1>1, <2>3, GivenTypes DEF InputTypes, StepTypes, ScanTypes, Linking, inputVars, scanVars
    <3>2. TrieTypes'  BY <2>2, <2>3 DEF TrieTypes
    <3> QED BY <3>1, <3>2 DEF TypeOK, InputTypes, TrieTypes, ScanTypes, StepTypes, Results
  <2>5. Trie'  BY <2>2 DEF Trie
  <2>6. ASSUME NEW n \in nodes', Len(n) = 1 PROVE Linked(n)'
    <3>1. /\ failure'[n] = Root /\ terminal' = patterns' /\ patterns' \subseteq Seq(Byte)
          /\ Root \notin patterns'
      BY <2>1, <2>3
    <3>2. n \in Seq(Byte)  BY <2>2
    <3>3. Len(Root) = 0 /\ Suffix(Root, n) /\ \A m \in Seq(Byte) : Len(m) = 0 => m = Root
      BY <3>2, EndsRoot DEF Suffix
    <3>4. \A m \in nodes' : Len(m) < 1 => Len(m) <= 0
      BY <2>2
    <3>5. n \in terminal' <=> \E p \in patterns' : Suffix(p, n)
      <4>1. ASSUME NEW p \in patterns', Suffix(p, n) PROVE p = n
        <5>1. p \in Seq(Byte) /\ Len(p) >= 1
          <6>1. p \in Seq(Byte) /\ p # <<>>  BY <3>1 DEF Root
          <6>2. Len(p) \in Nat \ {0}  BY <6>1, EmptySeq
          <6> QED BY <6>1, <6>2
        <5>2. EndsWith(n, Len(n), p) /\ Len(p) <= Len(n)  BY <4>1 DEF Suffix, EndsWith
        <5>0. Len(p) \in Nat /\ Len(p) >= 1  BY <5>1
        <5>3. Len(p) = Len(n)
          <6>1. Len(n) = 1 /\ Len(p) <= Len(n)  BY <2>6, <5>2
          <6>2. Len(n) \in Nat  BY <3>2
          <6> QED BY <5>0, <6>1, <6>2, LengthOne
        <5>4. EndsWith(n, Len(n), n) /\ Len(n) \in 0..Len(n)  BY <3>2 DEF EndsWith
        <5> QED BY <3>2, <5>1, <5>2, <5>3, <5>4, EndsEqual
      <4>2. n \in patterns' => Suffix(n, n)  BY <3>2 DEF Suffix, EndsWith
      <4> QED BY <3>1, <4>1, <4>2
    <3> QED BY <2>2, <2>6, <3>1, <3>3, <3>4, <3>5 DEF Linked
  <2>7. TrieInv'
    <3>1. \A p \in patterns : Suffix(p, p)  BY <2>1 DEF Suffix, EndsWith
    <3> QED BY <2>2, <2>3, <3>1 DEF TrieInv
  <2>8. LinkInv'
    <3>1. Len(Root) = 0 /\ \A n \in Seq(Byte) : Len(n) \in Nat /\ (Len(n) = 0 => n = Root)
      BY EmptySeq DEF Root
    <3>2. \A n \in queue' : Len(n) - Len(parent') \in 0..1 /\ n # Root /\ Linked(n)'
      BY <2>3, <2>6, <3>1
    <3>3. \A n \in nodes' \ {Root} : ~(Len(n) <= Len(parent'))
      BY <2>2, <2>3, <3>1
    <3>4. \A n \in nodes' : Len(n) = Len(parent') + 1 => n \in queue'
      BY <2>3, <3>1
    <3> QED BY <2>3, <3>2, <3>3, <3>4 DEF LinkInv
  <2>9. WalkInv' /\ ScanInv'
    BY <2>3 DEF WalkInv, ScanInv, Scanning
  <2>10. ReadInv'
    BY <1>1, <2>1, <2>3, Running DEF ReadInv, Collecting
  <2> QED BY <2>4, <2>7, <2>8, <2>9, <2>10 DEF CoreInv, ForbiddenInv
<1> QED BY <1>2, <1>3 DEF EndCollect, Stop

\* A step of the breadth-first loop has to keep what is known of the queue and the walk.
LEMMA LinkFrame ==
  ASSUME CoreInv, pc \in Linking, pc' \in Linking,
         UNCHANGED <<given, inputVars, nodes, scanVars, verdict>>,
         TrieTypes', TrieInv', LinkInv', WalkInv'
  PROVE  CoreInv'
<1>0. InputTypes /\ StepTypes /\ ScanTypes  BY TypeParts DEF CoreInv
<1>1. InputTypes' /\ StepTypes' /\ ScanTypes'
  BY <1>0 DEF InputTypes, StepTypes, ScanTypes, inputVars, scanVars
<1>2. TypeOK'
  BY <1>1 DEF TypeOK, InputTypes, TrieTypes, ScanTypes, StepTypes, Results
<1>3. ReadInv'
  <2>1. verdict = "none" /\ body = 0 /\ Root \notin patterns
    BY Running DEF Linking, CoreInv, ForbiddenInv, ReadInv
  <2> QED BY <2>1 DEF ReadInv, Linking, Collecting, inputVars, scanVars
<1>4. ScanInv'  BY DEF ScanInv, Linking, Scanning
<1> QED BY <1>2, <1>3, <1>4 DEF CoreInv, ForbiddenInv

\* What is known in that loop.
LEMMA LinkFacts ==
  ASSUME CoreInv, pc \in Linking
  PROVE  /\ Trie /\ TrieTypes /\ parent \in nodes /\ parent \in Seq(Byte)
         /\ \A n \in nodes : n \in Seq(Byte) /\ Len(n) \in Nat
         /\ patterns \subseteq nodes /\ Root \notin patterns
         /\ patterns \subseteq terminal /\ \A n \in terminal : \E p \in patterns : Suffix(p, n)
         /\ \A n \in queue : n \in nodes /\ n # Root /\ Linked(n)
                             /\ (Len(n) = Len(parent) \/ Len(n) = Len(parent) + 1)
         /\ \A n \in nodes \ {Root} : Len(n) <= Len(parent) => Linked(n)
         /\ \A n \in nodes : Len(n) = Len(parent) + 1 =>
              n \in queue \/ n \in todo \/ Front(n) \in queue
         /\ \A n \in todo : n \in nodes /\ n # Root /\ Front(n) = parent /\ parent # Root
<1>1. TrieTypes /\ TrieInv /\ LinkInv /\ ReadInv  BY TypeParts DEF CoreInv, ForbiddenInv
<1>2. Trie /\ \A n \in nodes : n \in Seq(Byte) /\ Len(n) \in Nat
  BY <1>1 DEF TrieTypes, TrieInv, Trie
<1>3. parent \in nodes /\ parent \in Seq(Byte) /\ queue \subseteq nodes /\ todo \subseteq nodes
      /\ terminal \subseteq nodes
  BY <1>1, <1>2 DEF TrieTypes
<1>4. ASSUME NEW n \in queue
      PROVE  n \in nodes /\ n # Root /\ Linked(n) /\ (Len(n) = Len(parent) \/ Len(n) = Len(parent) + 1)
  <2>1. Len(n) - Len(parent) \in 0..1 /\ n # Root /\ Linked(n)  BY <1>1, <1>4 DEF LinkInv
  <2>2. Len(n) \in Nat /\ Len(parent) \in Nat  BY <1>2, <1>3
  <2> QED BY <1>3, <2>1, <2>2
<1>5. patterns \subseteq terminal /\ \A n \in terminal : \E p \in patterns : Suffix(p, n)
  BY <1>1 DEF TrieInv
<1> QED BY <1>1, <1>2, <1>3, <1>4, <1>5 DEF LinkInv, ReadInv

\* Matcher: the next node is taken from the queue.
LEMMA DequeueKeeps ==
  ASSUME CoreInv, Dequeue PROVE CoreInv'
<1>1. PICK n \in queue :
        /\ \A m \in queue : Len(n) <= Len(m)
        /\ parent' = n /\ queue' = queue \ {n}
        /\ todo' = {m \in nodes : \E b \in Byte : m = Append(n, b)}
  BY DEF Dequeue
<1>2. /\ pc = "link" /\ pc \in Linking /\ pc' = pc /\ todo = {}
      /\ UNCHANGED <<given, inputVars, trieVars, child, fall, scanVars, verdict>>
  BY DEF Dequeue, Linking
<1> DEFINE L == Len(parent)
<1>3. /\ Trie /\ TrieTypes /\ parent \in nodes /\ n \in nodes /\ n # Root /\ n \in Seq(Byte)
      /\ \A m \in nodes : m \in Seq(Byte) /\ Len(m) \in Nat
      /\ \A m \in queue : m \in nodes /\ m # Root /\ Linked(m) /\ (Len(m) = L \/ Len(m) = L + 1)
      /\ \A m \in nodes \ {Root} : Len(m) <= L => Linked(m)
      /\ \A m \in nodes : Len(m) = L + 1 => m \in queue \/ Front(m) \in queue
  BY <1>1, <1>2, LinkFacts
<1>4. L \in Nat /\ Len(n) \in Nat /\ (Len(n) = L \/ Len(n) = L + 1)
  BY <1>1, <1>3
<1> HIDE DEF L
<1>5. \A m : Linked(m)' = Linked(m)  BY <1>2 DEF Linked, trieVars, inputVars
<1>6. TrieTypes'
  BY <1>1, <1>2, <1>3 DEF TrieTypes, trieVars, scanVars
<1>7. TrieInv'  BY <1>2 DEF TrieInv, trieVars, inputVars, CoreInv, ForbiddenInv
<1>8. ASSUME NEW m \in queue' PROVE Len(m) - Len(n) \in 0..1 /\ m # Root /\ Linked(m)
  <2>1. m \in queue /\ Len(n) <= Len(m)  BY <1>1
  <2>2. Len(m) \in Nat /\ (Len(m) = L \/ Len(m) = L + 1)  BY <1>3, <2>1
  <2>3. Len(m) - Len(n) \in 0..1  BY <1>4, <2>1, <2>2
  <2> QED BY <1>3, <2>1, <2>3
<1>9. ASSUME Len(n) = L + 1, NEW m \in nodes, Len(m) = L + 1 PROVE m \in queue
  <2>1. SUFFICES ASSUME Front(m) \in queue PROVE FALSE
    BY <1>3, <1>9
  <2>2. m # Root  BY <1>4, <1>9, EmptySeq DEF Root
  <2>3. Len(Front(m)) = L  BY <1>3, <1>4, <1>9, <2>2, FrontLast
  <2> QED BY <1>1, <1>4, <1>9, <2>1, <2>3
<1>10. ASSUME NEW m \in nodes \ {Root}, Len(m) <= Len(n) PROVE Linked(m)
  <2>1. Len(m) \in Nat  BY <1>3
  <2>2. CASE Len(m) <= L  BY <1>3, <2>2
  <2>3. CASE ~(Len(m) <= L)
    <3>1. Len(n) = L + 1 /\ Len(m) = L + 1  BY <1>4, <1>10, <2>1, <2>3
    <3> QED BY <1>3, <1>9, <3>1
  <2> QED BY <2>2, <2>3
<1>11. ASSUME NEW m \in nodes, Len(m) = Len(n) + 1
       PROVE  m \in queue' \/ m \in todo' \/ Front(m) \in queue'
  <2>1. m # Root /\ m \in Seq(Byte)  BY <1>3, <1>4, <1>11, EmptySeq DEF Root
  <2>2. Len(Front(m)) = Len(n) /\ Last(m) \in Byte /\ m = Append(Front(m), Last(m))
    BY <1>4, <1>11, <2>1, FrontLast
  <2>3. Front(m) \in nodes  BY <1>3, <2>1, FrontIsNode
  <2>4. m # n  BY <1>4, <1>11
  <2>5. Front(m) = n => m \in todo'  BY <1>1, <2>2
  <2>6. m \in queue \/ Front(m) \in queue
    <3>1. CASE Len(n) = L  BY <1>3, <1>11, <3>1
    <3>2. CASE Len(n) = L + 1
      <4>1. Len(Front(m)) = L + 1  BY <2>2, <3>2
      <4> QED BY <1>9, <2>3, <3>2, <4>1
    <3> QED BY <1>4, <3>1, <3>2
  <2> QED BY <1>1, <2>4, <2>5, <2>6
<1>12. ASSUME NEW m \in todo' PROVE m # Root /\ Front(m) = n
  <2>1. PICK b \in Byte : m = Append(n, b)  BY <1>1
  <2> QED BY <1>3, <2>1, FrontAppend
<1>13. LinkInv'
  BY <1>1, <1>2, <1>3, <1>5, <1>8, <1>10, <1>11, <1>12 DEF LinkInv, trieVars
<1>14. WalkInv'  BY <1>2 DEF WalkInv
<1> QED BY <1>2, <1>6, <1>7, <1>13, <1>14, LinkFrame DEF trieVars

\* Matcher: its next child is looked at, from the failure of the node.
LEMMA StartWalkKeeps ==
  ASSUME CoreInv, StartWalk PROVE CoreInv'
<1>1. /\ pc = "link" /\ pc \in Linking /\ pc' = "walk" /\ pc' \in Linking
      /\ child' \in todo /\ fall' = failure[parent]
      /\ UNCHANGED <<given, inputVars, trieVars, parent, queue, todo, scanVars, verdict>>
  BY DEF StartWalk, Linking, Goto
<1>2. /\ Trie /\ TrieTypes /\ parent \in nodes /\ parent # Root /\ child' \in nodes
      /\ \A n \in nodes : n \in Seq(Byte) /\ Len(n) \in Nat
      /\ \A n \in nodes \ {Root} : Len(n) <= Len(parent) => Linked(n)
  BY <1>1, LinkFacts
<1>3. Linked(parent)  BY <1>2
<1>4. fall' \in nodes  BY <1>1, <1>3 DEF Linked
<1>5. TrieTypes'  BY <1>1, <1>2, <1>4 DEF TrieTypes, trieVars, scanVars
<1>6. TrieInv'  BY <1>1 DEF TrieInv, trieVars, inputVars, CoreInv, ForbiddenInv
<1>7. LinkInv'
  <2>1. \A m : Linked(m)' = Linked(m)  BY <1>1 DEF Linked, trieVars, inputVars
  <2> QED BY <1>1, <2>1 DEF LinkInv, trieVars, CoreInv, ForbiddenInv
<1>8. WalkInv'
  <2>1. /\ Len(fall') < Len(parent) /\ Suffix(fall', parent)
        /\ \A m \in nodes : Len(m) < Len(parent) /\ Suffix(m, parent) => Len(m) <= Len(fall')
    BY <1>1, <1>3 DEF Linked
  <2> QED BY <1>1, <2>1 DEF WalkInv, trieVars
<1> QED BY <1>1, <1>5, <1>6, <1>7, <1>8, LinkFrame DEF trieVars

\* Matcher: all children of the node are linked.
LEMMA EndLinkKeeps ==
  ASSUME CoreInv, EndLink PROVE CoreInv'
<1>1. /\ pc = "link" /\ pc \in Linking /\ pc' = "body" /\ queue = {} /\ todo = {}
      /\ UNCHANGED <<given, inputVars, trieVars, linkVars, scanVars, verdict>>
  BY DEF EndLink, Linking, Goto
<1>2. /\ Trie /\ parent \in nodes
      /\ \A n \in nodes : n \in Seq(Byte) /\ Len(n) \in Nat
      /\ \A n \in nodes \ {Root} : Len(n) <= Len(parent) => Linked(n)
      /\ \A n \in nodes : Len(n) # Len(parent) + 1
  BY <1>1, LinkFacts
<1>3. ASSUME NEW n \in nodes PROVE Len(n) <= Len(parent)
  <2>1. Len(n) \in Nat /\ Len(parent) \in Nat /\ n \in Seq(Byte)  BY <1>2
  <2>2. SUFFICES ASSUME ~(Len(n) <= Len(parent)) PROVE FALSE  OBVIOUS
  <2> DEFINE k == Len(parent) + 1
  <2>3. k \in 0..Len(n)  BY <2>1, <2>2
  <2>4. SubSeq(n, 1, k) \in nodes  BY <1>2, <2>3 DEF Trie
  <2>5. Len(SubSeq(n, 1, k)) = k  BY <2>1, <2>3, Prefix
  <2> QED BY <1>2, <2>4, <2>5
<1>4. \A n \in nodes \ {Root} : Linked(n)  BY <1>2, <1>3
<1>5. body = 0 /\ Root \notin patterns /\ verdict = "none"
  BY <1>1, Running DEF CoreInv, ForbiddenInv, ReadInv
<1>6. \A m : Linked(m)' = Linked(m)  BY <1>1 DEF Linked, trieVars, inputVars
<1>7. ScanInv'
  <2>1. ~\E i : i \in 1..0  OBVIOUS
  <2> QED BY <1>1, <1>4, <1>5, <1>6, <2>1 DEF ScanInv, Scanning, trieVars, inputVars, scanVars
<1>8. TypeOK'
  BY <1>1 DEF TypeOK, CoreInv, Scanning, trieVars, inputVars, linkVars, scanVars
<1>9. TrieInv'
  BY <1>1 DEF TrieInv, Scanning, trieVars, inputVars, CoreInv, ForbiddenInv
<1>10. LinkInv' /\ WalkInv'  BY <1>1 DEF LinkInv, WalkInv, Linking
<1>11. ReadInv'  BY <1>1, <1>5 DEF ReadInv, Collecting, Linking, inputVars, scanVars
<1> QED BY <1>7, <1>8, <1>9, <1>10, <1>11 DEF CoreInv, ForbiddenInv

\* A walk looks for the longest node that the child's text up to its last byte
\* ends with and that this byte continues.
LEMMA WalkFacts ==
  ASSUME CoreInv, pc = "walk"
  PROVE  /\ child \in nodes /\ child \in Seq(Byte) /\ child \in todo
         /\ Len(child) = Len(parent) + 1 /\ child[Len(parent) + 1] = Last(child)
         /\ Len(parent) \in 0..(Len(child) - 1) /\ Len(parent) \in Nat
         /\ fall \in nodes /\ Len(fall) < Len(parent) /\ EndsWith(child, Len(parent), fall)
         /\ \A m \in nodes : Suffix(m, parent) <=> EndsWith(child, Len(parent), m)
         /\ \A m \in nodes : Len(m) < Len(parent) /\ Candidate(child, Len(parent), m)
                             => Len(m) <= Len(fall)
<1>1. pc \in Linking /\ WalkInv  BY DEF Linking, CoreInv, ForbiddenInv
<1>2. /\ child \in todo /\ Len(fall) < Len(parent) /\ Suffix(fall, parent)
      /\ \A m \in nodes : (/\ Len(m) < Len(parent) /\ Suffix(m, parent)
                           /\ Append(m, Last(child)) \in nodes)
                          => Len(m) <= Len(fall)
  BY <1>1 DEF WalkInv
<1>3. /\ child \in nodes /\ child # Root /\ Front(child) = parent /\ fall \in nodes
      /\ child \in Seq(Byte) /\ parent \in Seq(Byte)
      /\ \A n \in nodes : n \in Seq(Byte)
  BY <1>1, <1>2, LinkFacts DEF TrieTypes
<1>4. /\ Len(parent) = Len(child) - 1 /\ Len(child) \in Nat \ {0}
      /\ \A i \in 1..(Len(child) - 1) : parent[i] = child[i]
  BY <1>3, FrontLast
<1>5. Len(parent) \in Nat /\ Len(child) = Len(parent) + 1 /\ Len(parent) \in 0..(Len(child) - 1)
      /\ Len(parent) \in 0..Len(child) /\ Len(parent) \in 0..Len(parent)
  BY <1>3, <1>4
<1>6. child[Len(parent) + 1] = Last(child)  BY <1>5 DEF Last
<1>7. ASSUME NEW m \in nodes PROVE Suffix(m, parent) <=> EndsWith(child, Len(parent), m)
  <2>1. \A i \in 1..Len(parent) : parent[i] = child[i]  BY <1>4
  <2>2. Len(parent) <= Len(child) /\ m \in Seq(Byte)  BY <1>3, <1>5
  <2> QED BY <1>3, <1>5, <2>1, <2>2, EndsSame DEF Suffix
<1> QED BY <1>2, <1>3, <1>5, <1>6, <1>7 DEF Candidate

\* Matcher: no node fits here, so the walk goes to the next failure.
LEMMA WalkBackKeeps ==
  ASSUME CoreInv, WalkBack PROVE CoreInv'
<1>1. /\ pc = "walk" /\ pc \in Linking /\ pc' = pc /\ fall' = failure[fall]
      /\ fall # Root /\ Append(fall, Last(child)) \notin nodes
      /\ UNCHANGED <<given, inputVars, trieVars, parent, queue, todo, child, scanVars, verdict>>
  BY DEF WalkBack, Linking, Stuck
<1>2. /\ child \in nodes /\ child \in Seq(Byte) /\ child \in todo
      /\ child[Len(parent) + 1] = Last(child)
      /\ Len(parent) \in 0..(Len(child) - 1) /\ Len(parent) \in Nat
      /\ fall \in nodes /\ Len(fall) < Len(parent) /\ EndsWith(child, Len(parent), fall)
      /\ \A m \in nodes : Suffix(m, parent) <=> EndsWith(child, Len(parent), m)
      /\ \A m \in nodes : Len(m) < Len(parent) /\ Candidate(child, Len(parent), m)
                          => Len(m) <= Len(fall)
  BY <1>1, WalkFacts
<1>3. /\ Trie /\ TrieTypes /\ \A n \in nodes : n \in Seq(Byte) /\ Len(n) \in Nat
      /\ Linked(fall)
  BY <1>1, <1>2, LinkFacts
<1>4. /\ failure[fall] \in nodes /\ EndsWith(child, Len(parent), failure[fall])
      /\ Len(failure[fall]) < Len(fall)
      /\ \A m \in nodes : Len(m) < Len(parent) /\ Candidate(child, Len(parent), m)
                          => Len(m) <= Len(failure[fall])
  BY <1>1, <1>2, <1>3, LongestFallsBack
<1>5. TrieTypes'  BY <1>1, <1>3, <1>4 DEF TrieTypes, trieVars, scanVars
<1>6. TrieInv'  BY <1>1 DEF TrieInv, trieVars, inputVars, CoreInv, ForbiddenInv
<1>7. LinkInv'
  <2>1. \A m : Linked(m)' = Linked(m)  BY <1>1 DEF Linked, trieVars, inputVars
  <2> QED BY <1>1, <2>1 DEF LinkInv, trieVars, CoreInv, ForbiddenInv
<1>8. WalkInv'
  <2>1. Len(failure[fall]) < Len(parent)  BY <1>2, <1>3, <1>4
  <2>2. Suffix(failure[fall], parent)  BY <1>2, <1>4
  <2>3. \A m \in nodes : (/\ Len(m) < Len(parent) /\ Suffix(m, parent)
                          /\ Append(m, Last(child)) \in nodes)
                         => Len(m) <= Len(failure[fall])
    BY <1>2, <1>4 DEF Candidate
  <2> QED BY <1>1, <1>2, <2>1, <2>2, <2>3 DEF WalkInv, trieVars
<1> QED BY <1>1, <1>5, <1>6, <1>7, <1>8, LinkFrame DEF trieVars

\* The pattern that a suffix of a node ends with ends the node.
LEMMA SuffixOfSuffix ==
  ASSUME NEW n \in Seq(Byte), NEW m \in Seq(Byte), NEW p \in Seq(Byte),
         Suffix(m, n), Suffix(p, m)
  PROVE  Suffix(p, n)
<1>1. Len(n) \in 0..Len(n)  OBVIOUS
<1> QED BY <1>1, SuffixEnds DEF Suffix

\* Matcher: the child gets its failure and what that one terminates.
LEMMA LinkKeeps ==
  ASSUME CoreInv, Link PROVE CoreInv'
<1> DEFINE target == Go(fall, Last(child))
<1>1. /\ pc = "walk" /\ pc \in Linking /\ pc' = "link" /\ pc' \in Linking
      /\ ~Stuck(fall, Last(child))
      /\ failure' = [failure EXCEPT ![child] = target]
      /\ terminal' = terminal \cup (IF target \in terminal THEN {child} ELSE {})
      /\ queue' = queue \cup {child} /\ todo' = todo \ {child}
      /\ UNCHANGED <<given, inputVars, nodes, parent, child, fall, scanVars, verdict>>
  BY DEF Link, Linking, Goto
<1>2. /\ child \in nodes /\ child \in Seq(Byte) /\ child \in todo
      /\ Len(child) = Len(parent) + 1
      /\ child[Len(parent) + 1] = Last(child)
      /\ Len(parent) \in 0..(Len(child) - 1) /\ Len(parent) \in Nat
      /\ fall \in nodes /\ Len(fall) < Len(parent) /\ EndsWith(child, Len(parent), fall)
      /\ \A m \in nodes : Len(m) < Len(parent) /\ Candidate(child, Len(parent), m)
                          => Len(m) <= Len(fall)
  BY <1>1, WalkFacts
<1>3. /\ Trie /\ TrieTypes /\ \A n \in nodes : n \in Seq(Byte) /\ Len(n) \in Nat
      /\ patterns \subseteq nodes /\ Root \notin patterns
      /\ patterns \subseteq terminal /\ \A n \in terminal : \E p \in patterns : Suffix(p, n)
      /\ \A n \in queue : n \in nodes /\ n # Root /\ Linked(n)
                          /\ (Len(n) = Len(parent) \/ Len(n) = Len(parent) + 1)
      /\ \A n \in nodes \ {Root} : Len(n) <= Len(parent) => Linked(n)
      /\ \A n \in nodes : Len(n) = Len(parent) + 1 =>
              n \in queue \/ n \in todo \/ Front(n) \in queue
      /\ \A n \in todo : n \in nodes /\ n # Root /\ Front(n) = parent /\ parent # Root
  BY <1>1, LinkFacts
<1>4. /\ target \in nodes /\ EndsWith(child, Len(parent) + 1, target)
      /\ Len(target) <= Len(fall) + 1
      /\ \A m \in nodes : Len(m) <= Len(parent) /\ EndsWith(child, Len(parent) + 1, m)
                          => Len(m) <= Len(target)
  BY <1>1, <1>2, <1>3, LongestGoesOn, ZenonT(40)
<1> HIDE DEF target
<1>5. /\ failure' \in [nodes -> nodes] /\ failure'[child] = target
      /\ \A n \in nodes \ {child} : failure'[n] = failure[n]
  BY <1>1, <1>2, <1>3, <1>4 DEF TrieTypes
<1>6. /\ Len(target) < Len(child) /\ Suffix(target, child)
      /\ \A m \in nodes : Len(m) < Len(child) /\ Suffix(m, child) => Len(m) <= Len(target)
  <2>1. Len(target) \in Nat /\ Len(fall) \in Nat  BY <1>2, <1>3, <1>4
  <2> QED BY <1>2, <1>3, <1>4, <2>1 DEF Suffix
<1>7. terminal \subseteq terminal' /\ terminal' \subseteq terminal \cup {child}
      /\ (child \in terminal' <=> child \in terminal \/ target \in terminal)
  BY <1>1
<1>8. child \in terminal' <=> \E p \in patterns : Suffix(p, child)
  <2>1. ASSUME child \in terminal' PROVE \E p \in patterns : Suffix(p, child)
    <3>1. CASE child \in terminal  BY <1>3, <3>1
    <3>2. CASE target \in terminal
      <4>1. PICK p \in patterns : Suffix(p, target)  BY <1>3, <3>2
      <4>2. p \in Seq(Byte) /\ target \in Seq(Byte)  BY <1>3, <1>4
      <4> QED BY <1>2, <1>6, <4>1, <4>2, SuffixOfSuffix
    <3> QED BY <1>7, <2>1, <3>1, <3>2
  <2>2. ASSUME NEW p \in patterns, Suffix(p, child) PROVE child \in terminal'
    <3>1. p \in nodes /\ p \in Seq(Byte) /\ p # Root /\ p \in terminal  BY <1>3
    <3>2. EndsWith(child, Len(child), p) /\ Len(p) <= Len(child)
      BY <2>2 DEF Suffix, EndsWith
    <3>3. CASE Len(p) = Len(child)
      <4>1. EndsWith(child, Len(child), child) /\ Len(child) \in 0..Len(child)
        BY <1>2 DEF EndsWith
      <4>2. p = child  BY <1>2, <3>1, <3>2, <3>3, <4>1, EndsEqual
      <4> QED BY <1>7, <3>1, <4>2
    <3>4. CASE Len(p) < Len(child)
      <4>1. Len(p) <= Len(target)  BY <1>6, <2>2, <3>1, <3>4
      <4>2. target \in Seq(Byte) /\ Len(child) \in 0..Len(child)  BY <1>2, <1>3, <1>4
      <4>3. Suffix(p, target)
        BY <1>2, <1>6, <3>1, <3>2, <4>1, <4>2, EndsNest DEF Suffix
      <4>4. target # Root
        <5>1. Len(p) \in Nat \ {0}  BY <3>1, EmptySeq DEF Root
        <5>2. Len(Root) = 0  BY EmptySeq DEF Root
        <5> QED BY <4>1, <5>1, <5>2
      <4>5. Len(target) <= Len(parent)  BY <1>2, <1>3, <1>4, <1>6
      <4>6. Linked(target)  BY <1>3, <1>4, <4>4, <4>5
      <4>7. target \in terminal  BY <4>3, <4>6 DEF Linked
      <4> QED BY <1>7, <4>7
    <3> QED BY <1>2, <1>3, <3>1, <3>2, <3>3, <3>4
  <2> QED BY <2>1, <2>2
<1>9. ASSUME NEW n \in nodes, n = child PROVE Linked(n)'
  BY <1>1, <1>2, <1>4, <1>5, <1>6, <1>8, <1>9 DEF Linked, inputVars
<1>10. ASSUME NEW n \in nodes, Linked(n), n # child PROVE Linked(n)'
  <2>1. failure'[n] = failure[n] /\ (n \in terminal' <=> n \in terminal)
    BY <1>5, <1>7, <1>10
  <2> QED BY <1>1, <1>10, <2>1 DEF Linked, inputVars
<1>11. TrieTypes'
  BY <1>1, <1>2, <1>3, <1>5, <1>7 DEF TrieTypes, scanVars
<1>12. TrieInv'
  <2>1. \A n \in terminal' : \E p \in patterns : Suffix(p, n)  BY <1>3, <1>7, <1>8
  <2> QED BY <1>1, <1>3, <1>7, <2>1 DEF TrieInv, Trie, inputVars
<1>13. LinkInv'
  <2>1. ASSUME NEW n \in queue' PROVE Len(n) - Len(parent) \in 0..1 /\ n # Root /\ Linked(n)'
    <3>1. CASE n = child
      <4>1. Len(n) - Len(parent) = 1  BY <1>2, <3>1
      <4> QED BY <1>2, <1>3, <1>9, <3>1, <4>1
    <3>2. CASE n # child
      <4>1. n \in queue  BY <1>1, <2>1, <3>2
      <4>2. n \in nodes /\ n # Root /\ Linked(n)
            /\ (Len(n) = Len(parent) \/ Len(n) = Len(parent) + 1)
        BY <1>3, <4>1
      <4>3. Len(n) - Len(parent) \in 0..1  BY <1>2, <4>2
      <4> QED BY <1>10, <3>2, <4>2, <4>3
    <3> QED BY <3>1, <3>2
  <2>2. ASSUME NEW n \in nodes \ {Root}, Len(n) <= Len(parent) PROVE Linked(n)'
    <3>1. n # child  BY <1>2, <1>3, <2>2
    <3> QED BY <1>3, <1>10, <2>2, <3>1
  <2>3. ASSUME NEW n \in nodes, Len(n) = Len(parent) + 1
        PROVE  n \in queue' \/ n \in todo' \/ Front(n) \in queue'
    BY <1>1, <1>3, <2>3
  <2>4. \A n \in todo' : n # Root /\ Front(n) = parent /\ parent # Root
    BY <1>1, <1>3
  <2> QED BY <1>1, <2>1, <2>2, <2>3, <2>4 DEF LinkInv
<1>14. WalkInv'  BY <1>1 DEF WalkInv
<1> QED BY <1>1, <1>11, <1>12, <1>13, <1>14, LinkFrame

-----------------------------------------------------------------------------
(* Scanning.                                                               *)

\* A step of the scan has to keep what the state says of the bytes fed.
LEMMA ScanFrame ==
  ASSUME CoreInv, pc \in Scanning, pc' \in Scanning \cup {"done"},
         UNCHANGED <<given, inputVars, trieVars, linkVars>>,
         state' \in nodes, body' \in 0..Len(given.bodies), fed' \in Nat, end' \in Nat,
         verdict' \in Results, pc' = "done" <=> verdict' # "none", ScanInv'
  PROVE  CoreInv'
<1>0. InputTypes /\ TrieTypes  BY TypeParts DEF CoreInv
<1>1. TypeOK'
  <2>1. InputTypes'  BY <1>0 DEF InputTypes, inputVars
  <2>2. TrieTypes'  BY <1>0 DEF TrieTypes, trieVars, linkVars
  <2> QED BY <2>1, <2>2 DEF TypeOK, InputTypes, TrieTypes, Results
<1>2. TrieInv'
  BY DEF TrieInv, Scanning, Linking, trieVars, inputVars, CoreInv, ForbiddenInv
<1>3. LinkInv' /\ WalkInv'  BY DEF LinkInv, WalkInv, Linking, Scanning
<1>4. ReadInv'
  BY DEF ReadInv, Scanning, Collecting, Linking, inputVars, CoreInv, ForbiddenInv
<1> QED BY <1>1, <1>2, <1>3, <1>4 DEF CoreInv, ForbiddenInv

\* What is known in the scan.
LEMMA ScanFacts ==
  ASSUME CoreInv, pc \in Scanning
  PROVE  /\ Trie /\ state \in nodes /\ state \in Seq(Byte) /\ verdict = "none"
         /\ body \in 0..Len(given.bodies) /\ fed \in Nat /\ end \in Nat
         /\ given.bodies \in Seq(Seq(Byte)) /\ Len(given.bodies) \in Nat
         /\ \A n \in nodes : n \in Seq(Byte) /\ Len(n) \in Nat
         /\ Root \in nodes /\ patterns \subseteq nodes /\ Root \notin patterns
         /\ \A n \in terminal : \E p \in patterns : Suffix(p, n)
         /\ \A n \in nodes \ {Root} : Linked(n)
<1>1. InputTypes /\ TrieTypes /\ ScanTypes /\ TrieInv /\ ReadInv /\ ScanInv
  BY TypeParts DEF CoreInv, ForbiddenInv
<1>2. given.bodies \in Seq(Seq(Byte))  BY <1>1, GivenTypes DEF InputTypes
<1>3. verdict = "none"  BY Running DEF Scanning
<1> QED BY <1>1, <1>2, <1>3 DEF TrieTypes, TrieInv, ReadInv, ScanInv, ScanTypes, Trie

\* In a body.
LEMMA FeedFacts ==
  ASSUME CoreInv, pc \in {"chunk", "feed"}
  PROVE  /\ Body \in Seq(Byte) /\ Len(Body) \in Nat /\ body \in 1..Len(given.bodies)
         /\ fed \in 0..Len(Body) /\ end \in 0..Len(Body) /\ (pc = "feed" => fed <= end)
         /\ EndsWith(Body, fed, state)
         /\ \A k \in 0..fed, p \in patterns : ~EndsWith(Body, k, p)
         /\ \A m \in nodes : (/\ EndsWith(Body, fed, m)
                              /\ fed < Len(Body) => Append(m, Body[fed + 1]) \in nodes)
                             => Len(m) <= Len(state)
         /\ \A i \in 1..(body - 1), p \in patterns : ~Occurs(p, given.bodies[i])
<1>1. pc \in Scanning /\ ScanInv  BY DEF Scanning, CoreInv, ForbiddenInv
<1>2. /\ body \in 0..Len(given.bodies) /\ fed \in Nat /\ end \in Nat
      /\ given.bodies \in Seq(Seq(Byte)) /\ Len(given.bodies) \in Nat
  BY <1>1, ScanFacts
<1>3. body # 0 /\ fed <= Len(Body) /\ end <= Len(Body)  BY <1>1 DEF ScanInv
<1>4. body \in 1..Len(given.bodies)  BY <1>2, <1>3
<1>5. Body \in Seq(Byte)  BY <1>2, <1>4 DEF Body
<1>6. Len(Body) \in Nat  BY <1>5
<1> QED BY <1>1, <1>2, <1>3, <1>4, <1>5, <1>6 DEF ScanInv

\* The scan starts the next body at the root.
LEMMA NextBodyKeeps ==
  ASSUME CoreInv, NextBody PROVE CoreInv'
<1>1. /\ pc = "body" /\ pc \in Scanning /\ body < Len(given.bodies)
      /\ body' = body + 1 /\ fed' = 0 /\ end' = 0 /\ state' = Root
      /\ pc' = "chunk" /\ pc' \in Scanning /\ verdict' = verdict
      /\ UNCHANGED <<given, inputVars, trieVars, linkVars>>
  BY DEF NextBody, Goto, Scanning
<1>2. /\ verdict = "none" /\ body \in 0..Len(given.bodies)
      /\ given.bodies \in Seq(Seq(Byte)) /\ Len(given.bodies) \in Nat
      /\ \A n \in nodes : n \in Seq(Byte) /\ Len(n) \in Nat
      /\ Root \in nodes /\ patterns \subseteq nodes /\ Root \notin patterns
      /\ \A n \in nodes \ {Root} : Linked(n)
  BY <1>1, ScanFacts
<1>3. body' \in 1..Len(given.bodies) /\ body' # 0 /\ body' - 1 = body  BY <1>1, <1>2
<1> DEFINE t == given.bodies[body + 1]
<1>4. Body' = t /\ t \in Seq(Byte)  BY <1>1, <1>2, <1>3 DEF Body
<1>5. Len(t) \in Nat  BY <1>4
<1> HIDE DEF t
<1>6. \A m \in Seq(Byte) : EndsWith(t, 0, m) => Len(m) = 0  BY DEF EndsWith
<1>7. EndsWith(t, 0, Root) /\ Len(Root) = 0  BY <1>4, EndsRoot
<1>8. \A k \in 0..0, p \in patterns : ~EndsWith(t, k, p)
  <2>1. \A p \in patterns : Len(p) \in Nat \ {0}  BY <1>2, EmptySeq DEF Root
  <2>2. ASSUME NEW p \in patterns PROVE ~EndsWith(t, 0, p)  BY <1>2, <1>6, <2>1
  <2> QED BY <2>2
<1>9. \A i \in 1..body, p \in patterns : ~Occurs(p, given.bodies[i])
  BY <1>1 DEF CoreInv, ForbiddenInv, ScanInv
<1>10. \A m \in nodes : EndsWith(t, 0, m) => Len(m) <= Len(Root)
  BY <1>2, <1>6, <1>7
<1>11. \A m : Linked(m)' = Linked(m)  BY <1>1 DEF Linked, trieVars, inputVars
<1>12. ScanInv'
  BY <1>1, <1>2, <1>3, <1>4, <1>5, <1>7, <1>8, <1>9, <1>10, <1>11
  DEF ScanInv, trieVars, inputVars
<1>13. body' \in 0..Len(given.bodies)  BY <1>3
<1> QED BY <1>1, <1>2, <1>12, <1>13, ScanFrame DEF Results

\* The next chunk of a body is fed from the state that the last one left.
LEMMA NextChunkKeeps ==
  ASSUME CoreInv, NextChunk PROVE CoreInv'
<1>1. /\ pc = "chunk" /\ pc \in Scanning /\ verdict' = verdict
      /\ end' = Smaller(fed + ChunkSize, Len(Body))
      /\ pc' = (IF fed = Len(Body) THEN "body" ELSE "feed")
      /\ UNCHANGED <<given, inputVars, trieVars, linkVars, body, fed, state>>
  BY DEF NextChunk, Goto, Scanning
<1>2. /\ verdict = "none" /\ body \in 0..Len(given.bodies) /\ fed \in Nat
      /\ state \in nodes /\ \A n \in nodes \ {Root} : Linked(n)
  BY <1>1, ScanFacts
<1>3. /\ Body \in Seq(Byte) /\ Len(Body) \in Nat /\ body \in 1..Len(given.bodies)
      /\ fed \in 0..Len(Body) /\ EndsWith(Body, fed, state)
      /\ \A k \in 0..fed, p \in patterns : ~EndsWith(Body, k, p)
      /\ \A m \in nodes : (/\ EndsWith(Body, fed, m)
                           /\ fed < Len(Body) => Append(m, Body[fed + 1]) \in nodes)
                          => Len(m) <= Len(state)
      /\ \A i \in 1..(body - 1), p \in patterns : ~Occurs(p, given.bodies[i])
  BY <1>1, FeedFacts
<1>4. end' \in Nat /\ end' <= Len(Body) /\ fed <= end' /\ fed <= Len(Body)
  BY <1>1, <1>3, LimitsAssumption DEF Smaller
<1>5. Body' = Body  BY <1>1 DEF Body
<1>6. \A m : Linked(m)' = Linked(m)  BY <1>1 DEF Linked, trieVars, inputVars
<1>7. ScanInv'
  <2>1. CASE fed = Len(Body)
    <3>1. pc' = "body"  BY <1>1, <2>1
    <3>2. ASSUME NEW i \in 1..body, NEW p \in patterns PROVE ~Occurs(p, given.bodies[i])
      <4>1. CASE i = body  BY <1>3, <2>1, <4>1 DEF Occurs, Body
      <4>2. CASE i # body
        <5>1. i \in 1..(body - 1)  BY <1>3, <4>2
        <5> QED BY <1>3, <5>1
      <4> QED BY <4>1, <4>2
    <3> QED BY <1>1, <1>2, <1>6, <3>1, <3>2 DEF ScanInv, trieVars, inputVars
  <2>2. CASE fed # Len(Body)
    <3>1. pc' = "feed"  BY <1>1, <2>2
    <3>2. body # 0  BY <1>3
    <3> QED BY <1>1, <1>2, <1>3, <1>4, <1>5, <1>6, <3>1, <3>2
        DEF ScanInv, trieVars, inputVars
  <2> QED BY <2>1, <2>2
<1> QED BY <1>1, <1>2, <1>4, <1>7, ScanFrame DEF Results, Scanning

\* A chunk or the scan ends.
LEMMA EndsBodyKeeps ==
  ASSUME CoreInv, EndChunk \/ ScanFails \/ EndScan PROVE CoreInv'
<1>1. /\ pc \in Scanning /\ UNCHANGED <<given, inputVars, trieVars, linkVars, scanVars>>
      /\ \/ pc = "feed" /\ pc' = "chunk" /\ verdict' = verdict
         \/ pc' = "done" /\ verdict' \in {"failed", "clean"}
  BY DEF EndChunk, ScanFails, EndScan, Goto, Stop, Scanning
<1>2. /\ verdict = "none" /\ body \in 0..Len(given.bodies) /\ fed \in Nat /\ end \in Nat
      /\ state \in nodes
  BY <1>1, ScanFacts
<1>3. ScanInv'
  <2>1. Body' = Body  BY <1>1 DEF Body, scanVars
  <2>2. \A m : Linked(m)' = Linked(m)  BY <1>1 DEF Linked, trieVars, inputVars
  <2> QED BY <1>1, <2>1, <2>2
      DEF ScanInv, Scanning, trieVars, inputVars, scanVars, CoreInv, ForbiddenInv
<1> QED BY <1>1, <1>2, <1>3, ScanFrame DEF Results, Scanning, scanVars

\* What the next byte decides.
LEMMA NextByte ==
  ASSUME CoreInv, pc = "feed", fed < end
  PROVE  /\ Body \in Seq(Byte) /\ fed \in 0..(Len(Body) - 1) /\ fed + 1 <= Len(Body)
         /\ Len(Body) \in Nat
         /\ \A m \in nodes : Len(m) < Len(Body) + 1 /\ Candidate(Body, fed, m)
                             => Len(m) <= Len(state)
<1>1. /\ Body \in Seq(Byte) /\ Len(Body) \in Nat
      /\ fed \in 0..Len(Body) /\ end \in 0..Len(Body)
      /\ \A m \in nodes : (/\ EndsWith(Body, fed, m)
                           /\ fed < Len(Body) => Append(m, Body[fed + 1]) \in nodes)
                          => Len(m) <= Len(state)
  BY FeedFacts
<1> QED BY <1>1 DEF Candidate

\* feed: no node fits, so the state falls back along failures.
LEMMA FallBackKeeps ==
  ASSUME CoreInv, FallBack PROVE CoreInv'
<1>1. /\ pc = "feed" /\ pc \in Scanning /\ pc' = pc /\ verdict' = verdict /\ fed < end
      /\ state # Root /\ Append(state, Body[fed + 1]) \notin nodes
      /\ state' = failure[state]
      /\ UNCHANGED <<given, inputVars, trieVars, linkVars, body, fed, end>>
  BY DEF FallBack, Stuck, Scanning
<1>2. /\ Trie /\ state \in nodes /\ verdict = "none" /\ body \in 0..Len(given.bodies)
      /\ fed \in Nat /\ end \in Nat
      /\ \A n \in nodes : n \in Seq(Byte) /\ Len(n) \in Nat
      /\ \A n \in nodes \ {Root} : Linked(n)
  BY <1>1, ScanFacts
<1>3. /\ body \in 1..Len(given.bodies) /\ fed \in 0..Len(Body) /\ end \in 0..Len(Body)
      /\ EndsWith(Body, fed, state)
      /\ \A k \in 0..fed, p \in patterns : ~EndsWith(Body, k, p)
      /\ \A i \in 1..(body - 1), p \in patterns : ~Occurs(p, given.bodies[i])
  BY <1>1, FeedFacts
<1>4. /\ Body \in Seq(Byte) /\ fed \in 0..(Len(Body) - 1) /\ fed + 1 <= Len(Body)
      /\ Len(Body) + 1 \in Nat
      /\ \A m \in nodes : Len(m) < Len(Body) + 1 /\ Candidate(Body, fed, m)
                          => Len(m) <= Len(state)
  BY <1>1, NextByte
<1>5. /\ failure[state] \in nodes /\ EndsWith(Body, fed, failure[state])
      /\ \A m \in nodes : Len(m) < Len(Body) + 1 /\ Candidate(Body, fed, m)
                          => Len(m) <= Len(failure[state])
  BY <1>1, <1>2, <1>3, <1>4, LongestFallsBack
<1>6. \A m \in nodes : (/\ EndsWith(Body, fed, m)
                        /\ fed < Len(Body) => Append(m, Body[fed + 1]) \in nodes)
                       => Len(m) <= Len(failure[state])
  <2>1. \A m \in nodes : EndsWith(Body, fed, m) => Len(m) < Len(Body) + 1
    BY <1>2, <1>4 DEF EndsWith
  <2> QED BY <1>4, <1>5, <2>1 DEF Candidate
<1>7. ScanInv'
  <2>1. Body' = Body  BY <1>1 DEF Body
  <2>2. \A m : Linked(m)' = Linked(m)  BY <1>1 DEF Linked, trieVars, inputVars
  <2>3. body # 0 /\ fed <= end /\ fed <= Len(Body) /\ end <= Len(Body)  BY <1>1, <1>2, <1>3
  <2> QED BY <1>1, <1>2, <1>3, <1>5, <1>6, <2>1, <2>2, <2>3
      DEF ScanInv, trieVars, inputVars
<1> QED BY <1>1, <1>2, <1>5, <1>7, ScanFrame DEF Results

\* Where a byte leads: to the longest node, which is terminal exactly if a pattern
\* ends at this byte.
LEMMA AdvanceFacts ==
  ASSUME CoreInv, Advance
  PROVE  /\ state' \in nodes /\ EndsWith(Body, fed + 1, state')
         /\ \A m \in nodes : EndsWith(Body, fed + 1, m) => Len(m) <= Len(state')
         /\ state' \in terminal <=> \E p \in patterns : EndsWith(Body, fed + 1, p)
<1>1. /\ pc = "feed" /\ pc \in Scanning /\ fed < end /\ ~Stuck(state, Body[fed + 1])
      /\ state' = Go(state, Body[fed + 1])
  BY DEF Advance, Scanning
<1>2. /\ Trie /\ state \in nodes /\ fed \in Nat
      /\ \A n \in nodes : n \in Seq(Byte) /\ Len(n) \in Nat
      /\ patterns \subseteq nodes /\ Root \notin patterns
      /\ \A n \in terminal : \E p \in patterns : Suffix(p, n)
      /\ \A n \in nodes \ {Root} : Linked(n)
  BY <1>1, ScanFacts
<1>3. EndsWith(Body, fed, state)  BY <1>1, FeedFacts
<1>4. /\ Body \in Seq(Byte) /\ fed \in 0..(Len(Body) - 1) /\ fed + 1 <= Len(Body)
      /\ Len(Body) \in Nat /\ Len(Body) + 1 \in Nat
      /\ \A m \in nodes : Len(m) < Len(Body) + 1 /\ Candidate(Body, fed, m)
                          => Len(m) <= Len(state)
  BY <1>1, NextByte
<1>5. /\ state' \in nodes /\ EndsWith(Body, fed + 1, state')
      /\ \A m \in nodes : Len(m) <= Len(Body) + 1 /\ EndsWith(Body, fed + 1, m)
                          => Len(m) <= Len(state')
  BY <1>1, <1>2, <1>3, <1>4, LongestGoesOn
<1>6. \A m \in nodes : EndsWith(Body, fed + 1, m) => Len(m) <= Len(state')
  <2>1. \A m \in nodes : EndsWith(Body, fed + 1, m) => Len(m) <= Len(Body) + 1
    BY <1>2, <1>4 DEF EndsWith
  <2> QED BY <1>5, <2>1
<1>7. fed + 1 \in 0..Len(Body)  BY <1>2, <1>4
<1>8. ASSUME state' \in terminal PROVE \E p \in patterns : EndsWith(Body, fed + 1, p)
  <2>1. PICK p \in patterns : Suffix(p, state')  BY <1>2, <1>8
  <2>2. p \in Seq(Byte) /\ state' \in Seq(Byte)  BY <1>2, <1>5
  <2> QED BY <1>4, <1>5, <1>7, <2>1, <2>2, SuffixEnds
<1>9. ASSUME NEW p \in patterns, EndsWith(Body, fed + 1, p) PROVE state' \in terminal
  <2>1. p \in nodes /\ p \in Seq(Byte) /\ p # Root /\ state' \in Seq(Byte)  BY <1>2, <1>5
  <2>2. Len(p) <= Len(state')  BY <1>6, <1>9, <2>1
  <2>3. Suffix(p, state')  BY <1>4, <1>5, <1>7, <1>9, <2>1, <2>2, EndsNest
  <2>4. state' # Root
    <3>1. Len(p) \in Nat \ {0}  BY <2>1, EmptySeq DEF Root
    <3>2. Len(Root) = 0  BY EmptySeq DEF Root
    <3> QED BY <2>2, <3>1, <3>2
  <2>5. PICK s \in nodes : s = state'  BY <1>5
  <2>6. Linked(s)  BY <1>2, <2>4, <2>5
  <2> QED BY <2>3, <2>5, <2>6 DEF Linked
<1> QED BY <1>5, <1>6, <1>8, <1>9

\* feed: the byte is consumed and the new state is looked up.
LEMMA AdvanceKeeps ==
  ASSUME CoreInv, Advance PROVE CoreInv'
<1>1. /\ pc = "feed" /\ pc \in Scanning /\ fed < end /\ fed' = fed + 1
      /\ UNCHANGED <<given, inputVars, trieVars, linkVars, body, end>>
      /\ \/ state' \in terminal /\ pc' = "done" /\ verdict' = "forbidden"
         \/ state' \notin terminal /\ pc' = "feed" /\ verdict' = verdict
  BY DEF Advance, Goto, Stop, Scanning
<1>2. /\ verdict = "none" /\ body \in 0..Len(given.bodies) /\ fed \in Nat /\ end \in Nat
      /\ \A n \in nodes : n \in Seq(Byte) /\ Len(n) \in Nat
      /\ \A n \in nodes \ {Root} : Linked(n)
  BY <1>1, ScanFacts
<1>3. /\ body \in 1..Len(given.bodies) /\ fed \in 0..Len(Body) /\ end \in 0..Len(Body)
      /\ \A k \in 0..fed, p \in patterns : ~EndsWith(Body, k, p)
      /\ \A i \in 1..(body - 1), p \in patterns : ~Occurs(p, given.bodies[i])
  BY <1>1, FeedFacts
<1>4. /\ state' \in nodes /\ EndsWith(Body, fed + 1, state')
      /\ \A m \in nodes : EndsWith(Body, fed + 1, m) => Len(m) <= Len(state')
      /\ state' \in terminal <=> \E p \in patterns : EndsWith(Body, fed + 1, p)
  BY AdvanceFacts
<1>5. fed' \in Nat /\ fed' <= end /\ fed' <= Len(Body) /\ end <= Len(Body) /\ body # 0
  BY <1>1, <1>2, <1>3, NextByte
<1>6. ScanInv'
  <2>1. CASE pc' = "done"  BY <2>1 DEF ScanInv, Scanning
  <2>2. CASE pc' = "feed" /\ state' \notin terminal
    <3>1. Body' = Body  BY <1>1 DEF Body
    <3>2. \A m : Linked(m)' = Linked(m)  BY <1>1 DEF Linked, trieVars, inputVars
    <3>3. ASSUME NEW k \in 0..fed', NEW p \in patterns PROVE ~EndsWith(Body, k, p)
      <4>1. CASE k = fed + 1  BY <1>4, <2>2, <4>1
      <4>2. CASE k # fed + 1
        <5>1. k \in 0..fed  BY <1>1, <1>2, <4>2
        <5> QED BY <1>3, <5>1
      <4> QED BY <4>1, <4>2
    <3> QED BY <1>1, <1>2, <1>3, <1>4, <1>5, <2>2, <3>1, <3>2, <3>3
        DEF ScanInv, trieVars, inputVars
  <2> QED BY <1>1, <2>1, <2>2
<1> QED BY <1>1, <1>2, <1>4, <1>5, <1>6, ScanFrame DEF Results, Scanning

-----------------------------------------------------------------------------

\* The invariant holds before anything is read.
LEMMA InitHolds == Init => CoreInv
<1> SUFFICES ASSUME Init PROVE CoreInv  OBVIOUS
<1>1. given \in Cases /\ given.values \in Seq(Seq(Byte)) /\ Len(given.streams) \in Nat
      /\ Len(given.bodies) \in Nat
  BY GivenTypes DEF Init
<1>2. Root \in Seq(Byte) /\ <<>> \in Seq(Byte) /\ Len(<<>>) = 0  BY EmptySeq DEF Root
<1>3. TypeOK  BY <1>1, <1>2, LimitsAssumption DEF Init, TypeOK, Collecting
<1>4. ForbiddenInv
  BY DEF Init, ForbiddenInv, ReadInv, TrieInv, LinkInv, WalkInv, ScanInv, Collecting,
         Linking, Scanning
<1> QED BY <1>3, <1>4 DEF CoreInv

\* Every step of the loops keeps it, what was given apart.
LEMMA NextKeeps == CoreInv /\ [Next]_vars => CoreInv'
<1> SUFFICES ASSUME CoreInv, [Next]_vars PROVE CoreInv'  OBVIOUS
<1>1. CASE Collect \/ InputFails
  BY <1>1, ReadChunkKeeps, CutRecordKeeps, EndStreamKeeps, ValidateKeeps, CollectKeeps,
     EndCollectKeeps DEF Collect
<1>2. CASE Build
  BY <1>2, DequeueKeeps, StartWalkKeeps, WalkBackKeeps, LinkKeeps, EndLinkKeeps DEF Build
<1>3. CASE Scan \/ ScanFails
  BY <1>3, NextBodyKeeps, NextChunkKeeps, FallBackKeeps, AdvanceKeeps, EndsBodyKeeps DEF Scan
<1>4. CASE UNCHANGED vars
  <2>1. TypeOK'
    BY <1>4 DEF CoreInv, TypeOK, vars, inputVars, trieVars, linkVars, scanVars
  <2>2. \A m : Linked(m)' = Linked(m)  BY <1>4 DEF Linked, vars, trieVars, inputVars
  <2>3. Body' = Body  BY <1>4 DEF Body, vars, scanVars
  <2>4. ReadInv' /\ TrieInv' /\ LinkInv' /\ WalkInv'
    BY <1>4, <2>2 DEF CoreInv, ForbiddenInv, ReadInv, TrieInv, LinkInv, WalkInv, vars,
                      inputVars, trieVars, linkVars, scanVars
  <2>5. ScanInv'
    BY <1>4, <2>2, <2>3 DEF CoreInv, ForbiddenInv, ScanInv, vars, inputVars, trieVars, scanVars
  <2> QED BY <2>1, <2>4, <2>5 DEF CoreInv, ForbiddenInv
<1> QED BY <1>1, <1>2, <1>3, <1>4 DEF Next

-----------------------------------------------------------------------------
(* Sizes, as numbers of bytes where they stand.                            *)

\* A set of naturals that is not empty has a least member.
LEMMA Least ==
  ASSUME NEW T \in SUBSET Nat, T # {}
  PROVE  \E n \in T : \A m \in T : n <= m
<1>1. \E x \in T : \A y \in T : ~ (<<y, x>> \in OpToRel(<,Nat))
  BY NatLessThanWellFounded, WFMin
<1>2. \A x, y \in Nat : x < y => <<x, y>> \in OpToRel(<,Nat)
  BY DEF OpToRel
<1>3. \E x \in T : \A y \in T : ~(y < x)
  BY <1>1, <1>2, Zenon
<1> QED BY <1>3

\* What has nothing in common is counted one after the other.
LEMMA CountBoth ==
  ASSUME NEW S, IsFiniteSet(S), NEW T, IsFiniteSet(T), S \cap T = {}
  PROVE  /\ IsFiniteSet(S \cup T) /\ Cardinality(S) \in Nat /\ Cardinality(T) \in Nat
         /\ Cardinality(S \cup T) = Cardinality(S) + Cardinality(T)
<1>1. Cardinality(S) \in Nat /\ Cardinality(T) \in Nat  BY FS_CardinalityType
<1>2. /\ IsFiniteSet(S \cup T)
      /\ Cardinality(S \cup T) = Cardinality(S) + Cardinality(T) - Cardinality(S \cap T)
  BY FS_Union
<1>3. Cardinality(S \cap T) = 0  BY FS_EmptySet
<1> QED BY <1>1, <1>2, <1>3

\* As many in one column as without it.
LEMMA CountColumn ==
  ASSUME NEW x, NEW T, IsFiniteSet(T)
  PROVE  IsFiniteSet({x} \X T) /\ Cardinality({x} \X T) = Cardinality(T)
<1>1. IsFiniteSet({x}) /\ Cardinality({x}) = 1  BY FS_Singleton
<1>2. IsFiniteSet({x} \X T) /\ Cardinality({x} \X T) = 1 * Cardinality(T)
  BY <1>1, FS_Product
<1>3. Cardinality(T) \in Nat  BY FS_CardinalityType
<1> QED BY <1>2, <1>3

\* The bytes of one text are told from those of another by the number of the text.
LEMMA Column ==
  ASSUME NEW i, NEW T
  PROVE  \A x : x \in {i} \X T <=> \E j \in T : x = <<i, j>>
<1>1. ASSUME NEW j \in T PROVE <<i, j>> \in {i} \X T
  OBVIOUS
<1>2. ASSUME NEW x \in {i} \X T PROVE \E j \in T : x = <<i, j>>
  <2>1. x = <<x[1], x[2]>> /\ x[1] = i /\ x[2] \in T
    OBVIOUS
  <2> QED BY <2>1
<1> QED BY <1>1, <1>2

\* A text has as many bytes as its length.
LEMMA CountText ==
  ASSUME NEW x, NEW t \in Seq(Byte)
  PROVE  /\ DOMAIN t = 1..Len(t) /\ Len(t) \in Nat
         /\ IsFiniteSet({x} \X DOMAIN t) /\ Cardinality({x} \X DOMAIN t) = Len(t)
<1>1. DOMAIN t = 1..Len(t) /\ Len(t) \in Nat  OBVIOUS
<1>2. IsFiniteSet(1..Len(t)) /\ Cardinality(1..Len(t)) = IF 1 > Len(t) THEN 0 ELSE Len(t) - 1 + 1
  BY <1>1, FS_Interval
<1>3. Cardinality(1..Len(t)) = Len(t)  BY <1>1, <1>2
<1>4. IsFiniteSet(DOMAIN t) /\ Cardinality(DOMAIN t) = Len(t)  BY <1>1, <1>2, <1>3
<1> QED BY <1>1, <1>4, CountColumn

\* Finitely many finite sets have finitely many members.
LEMMA FiniteUnion ==
  ASSUME NEW S, IsFiniteSet(S), NEW f, DOMAIN f = S, f = [x \in S |-> f[x]],
         \A x \in S : IsFiniteSet(f[x])
  PROVE  IsFiniteSet(UNION {f[x] : x \in S})
<1> DEFINE T == {f[x] : x \in S}
<1>1. f \in Surjection(S, T)  BY DEF Surjection
<1> HIDE DEF T
<1>2. IsFiniteSet(T)  BY <1>1, FS_Surjection
<1>3. \A y \in T : IsFiniteSet(y)  BY DEF T
<1>4. IsFiniteSet(UNION T)  BY <1>2, <1>3, FS_UNION
<1> QED BY <1>4 DEF T

\* The bytes of a list of texts.
ListBytes(list) == UNION {{i} \X DOMAIN list[i] : i \in DOMAIN list}

\* A byte of a list of records is a place in one of them.
LEMMA ListByte ==
  ASSUME NEW list \in Seq(Seq(Byte))
  PROVE  \A x : x \in ListBytes(list) <=>
           \E i \in 1..Len(list) : \E j \in 1..Len(list[i]) : x = <<i, j>>
<1>1. \A i \in 1..Len(list) : DOMAIN list[i] = 1..Len(list[i])  OBVIOUS
<1>2. DOMAIN list = 1..Len(list)  OBVIOUS
<1>3. \A x : x \in ListBytes(list) <=> \E i \in 1..Len(list) : x \in {i} \X DOMAIN list[i]
  BY <1>2 DEF ListBytes
<1>4. ASSUME NEW x, NEW i \in 1..Len(list)
      PROVE  x \in {i} \X DOMAIN list[i] <=> \E j \in 1..Len(list[i]) : x = <<i, j>>
  <2>1. DOMAIN list[i] = 1..Len(list[i])  BY <1>1
  <2>2. \A y : y \in {i} \X DOMAIN list[i] <=> \E j \in DOMAIN list[i] : y = <<i, j>>
    BY Column
  <2> QED BY <2>1, <2>2
<1> QED BY <1>3, <1>4

\* A list of records has finitely many bytes, and its size is their number.
LEMMA ListFinite ==
  ASSUME NEW list \in Seq(Seq(Byte))
  PROVE  IsFiniteSet(ListBytes(list)) /\ ListSize(list) = Cardinality(ListBytes(list))
         /\ ListSize(list) \in Nat
<1> DEFINE f == [i \in DOMAIN list |-> {i} \X DOMAIN list[i]]
<1>1. DOMAIN list = 1..Len(list) /\ Len(list) \in Nat  OBVIOUS
<1>2. IsFiniteSet(DOMAIN list)  BY <1>1, FS_Interval
<1>3. \A i \in DOMAIN list : IsFiniteSet(f[i])
  <2>1. \A i \in DOMAIN list : list[i] \in Seq(Byte)  OBVIOUS
  <2> QED BY <2>1, CountText
<1>4. DOMAIN f = DOMAIN list /\ f = [i \in DOMAIN list |-> f[i]]
      /\ ListBytes(list) = UNION {f[i] : i \in DOMAIN list}
  BY DEF ListBytes
<1> HIDE DEF f
<1>5. IsFiniteSet(ListBytes(list))  BY <1>2, <1>3, <1>4, FiniteUnion
<1>6. ListSize(list) = Cardinality(ListBytes(list))  BY DEF ListSize, ListBytes
<1> QED BY <1>5, <1>6, FS_CardinalityType

\* No records, no bytes.
LEMMA ListSizeEmpty == ListSize(<<>>) = 0
<1>1. <<>> \in Seq(Seq(Byte)) /\ Len(<<>>) = 0  BY EmptySeq
<1>2. \A x : x \notin ListBytes(<<>>)
  <2>1. \A i \in 1..Len(<<>>) : FALSE  BY <1>1
  <2> DEFINE e == <<>>
  <2>2. e \in Seq(Seq(Byte)) /\ \A i \in 1..Len(e) : FALSE  BY <1>1, <2>1
  <2> HIDE DEF e
  <2>3. \A x : x \notin ListBytes(e)  BY <2>2, ListByte
  <2> QED BY <2>3 DEF e
<1> QED BY <1>1, <1>2, ListFinite, FS_EmptySet

\* A record more adds its length.
LEMMA ListSizeAppend ==
  ASSUME NEW list \in Seq(Seq(Byte)), NEW t \in Seq(Byte)
  PROVE  ListSize(Append(list, t)) = ListSize(list) + Len(t)
<1> DEFINE long == Append(list, t)
           n == Len(list) + 1
           new == {n} \X DOMAIN t
<1>1. /\ long \in Seq(Seq(Byte)) /\ Len(long) = n /\ long[n] = t /\ n \in Nat
      /\ \A i \in 1..Len(list) : long[i] = list[i] /\ i # n /\ i \in 1..n
      /\ \A i \in 1..n : i = n \/ i \in 1..Len(list)
      /\ n \in 1..n
  OBVIOUS
<1> HIDE DEF long, n
<1>2. /\ IsFiniteSet(new) /\ Cardinality(new) = Len(t)
      /\ \A x : x \in new <=> \E j \in 1..Len(t) : x = <<n, j>>
  <2>1. DOMAIN t = 1..Len(t) /\ IsFiniteSet(new) /\ Cardinality(new) = Len(t)
    BY CountText
  <2>2. \A x : x \in new <=> \E j \in DOMAIN t : x = <<n, j>>  BY Column
  <2> QED BY <2>1, <2>2
<1> HIDE DEF new
<1>3. ListBytes(long) = ListBytes(list) \cup new
  <2>0. \A x : x \in ListBytes(long) <=>
          \E i \in 1..Len(long) : \E j \in 1..Len(long[i]) : x = <<i, j>>
    BY <1>1, ListByte
  <2>1. \A x : x \in ListBytes(long) <=> \E i \in 1..n : \E j \in 1..Len(long[i]) : x = <<i, j>>
    BY <1>1, <2>0
  <2>2. \A x : x \in ListBytes(list) <=>
          \E i \in 1..Len(list) : \E j \in 1..Len(list[i]) : x = <<i, j>>
    BY ListByte
  <2>3. ASSUME NEW x \in ListBytes(long) PROVE x \in ListBytes(list) \cup new
    <3>1. PICK i \in 1..n : \E j \in 1..Len(long[i]) : x = <<i, j>>  BY <2>1
    <3>2. CASE i = n  BY <1>1, <1>2, <3>1, <3>2
    <3>3. CASE i \in 1..Len(list)
      <4>1. long[i] = list[i]  BY <1>1, <3>3
      <4> QED BY <2>2, <3>1, <3>3, <4>1
    <3> QED BY <1>1, <3>2, <3>3
  <2>4. ASSUME NEW x \in ListBytes(list) PROVE x \in ListBytes(long)
    <3>1. PICK i \in 1..Len(list) : \E j \in 1..Len(list[i]) : x = <<i, j>>  BY <2>2
    <3>2. long[i] = list[i] /\ i \in 1..n  BY <1>1
    <3> QED BY <2>1, <3>1, <3>2
  <2>5. ASSUME NEW x \in new PROVE x \in ListBytes(long)
    BY <1>1, <1>2, <2>1
  <2> QED BY <2>3, <2>4, <2>5
<1>4. ListBytes(list) \cap new = {}
  BY <1>1, <1>2, ListByte
<1>5. IsFiniteSet(ListBytes(list)) /\ ListSize(list) = Cardinality(ListBytes(list))
  BY ListFinite
<1>6. ListSize(long) = Cardinality(ListBytes(long))
  BY <1>1, ListFinite
<1> QED BY <1>2, <1>3, <1>4, <1>5, <1>6, CountBoth DEF long

\* The first record has what the others have not.
LEMMA ListSizeTail ==
  ASSUME NEW list \in Seq(Seq(Byte)), list # <<>>
  PROVE  ListSize(list) = Len(Head(list)) + ListSize(Tail(list))
<1> DEFINE rest == Tail(list)
           head == {1} \X DOMAIN list[1]
           moved == {x \in ListBytes(list) : x[1] # 1}
           f == [x \in ListBytes(rest) |-> <<x[1] + 1, x[2]>>]
<1>1. /\ rest \in Seq(Seq(Byte)) /\ Len(rest) = Len(list) - 1 /\ Len(list) \in Nat \ {0}
      /\ Head(list) = list[1] /\ list[1] \in Seq(Byte)
      /\ \A i \in 1..Len(rest) : rest[i] = list[i + 1]
  BY EmptySeq, HeadTailProperties
<1> HIDE DEF rest
<1>2. /\ IsFiniteSet(head) /\ Cardinality(head) = Len(list[1])
      /\ \A x : x \in head <=> \E j \in 1..Len(list[1]) : x = <<1, j>>
  <2>1. DOMAIN list[1] = 1..Len(list[1]) /\ IsFiniteSet(head)
        /\ Cardinality(head) = Len(list[1])
    BY <1>1, CountText
  <2>2. \A x : x \in head <=> \E j \in DOMAIN list[1] : x = <<1, j>>  BY Column
  <2> QED BY <2>1, <2>2
<1> HIDE DEF head
<1>3. IsFiniteSet(ListBytes(list)) /\ ListSize(list) = Cardinality(ListBytes(list))
  BY ListFinite
<1>4. IsFiniteSet(ListBytes(rest)) /\ ListSize(rest) = Cardinality(ListBytes(rest))
      /\ ListSize(rest) \in Nat
  BY <1>1, ListFinite
<1>5. ListBytes(list) = head \cup moved /\ head \cap moved = {}
  <2>1. \A x \in ListBytes(list) : x \in head \/ x[1] # 1
    BY <1>2, ListByte
  <2>2. 1 \in 1..Len(list)  BY <1>1
  <2>3. \A x \in head : x \in ListBytes(list) /\ x[1] = 1
    BY <1>2, <2>2, ListByte
  <2> QED BY <2>1, <2>3
<1>6. f \in Bijection(ListBytes(rest), moved)
  <2>1. \A x : x \in ListBytes(rest) <=>
          \E i \in 1..Len(rest) : \E j \in 1..Len(rest[i]) : x = <<i, j>>
    BY <1>1, ListByte
  <2>2. ASSUME NEW x \in ListBytes(rest) PROVE f[x] \in moved
    <3>0. PICK i \in 1..Len(rest) : \E j \in 1..Len(rest[i]) : x = <<i, j>>  BY <2>1, SMTT(30)
    <3>1. PICK j \in 1..Len(rest[i]) : x = <<i, j>>  BY <3>0
    <3>2. i + 1 \in 1..Len(list) /\ i + 1 # 1 /\ rest[i] = list[i + 1]  BY <1>1, SMTT(30)
    <3>3. f[x] = <<i + 1, j>>  BY <3>1
    <3>4. j \in 1..Len(list[i + 1])  BY <3>1, <3>2
    <3>5. <<i + 1, j>> \in ListBytes(list)  BY <3>2, <3>4, ListByte
    <3> QED BY <3>2, <3>3, <3>5
  <2>3. ASSUME NEW x \in ListBytes(rest), NEW y \in ListBytes(rest), f[x] = f[y] PROVE x = y
    <3>0. PICK i \in 1..Len(rest) : \E j \in 1..Len(rest[i]) : x = <<i, j>>  BY <2>1, SMTT(30)
    <3>1. PICK j \in 1..Len(rest[i]) : x = <<i, j>>  BY <3>0
    <3>6. PICK a \in 1..Len(rest) : \E b \in 1..Len(rest[a]) : y = <<a, b>>  BY <2>1
    <3>2. PICK b \in 1..Len(rest[a]) : y = <<a, b>>  BY <3>6
    <3>3. i + 1 = a + 1 /\ j = b  BY <2>3, <3>1, <3>2
    <3>4. i \in Int /\ a \in Int  BY <1>1
    <3>5. i = a  BY <3>3, <3>4
    <3> QED BY <3>1, <3>2, <3>3, <3>5
  <2>4. ASSUME NEW y \in moved PROVE \E x \in ListBytes(rest) : f[x] = y
    <3>0. PICK i \in 1..Len(list) : \E j \in 1..Len(list[i]) : y = <<i, j>>  BY ListByte
    <3>1. PICK j \in 1..Len(list[i]) : y = <<i, j>>  BY <3>0
    <3>2. i # 1  BY <3>1
    <3>3. i - 1 \in 1..Len(rest) /\ (i - 1) + 1 = i  BY <1>1, <3>2
    <3>4. rest[i - 1] = list[i]  BY <1>1, <3>3
    <3>5. <<i - 1, j>> \in ListBytes(rest)  BY <1>1, <3>1, <3>3, <3>4, ListByte
    <3>6. f[<<i - 1, j>>] = y  BY <3>1, <3>3, <3>5
    <3> QED BY <3>5, <3>6
  <2> HIDE DEF moved
  <2>5. f \in [ListBytes(rest) -> moved]  BY <2>2
  <2> HIDE DEF f
  <2>6. f \in Injection(ListBytes(rest), moved)
    BY <2>3, <2>5 DEF Injection, IsInjective
  <2>7. f \in Surjection(ListBytes(rest), moved)
    BY <2>4, <2>5 DEF Surjection
  <2> QED BY <2>6, <2>7 DEF Bijection
<1> HIDE DEF moved, f
<1>7. ExistsBijection(ListBytes(rest), moved)  BY <1>6 DEF ExistsBijection
<1>8. IsFiniteSet(moved) /\ Cardinality(moved) = Cardinality(ListBytes(rest))
  BY <1>4, <1>7, FS_Bijection
<1>9. Cardinality(head \cup moved) = Cardinality(head) + Cardinality(moved)
  BY <1>2, <1>5, <1>8, CountBoth
<1> QED BY <1>1, <1>2, <1>3, <1>4, <1>5, <1>8, <1>9 DEF rest

\* The bytes of a set of texts.
TextBytes(texts) == UNION {{t} \X DOMAIN t : t \in texts}

\* A finite set of records has finitely many bytes.
LEMMA TextsFinite ==
  ASSUME NEW texts, IsFiniteSet(texts), texts \subseteq Seq(Byte)
  PROVE  IsFiniteSet(TextBytes(texts)) /\ SizeOf(texts) = Cardinality(TextBytes(texts))
         /\ SizeOf(texts) \in Nat
<1> DEFINE f == [t \in texts |-> {t} \X DOMAIN t]
<1>1. \A t \in texts : IsFiniteSet(f[t])
  BY CountText
<1>2. DOMAIN f = texts /\ f = [t \in texts |-> f[t]]
      /\ TextBytes(texts) = UNION {f[t] : t \in texts}
  BY DEF TextBytes
<1> HIDE DEF f
<1>3. IsFiniteSet(TextBytes(texts))  BY <1>1, <1>2, FiniteUnion
<1>4. SizeOf(texts) = Cardinality(TextBytes(texts))  BY DEF SizeOf, TextBytes
<1> QED BY <1>3, <1>4, FS_CardinalityType

\* No patterns, no bytes.
LEMMA SizeOfEmpty == SizeOf({}) = 0
<1>1. TextBytes({}) = {}  BY DEF TextBytes
<1> QED BY <1>1, TextsFinite, FS_EmptySet

\* One more text adds no more than its length, and nothing if it is there.
LEMMA SizeOfMore ==
  ASSUME NEW texts, IsFiniteSet(texts), texts \subseteq Seq(Byte), NEW t \in Seq(Byte)
  PROVE  /\ IsFiniteSet(texts \cup {t}) /\ SizeOf(texts \cup {t}) \in Nat
         /\ SizeOf(texts \cup {t}) <= SizeOf(texts) + Len(t)
         /\ t \in texts => SizeOf(texts \cup {t}) = SizeOf(texts)
<1> DEFINE new == {t} \X DOMAIN t
<1>1. IsFiniteSet(texts \cup {t})  BY FS_AddElement
<1>2. /\ IsFiniteSet(TextBytes(texts)) /\ SizeOf(texts) = Cardinality(TextBytes(texts))
      /\ SizeOf(texts) \in Nat
      /\ SizeOf(texts \cup {t}) = Cardinality(TextBytes(texts \cup {t}))
      /\ SizeOf(texts \cup {t}) \in Nat
  <2> DEFINE more == texts \cup {t}
  <2>1. IsFiniteSet(more) /\ more \subseteq Seq(Byte)  BY <1>1
  <2> HIDE DEF more
  <2>2. SizeOf(more) = Cardinality(TextBytes(more)) /\ SizeOf(more) \in Nat
    BY <2>1, TextsFinite
  <2>3. IsFiniteSet(TextBytes(texts)) /\ SizeOf(texts) = Cardinality(TextBytes(texts))
        /\ SizeOf(texts) \in Nat
    BY TextsFinite
  <2> QED BY <2>2, <2>3 DEF more
<1>3. IsFiniteSet(new) /\ Cardinality(new) = Len(t) /\ Len(t) \in Nat  BY CountText
<1>4. TextBytes(texts \cup {t}) = TextBytes(texts) \cup new  BY DEF TextBytes
<1> HIDE DEF new
<1>5. Cardinality(TextBytes(texts) \cup new) =
        Cardinality(TextBytes(texts)) + Cardinality(new) - Cardinality(TextBytes(texts) \cap new)
  BY <1>2, <1>3, FS_Union
<1>6. Cardinality(TextBytes(texts) \cap new) \in Nat
  BY <1>2, FS_Intersection, FS_CardinalityType
<1>7. t \in texts => SizeOf(texts \cup {t}) = SizeOf(texts)
  <2>1. t \in texts => texts \cup {t} = texts  OBVIOUS
  <2> QED BY <2>1
<1>8. SizeOf(texts \cup {t}) = SizeOf(texts) + Len(t) - Cardinality(TextBytes(texts) \cap new)
  BY <1>2, <1>3, <1>4, <1>5
<1>9. SizeOf(texts \cup {t}) <= SizeOf(texts) + Len(t)
  BY <1>2, <1>3, <1>6, <1>8
<1> QED BY <1>1, <1>2, <1>7, <1>9

\* The bytes of a text up to some position, newlines left out.
LEMMA ContentFinite ==
  ASSUME NEW t \in Seq(Byte), NEW k \in 0..Len(t)
  PROVE  IsFiniteSet(Content(t, k)) /\ Cardinality(Content(t, k)) \in Nat
<1>1. IsFiniteSet(1..k)  BY FS_Interval
<1>2. Content(t, k) \in SUBSET (1..k)  BY DEF Content
<1>3. IsFiniteSet(Content(t, k))  BY <1>1, <1>2, FS_Subset
<1> QED BY <1>3, FS_CardinalityType

\* Nothing of a stream is counted before it is read.
LEMMA ContentStarts ==
  ASSUME NEW t \in Seq(Byte) PROVE Cardinality(Content(t, 0)) = 0
<1>1. Content(t, 0) = {}  BY DEF Content
<1> QED BY <1>1, FS_EmptySet

\* Bytes that are no newlines are counted one by one.
LEMMA ContentGrows ==
  ASSUME NEW t \in Seq(Byte), NEW c \in 0..Len(t), NEW d \in c..Len(t),
         \A i \in (c + 1)..d : t[i] # Newline
  PROVE  Cardinality(Content(t, d)) = Cardinality(Content(t, c)) + (d - c)
<1>1. Content(t, d) = Content(t, c) \cup ((c + 1)..d) /\ Content(t, c) \cap ((c + 1)..d) = {}
  BY DEF Content
<1>2. IsFiniteSet((c + 1)..d) /\ Cardinality((c + 1)..d) = d - c
  <2>1. c + 1 \in Int /\ d \in Int /\ (c + 1 > d => d - c = 0) /\ d - (c + 1) + 1 = d - c
    OBVIOUS
  <2>2. /\ IsFiniteSet((c + 1)..d)
        /\ Cardinality((c + 1)..d) = IF c + 1 > d THEN 0 ELSE d - (c + 1) + 1
    BY <2>1, FS_Interval
  <2> QED BY <2>1, <2>2
<1>3. IsFiniteSet(Content(t, c))  BY ContentFinite
<1> QED BY <1>1, <1>2, <1>3, CountBoth

\* A newline is not counted.
LEMMA ContentSkips ==
  ASSUME NEW t \in Seq(Byte), NEW k \in 1..Len(t), t[k] = Newline
  PROVE  Content(t, k) = Content(t, k - 1)
BY DEF Content

\* What was counted stays counted.
LEMMA ContentBounded ==
  ASSUME NEW t \in Seq(Byte), NEW c \in 0..Len(t), NEW d \in c..Len(t)
  PROVE  Cardinality(Content(t, c)) <= Cardinality(Content(t, d))
<1>1. d \in 0..Len(t)  OBVIOUS
<1>2. Content(t, c) \in SUBSET Content(t, d)  BY DEF Content
<1>3. IsFiniteSet(Content(t, d))  BY <1>1, ContentFinite
<1> QED BY <1>2, <1>3, FS_Subset

\* The size of the arguments and the first k streams.
LEMMA StreamsFinite ==
  ASSUME given \in Cases, NEW k \in 0..Len(given.streams)
  PROVE  IsFiniteSet(StreamBytes(k)) /\ SizeUpTo(k) \in Nat
         /\ Cardinality(StreamBytes(k)) \in Nat /\ ListSize(given.values) \in Nat
<1>1. given.streams \in Seq(Seq(Byte)) /\ given.values \in Seq(Seq(Byte))
  BY CasesAssumption
<1> DEFINE f == [i \in 1..k |-> {i} \X Content(given.streams[i], Len(given.streams[i]))]
<1>2. \A i \in 1..k : IsFiniteSet(f[i])
  <2>1. ASSUME NEW i \in 1..k PROVE IsFiniteSet(f[i])
    <3>1. given.streams[i] \in Seq(Byte)  BY <1>1
    <3> DEFINE t == given.streams[i]
    <3>2. t \in Seq(Byte) /\ Len(t) \in 0..Len(t)  BY <3>1
    <3> HIDE DEF t
    <3>3. IsFiniteSet(Content(t, Len(t)))  BY <3>2, ContentFinite
    <3>4. IsFiniteSet({i} \X Content(t, Len(t)))  BY <3>3, CountColumn
    <3> QED BY <3>4 DEF t
  <2> QED BY <2>1
<1>3. DOMAIN f = 1..k /\ f = [i \in 1..k |-> f[i]] /\ StreamBytes(k) = UNION {f[i] : i \in 1..k}
  BY DEF StreamBytes
<1>4. IsFiniteSet(1..k)  BY FS_Interval
<1> HIDE DEF f
<1>5. IsFiniteSet(StreamBytes(k))  BY <1>2, <1>3, <1>4, FiniteUnion
<1>6. Cardinality(StreamBytes(k)) \in Nat  BY <1>5, FS_CardinalityType
<1>7. ListSize(given.values) \in Nat  BY <1>1, ListFinite
<1> QED BY <1>5, <1>6, <1>7 DEF SizeUpTo

\* A stream adds what it contains beside newlines.
LEMMA SizeUpToStream ==
  ASSUME given \in Cases, NEW k \in 1..Len(given.streams)
  PROVE  SizeUpTo(k) = SizeUpTo(k - 1)
           + Cardinality(Content(given.streams[k], Len(given.streams[k])))
<1>1. given.streams \in Seq(Seq(Byte)) /\ k - 1 \in 0..Len(given.streams)
      /\ k \in 0..Len(given.streams)
  BY CasesAssumption
<1> DEFINE t == given.streams[k]
           new == {k} \X Content(t, Len(t))
<1>2. t \in Seq(Byte) /\ Len(t) \in 0..Len(t)  BY <1>1
<1>3. 1..k = (1..(k - 1)) \cup {k}  OBVIOUS
<1>4. StreamBytes(k) = StreamBytes(k - 1) \cup new
  BY <1>3 DEF StreamBytes
<1>5. StreamBytes(k - 1) \cap new = {}
  <2>1. \A x \in new : x[1] = k  OBVIOUS
  <2>2. ASSUME NEW x \in StreamBytes(k - 1) PROVE x[1] # k
    <3>1. PICK i \in 1..(k - 1) :
            x \in {i} \X Content(given.streams[i], Len(given.streams[i]))
      BY DEF StreamBytes
    <3>2. x[1] = i  BY <3>1
    <3> QED BY <3>2
  <2> QED BY <2>1, <2>2
<1> HIDE DEF t
<1>6. IsFiniteSet(Content(t, Len(t))) /\ Cardinality(Content(t, Len(t))) \in Nat
  BY <1>2, ContentFinite
<1>7. IsFiniteSet(new) /\ Cardinality(new) = Cardinality(Content(t, Len(t)))
  BY <1>6, CountColumn
<1>8. IsFiniteSet(StreamBytes(k - 1)) /\ Cardinality(StreamBytes(k - 1)) \in Nat
      /\ ListSize(given.values) \in Nat
  BY <1>1, StreamsFinite
<1> HIDE DEF new
<1>9. Cardinality(StreamBytes(k)) = Cardinality(StreamBytes(k - 1)) + Cardinality(Content(t, Len(t)))
  BY <1>4, <1>5, <1>7, <1>8, CountBoth
<1> QED BY <1>6, <1>8, <1>9 DEF SizeUpTo, t

\* The streams so far are not more than all of them.
LEMMA SizeBounded ==
  ASSUME given \in Cases, NEW k \in 0..Len(given.streams)
  PROVE  SizeUpTo(k) <= SizeGiven /\ SizeGiven \in Nat
<1>1. Len(given.streams) \in 0..Len(given.streams)  BY CasesAssumption
<1>2. k \in Nat /\ Len(given.streams) \in Nat /\ k <= Len(given.streams)  BY <1>1
<1>3. StreamBytes(k) \in SUBSET StreamBytes(Len(given.streams))
  <2>1. 1..k \subseteq 1..Len(given.streams)  BY <1>2
  <2> QED BY <2>1 DEF StreamBytes
<1>4. IsFiniteSet(StreamBytes(Len(given.streams))) /\ SizeGiven \in Nat
      /\ Cardinality(StreamBytes(Len(given.streams))) \in Nat
  BY <1>1, StreamsFinite DEF SizeGiven
<1>5. Cardinality(StreamBytes(k)) \in Nat /\ ListSize(given.values) \in Nat
  BY StreamsFinite
<1>6. Cardinality(StreamBytes(k)) <= Cardinality(StreamBytes(Len(given.streams)))
  BY <1>3, <1>4, FS_Subset
<1> QED BY <1>4, <1>5, <1>6 DEF SizeUpTo, SizeGiven

-----------------------------------------------------------------------------
(* Records.                                                                *)

\* The text from i to j is a record.
IsRecord(t, i, j) ==
  /\ i \in 1..Len(t) /\ j \in 0..Len(t) /\ i <= j + 1
  /\ \A k \in i..j : t[k] # Newline
  /\ i = 1 \/ t[i - 1] = Newline
  /\ j = Len(t) \/ t[j + 1] = Newline

\* A record before a place of the stream is a stretch between newlines that ends there.
LEMMA RecordMember ==
  ASSUME NEW t \in Seq(Byte), NEW c
  PROVE  \A r : r \in RecordsBefore(t, c) <=>
           \E i \in 1..Len(t) : \E j \in 0..Len(t) :
             IsRecord(t, i, j) /\ j < c /\ r = SubSeq(t, i, j)
<1> DEFINE Q(ij) == /\ ij[1] <= ij[2] + 1 /\ ij[2] < c
                    /\ \A i \in ij[1]..ij[2] : t[i] # Newline
                    /\ ij[1] = 1 \/ t[ij[1] - 1] = Newline
                    /\ ij[2] = Len(t) \/ t[ij[2] + 1] = Newline
           P == {ij \in (1..Len(t)) \X (0..Len(t)) : Q(ij)}
<1>1. RecordsBefore(t, c) = {SubSeq(t, ij[1], ij[2]) : ij \in P}
  BY DEF RecordsBefore
<1>2. ASSUME NEW ij \in P
      PROVE  /\ ij[1] \in 1..Len(t) /\ ij[2] \in 0..Len(t)
             /\ IsRecord(t, ij[1], ij[2]) /\ ij[2] < c
  BY DEF IsRecord
<1>3. ASSUME NEW i \in 1..Len(t), NEW j \in 0..Len(t), IsRecord(t, i, j), j < c
      PROVE  <<i, j>> \in P /\ <<i, j>>[1] = i /\ <<i, j>>[2] = j
  BY <1>3 DEF IsRecord
<1> HIDE DEF P
<1>4. ASSUME NEW r \in RecordsBefore(t, c)
      PROVE  \E i \in 1..Len(t) : \E j \in 0..Len(t) :
               IsRecord(t, i, j) /\ j < c /\ r = SubSeq(t, i, j)
  <2>1. PICK ij \in P : r = SubSeq(t, ij[1], ij[2])  BY <1>1
  <2> QED BY <1>2, <2>1
<1>5. ASSUME NEW r, NEW i \in 1..Len(t), NEW j \in 0..Len(t), IsRecord(t, i, j), j < c,
             r = SubSeq(t, i, j)
      PROVE  r \in RecordsBefore(t, c)
  <2> DEFINE ij == <<i, j>>
  <2>1. ij \in P /\ ij[1] = i /\ ij[2] = j  BY <1>3, <1>5
  <2> HIDE DEF ij
  <2>2. r = SubSeq(t, ij[1], ij[2])  BY <1>5, <2>1
  <2> QED BY <1>1, <2>1, <2>2
<1> QED BY <1>4, <1>5

\* There is none before the stream begins.
LEMMA NoRecordYet ==
  ASSUME NEW t \in Seq(Byte) PROVE RecordsBefore(t, 0) = {}
<1>1. \A j \in 0..Len(t) : ~(j < 0)  OBVIOUS
<1> QED BY <1>1, RecordMember

\* All records of a text that has none are those that end before its length.
LEMMA RecordsGrow ==
  ASSUME NEW t \in Seq(Byte), NEW c, NEW d, \A j \in 0..Len(t) : j < c => j < d
  PROVE  RecordsBefore(t, c) \subseteq RecordsBefore(t, d)
BY RecordMember

\* What was cut so far are records of the stream.
LEMMA RecordsInText ==
  ASSUME NEW t \in Seq(Byte), NEW c
  PROVE  RecordsBefore(t, c) \subseteq RecordsOf(t)
<1>1. \A j \in 0..Len(t) : j < Len(t) + 1  OBVIOUS
<1> QED BY <1>1, RecordsGrow DEF RecordsOf

\* The record that a newline, or the end of the text, ends at e, when one began at
\* c, is the only one that ends between them.
Between(t, c, e) ==
  /\ c \in Nat /\ e \in Nat /\ c < e /\ c < Len(t) /\ e <= Len(t) + 1
  /\ c = 0 \/ t[c] = Newline
  /\ e = Len(t) + 1 \/ t[e] = Newline
  /\ \A k \in (c + 1)..(e - 1) : t[k] # Newline

\* The next newline ends the record that begins where the last cut was.
LEMMA NextRecord ==
  ASSUME NEW t \in Seq(Byte), NEW c, NEW e, Between(t, c, e)
  PROVE  /\ IsRecord(t, c + 1, e - 1)
         /\ RecordsBefore(t, e) = RecordsBefore(t, c) \cup {SubSeq(t, c + 1, e - 1)}
<1> USE DEF Between
<1>0. Len(t) \in Nat /\ c + 1 \in 1..Len(t) /\ e - 1 \in 0..Len(t) /\ e - 1 < e
  OBVIOUS
<1>1. IsRecord(t, c + 1, e - 1)
  <2>1. c + 1 <= e - 1 + 1 /\ c + 1 - 1 = c /\ e - 1 + 1 = e  BY <1>0
  <2>2. e - 1 = Len(t) \/ t[e - 1 + 1] = Newline  BY <1>0, <2>1
  <2>3. c + 1 = 1 \/ t[c + 1 - 1] = Newline  BY <2>1
  <2> QED BY <1>0, <2>1, <2>2, <2>3 DEF IsRecord
<1>2. ASSUME NEW r \in RecordsBefore(t, e)
      PROVE  r \in RecordsBefore(t, c) \cup {SubSeq(t, c + 1, e - 1)}
  <2>1. PICK i \in 1..Len(t) : \E j \in 0..Len(t) :
               IsRecord(t, i, j) /\ j < e /\ r = SubSeq(t, i, j)
    BY RecordMember
  <2>2. PICK j \in 0..Len(t) : IsRecord(t, i, j) /\ j < e /\ r = SubSeq(t, i, j)
    BY <2>1
  <2>3. CASE j < c  BY <2>2, <2>3, RecordMember
  <2>4. CASE j >= c
    <3>1. /\ i <= j + 1 /\ \A k \in i..j : t[k] # Newline
          /\ i = 1 \/ t[i - 1] = Newline
          /\ j = Len(t) \/ t[j + 1] = Newline
      BY <2>2 DEF IsRecord
    <3>2. i >= c + 1
      <4>1. SUFFICES ASSUME i <= c PROVE FALSE  BY <1>0
      <4>2. c \in i..j /\ c # 0  BY <2>4, <4>1
      <4> QED BY <3>1, <4>2
    <3>3. j = e - 1
      <4>1. SUFFICES ASSUME j < e - 1 PROVE FALSE  BY <1>0, <2>2
      <4>2. j # Len(t) /\ j + 1 \in (c + 1)..(e - 1)  BY <1>0, <2>4, <4>1
      <4> QED BY <3>1, <4>2
    <3>4. i = c + 1
      <4>1. SUFFICES ASSUME i > c + 1 PROVE FALSE  BY <1>0, <3>2
      <4>2. i # 1 /\ i - 1 \in (c + 1)..(e - 1)  BY <1>0, <3>1, <3>3, <4>1
      <4> QED BY <3>1, <4>2
    <3> QED BY <2>2, <3>3, <3>4
  <2> QED BY <1>0, <2>3, <2>4
<1>3. \A j \in 0..Len(t) : j < c => j < e  OBVIOUS
<1>4. RecordsBefore(t, c) \subseteq RecordsBefore(t, e)  BY <1>3, RecordsGrow
<1>5. SubSeq(t, c + 1, e - 1) \in RecordsBefore(t, e)
  BY <1>0, <1>1, RecordMember
<1> QED BY <1>1, <1>2, <1>4, <1>5

\* A text that ends with a newline has no other record.
LEMMA NoLastRecord ==
  ASSUME NEW t \in Seq(Byte), Len(t) = 0 \/ t[Len(t)] = Newline
  PROVE  RecordsOf(t) = RecordsBefore(t, Len(t))
<1>1. ASSUME NEW r \in RecordsOf(t) PROVE r \in RecordsBefore(t, Len(t))
  <2>1. PICK i \in 1..Len(t) : \E j \in 0..Len(t) :
               IsRecord(t, i, j) /\ j < Len(t) + 1 /\ r = SubSeq(t, i, j)
    BY RecordMember DEF RecordsOf
  <2>2. PICK j \in 0..Len(t) : IsRecord(t, i, j) /\ r = SubSeq(t, i, j)
    BY <2>1
  <2>3. j # Len(t)
    <3>1. SUFFICES ASSUME j = Len(t) PROVE FALSE  OBVIOUS
    <3>2. Len(t) \in i..j /\ Len(t) # 0  BY <3>1
    <3> QED BY <2>2, <3>2 DEF IsRecord
  <2>4. j < Len(t)  BY <2>3
  <2> QED BY <2>2, <2>4, RecordMember
<1> QED BY <1>1, RecordsInText

\* What a newline does not end within a stretch belongs to a record that is as long.
LEMMA LongRecord ==
  ASSUME NEW t \in Seq(Byte), NEW c \in Nat, NEW d \in Nat, c < d, d <= Len(t),
         c = 0 \/ t[c] = Newline, \A k \in (c + 1)..d : t[k] # Newline
  PROVE  \E r \in RecordsOf(t) : r \in Seq(Byte) /\ Len(r) >= d - c
<1> DEFINE T == {e \in (d + 1)..(Len(t) + 1) : e = Len(t) + 1 \/ t[e] = Newline}
<1>1. T \in SUBSET Nat /\ T # {}
  <2>1. d + 1 \in Nat /\ Len(t) + 1 \in Nat /\ Len(t) + 1 \in (d + 1)..(Len(t) + 1)
    OBVIOUS
  <2>2. Len(t) + 1 \in T  BY <2>1
  <2>3. \A e \in T : e \in Nat  BY <2>1
  <2> HIDE DEF T
  <2> QED BY <2>2, <2>3
<1> HIDE DEF T
<1>2. PICK e \in T : \A m \in T : e <= m  BY <1>1, Least
<1>3. e \in (d + 1)..(Len(t) + 1) /\ (e = Len(t) + 1 \/ t[e] = Newline)  BY DEF T
<1>4. \A k \in (c + 1)..(e - 1) : t[k] # Newline
  <2> SUFFICES ASSUME NEW k \in (c + 1)..(e - 1), t[k] = Newline PROVE FALSE  OBVIOUS
  <2>1. k \in (d + 1)..(Len(t) + 1) /\ k < e  BY <1>3
  <2>2. k \in T  BY <2>1 DEF T
  <2> QED BY <1>2, <2>1, <2>2
<1>5. SubSeq(t, c + 1, e - 1) \in RecordsBefore(t, e)
  <2>1. e \in Nat /\ c < e /\ c < Len(t) /\ e <= Len(t) + 1  BY <1>3
  <2>2. RecordsBefore(t, e) = RecordsBefore(t, c) \cup {SubSeq(t, c + 1, e - 1)}
    <3>1. Between(t, c, e)  BY <1>3, <1>4, <2>1 DEF Between
    <3> QED BY <3>1, NextRecord
  <2> QED BY <2>2
<1>6. /\ SubSeq(t, c + 1, e - 1) \in Seq(Byte)
      /\ Len(SubSeq(t, c + 1, e - 1)) >= d - c
  <2>1. c + 1 \in 1..(Len(t) + 1) /\ e - 1 \in 0..Len(t) /\ c + 1 <= e - 1
        /\ e - 1 - (c + 1) + 1 >= d - c
    BY <1>3
  <2> QED BY <2>1, PartOfText
<1> QED BY <1>5, <1>6, RecordsInText

-----------------------------------------------------------------------------
(* Reading a stream.                                                       *)

\* Of one case, what is given stays the same.
LEMMA SameGiven ==
  ASSUME UNCHANGED given
  PROVE  /\ \A k : GivenUpTo(k)' = GivenUpTo(k) /\ SizeUpTo(k)' = SizeUpTo(k)
         /\ Given' = Given /\ SizeGiven' = SizeGiven
         /\ stream' = stream => Input' = Input
<1>1. \A k : GivenUpTo(k)' = GivenUpTo(k)  BY DEF GivenUpTo
<1>2. \A k : SizeUpTo(k)' = SizeUpTo(k)  BY DEF SizeUpTo, StreamBytes
<1> QED BY <1>1, <1>2 DEF Given, SizeGiven, Input

\* A list that is one longer, and one that has lost its head.
LEMMA ToSetAppend ==
  ASSUME NEW list \in Seq(Seq(Byte)), NEW t \in Seq(Byte)
  PROVE  ToSet(Append(list, t)) = ToSet(list) \cup {t}
<1> DEFINE long == Append(list, t)
<1>1. /\ DOMAIN long = 1..(Len(list) + 1) /\ DOMAIN list = 1..Len(list) /\ Len(list) \in Nat
      /\ long[Len(list) + 1] = t /\ \A i \in 1..Len(list) : long[i] = list[i]
  OBVIOUS
<1> HIDE DEF long
<1>2. ToSet(long) = {long[i] : i \in DOMAIN long} /\ ToSet(list) = {list[i] : i \in DOMAIN list}
  BY DEF ToSet
<1>3. \A i \in 1..(Len(list) + 1) : i = Len(list) + 1 \/ i \in 1..Len(list)
  BY <1>1
<1>4. 1..Len(list) \subseteq 1..(Len(list) + 1) /\ Len(list) + 1 \in 1..(Len(list) + 1)
  BY <1>1
<1>5. ToSet(long) = ToSet(list) \cup {t}  BY <1>1, <1>2, <1>3, <1>4
<1> QED BY <1>5 DEF long

\* The records of a list are its first and those of its tail.
LEMMA ToSetTail ==
  ASSUME NEW list \in Seq(Seq(Byte)), list # <<>>
  PROVE  ToSet(list) = {Head(list)} \cup ToSet(Tail(list))
<1> DEFINE rest == Tail(list)
<1>1. /\ rest \in Seq(Seq(Byte)) /\ Len(rest) = Len(list) - 1 /\ Len(list) \in Nat \ {0}
      /\ Head(list) = list[1] /\ \A i \in 1..Len(rest) : rest[i] = list[i + 1]
      /\ DOMAIN rest = 1..Len(rest) /\ DOMAIN list = 1..Len(list)
  BY EmptySeq, HeadTailProperties
<1> HIDE DEF rest
<1>2. ToSet(rest) = {rest[i] : i \in DOMAIN rest} /\ ToSet(list) = {list[i] : i \in DOMAIN list}
  BY DEF ToSet
<1>3. ASSUME NEW i \in 1..Len(list) PROVE list[i] \in {Head(list)} \cup ToSet(rest)
  <2>1. CASE i = 1  BY <1>1, <2>1
  <2>2. CASE i # 1
    <3>1. i - 1 \in 1..Len(rest) /\ i - 1 + 1 = i  BY <1>1, <2>2
    <3>2. rest[i - 1] = list[i]  BY <1>1, <3>1
    <3> QED BY <1>1, <1>2, <3>1, <3>2
  <2> QED BY <2>1, <2>2
<1>4. ASSUME NEW i \in 1..Len(rest) PROVE rest[i] \in ToSet(list)
  <2>1. i + 1 \in 1..Len(list)  BY <1>1
  <2> QED BY <1>1, <1>2, <2>1
<1>5. Head(list) \in ToSet(list)
  <2>1. 1 \in 1..Len(list)  BY <1>1
  <2> QED BY <1>1, <1>2, <2>1
<1> QED BY <1>1, <1>2, <1>3, <1>4, <1>5 DEF rest

\* An empty list has none.
LEMMA ToSetEmpty == ToSet(<<>>) = {}
<1>1. DOMAIN <<>> = {}  BY EmptySeq
<1> QED BY <1>1 DEF ToSet

\* Where the program is in a stream.
LEMMA StreamFacts ==
  ASSUME Inv, pc \in {"read", "cut", "reset"}
  PROVE  /\ given \in Cases /\ stream \in 1..Len(given.streams) /\ stream - 1 \in 0..Len(given.streams)
         /\ Input \in Seq(Byte) /\ Len(Input) \in Nat /\ offset \in 0..Len(Input)
         /\ pending \in Seq(Byte) /\ Len(pending) \in 0..offset
         /\ Cut \in 0..Len(Input) /\ Cut + Len(pending) = offset
         /\ \A i \in 1..Len(pending) : pending[i] = Input[Cut + i]
         /\ records \in Seq(Seq(Byte)) /\ total \in Nat /\ used \in Nat
         /\ TotalLimit \in Nat /\ InputLimit \in Nat \ {0}
         /\ SizeUpTo(stream - 1) \in Nat
<1>1. InputTypes  BY TypeParts DEF Inv
<1>2. stream # 0 /\ offset <= Len(Input) /\ EndsWith(Input, offset, pending)
  BY DEF Inv, InputsInv, CutInv
<1>3. given \in Cases /\ given.streams \in Seq(Seq(Byte)) /\ stream \in 1..Len(given.streams)
      /\ stream - 1 \in 0..Len(given.streams)
  BY <1>1, <1>2, GivenTypes DEF InputTypes
<1>4. Input \in Seq(Byte) /\ Len(Input) \in Nat  BY <1>3 DEF Input
<1>5. offset \in 0..Len(Input) /\ pending \in Seq(Byte) /\ Len(pending) \in Nat
      /\ records \in Seq(Seq(Byte)) /\ total \in Nat /\ used \in Nat
  BY <1>1, <1>2, <1>4 DEF InputTypes
<1>6. Len(pending) <= offset /\ \A i \in 1..Len(pending) : pending[i] = Input[offset - Len(pending) + i]
  BY <1>2 DEF EndsWith
<1>7. Cut \in 0..Len(Input) /\ Cut + Len(pending) = offset  BY <1>4, <1>5, <1>6 DEF Cut
<1>8. SizeUpTo(stream - 1) \in Nat  BY <1>3, StreamsFinite
<1> QED BY <1>3, <1>4, <1>5, <1>6, <1>7, <1>8, LimitsAssumption DEF Cut

\* What a stream holds is given.
LEMMA InputGiven ==
  ASSUME Inv, pc \in {"read", "cut", "reset"}
  PROVE  RecordsOf(Input) \subseteq Given
BY StreamFacts DEF Given, GivenUpTo, Input

\* No more can have been counted than is there.
LEMMA InputBounded ==
  ASSUME Inv, pc \in {"read", "cut", "reset"}, NEW k \in 0..Len(Input)
  PROVE  /\ Cardinality(Content(Input, k)) \in Nat
         /\ SizeUpTo(stream - 1) + Cardinality(Content(Input, k)) <= SizeUpTo(stream)
         /\ SizeUpTo(stream) <= SizeGiven /\ SizeUpTo(stream) \in Nat /\ SizeGiven \in Nat
<1>1. /\ given \in Cases /\ stream \in 1..Len(given.streams) /\ Input \in Seq(Byte)
      /\ Len(Input) \in k..Len(Input) /\ Len(Input) \in 0..Len(Input)
      /\ SizeUpTo(stream - 1) \in Nat
  BY StreamFacts
<1>2. Cardinality(Content(Input, k)) \in Nat /\ Cardinality(Content(Input, Len(Input))) \in Nat
  BY <1>1, ContentFinite
<1>3. Cardinality(Content(Input, k)) <= Cardinality(Content(Input, Len(Input)))
  BY <1>1, ContentBounded
<1>4. SizeUpTo(stream) = SizeUpTo(stream - 1) + Cardinality(Content(Input, Len(Input)))
  BY <1>1, SizeUpToStream DEF Input
<1>5. stream \in 0..Len(given.streams)  BY <1>1
<1>6. SizeUpTo(stream) <= SizeGiven /\ SizeGiven \in Nat  BY <1>1, <1>5, SizeBounded
<1> QED BY <1>1, <1>2, <1>3, <1>4, <1>6

\* The first n pending bytes are the next record of the stream.
NextIs(n) ==
  /\ n \in 0..Len(pending) /\ \A i \in 1..n : pending[i] # Newline
  /\ \/ n < Len(pending) /\ pending[n + 1] = Newline
     \/ n = Len(pending) /\ n # 0 /\ offset = Len(Input)

\* What is pending up to the next newline, or the end, is the next record of the stream.
LEMMA PendingRecord ==
  ASSUME Inv, pc \in {"read", "cut"}, NEW n, NextIs(n)
  PROVE  /\ SubSeq(pending, 1, n) \in Seq(Byte) /\ Len(SubSeq(pending, 1, n)) = n
         /\ Cut + n \in 0..Len(Input)
         /\ SubSeq(pending, 1, n) \in RecordsOf(Input)
         /\ RecordsBefore(Input, Cut + n + 1) =
              RecordsBefore(Input, Cut) \cup {SubSeq(pending, 1, n)}
         /\ Cardinality(Content(Input, Cut + n)) = Cardinality(Content(Input, Cut)) + n
<1> DEFINE e == Cut + n + 1
           r == SubSeq(pending, 1, n)
           s == SubSeq(Input, Cut + 1, e - 1)
<1>1. /\ Input \in Seq(Byte) /\ Len(Input) \in Nat /\ offset \in 0..Len(Input)
      /\ pending \in Seq(Byte) /\ Len(pending) \in 0..offset
      /\ Cut \in 0..Len(Input) /\ Cut + Len(pending) = offset
      /\ \A i \in 1..Len(pending) : pending[i] = Input[Cut + i]
  BY StreamFacts
<1>2. n \in 0..Len(pending) /\ n \in Nat  BY <1>1 DEF NextIs
<1>3. r \in Seq(Byte) /\ Len(r) = n /\ \A i \in 1..n : r[i] = pending[i]
  BY <1>1, <1>2, Prefix
<1>4. e \in Nat /\ Cut < e /\ Cut < Len(Input) /\ e <= Len(Input) + 1 /\ e - 1 = Cut + n
      /\ Cut + n \in 0..Len(Input)
  BY <1>1, <1>2 DEF NextIs
<1>5. \A k \in (Cut + 1)..(e - 1) : Input[k] # Newline
  <2>1. ASSUME NEW k \in (Cut + 1)..(e - 1) PROVE Input[k] # Newline
    <3>1. k - Cut \in 1..n /\ k - Cut \in 1..Len(pending) /\ Cut + (k - Cut) = k  BY <1>1, <1>2, <1>4
    <3> QED BY <1>1, <3>1 DEF NextIs
  <2> QED BY <2>1
<1>6. e = Len(Input) + 1 \/ Input[e] = Newline
  <2>1. CASE n < Len(pending) /\ pending[n + 1] = Newline
    <3>1. n + 1 \in 1..Len(pending) /\ Cut + (n + 1) = e  BY <1>1, <1>2, <2>1
    <3> QED BY <1>1, <2>1, <3>1
  <2>2. CASE n = Len(pending) /\ n # 0 /\ offset = Len(Input)  BY <1>1, <2>2
  <2> QED BY <2>1, <2>2 DEF NextIs
<1>7. Cut = 0 \/ Input[Cut] = Newline
  BY DEF Inv, InputsInv, CutInv
<1> HIDE DEF e
<1>8. Cut \in Nat  BY <1>1
<1>9. RecordsBefore(Input, e) = RecordsBefore(Input, Cut) \cup {s}
  <2>1. Between(Input, Cut, e)  BY <1>1, <1>4, <1>5, <1>6, <1>7, <1>8 DEF Between
  <2> QED BY <1>1, <2>1, NextRecord
<1>10. r = s
  <2>1. Cut + 1 \in 1..(Len(Input) + 1) /\ e - 1 \in 0..Len(Input) /\ e - 1 - (Cut + 1) + 1 = n
        /\ (Cut + 1 <= e - 1 <=> n # 0)
    BY <1>1, <1>2, <1>4
  <2>2. /\ s \in Seq(Byte) /\ Len(s) = IF Cut + 1 <= e - 1 THEN e - 1 - (Cut + 1) + 1 ELSE 0
        /\ \A k \in 1..(e - 1 - (Cut + 1) + 1) : s[k] = Input[Cut + 1 + k - 1]
    BY <1>1, <2>1, PartOfText
  <2> HIDE DEF r, s
  <2>3. Len(s) = n  BY <1>2, <2>1, <2>2
  <2>4. ASSUME NEW k \in 1..n PROVE r[k] = s[k]
    <3>1. Cut + 1 + k - 1 = Cut + k /\ k \in 1..Len(pending)  BY <1>1, <1>2
    <3>2. s[k] = Input[Cut + k]  BY <2>1, <2>2, <3>1
    <3> QED BY <1>1, <1>3, <3>1, <3>2
  <2> QED BY <1>3, <2>2, <2>3, <2>4, SeqEqual
<1>11. Cardinality(Content(Input, Cut + n)) = Cardinality(Content(Input, Cut)) + n
  <2>1. Cut + n \in Cut..Len(Input) /\ Cut + n - Cut = n /\ (Cut + 1)..(Cut + n) = (Cut + 1)..(e - 1)
    BY <1>1, <1>2, <1>4
  <2>2. \A k \in (Cut + 1)..(Cut + n) : Input[k] # Newline  BY <1>5, <2>1
  <2> DEFINE d == Cut + n
  <2>3. d \in Cut..Len(Input) /\ d - Cut = n /\ \A k \in (Cut + 1)..d : Input[k] # Newline
    <3>1. d \in Cut..Len(Input) /\ d - Cut = n  BY <1>1, <1>2, <1>4, <2>1
    <3>2. \A k \in (Cut + 1)..d : Input[k] # Newline  BY <2>2
    <3> QED BY <3>1, <3>2
  <2> HIDE DEF d
  <2>4. Cardinality(Content(Input, d)) = Cardinality(Content(Input, Cut)) + (d - Cut)
    BY <1>1, <2>3, ContentGrows
  <2>5. Cardinality(Content(Input, d)) = Cardinality(Content(Input, Cut)) + n
    BY <2>3, <2>4
  <2> QED BY <2>5 DEF d
<1>12. r \in RecordsOf(Input)  BY <1>1, <1>9, <1>10, RecordsInText
<1> QED BY <1>3, <1>4, <1>9, <1>10, <1>11, <1>12 DEF e

\* Either it is refused for a reason, or it is the next record and is counted.
Refusable == \/ \E r \in Given : Len(r) \notin 1..InputLimit
             \/ SizeGiven > TotalLimit

\* append adds it to the records and its bytes to the total, or refuses it for a reason
\* that the inputs give.
LEMMA AppendCounts ==
  ASSUME Inv, pc \in {"read", "cut"}, NEW n, NextIs(n), NEW next, next # "done",
         AppendRecord(SubSeq(pending, 1, n), next)
  PROVE  \/ pc' = "done" /\ verdict' = "rejected" /\ Refusable
         \/ /\ pc' = next /\ verdict' = verdict
            /\ ToSet(records') = RecordsBefore(Input, Cut + n + 1)
            /\ ListSize(records') = total'
            /\ total' = Cardinality(Content(Input, Cut + n))
<1> DEFINE r == SubSeq(pending, 1, n)
<1>1. /\ r \in Seq(Byte) /\ Len(r) = n /\ Cut + n \in 0..Len(Input)
      /\ r \in RecordsOf(Input)
      /\ RecordsBefore(Input, Cut + n + 1) = RecordsBefore(Input, Cut) \cup {r}
      /\ Cardinality(Content(Input, Cut + n)) = Cardinality(Content(Input, Cut)) + n
  BY PendingRecord
<1>2. /\ records \in Seq(Seq(Byte)) /\ total \in Nat /\ used \in Nat
      /\ TotalLimit \in Nat /\ InputLimit \in Nat \ {0} /\ SizeUpTo(stream - 1) \in Nat
  BY StreamFacts
<1>3. /\ ToSet(records) = RecordsBefore(Input, Cut) /\ ListSize(records) = total
      /\ total = Cardinality(Content(Input, Cut)) /\ used <= SizeUpTo(stream - 1)
  BY DEF Inv, InputsInv, CutInv
<1>4. AppendRecord(r, next)  OBVIOUS
<1> HIDE DEF r
<1>5. n \in Nat  BY <1>1
<1>6. CASE n > InputLimit
  <2>1. Len(r) \notin 1..InputLimit /\ r \in Given  BY <1>1, <1>2, <1>5, <1>6, InputGiven
  <2>2. pc' = "done" /\ verdict' = "rejected"  BY <1>1, <1>4, <1>6 DEF AppendRecord, Stop
  <2> QED BY <2>1, <2>2 DEF Refusable
<1>7. CASE total + n > TotalLimit - used
  <2>1. /\ Cardinality(Content(Input, Cut + n)) \in Nat
        /\ SizeUpTo(stream - 1) + Cardinality(Content(Input, Cut + n)) <= SizeUpTo(stream)
        /\ SizeUpTo(stream) <= SizeGiven /\ SizeUpTo(stream) \in Nat /\ SizeGiven \in Nat
    BY <1>1, InputBounded
  <2>2. SizeGiven > TotalLimit  BY <1>1, <1>2, <1>3, <1>5, <1>7, <2>1
  <2>3. pc' = "done" /\ verdict' = "rejected"  BY <1>1, <1>4, <1>7 DEF AppendRecord, Stop
  <2> QED BY <2>2, <2>3 DEF Refusable
<1>8. CASE ~(n > InputLimit \/ total + n > TotalLimit - used)
  <2>1. records' = Append(records, r) /\ total' = total + n /\ pc' = next /\ verdict' = verdict
    BY <1>1, <1>4, <1>8 DEF AppendRecord, Goto
  <2>2. ToSet(records') = ToSet(records) \cup {r}  BY <1>1, <1>2, <2>1, ToSetAppend
  <2>3. ListSize(records') = ListSize(records) + Len(r)  BY <1>1, <1>2, <2>1, ListSizeAppend
  <2> QED BY <1>1, <1>3, <2>1, <2>2, <2>3
<1> QED BY <1>6, <1>7, <1>8

\* Steps that end collecting, or come after it, have nothing to keep.
LEMMA Collected ==
  ASSUME pc' \notin Collecting
  PROVE  InputsInv'
BY DEF InputsInv, CutInv, ValidatedInv, PatternsInv, Collecting

\* While a stream is read there are no new patterns.
LEMMA PatternsStay ==
  ASSUME Inv, pc \in Collecting, UNCHANGED <<patterns, used>>
  PROVE  PatternsInv'
BY DEF Inv, InputsInv, PatternsInv

\* A step within a stream that keeps what CutInv says of the text.
LEMMA CutKept ==
  ASSUME Inv, pc \in {"read", "cut", "reset"}, pc' \in {"read", "cut", "reset"},
         UNCHANGED <<given, stream, patterns, used>>,
         offset' <= Len(Input), EndsWith(Input, offset', pending'),
         pc' = "read" => Newlines' = {},
         pc' = "reset" => offset' = Len(Input),
         pc' # "reset" => Cut' = 0 \/ Input[Cut'] = Newline,
         pc' = "reset" => ToSet(records') = RecordsBefore(Input, Cut' + 1),
         pc' # "reset" => ToSet(records') = RecordsBefore(Input, Cut'),
         ListSize(records') = total', total' = Cardinality(Content(Input, Cut'))
  PROVE  InputsInv'
<1>1. Input' = Input /\ \A k : GivenUpTo(k)' = GivenUpTo(k) /\ SizeUpTo(k)' = SizeUpTo(k)
  BY SameGiven
<1>2. stream # 0 /\ patterns = GivenUpTo(stream - 1) /\ used <= SizeUpTo(stream - 1)
  BY DEF Inv, InputsInv, CutInv
<1>3. patterns' = GivenUpTo(stream - 1)' /\ used' <= SizeUpTo(stream - 1)'
  BY <1>1, <1>2 DEF GivenUpTo, SizeUpTo, StreamBytes
<1>4. CutInv'
  BY <1>1, <1>2, <1>3 DEF CutInv
<1>5. ValidatedInv'  BY DEF ValidatedInv
<1>6. PatternsInv'  BY PatternsStay DEF Collecting
<1> QED BY <1>4, <1>5, <1>6 DEF InputsInv

\* What is pending and the next chunk together are the stream from the last cut on.
LEMMA Joined ==
  ASSUME NEW a \in Seq(Byte), NEW b \in Seq(Byte)
  PROVE  /\ a \o b \in Seq(Byte) /\ Len(a \o b) = Len(a) + Len(b)
         /\ \A i \in 1..(Len(a) + Len(b)) :
              (a \o b)[i] = IF i <= Len(a) THEN a[i] ELSE b[i - Len(a)]
OBVIOUS

\* read_records keeps what it says of the stream: the next chunk,
LEMMA ReadChunkInputs ==
  ASSUME Inv, ReadChunk PROVE InputsInv'
<1> DEFINE upto == Smaller(offset + ChunkSize, Len(Input))
           chunk == SubSeq(Input, offset + 1, upto)
<1>1. /\ pc = "read" /\ offset < Len(Input) /\ pending' = pending \o chunk /\ offset' = upto
      /\ pc' = "cut" /\ UNCHANGED <<given, stream, records, total, used, patterns>>
  BY DEF ReadChunk, Goto, Input
<1>2. /\ Input \in Seq(Byte) /\ Len(Input) \in Nat /\ offset \in 0..Len(Input)
      /\ pending \in Seq(Byte) /\ Len(pending) \in 0..offset
      /\ Cut \in 0..Len(Input) /\ Cut + Len(pending) = offset
      /\ \A i \in 1..Len(pending) : pending[i] = Input[Cut + i]
  BY <1>1, StreamFacts
<1>3. upto \in offset..Len(Input) /\ upto \in Nat
  BY <1>1, <1>2, LimitsAssumption DEF Smaller
<1> HIDE DEF upto
<1>4. chunk \in Seq(Byte) /\ Len(chunk) = upto - offset
      /\ \A i \in 1..Len(chunk) : chunk[i] = Input[offset + i]
  <2>1. offset + 1 \in 1..(Len(Input) + 1) /\ upto \in 0..Len(Input)
        /\ upto - (offset + 1) + 1 = upto - offset /\ (offset + 1 <= upto <=> upto - offset # 0)
    BY <1>1, <1>2, <1>3
  <2>2. /\ chunk \in Seq(Byte)
        /\ Len(chunk) = IF offset + 1 <= upto THEN upto - (offset + 1) + 1 ELSE 0
        /\ \A k \in 1..(upto - (offset + 1) + 1) : chunk[k] = Input[offset + 1 + k - 1]
    BY <1>2, <2>1, PartOfText
  <2> HIDE DEF chunk
  <2>3. Len(chunk) = upto - offset  BY <2>1, <2>2
  <2>4. ASSUME NEW i \in 1..Len(chunk) PROVE chunk[i] = Input[offset + i]
    <3>1. i \in 1..(upto - (offset + 1) + 1) /\ offset + 1 + i - 1 = offset + i
      BY <1>2, <2>1, <2>3
    <3> QED BY <2>2, <3>1
  <2> QED BY <2>2, <2>3, <2>4
<1> HIDE DEF chunk
<1> DEFINE long == pending \o chunk
<1>5. /\ long \in Seq(Byte) /\ Len(long) = Len(pending) + Len(chunk)
      /\ \A i \in 1..Len(long) : long[i] = IF i <= Len(pending) THEN pending[i]
                                                                ELSE chunk[i - Len(pending)]
  <2>1. /\ long \in Seq(Byte) /\ Len(long) = Len(pending) + Len(chunk)
        /\ \A i \in 1..(Len(pending) + Len(chunk)) :
             long[i] = IF i <= Len(pending) THEN pending[i] ELSE chunk[i - Len(pending)]
    BY <1>2, <1>4, Joined
  <2> HIDE DEF long
  <2> QED BY <2>1
<1> HIDE DEF long
<1>6. upto - Len(long) = Cut /\ Len(long) <= upto /\ Len(long) \in Nat
  <2>1. Len(chunk) \in Nat /\ Len(pending) \in Nat /\ offset \in Nat /\ Cut \in Nat
        /\ Len(long) = Len(pending) + Len(chunk) /\ Len(chunk) = upto - offset
        /\ Cut + Len(pending) = offset
    BY <1>2, <1>3, <1>4, <1>5
  <2> QED BY <1>3, <2>1
<1>7. EndsWith(Input, upto, long)
  <2>1. ASSUME NEW i \in 1..Len(long) PROVE long[i] = Input[Cut + i]
    <3>1. CASE i <= Len(pending)  BY <1>2, <1>5, <3>1
    <3>2. CASE i > Len(pending)
      <4>1. i - Len(pending) \in 1..Len(chunk) /\ offset + (i - Len(pending)) = Cut + i
        <5>1. /\ Len(chunk) \in Nat /\ Len(pending) \in Nat /\ offset \in Nat
              /\ Cut \in Nat /\ i \in Nat /\ i <= Len(pending) + Len(chunk)
              /\ i > Len(pending) /\ Cut + Len(pending) = offset
          BY <1>2, <1>4, <1>5, <1>6, <3>2
        <5> QED BY <5>1
      <4>2. chunk[i - Len(pending)] = Input[Cut + i]  BY <1>4, <4>1
      <4> QED BY <1>2, <1>5, <3>2, <4>2
    <3> QED BY <1>2, <3>1, <3>2
  <2> QED BY <1>6, <2>1 DEF EndsWith
<1>8. pending' = long /\ Cut' = Cut
  BY <1>1, <1>6 DEF Cut, long
<1>9. /\ Cut = 0 \/ Input[Cut] = Newline
      /\ ToSet(records) = RecordsBefore(Input, Cut)
      /\ ListSize(records) = total /\ total = Cardinality(Content(Input, Cut))
  BY <1>1 DEF Inv, InputsInv, CutInv
<1>10. upto <= Len(Input)  BY <1>2, <1>3
<1> QED BY <1>1, <1>7, <1>8, <1>9, <1>10, CutKept

\* a complete record,
LEMMA CutRecordInputs ==
  ASSUME Inv, CutRecord
  PROVE  /\ InputsInv'
         /\ pc' = "done" => verdict' = "rejected" /\ Refusable
<1>1. /\ pc = "cut" /\ UNCHANGED <<given, stream, offset, used, patterns>>
  BY DEF CutRecord
<1>2. PICK first \in Newlines :
        /\ \A i \in Newlines : first <= i
        /\ AppendRecord(SubSeq(pending, 1, first - 1), "cut")
        /\ pending' = SubSeq(pending, first + 1, Len(pending))
  BY DEF CutRecord
<1>3. /\ Input \in Seq(Byte) /\ Len(Input) \in Nat /\ offset \in 0..Len(Input)
      /\ pending \in Seq(Byte) /\ Len(pending) \in 0..offset
      /\ Cut \in 0..Len(Input) /\ Cut + Len(pending) = offset
      /\ \A i \in 1..Len(pending) : pending[i] = Input[Cut + i]
  BY <1>1, StreamFacts
<1>4. first \in 1..Len(pending) /\ pending[first] = Newline
      /\ \A i \in 1..Len(pending) : pending[i] = Newline => first <= i
  BY <1>2, <1>3 DEF Newlines
<1> DEFINE n == first - 1
           rest == SubSeq(pending, first + 1, Len(pending))
<1>5. NextIs(n)
  <2>1. n \in 0..Len(pending) /\ n < Len(pending) /\ n + 1 = first  BY <1>3, <1>4
  <2>2. \A i \in 1..n : pending[i] # Newline
    <3>1. ASSUME NEW i \in 1..n PROVE i \in 1..Len(pending) /\ ~(first <= i)
      BY <1>3, <1>4
    <3> QED BY <1>4, <3>1
  <2> QED BY <1>4, <2>1, <2>2 DEF NextIs
<1>6. n \in Nat /\ n + 1 = first  BY <1>4
<1>7. /\ rest \in Seq(Byte) /\ Len(rest) = Len(pending) - first
      /\ \A i \in 1..Len(rest) : rest[i] = pending[first + i]
  <2>1. first + 1 \in 1..(Len(pending) + 1) /\ Len(pending) \in 0..Len(pending)
        /\ Len(pending) - (first + 1) + 1 = Len(pending) - first
        /\ (first + 1 <= Len(pending) <=> Len(pending) - first # 0)
    BY <1>3, <1>4
  <2>2. /\ rest \in Seq(Byte)
        /\ Len(rest) = IF first + 1 <= Len(pending) THEN Len(pending) - (first + 1) + 1 ELSE 0
        /\ \A k \in 1..(Len(pending) - (first + 1) + 1) : rest[k] = pending[first + 1 + k - 1]
    BY <1>3, <2>1, PartOfText
  <2> HIDE DEF rest
  <2>3. Len(rest) = Len(pending) - first  BY <2>1, <2>2
  <2>4. ASSUME NEW i \in 1..Len(rest) PROVE rest[i] = pending[first + i]
    <3>1. i \in 1..(Len(pending) - (first + 1) + 1) /\ first + 1 + i - 1 = first + i
      <4>1. first \in Nat /\ Len(pending) \in Nat /\ i \in Nat /\ 1 <= i
            /\ i <= Len(pending) - first
        BY <1>3, <1>4, <2>3
      <4> QED BY <4>1
    <3> QED BY <2>2, <3>1
  <2> QED BY <2>2, <2>3, <2>4
<1> HIDE DEF n, rest
<1>8. AppendRecord(SubSeq(pending, 1, n), "cut")  BY <1>2 DEF n
<1>9. \/ pc' = "done" /\ verdict' = "rejected" /\ Refusable
      \/ /\ pc' = "cut" /\ verdict' = verdict
         /\ ToSet(records') = RecordsBefore(Input, Cut + n + 1)
         /\ ListSize(records') = total'
         /\ total' = Cardinality(Content(Input, Cut + n))
  BY <1>1, <1>5, <1>8, AppendCounts
<1>10. CASE pc' = "done" /\ verdict' = "rejected" /\ Refusable
  BY <1>10, Collected DEF Collecting
<1>11. CASE /\ pc' = "cut"
            /\ ToSet(records') = RecordsBefore(Input, Cut + n + 1)
            /\ ListSize(records') = total'
            /\ total' = Cardinality(Content(Input, Cut + n))
  <2>1. pending' = rest /\ offset' = offset  BY <1>1, <1>2 DEF rest
  <2>0. /\ Cut \in Nat /\ first \in Nat /\ n \in Nat /\ offset \in Nat /\ Len(pending) \in Nat
        /\ Len(rest) \in Nat /\ Len(Input) \in Nat /\ first = n + 1 /\ 1 <= first
        /\ first <= Len(pending) /\ Cut + Len(pending) = offset /\ offset <= Len(Input)
        /\ Len(rest) = Len(pending) - first
    BY <1>3, <1>4, <1>6, <1>7
  <2>2. offset - Len(rest) = Cut + first /\ Len(rest) <= offset /\ Cut + first \in 1..Len(Input)
        /\ Cut + first - 1 = Cut + n /\ Cut + n + 1 = Cut + first
    BY <2>0
  <2>3. Cut' = Cut + n + 1 /\ Cut' = Cut + first
    <3>1. Cut' = offset - Len(rest)  BY <2>1 DEF Cut
    <3> QED BY <2>2, <3>1
  <2>4. Input[Cut + first] = Newline  BY <1>3, <1>4
  <2>5. EndsWith(Input, offset, rest)
    <3>1. ASSUME NEW i \in 1..Len(rest) PROVE rest[i] = Input[offset - Len(rest) + i]
      <4>1. first + i \in 1..Len(pending) /\ Cut + (first + i) = offset - Len(rest) + i
        <5>1. i \in Nat /\ 1 <= i /\ i <= Len(rest)  BY <2>0
        <5> QED BY <2>0, <5>1
      <4> QED BY <1>3, <1>7, <4>1
    <3> QED BY <2>2, <3>1 DEF EndsWith
  <2>6. Content(Input, Cut + first) = Content(Input, Cut + n)
    <3> DEFINE k == Cut + first
    <3>1. k \in 1..Len(Input) /\ Input[k] = Newline /\ k - 1 = Cut + n  BY <2>0, <2>2, <2>4
    <3> HIDE DEF k
    <3>2. Content(Input, k) = Content(Input, k - 1)  BY <1>3, <3>1, ContentSkips
    <3> QED BY <3>1, <3>2 DEF k
  <2>7. offset <= Len(Input)  BY <1>3
  <2> QED BY <1>1, <1>11, <2>1, <2>3, <2>4, <2>5, <2>6, <2>7, CutKept
<1> QED BY <1>9, <1>10, <1>11

\* what is pending and already too long,
LEMMA CheckPendingInputs ==
  ASSUME Inv, CheckPending
  PROVE  /\ InputsInv'
         /\ pc' = "done" => verdict' = "rejected" /\ Refusable
<1>1. /\ pc = "cut" /\ Newlines = {}
      /\ UNCHANGED <<given, stream, offset, pending, records, total, used, patterns>>
  BY DEF CheckPending, inputVars
<1>2. /\ Input \in Seq(Byte) /\ Len(Input) \in Nat /\ offset \in 0..Len(Input)
      /\ pending \in Seq(Byte) /\ Len(pending) \in 0..offset
      /\ Cut \in 0..Len(Input) /\ Cut + Len(pending) = offset
      /\ \A i \in 1..Len(pending) : pending[i] = Input[Cut + i]
      /\ InputLimit \in Nat \ {0}
  BY <1>1, StreamFacts
<1>3. /\ offset <= Len(Input) /\ EndsWith(Input, offset, pending)
      /\ Cut = 0 \/ Input[Cut] = Newline
      /\ ToSet(records) = RecordsBefore(Input, Cut)
      /\ ListSize(records) = total /\ total = Cardinality(Content(Input, Cut))
  BY <1>1 DEF Inv, InputsInv, CutInv
<1>4. CASE Len(pending) > InputLimit
  <2>1. pc' = "done" /\ verdict' = "rejected"  BY <1>4 DEF CheckPending, Stop
  <2>2. \A k \in (Cut + 1)..offset : Input[k] # Newline
    <3>1. ASSUME NEW k \in (Cut + 1)..offset PROVE Input[k] # Newline
      <4>1. k - Cut \in 1..Len(pending) /\ Cut + (k - Cut) = k  BY <1>2
      <4>2. pending[k - Cut] # Newline  BY <1>1, <1>2, <4>1 DEF Newlines
      <4> QED BY <1>2, <4>1, <4>2
    <3> QED BY <3>1
  <2>3. Cut \in Nat /\ offset \in Nat /\ Cut < offset /\ offset <= Len(Input)
        /\ offset - Cut = Len(pending)
    BY <1>2, <1>4
  <2>4. PICK r \in RecordsOf(Input) : r \in Seq(Byte) /\ Len(r) >= offset - Cut
    BY <1>2, <1>3, <2>2, <2>3, LongRecord
  <2>5. Len(r) \notin 1..InputLimit  BY <1>2, <1>4, <2>3, <2>4
  <2>6. r \in Given  BY <1>1, <2>4, InputGiven
  <2> QED BY <2>1, <2>5, <2>6, Collected DEF Refusable, Collecting
<1>5. CASE ~(Len(pending) > InputLimit)
  <2>1. pc' = "read"  BY <1>5 DEF CheckPending, Goto
  <2>2. Newlines' = {} /\ Cut' = Cut  BY <1>1 DEF Newlines, Cut
  <2>3. InputsInv'  BY <1>1, <1>3, <2>1, <2>2, CutKept
  <2> QED BY <2>1, <2>3
<1> QED BY <1>4, <1>5

\* and the last record.
LEMMA EndStreamInputs ==
  ASSUME Inv, EndStream
  PROVE  /\ InputsInv'
         /\ pc' = "done" => verdict' = "rejected" /\ Refusable
<1>1. /\ pc = "read" /\ offset = Len(Input) /\ pending' = <<>>
      /\ UNCHANGED <<given, stream, offset, used, patterns>>
  BY DEF EndStream, Input
<1>2. /\ Input \in Seq(Byte) /\ Len(Input) \in Nat /\ offset \in 0..Len(Input)
      /\ pending \in Seq(Byte) /\ Len(pending) \in 0..offset
      /\ Cut \in 0..Len(Input) /\ Cut + Len(pending) = offset
  BY <1>1, StreamFacts
<1>3. /\ Cut = 0 \/ Input[Cut] = Newline
      /\ ToSet(records) = RecordsBefore(Input, Cut)
      /\ ListSize(records) = total /\ total = Cardinality(Content(Input, Cut))
      /\ Newlines = {}
  BY <1>1 DEF Inv, InputsInv, CutInv
<1>4. Cut' = Len(Input) /\ EndsWith(Input, offset, pending')
  <2>1. <<>> \in Seq(Byte) /\ Len(<<>>) = 0  BY EmptySeq
  <2>2. Len(pending') = 0  BY <1>1, <2>1
  <2>3. Cut' = offset - 0  BY <1>1, <2>2 DEF Cut
  <2>4. EndsWith(Input, offset, Root)  BY <1>2, EndsRoot
  <2> QED BY <1>1, <1>2, <2>3, <2>4 DEF Root
<1>5. ASSUME pc' = "reset", ToSet(records') = RecordsBefore(Input, Len(Input) + 1),
             ListSize(records') = total', total' = Cardinality(Content(Input, Len(Input)))
      PROVE  InputsInv'
  BY <1>1, <1>2, <1>4, <1>5, CutKept
<1>6. CASE pending # <<>>
  <2> DEFINE n == Len(pending)
  <2>1. n \in Nat \ {0} /\ Cut + n = Len(Input)  BY <1>1, <1>2, <1>6, EmptySeq
  <2>2. SubSeq(pending, 1, n) = pending  BY <1>2, SubSeqFull
  <2>3. NextIs(n)  BY <1>1, <1>2, <1>3, <2>1 DEF NextIs, Newlines
  <2>4. AppendRecord(pending, "reset")  BY <1>6 DEF EndStream
  <2> HIDE DEF n
  <2>5. AppendRecord(SubSeq(pending, 1, n), "reset")  BY <2>2, <2>4
  <2>6. \/ pc' = "done" /\ verdict' = "rejected" /\ Refusable
        \/ /\ pc' = "reset" /\ verdict' = verdict
           /\ ToSet(records') = RecordsBefore(Input, Cut + n + 1)
           /\ ListSize(records') = total'
           /\ total' = Cardinality(Content(Input, Cut + n))
    BY <1>1, <2>3, <2>5, AppendCounts
  <2>7. CASE pc' = "done" /\ verdict' = "rejected" /\ Refusable
    BY <2>7, Collected DEF Collecting
  <2> QED BY <1>5, <2>1, <2>6, <2>7
<1>7. CASE pending = <<>>
  <2>1. pc' = "reset" /\ records' = records /\ total' = total  BY <1>7 DEF EndStream, Goto
  <2>2. Cut = Len(Input)
    <3>1. Len(pending) = 0  BY <1>7, EmptySeq
    <3> QED BY <1>1, <1>2, <3>1
  <2>3. RecordsOf(Input) = RecordsBefore(Input, Len(Input))  BY <1>2, <1>3, <2>2, NoLastRecord
  <2>4. InputsInv'  BY <1>3, <1>5, <2>1, <2>2, <2>3 DEF RecordsOf
  <2> QED BY <2>1, <2>4
<1> QED BY <1>6, <1>7

-----------------------------------------------------------------------------
(* Validating, and the end of collecting.                                  *)

\* A stream adds its records to those given so far.
LEMMA GivenUpToStream ==
  ASSUME NEW k \in Nat \ {0}
  PROVE  GivenUpTo(k) = GivenUpTo(k - 1) \cup RecordsOf(given.streams[k])
<1>1. 1..k = (1..(k - 1)) \cup {k}  OBVIOUS
<1> QED BY <1>1 DEF GivenUpTo

\* What was given so far is part of what is given.
LEMMA GivenGrows ==
  ASSUME given \in Cases, NEW k \in 0..Len(given.streams)
  PROVE  GivenUpTo(k) \subseteq Given
<1>1. k \in Nat /\ Len(given.streams) \in Nat /\ k <= Len(given.streams)
  BY GivenTypes
<1>2. 1..k \subseteq 1..Len(given.streams)  BY <1>1
<1> QED BY <1>2 DEF Given, GivenUpTo

\* Before anything is read, nothing was given.
LEMMA InitInputs == Init => InputsInv
<1> SUFFICES ASSUME Init PROVE InputsInv  OBVIOUS
<1>1. /\ given \in Cases /\ stream = 0 /\ records = given.values /\ total = 0
      /\ used = 0 /\ patterns = {} /\ pc = "validate"
  BY DEF Init
<1>2. given.values \in Seq(Seq(Byte)) /\ 0 \in 0..Len(given.streams)  BY <1>1, GivenTypes
<1>3. /\ SizeUpTo(0) \in Nat /\ Cardinality(StreamBytes(0)) \in Nat
      /\ ListSize(given.values) \in Nat
  BY <1>1, <1>2, StreamsFinite
<1>4. ListSize(given.values) <= SizeUpTo(0)  BY <1>3 DEF SizeUpTo
<1>5. GivenUpTo(0) = ToSet(given.values)
  <2>1. 1..0 = {}  OBVIOUS
  <2> QED BY <2>1 DEF GivenUpTo
<1>6. ValidatedInv  BY <1>1, <1>3, <1>4, <1>5 DEF ValidatedInv
<1>7. PatternsInv  BY <1>1, SizeOfEmpty, FS_EmptySet DEF PatternsInv
<1>8. CutInv  BY <1>1 DEF CutInv
<1> QED BY <1>6, <1>7, <1>8 DEF InputsInv

\* _validated starts with the records of this stream only.
LEMMA StartValidationInputs ==
  ASSUME Inv, StartValidation PROVE InputsInv'
<1>1. /\ pc = "reset" /\ pc' = "validate" /\ total' = 0
      /\ UNCHANGED <<given, stream, records, used, patterns>>
  BY DEF StartValidation, Goto
<1>2. /\ given \in Cases /\ stream \in 1..Len(given.streams) /\ Input \in Seq(Byte)
      /\ Len(Input) \in Nat /\ used \in Nat /\ Len(pending) \in 0..offset
      /\ Cut + Len(pending) = offset /\ Cut \in 0..Len(Input)
      /\ SizeUpTo(stream - 1) \in Nat
  BY <1>1, StreamFacts
<1>3. pending = <<>> /\ offset = Len(Input)
  BY <1>1 DEF Inv, ForbiddenInv, ReadInv, InputsInv, CutInv
<1>4. Len(pending) = 0  BY <1>3, EmptySeq
<1>5. Cut = Len(Input)  BY <1>2, <1>3, <1>4
<1>6. /\ ToSet(records) = RecordsOf(Input) /\ ListSize(records) = Cardinality(Content(Input, Len(Input)))
      /\ patterns = GivenUpTo(stream - 1) /\ used <= SizeUpTo(stream - 1)
  BY <1>1, <1>5 DEF Inv, InputsInv, CutInv, RecordsOf
<1>7. stream \in Nat \ {0}  BY <1>2, GivenTypes
<1>8. patterns \cup ToSet(records) = GivenUpTo(stream)
  BY <1>6, <1>7, GivenUpToStream DEF Input
<1>9. SizeUpTo(stream) = SizeUpTo(stream - 1) + ListSize(records)
  BY <1>2, <1>6, SizeUpToStream DEF Input
<1>10. Len(Input) \in 0..Len(Input)  BY <1>2
<1>11. ListSize(records) \in Nat  BY <1>2, <1>6, <1>10, ContentFinite
<1>12. 0 + ListSize(records) <= SizeUpTo(stream) /\ used + ListSize(records) <= SizeUpTo(stream)
  BY <1>2, <1>6, <1>9, <1>11
<1>13. \A k : GivenUpTo(k)' = GivenUpTo(k) /\ SizeUpTo(k)' = SizeUpTo(k)
  BY <1>1, SameGiven
<1>14. ValidatedInv'
  <2>1. /\ patterns' \cup ToSet(records') = GivenUpTo(stream)
        /\ total' + ListSize(records') <= SizeUpTo(stream)
        /\ used' + ListSize(records') <= SizeUpTo(stream)
    BY <1>1, <1>8, <1>12
  <2> QED BY <1>1, <1>13, <2>1 DEF ValidatedInv, GivenUpTo, SizeUpTo, StreamBytes
<1>15. PatternsInv'  BY <1>1, PatternsStay DEF Collecting
<1>16. CutInv'  BY <1>1 DEF CutInv
<1> QED BY <1>14, <1>15, <1>16 DEF InputsInv

\* What is known while records are validated.
LEMMA ValidatedFacts ==
  ASSUME Inv, pc = "validate"
  PROVE  /\ given \in Cases /\ stream \in 0..Len(given.streams) /\ Len(given.streams) \in Nat
         /\ records \in Seq(Seq(Byte)) /\ total \in Nat /\ used \in Nat
         /\ TotalLimit \in Nat /\ InputLimit \in Nat \ {0}
         /\ seen \subseteq patterns /\ patterns \subseteq Seq(Byte)
         /\ patterns \cup ToSet(records) = GivenUpTo(stream)
         /\ total + ListSize(records) <= SizeUpTo(stream)
         /\ used + ListSize(records) <= SizeUpTo(stream)
         /\ IsFiniteSet(patterns) /\ SizeOf(patterns) <= used
         /\ \A p \in patterns : Len(p) \in 1..InputLimit
         /\ GivenUpTo(stream) \subseteq Given
         /\ SizeUpTo(stream) \in Nat /\ SizeGiven \in Nat /\ SizeUpTo(stream) <= SizeGiven
         /\ SizeOf(patterns) \in Nat /\ ListSize(records) \in Nat
<1>1. InputTypes  BY TypeParts DEF Inv
<1>2. given \in Cases /\ stream \in 0..Len(given.streams) /\ Len(given.streams) \in Nat
      /\ records \in Seq(Seq(Byte)) /\ total \in Nat /\ used \in Nat
      /\ seen \subseteq patterns /\ patterns \subseteq Seq(Byte)
  BY <1>1, GivenTypes DEF InputTypes
<1>3. /\ patterns \cup ToSet(records) = GivenUpTo(stream)
      /\ total + ListSize(records) <= SizeUpTo(stream)
      /\ used + ListSize(records) <= SizeUpTo(stream)
  BY DEF Inv, InputsInv, ValidatedInv
<1>4. /\ IsFiniteSet(patterns) /\ SizeOf(patterns) <= used
      /\ \A p \in patterns : Len(p) \in 1..InputLimit
  BY DEF Inv, InputsInv, PatternsInv, Collecting
<1>5. GivenUpTo(stream) \subseteq Given  BY <1>2, GivenGrows
<1>6. SizeUpTo(stream) \in Nat  BY <1>2, StreamsFinite
<1>7. SizeGiven \in Nat /\ SizeUpTo(stream) <= SizeGiven  BY <1>2, SizeBounded
<1>8. SizeOf(patterns) \in Nat  BY <1>2, <1>4, TextsFinite
<1>9. ListSize(records) \in Nat  BY <1>2, ListFinite
<1> QED BY <1>2, <1>3, <1>4, <1>5, <1>6, <1>7, <1>8, <1>9, LimitsAssumption

\* _validated moves one record to the patterns and counts it again.
LEMMA ValidateInputs ==
  ASSUME Inv, Validate
  PROVE  /\ InputsInv'
         /\ pc' = "done" => verdict' = "rejected" /\ Refusable
<1> DEFINE record == Head(records)
           rest == Tail(records)
<1>1. pc = "validate" /\ records # <<>> /\ UNCHANGED <<given, stream>>
  BY DEF Validate
<1>2. /\ given \in Cases /\ records \in Seq(Seq(Byte)) /\ total \in Nat /\ used \in Nat
      /\ TotalLimit \in Nat /\ InputLimit \in Nat \ {0}
      /\ seen \subseteq patterns /\ patterns \subseteq Seq(Byte)
      /\ patterns \cup ToSet(records) = GivenUpTo(stream)
      /\ total + ListSize(records) <= SizeUpTo(stream)
      /\ used + ListSize(records) <= SizeUpTo(stream)
      /\ IsFiniteSet(patterns) /\ SizeOf(patterns) <= used
      /\ \A p \in patterns : Len(p) \in 1..InputLimit
      /\ GivenUpTo(stream) \subseteq Given
      /\ SizeUpTo(stream) \in Nat /\ SizeGiven \in Nat /\ SizeUpTo(stream) <= SizeGiven
      /\ SizeOf(patterns) \in Nat
  BY <1>1, ValidatedFacts
<1>3. /\ record \in Seq(Byte) /\ Len(record) \in Nat /\ rest \in Seq(Seq(Byte))
  BY <1>1, <1>2, EmptySeq, HeadTailProperties
<1>4. ToSet(records) = {record} \cup ToSet(rest)  BY <1>1, <1>2, ToSetTail
<1>5. ListSize(records) = Len(record) + ListSize(rest) /\ ListSize(rest) \in Nat
  BY <1>1, <1>2, <1>3, ListSizeTail, ListFinite
<1>6. IF Len(record) \notin 1..InputLimit \/ total + Len(record) > TotalLimit
      THEN pc' = "done" /\ verdict' = "rejected"
      ELSE /\ pc' = "validate" /\ records' = rest /\ total' = total + Len(record)
           /\ used' = IF record \in seen THEN used ELSE used + Len(record)
           /\ patterns' = patterns \cup {record}
  BY DEF Validate, Stop, Goto
<1> HIDE DEF record, rest
<1>7. CASE Len(record) \notin 1..InputLimit \/ total + Len(record) > TotalLimit
  <2>1. pc' = "done" /\ verdict' = "rejected"  BY <1>6, <1>7
  <2>2. record \in Given  BY <1>2, <1>4
  <2>3. total + Len(record) > TotalLimit => SizeGiven > TotalLimit
    BY <1>2, <1>3, <1>5
  <2>4. Refusable  BY <1>7, <2>2, <2>3 DEF Refusable
  <2> QED BY <2>1, <2>4, Collected DEF Collecting
<1>8. CASE ~(Len(record) \notin 1..InputLimit \/ total + Len(record) > TotalLimit)
  <2>1. /\ pc' = "validate" /\ records' = rest /\ total' = total + Len(record)
        /\ used' = IF record \in seen THEN used ELSE used + Len(record)
        /\ patterns' = patterns \cup {record} /\ Len(record) \in 1..InputLimit
    BY <1>6, <1>8
  <2>2. patterns' \cup ToSet(records') = GivenUpTo(stream)  BY <1>2, <1>4, <2>1
  <2>3. used' <= used + Len(record) /\ used' \in Nat
    BY <1>2, <1>3, <2>1
  <2>4. /\ total' + ListSize(records') <= SizeUpTo(stream)
        /\ used' + ListSize(records') <= SizeUpTo(stream)
    <3> DEFINE all == ListSize(records)
               left == ListSize(rest)
               size == SizeUpTo(stream)
               long == Len(record)
    <3>1. /\ long \in Nat /\ left \in Nat /\ size \in Nat /\ all = long + left
          /\ total + all <= size /\ used + all <= size
      BY <1>2, <1>3, <1>5
    <3>2. total' = total + long /\ used' <= used + long /\ ListSize(records') = left
      BY <2>1, <2>3
    <3>3. total \in Nat /\ used \in Nat /\ used' \in Nat  BY <1>2, <2>3
    <3> HIDE DEF all, left, size, long
    <3>4. total' + left <= size  BY <3>1, <3>2, <3>3, ShareCounted
    <3>5. used' + left <= size  BY <3>1, <3>2, <3>3, ShareCounted
    <3> QED BY <3>2, <3>4, <3>5 DEF left, size
  <2>5. \A k : GivenUpTo(k)' = GivenUpTo(k) /\ SizeUpTo(k)' = SizeUpTo(k)
    BY <1>1, SameGiven
  <2>6. ValidatedInv'
    BY <1>1, <2>1, <2>2, <2>4, <2>5 DEF ValidatedInv, GivenUpTo, SizeUpTo, StreamBytes
  <2>7. /\ IsFiniteSet(patterns \cup {record}) /\ SizeOf(patterns \cup {record}) \in Nat
        /\ SizeOf(patterns \cup {record}) <= SizeOf(patterns) + Len(record)
        /\ record \in patterns => SizeOf(patterns \cup {record}) = SizeOf(patterns)
    BY <1>2, <1>3, SizeOfMore
  <2>8. SizeOf(patterns \cup {record}) <= used'
    <3>1. CASE record \in seen  BY <1>2, <2>1, <2>7, <3>1
    <3>2. CASE record \notin seen  BY <1>2, <1>3, <2>1, <2>7, <3>2
    <3> QED BY <3>1, <3>2
  <2>9. \A p \in patterns' : Len(p) \in 1..InputLimit  BY <1>2, <2>1
  <2>10. PatternsInv'  BY <2>1, <2>7, <2>8, <2>9 DEF PatternsInv
  <2>11. CutInv'  BY <2>1 DEF CutInv
  <2> QED BY <2>1, <2>6, <2>10, <2>11 DEF InputsInv
<1> QED BY <1>7, <1>8

\* collect goes on with the next argument, file or standard input.
LEMMA NextStreamInputs ==
  ASSUME Inv, NextStream PROVE InputsInv'
<1>1. /\ pc = "validate" /\ records = <<>> /\ stream < Len(given.streams)
      /\ stream' = stream + 1 /\ offset' = 0 /\ total' = 0 /\ pc' = "read"
      /\ UNCHANGED <<given, pending, records, used, patterns>>
  BY DEF NextStream, Goto
<1>2. /\ given \in Cases /\ stream \in 0..Len(given.streams) /\ Len(given.streams) \in Nat
      /\ used \in Nat /\ patterns \cup ToSet(records) = GivenUpTo(stream)
      /\ used + ListSize(records) <= SizeUpTo(stream) /\ SizeUpTo(stream) \in Nat
  BY <1>1, ValidatedFacts
<1>3. pending = <<>>  BY <1>1 DEF Inv, ForbiddenInv, ReadInv
<1>4. ToSet(records) = {} /\ ListSize(records) = 0
  BY <1>1, ToSetEmpty, ListSizeEmpty
<1>5. patterns = GivenUpTo(stream) /\ used <= SizeUpTo(stream)  BY <1>2, <1>4
<1>6. stream + 1 \in 1..Len(given.streams) /\ stream + 1 - 1 = stream /\ stream + 1 # 0
  BY <1>1, <1>2
<1> DEFINE text == given.streams[stream + 1]
<1>7. text \in Seq(Byte) /\ Len(text) \in Nat  BY <1>2, <1>6, GivenTypes
<1>8. Input' = text  BY <1>1 DEF Input
<1> HIDE DEF text
<1>9. RecordsBefore(text, 0) = {} /\ Cardinality(Content(text, 0)) = 0
  BY <1>7, NoRecordYet, ContentStarts
<1>10. Len(<<>>) = 0 /\ DOMAIN <<>> = {}  BY EmptySeq
<1>11. EndsWith(text, 0, <<>>)  BY <1>10 DEF EndsWith
<1>12. pending' = <<>> /\ Cut' = 0 /\ Newlines' = {}
  <2>1. pending' = <<>>  BY <1>1, <1>3
  <2>2. Cut' = offset' - Len(pending')  BY DEF Cut
  <2>3. Cut' = 0
    <3>1. Len(pending') = 0 /\ offset' = 0  BY <1>1, <1>10, <2>1
    <3>2. 0 - 0 = 0  OBVIOUS
    <3> QED BY <2>2, <3>1, <3>2
  <2>4. DOMAIN pending' = {}  BY <1>10, <2>1
  <2>5. Newlines' = {}  BY <2>4 DEF Newlines
  <2> QED BY <2>1, <2>3, <2>5
<1>14. patterns' = GivenUpTo(stream - 1)' /\ used' <= SizeUpTo(stream - 1)'
  <2>1. stream' - 1 = stream
    <3>1. stream \in Nat  BY <1>2
    <3>2. stream' = stream + 1  BY <1>1
    <3> QED BY <3>1, <3>2
  <2>2. GivenUpTo(stream - 1)' = GivenUpTo(stream) /\ SizeUpTo(stream - 1)' = SizeUpTo(stream)
    BY <1>1, <2>1 DEF GivenUpTo, SizeUpTo, StreamBytes
  <2> QED BY <1>1, <1>5, <2>2
<1>15. CutInv'
  <2>1. stream' # 0 /\ offset' <= Len(Input') /\ EndsWith(Input', offset', pending')
    BY <1>1, <1>6, <1>7, <1>8, <1>11, <1>12
  <2>2. ToSet(records') = RecordsBefore(Input', Cut')
    BY <1>1, <1>4, <1>8, <1>9, <1>12
  <2>3. ListSize(records') = total' /\ total' = Cardinality(Content(Input', Cut'))
    BY <1>1, <1>4, <1>8, <1>9, <1>12
  <2>4. (CutInv)' <=>
        ( pc' \in {"read", "cut", "reset"} =>
           /\ stream' # 0 /\ offset' <= Len(Input') /\ EndsWith(Input', offset', pending')
           /\ pc' = "read" => Newlines' = {}
           /\ IF pc' = "reset" THEN offset' = Len(Input') ELSE Cut' = 0 \/ Input'[Cut'] = Newline
           /\ ToSet(records') = RecordsBefore(Input', IF pc' = "reset" THEN Cut' + 1 ELSE Cut')
           /\ ListSize(records') = total' /\ total' = Cardinality(Content(Input', Cut'))
           /\ patterns' = GivenUpTo(stream - 1)' /\ used' <= SizeUpTo(stream - 1)' )
    BY DEF CutInv
  <2> QED BY <1>1, <1>12, <1>14, <2>1, <2>2, <2>3, <2>4
<1>16. PatternsInv'  BY <1>1, PatternsStay DEF Collecting
<1>17. ValidatedInv'  BY <1>1 DEF ValidatedInv
<1> QED BY <1>15, <1>16, <1>17 DEF InputsInv

\* What is collected is what was given, and it is refused only for its size.
LEMMA EndCollectInputs ==
  ASSUME Inv, EndCollect
  PROVE  /\ InputsInv' /\ UNCHANGED <<given, patterns>>
         /\ \/ verdict' = "rejected" /\ pc' = "done" /\ Refusable
            \/ /\ verdict' # "rejected" /\ patterns = Given
               /\ \A r \in Given : Len(r) \in 1..InputLimit
               /\ SizeOf(Given) <= TotalLimit
<1>1. /\ pc = "validate" /\ records = <<>> /\ stream = Len(given.streams)
      /\ UNCHANGED <<given, patterns>>
      /\ \/ used > TotalLimit /\ pc' = "done" /\ verdict' = "rejected"
         \/ used <= TotalLimit /\ pc' = "done" /\ verdict' = "clean"
         \/ used <= TotalLimit /\ pc' = "link" /\ verdict' = verdict
  BY DEF EndCollect, Stop, Goto, inputVars
<1>2. /\ used \in Nat /\ TotalLimit \in Nat /\ patterns \cup ToSet(records) = GivenUpTo(stream)
      /\ used + ListSize(records) <= SizeUpTo(stream) /\ SizeUpTo(stream) \in Nat
      /\ SizeUpTo(stream) <= SizeGiven /\ SizeGiven \in Nat
      /\ SizeOf(patterns) <= used /\ SizeOf(patterns) \in Nat
      /\ \A p \in patterns : Len(p) \in 1..InputLimit
  BY <1>1, ValidatedFacts
<1>3. ToSet(records) = {} /\ ListSize(records) = 0
  BY <1>1, ToSetEmpty, ListSizeEmpty
<1>4. patterns = Given /\ used <= SizeGiven
  <2>1. patterns = GivenUpTo(stream)  BY <1>2, <1>3
  <2>2. used <= SizeUpTo(stream)  BY <1>2, <1>3
  <2> QED BY <1>1, <1>2, <2>1, <2>2 DEF Given
<1>5. verdict = "none"
  <2>1. CoreInv /\ pc # "done"  BY <1>1 DEF Inv, CoreInv
  <2> QED BY <2>1, Running
<1>6. InputsInv'  BY <1>1, Collected DEF Collecting
<1>7. CASE used > TotalLimit /\ pc' = "done" /\ verdict' = "rejected"
  <2>1. SizeGiven > TotalLimit  BY <1>2, <1>4, <1>7
  <2> QED BY <1>1, <1>6, <1>7, <2>1 DEF Refusable
<1>8. CASE used <= TotalLimit /\ verdict' \in {"clean", verdict}
  <2>1. SizeOf(patterns) <= TotalLimit  BY <1>2, <1>8
  <2>2. verdict' # "rejected"  BY <1>5, <1>8
  <2> QED BY <1>1, <1>2, <1>4, <1>6, <2>1, <2>2
<1> QED BY <1>1, <1>7, <1>8

\* Collecting goes on, or stops with a record or a size that is refused.
LEMMA CollectInputs ==
  ASSUME Inv, \/ ReadChunk \/ CutRecord \/ CheckPending \/ EndStream
              \/ StartValidation \/ Validate \/ NextStream
  PROVE  /\ InputsInv' /\ UNCHANGED given
         /\ \/ pc' = "done" /\ verdict' = "rejected" /\ Refusable
            \/ pc' \in Collecting /\ verdict' = "none"
<1>1. /\ pc \in Collecting /\ UNCHANGED given
      /\ pc' # "done" => pc' \in Collecting /\ verdict' = verdict
  BY DEF ReadChunk, CutRecord, CheckPending, EndStream, StartValidation, Validate, NextStream,
         AppendRecord, Stop, Goto, Collecting, inputVars
<1>2. verdict = "none"
  <2>1. CoreInv /\ pc # "done"  BY <1>1 DEF Inv, CoreInv, Collecting
  <2> QED BY <2>1, Running
<1>3. CASE CutRecord \/ CheckPending \/ EndStream \/ Validate
  BY <1>1, <1>2, <1>3, CutRecordInputs, CheckPendingInputs, EndStreamInputs, ValidateInputs
<1>4. CASE ReadChunk \/ StartValidation \/ NextStream
  <2>1. InputsInv'
    BY <1>4, ReadChunkInputs, StartValidationInputs, NextStreamInputs
  <2>2. pc' # "done"
    BY <1>4 DEF ReadChunk, StartValidation, NextStream, Goto
  <2> QED BY <1>1, <1>2, <2>1, <2>2
<1> QED BY <1>3, <1>4

\* Every other step comes after collecting, or ends it.
LEMMA LaterSteps ==
  ASSUME Inv, Build \/ Scan \/ InputFails \/ ScanFails
  PROVE  /\ InputsInv' /\ UNCHANGED <<given, patterns>> /\ verdict' # "rejected"
         /\ \/ pc \in Linking \cup Scanning
            \/ pc' = "done" /\ verdict' = "unreadable"
<1>1. verdict # "rejected"
  <2>1. pc # "done"
    BY DEF Build, Scan, InputFails, ScanFails, Dequeue, StartWalk, WalkBack, Link, EndLink,
           NextBody, NextChunk, FallBack, Advance, EndChunk, EndScan
  <2>2. CoreInv  BY DEF Inv, CoreInv
  <2> QED BY <2>1, <2>2, Running
<1>2. CASE Build
  <2>1. pc \in Linking /\ pc' \notin Collecting /\ UNCHANGED <<given, patterns, verdict>>
    BY <1>2 DEF Build, Dequeue, StartWalk, WalkBack, Link, EndLink, Goto, Linking, Collecting,
                inputVars
  <2> QED BY <1>1, <2>1, Collected
<1>3. CASE Scan
  <2>1. /\ pc \in Scanning /\ pc' \notin Collecting /\ UNCHANGED <<given, patterns>>
        /\ verdict' \in {verdict, "forbidden", "clean"}
    BY <1>3 DEF Scan, NextBody, NextChunk, FallBack, Advance, EndChunk, EndScan, Goto, Stop,
                Scanning, Collecting, inputVars
  <2> QED BY <1>1, <2>1, Collected
<1>4. CASE InputFails \/ ScanFails
  <2>1. /\ pc' = "done" /\ UNCHANGED <<given, patterns>>
        /\ \/ verdict' = "unreadable"
           \/ pc \in Scanning /\ verdict' = "failed"
    BY <1>4 DEF InputFails, ScanFails, Stop, inputVars, Scanning
  <2> QED BY <2>1, Collected DEF Collecting
<1> QED BY <1>2, <1>3, <1>4

\* A stuttering step changes nothing.
LEMMA StutterKeeps ==
  ASSUME Inv, UNCHANGED vars PROVE InputsInv'
<1>1. UNCHANGED <<given, inputVars, pc>>
  BY DEF vars
<1>2. UNCHANGED <<given, stream, offset, pending, records, total, used, patterns, pc>>
  BY <1>1 DEF inputVars
<1>3. \A k : GivenUpTo(k)' = GivenUpTo(k) /\ SizeUpTo(k)' = SizeUpTo(k)
  BY <1>2, SameGiven
<1>4. CutInv'
  BY <1>2 DEF Inv, InputsInv, CutInv, Input, Cut, Newlines, GivenUpTo, SizeUpTo, StreamBytes
<1>5. ValidatedInv' /\ PatternsInv'
  BY <1>2 DEF Inv, InputsInv, ValidatedInv, PatternsInv, GivenUpTo, SizeUpTo, StreamBytes
<1> QED BY <1>4, <1>5 DEF InputsInv

\* Every step keeps the whole invariant.
LEMMA InvKeeps == Inv /\ [Next]_vars => Inv'
<1> SUFFICES ASSUME Inv, [Next]_vars PROVE Inv'  OBVIOUS
<1>1. CoreInv'
  <2>1. CoreInv  BY DEF Inv, CoreInv
  <2> QED BY <2>1, NextKeeps
<1>2. InputsInv'
  BY EndCollectInputs, CollectInputs, LaterSteps, StutterKeeps DEF Next, Collect
<1> QED BY <1>1, <1>2 DEF Inv, CoreInv

-----------------------------------------------------------------------------
(* Theorems.                                                               *)

\* What every loop keeps: what is read of a stream is cut into its records and no
\* byte is counted twice, the trie is closed under prefixes, what is linked leads to
\* the longest suffix, and the state is the longest node that what was read ends
\* with, for any patterns, streams, bodies and limits.
THEOREM ScanInvariant == Spec => []Inv
<1>1. Init => Inv  BY InitHolds, InitInputs DEF Inv, CoreInv
<1> QED BY <1>1, InvKeeps, PTL DEF Spec

\* What is looked for is exactly what the arguments, files and standard input
\* hold, wherever a read ends, and nothing else is refused, for any of them.
THEOREM InputsExactAlways == Spec => []InputsExact
<1>1. Init => InputsExact  BY DEF Init, InputsExact, Linking, Scanning
<1>2. Inv /\ InputsExact /\ [Next]_vars => InputsExact'
  <2> SUFFICES ASSUME Inv, InputsExact, [Next]_vars PROVE InputsExact'  OBVIOUS
  <2>1. UNCHANGED given => Given' = Given /\ SizeGiven' = SizeGiven  BY SameGiven
  <2>2. CASE \/ ReadChunk \/ CutRecord \/ CheckPending \/ EndStream
             \/ StartValidation \/ Validate \/ NextStream
    <3>1. /\ UNCHANGED given
          /\ \/ pc' = "done" /\ verdict' = "rejected" /\ Refusable
             \/ pc' \in Collecting /\ verdict' = "none"
      BY <2>2, CollectInputs
    <3> QED BY <2>1, <3>1 DEF InputsExact, Refusable, Collecting, Linking, Scanning
  <2>3. CASE EndCollect
    <3>1. /\ UNCHANGED <<given, patterns>>
          /\ \/ verdict' = "rejected" /\ pc' = "done" /\ Refusable
             \/ /\ verdict' # "rejected" /\ patterns = Given
                /\ \A r \in Given : Len(r) \in 1..InputLimit
                /\ SizeOf(Given) <= TotalLimit
      BY <2>3, EndCollectInputs
    <3> QED BY <2>1, <3>1 DEF InputsExact, Refusable, Linking, Scanning
  <2>4. CASE Build \/ Scan \/ InputFails \/ ScanFails
    <3>1. /\ UNCHANGED <<given, patterns>> /\ verdict' # "rejected"
          /\ \/ pc \in Linking \cup Scanning
             \/ pc' = "done" /\ verdict' = "unreadable"
      BY <2>4, LaterSteps
    <3> QED BY <2>1, <3>1 DEF InputsExact, Linking, Scanning
  <2>5. CASE UNCHANGED vars
    <3>1. UNCHANGED <<given, patterns, pc, verdict>>  BY <2>5 DEF vars, inputVars
    <3> QED BY <2>1, <3>1 DEF InputsExact
  <2> QED BY <2>2, <2>3, <2>4, <2>5 DEF Next, Collect
<1> QED BY <1>1, <1>2, ScanInvariant, PTL DEF Spec

\* A scan passes only if no body contains a pattern, and fails as forbidden only if
\* one does, for any patterns, overlapping or not, any bodies and any chunk size.
THEOREM VerdictExactAlways == Spec => []VerdictExact
<1>1. Init => VerdictExact  BY DEF Init, VerdictExact
<1>2. CoreInv /\ VerdictExact /\ [Next]_vars => VerdictExact'
  <2> SUFFICES ASSUME CoreInv, VerdictExact, [Next]_vars PROVE VerdictExact'  OBVIOUS
  <2>1. CASE UNCHANGED <<verdict, given, patterns>>
    BY <2>1 DEF VerdictExact
  <2>2. CASE EndScan
    <3>1. pc = "body" /\ pc \in Scanning /\ body = Len(given.bodies) /\ verdict' = "clean"
          /\ UNCHANGED <<given, patterns>>
      BY <2>2 DEF EndScan, Stop, Scanning, inputVars
    <3>2. \A i \in 1..body, p \in patterns : ~Occurs(p, given.bodies[i])
      BY <3>1 DEF CoreInv, ForbiddenInv, ScanInv
    <3>3. DOMAIN given.bodies = 1..body  BY <3>1, ScanFacts
    <3> QED BY <3>1, <3>2, <3>3 DEF VerdictExact
  <2>3. CASE Advance
    <3>1. CASE state' \in terminal
      <4>1. /\ verdict' = "forbidden" /\ pc = "feed" /\ UNCHANGED <<given, patterns>>
            /\ fed < end
        BY <2>3, <3>1 DEF Advance, Stop, inputVars
      <4>2. PICK p \in patterns : EndsWith(Body, fed + 1, p)  BY <2>3, <3>1, AdvanceFacts
      <4>3. /\ fed \in Nat /\ fed + 1 <= Len(Body) /\ Len(Body) \in Nat
            /\ body \in 1..Len(given.bodies) /\ given.bodies \in Seq(Seq(Byte))
        BY <4>1, NextByte, FeedFacts, ScanFacts DEF Scanning
      <4>4. Occurs(p, given.bodies[body])  BY <4>2, <4>3 DEF Occurs, Body
      <4> QED BY <4>1, <4>3, <4>4 DEF VerdictExact
    <3>2. CASE state' \notin terminal
      <4>1. UNCHANGED <<verdict, given, patterns>>
        BY <2>3, <3>2 DEF Advance, Goto, inputVars
      <4> QED BY <2>1, <4>1
    <3> QED BY <3>1, <3>2
  <2>4. CASE EndCollect
    <3>1. UNCHANGED <<given, patterns>>  BY <2>4 DEF EndCollect, inputVars
    <3>2. \/ verdict' = "rejected" \/ verdict' = verdict
          \/ verdict' = "clean" /\ patterns = {}
      BY <2>4 DEF EndCollect, Stop, Goto
    <3> QED BY <3>1, <3>2 DEF VerdictExact
  <2>5. CASE Validate
    <3>1. UNCHANGED given /\ pc = "validate"  BY <2>5 DEF Validate
    <3>2. verdict = "none"  BY <3>1, Running
    <3>3. verdict' \in {"rejected", "none"}  BY <2>5, <3>2 DEF Validate, Stop, Goto
    <3> QED BY <3>3 DEF VerdictExact
  <2>6. CASE \/ ReadChunk \/ CutRecord \/ CheckPending \/ EndStream \/ StartValidation
             \/ NextStream \/ InputFails \/ ScanFails
    <3>1. UNCHANGED <<given, patterns>>
      BY <2>6 DEF ReadChunk, CutRecord, CheckPending, EndStream, StartValidation, NextStream,
                  InputFails, ScanFails, inputVars
    <3>2. verdict' \in {verdict, "rejected", "unreadable", "failed"}
      BY <2>6 DEF ReadChunk, CutRecord, CheckPending, EndStream, StartValidation, NextStream,
                  InputFails, ScanFails, AppendRecord, Stop, Goto
    <3> QED BY <3>1, <3>2 DEF VerdictExact
  <2>7. CASE Build \/ NextBody \/ NextChunk \/ FallBack \/ EndChunk \/ UNCHANGED vars
    <3>1. UNCHANGED <<verdict, given, patterns>>
      BY <2>7 DEF Build, Dequeue, StartWalk, WalkBack, Link, EndLink, NextBody, NextChunk,
                  FallBack, EndChunk, Goto, inputVars, vars
    <3> QED BY <2>1, <3>1
  <2> QED BY <2>2, <2>3, <2>4, <2>5, <2>6, <2>7 DEF Next, Collect, Scan
<1>3. Inv => CoreInv  BY DEF Inv, CoreInv
<1> QED BY <1>1, <1>2, <1>3, ScanInvariant, PTL DEF Spec
=============================================================================
