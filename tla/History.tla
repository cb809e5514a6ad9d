------------------------------ MODULE History ------------------------------
(***************************************************************************)
(* What a rewrite makes of the commit graph: the scope that inspect_source *)
(* accepts, the commits _retained keeps, compaction, path filtering, the   *)
(* restored components, the cleanup of the clone, and what verify.py says  *)
(* of the result, or of a result somebody changed afterwards.              *)
(* A tree is the content of its allowed paths and of its removed paths,    *)
(* either 0 when there is none.  An object is named for the source commit  *)
(* it stands for; tags stand for the commit they lead to.                  *)
(***************************************************************************)
EXTENDS Integers, FiniteSets, Sequences, Functions, SequencesExt

CONSTANTS
  N,         \* number of source commits, which are numbered parents first
  Sources,   \* the source repositories, see SourceType
  Policies   \* the policies, see PolicyType

Commits == 1..N
Names == {"HEAD", "other"}   \* the symbolic HEAD branch, and one more ref
Kinds == {"branch", "lightweight-tag", "annotated-tag"}

\* "recent" are the commits at or after the cutoff time, "missing" those with
\* an object that is not local, "shallow" the roots in the shallow marker.
SourceType ==
  [parents : [Commits -> Seq(Commits)], tree : [Commits -> Nat \X Nat],
   target : [Names -> Commits], kind : Kinds, recent : SUBSET Commits,
   shallow : SUBSET Commits, missing : SUBSET Commits, partial : BOOLEAN]

\* cutoff 0 is a time, otherwise a commit; "rules" says that paths are removed.
PolicyType ==
  [mode : {"complete", "bounded", "snapshot"}, cutoff : {0} \cup Commits,
   keep : SUBSET Names, rules : BOOLEAN]

ASSUME NAssumption == N \in Nat \ {0}
ASSUME SourcesAssumption ==
  \A s \in Sources :
    /\ s \in SourceType
    /\ \A c \in Commits : \A p \in Range(s.parents[c]) : p < c
    /\ \A c \in s.shallow : s.parents[c] = <<>>
ASSUME PoliciesAssumption ==
  \A p \in Policies : /\ p \in PolicyType /\ "HEAD" \in p.keep
                      /\ p.mode = "snapshot" => p.keep = {"HEAD"}

VARIABLES
  source, policy,
  stage,      \* the last step of the rewrite, or the verdict on its result
  retained,   \* RewriteAnalysis.retained_source_parents
  refs, db,   \* references and objects of the staged repository
  marked,     \* whether it has a shallow marker
  remote,     \* whether it has a remote
  receipt,    \* the references and roots that the receipt binds
  tampered    \* whether somebody else changed the result

vars == <<source, policy, stage, retained, refs, db, marked, remote, receipt, tampered>>

None == <<"none", 0>>
Original(c) == <<"original", c>>
Rewritten(c) == <<"rewritten", c>>
Empty(c) == <<"empty", c>>
Ref(n) == <<"ref", n>>
Recovery(n) == <<"recovery", n>>

Map(f(_), seq) == [i \in DOMAIN seq |-> f(seq[i])]
Without(S, f) == [x \in DOMAIN f \ S |-> f[x]]
\* f, overridden by g.
Over(g, f) == [x \in DOMAIN f \cup DOMAIN g |-> IF x \in DOMAIN g THEN g[x] ELSE f[x]]
With(f, x, v) == Over([y \in {x} |-> v], f)

\* The members of seq that are in S, in their order.
Among(S, seq) ==
  LET upto[n \in 0..Len(seq)] ==
        IF n = 0 THEN <<>>
        ELSE IF seq[n] \in S THEN Append(upto[n-1], seq[n]) ELSE upto[n-1]
  IN  upto[Len(seq)]

\* Everything that a walk along parents finds from a set of starting points.
Closure(parents, S) ==
  LET step(seen) == seen \cup UNION {Range(parents[x]) : x \in seen \cap DOMAIN parents}
      walk[n \in 0..Cardinality(DOMAIN parents)] ==
        IF n = 0 THEN S ELSE step(walk[n-1])
  IN  walk[Cardinality(DOMAIN parents)] \cap DOMAIN parents

Parents(objects) == [o \in DOMAIN objects |-> objects[o].parents]
Reachable == Closure(Parents(db), Range(refs))
\* A variant of Roots with a fault: only those that HEAD descends from.
RootsOfHead ==
  {o \in Closure(Parents(db), {refs[r] : r \in DOMAIN refs \cap {Ref("HEAD")}}) :
     db[o].parents = <<>>}

Roots == {o \in Reachable : db[o].parents = <<>>}
Selected == {Ref(n) : n \in policy.keep}

-----------------------------------------------------------------------------
(* Analysis of the source.                                                 *)

Targets == {source.target[n] : n \in policy.keep}
History(S) == Closure(source.parents, S)

\* SourceScope.commits.
Scope == IF policy.mode = "snapshot" THEN {source.target["HEAD"]}
         ELSE History(Targets)

\* inspect_source: what each mode demands of the local objects.
Inspected ==
  CASE policy.mode = "complete" ->
         /\ source.shallow = {} /\ ~source.partial
         /\ History(Range(source.target)) \cap source.missing = {}
    [] policy.mode = "bounded" ->
         /\ source.shallow # {} /\ source.shallow \subseteq Scope
         /\ Scope \cap source.missing = {}
    [] policy.mode = "snapshot" -> source.target["HEAD"] \notin source.missing

\* _retained, or the single commit of a snapshot.
Eligible ==
  IF policy.mode = "snapshot" THEN Scope
  ELSE IF policy.cutoff = 0 THEN Scope \cap source.recent
  ELSE {c \in Scope : policy.cutoff \in History({c})}

\* The commit cutoff has to be reachable from every selected tip, and no tip
\* may fall outside of what is retained.
Retainable ==
  /\ \/ policy.mode = "snapshot" \/ policy.cutoff = 0
     \/ \A c \in Targets : policy.cutoff \in History({c})
  /\ Targets \subseteq Eligible

\* A variant with a fault: parents beyond the cutoff are not left out.
RetainedAllParents == [c \in Eligible |-> source.parents[c]]

RetainedParents ==
  LET eligible == Eligible
  IN  [c \in eligible |-> IF policy.mode = "snapshot" THEN <<>>
                          ELSE Among(eligible, source.parents[c])]

-----------------------------------------------------------------------------
(* git filter-repo, which is not part of this repository: it drops what    *)
(* the rules remove, prunes every commit that this leaves without a change *)
(* and moves parents and references to the next commit that is left.       *)

Kept(tree) == <<tree[1], 0>>

\* Where the parents of commit c are, once it is known what became of them, and
\* the parents that are left.
Moved(after, c) == [i \in DOMAIN retained[c] |-> after[retained[c][i]].to]
Left(after, c) == {i \in DOMAIN retained[c] : Moved(after, c)[i] # 0}

\* A parent that moved, onto or above another one.
Idle(after, c, i) ==
  LET old == retained[c]
      new == Moved(after, c)
  IN  /\ new[i] # old[i]
      /\ \E j \in Left(after, c) \ {i} : /\ new[i] \in after[new[j]].above
                                         /\ new[i] = new[j] => j < i \/ new[j] = old[j]

TipsLeft(after, c) == {Moved(after, c)[i] : i \in {k \in Left(after, c) : ~Idle(after, c, k)}}
TipLeft(after, c) == IF TipsLeft(after, c) = {} THEN 0 ELSE CHOOSE p \in TipsLeft(after, c) : TRUE

\* The allowed paths of commit c, which is 0 when there is none.
Content(c) == IF c = 0 THEN <<0, 0>> ELSE Kept(source.tree[c])

\* What becomes of commit c: the commit that stands for it, or 0 when nothing
\* is left, its parents, and what is then above it.
Survive(after, c) ==
  LET to == TipLeft(after, c)
      parents == Among(Commits, Moved(after, c))
  IN  IF Cardinality(TipsLeft(after, c)) <= 1 /\ Content(c) = Content(to)
      THEN [to |-> to, parents |-> <<>>, above |-> IF to = 0 THEN {} ELSE after[to].above]
      ELSE [to |-> c, parents |-> parents,
            above |-> {c} \cup UNION {after[p].above : p \in Range(parents)}]

Surviving ==
  LET upto[n \in 0..N] ==
        IF n = 0 THEN <<>>
        ELSE IF n \in DOMAIN retained
        THEN With(upto[n-1], n, Survive(upto[n-1], n)) ELSE upto[n-1]
  IN  upto[N]

\* The callback: a commit whose changes touch removed paths, and that still
\* has a parent, loses its message.
Touches(c) ==
  source.tree[c][2] # (IF retained[c] = <<>> THEN 0 ELSE source.tree[retained[c][1]][2])

FilteredMessage(c, parents) ==
  IF Touches(c) /\ parents # <<>> THEN "mixed" ELSE db[Rewritten(c)].message

-----------------------------------------------------------------------------
(* The steps of a rewrite.                                                 *)

Init ==
  /\ source \in Sources /\ policy \in Policies
  /\ stage = "start" /\ retained = <<>>
  /\ refs = <<>> /\ db = <<>> /\ marked = FALSE /\ remote = FALSE
  /\ receipt = <<>> /\ tampered = FALSE

Step(from, to) == stage = from /\ stage' = to

Analyse ==
  /\ Step("start", "analysed")
  /\ Inspected /\ Retainable
  /\ retained' = RetainedParents
  /\ UNCHANGED <<source, policy, refs, db, marked, remote, receipt, tampered>>

Refuse ==
  /\ Step("start", "refused")
  /\ ~(Inspected /\ Retainable)
  /\ UNCHANGED <<source, policy, retained, refs, db, marked, remote, receipt, tampered>>

\* The clone has the HEAD branch and the tags; retain_selected_refs drops its
\* remote, under which every other branch is, and the tags not selected.
Clone ==
  /\ Step("analysed", "cloned")
  /\ History(Range(source.target)) \cap source.missing = {}
  /\ refs' = [r \in {Ref(n) : n \in {k \in policy.keep : k = "HEAD" \/ source.kind # "branch"}}
                |-> Original(source.target[r[2]])]
  /\ db' = [o \in {Original(c) : c \in History(Range(source.target))} |->
             [parents |-> Map(Original, source.parents[o[2]]),
              tree |-> source.tree[o[2]], message |-> "source"]]
  /\ marked' = (source.shallow # {})
  /\ UNCHANGED <<source, policy, retained, remote, receipt, tampered>>

\* git clone copies the whole history, also what a snapshot has no use for.
CloneFails ==
  /\ Step("analysed", "refused")
  /\ History(Range(source.target)) \cap source.missing # {}
  /\ UNCHANGED <<source, policy, retained, refs, db, marked, remote, receipt, tampered>>

\* A variant of CompactParents with a fault: only the first parent is kept.
CompactFirstParent(parents) ==
  Map(Rewritten, SubSeq(parents, 1, IF parents = <<>> THEN 0 ELSE 1))

CompactParents(parents) == Map(Rewritten, parents)

\* compact: a commit for each retained one, behind a recovery reference.
Compact ==
  /\ Step("cloned", "compacted")
  /\ db' = Over([o \in {Rewritten(c) : c \in DOMAIN retained} |->
                  [parents |-> CompactParents(retained[o[2]]),
                   tree |-> source.tree[o[2]],
                   message |-> IF retained[o[2]] = <<>> THEN "prefix" ELSE "source"]], db)
  /\ LET moved == [r \in Selected \cup {Recovery(n) : n \in policy.keep} |->
                    Rewritten(source.target[r[2]])]
         tags == IF source.kind = "annotated-tag" THEN {Ref("other")} ELSE {}
     IN  refs' = Without(tags, Over(moved, refs))
  /\ UNCHANGED <<source, policy, retained, marked, remote, receipt, tampered>>

\* filter_paths does nothing when the policy has no path rules.
Filter ==
  /\ Step("compacted", "filtered")
  /\ IF ~policy.rules THEN UNCHANGED <<refs, db>>
     ELSE LET survive == Surviving
              alive == {r \in DOMAIN refs : survive[refs[r][2]].to # 0}
          IN  /\ refs' = [r \in alive |-> Rewritten(survive[refs[r][2]].to)]
              /\ db' = Over([o \in {Rewritten(c) : c \in {k \in DOMAIN retained :
                                                          survive[k].to = k}} |->
                              [parents |-> Map(Rewritten, survive[o[2]].parents),
                               tree |-> Kept(source.tree[o[2]]),
                               message |-> FilteredMessage(o[2], survive[o[2]].parents)]], db)
  /\ UNCHANGED <<source, policy, retained, marked, remote, receipt, tampered>>

\* _root_context: the first retained root that the selected tip descends from.
RootOf(n) ==
  CHOOSE c \in DOMAIN retained :
    LET roots == {k \in DOMAIN retained : retained[k] = <<>>
                                          /\ k \in History({source.target[n]})}
    IN  c \in roots /\ \A k \in roots : c <= k

\* A variant with a fault: every reference is restored from the first context.
RestoredFirst(n) ==
  IF Recovery("HEAD") \in DOMAIN refs THEN refs[Recovery("HEAD")] ELSE Empty(RootOf("HEAD"))

\* restore_selected_components.
Restored(n) == IF Recovery(n) \in DOMAIN refs THEN refs[Recovery(n)] ELSE Empty(RootOf(n))

Restore ==
  /\ Step("filtered", "restored")
  /\ refs' = Without({Recovery(n) : n \in policy.keep},
                     Over([r \in Selected |-> Restored(r[2])], refs))
  /\ db' = Over([o \in {Restored(n) : n \in policy.keep} \ DOMAIN db |->
                  [parents |-> <<>>, tree |-> <<0, 0>>, message |-> "prefix"]], db)
  /\ UNCHANGED <<source, policy, retained, marked, remote, receipt, tampered>>

\* What gc leaves, and a variant with a fault: objects are not pruned.
CollectedNothing(tips) == db
Collected(tips) == Restrict(db, Closure(Parents(db), tips))

\* cleanup, in the clone and again in the bare clone made of it, which has
\* only what is reachable.  A marker is stale once no source root is left.
Clean ==
  /\ Step("restored", "cleaned")
  /\ {Original(c) : c \in source.shallow} \cap Reachable = {}
  /\ refs' = Without(DOMAIN refs \ Selected, refs)
  /\ db' = Collected(Range(refs'))
  /\ marked' = FALSE
  /\ UNCHANGED <<source, policy, retained, remote, receipt, tampered>>

\* Receipt.create, for a commit cutoff only.
Attest ==
  /\ Step("cleaned", "attested")
  /\ receipt' = IF policy.cutoff = 0 THEN <<>> ELSE [refs |-> refs, roots |-> Roots]
  /\ UNCHANGED <<source, policy, retained, refs, db, marked, remote, tampered>>

-----------------------------------------------------------------------------
(* Verification.                                                           *)

\* Changes that somebody makes to a finished output: a reference is moved to,
\* or made for, a source commit, one is removed, an object, a shallow marker
\* or a remote is added.
Fetched(c) ==
  Over([o \in {Original(k) : k \in History({c})} |->
         [parents |-> Map(Original, source.parents[o[2]]),
          tree |-> source.tree[o[2]], message |-> "source"]], db)

Tamper ==
  /\ stage = "attested" /\ ~tampered /\ tampered' = TRUE
  /\ \/ \E c \in Commits, n \in Names :
          /\ refs' = With(refs, Ref(n), Original(c))
          /\ db' = Fetched(c)
          /\ UNCHANGED <<marked, remote>>
     \/ \E o \in DOMAIN db, n \in Names :
          /\ refs' = With(refs, Ref(n), o)
          /\ UNCHANGED <<db, marked, remote>>
     \/ /\ \E r \in DOMAIN refs : refs' = Without({r}, refs)
        /\ UNCHANGED <<db, marked, remote>>
     \/ /\ \E c \in Commits : db' = Fetched(c)
        /\ UNCHANGED <<refs, marked, remote>>
     \/ /\ marked' = TRUE /\ UNCHANGED <<refs, db, remote>>
     \/ /\ remote' = TRUE /\ UNCHANGED <<refs, db, marked>>
  /\ UNCHANGED <<source, policy, stage, retained, receipt>>

\* _verify_receipt; version 3 binds every reference and root, versions 1 and 2
\* HEAD and the only root.
ReceiptMatches ==
  policy.cutoff # 0 =>
    /\ Selected \subseteq DOMAIN refs
    /\ Roots = receipt.roots
    /\ IF policy.keep = {"HEAD"}
       THEN Cardinality(Roots) = 1 /\ refs[Ref("HEAD")] = receipt.refs[Ref("HEAD")]
       ELSE Restrict(refs, Selected) = receipt.refs

HeadSymbolic == Ref("HEAD") \in DOMAIN refs
Complete == ~marked
Graph ==
  /\ Reachable # {}
  /\ \A o \in Reachable : Range(db[o].parents) \subseteq DOMAIN db
\* A variant of RootSynthetic with a fault: one synthetic root is enough.
RootSyntheticSome == \E o \in Roots : db[o].message = "prefix"

RootSynthetic ==
  /\ \A o \in Roots : db[o].message = "prefix"
  /\ policy.mode # "snapshot" /\ policy.cutoff = 0 =>
       \A o \in Reachable : o[2] \in source.recent
RefsRetained == DOMAIN refs = Selected
PathsExcluded == policy.rules => \A o \in Reachable : db[o].tree[2] = 0
RemotesAbsent == ~remote
ReachableOnly == DOMAIN db = Reachable

Accepted ==
  /\ ReceiptMatches /\ HeadSymbolic /\ Complete /\ Graph /\ RootSynthetic /\ RefsRetained
  /\ PathsExcluded /\ RemotesAbsent /\ ReachableOnly

Verify ==
  /\ Step("attested", IF Accepted THEN "verified" ELSE "rejected")
  /\ UNCHANGED <<source, policy, retained, refs, db, marked, remote, receipt, tampered>>

Next ==
  \/ Analyse \/ Refuse \/ Clone \/ CloneFails \/ Compact \/ Filter \/ Restore \/ Clean
  \/ Attest \/ Tamper \/ Verify

Spec == Init /\ [][Next]_vars

-----------------------------------------------------------------------------
(* Properties.                                                             *)

Objects == {Original(c) : c \in Commits} \cup {Rewritten(c) : c \in Commits}
             \cup {Empty(c) : c \in Commits}

TypeOK ==
  /\ policy \in Policies
  /\ stage \in {"start", "refused", "analysed", "cloned", "compacted", "filtered",
                "restored", "cleaned", "attested", "verified", "rejected"}
  /\ DOMAIN retained \subseteq Commits
  /\ \A c \in DOMAIN retained : Range(retained[c]) \subseteq DOMAIN retained
  /\ DOMAIN refs \subseteq {Ref(n) : n \in Names} \cup {Recovery(n) : n \in Names}
  /\ DOMAIN db \subseteq Objects /\ Range(refs) \subseteq DOMAIN db
  /\ \A o \in DOMAIN db : /\ Range(db[o].parents) \subseteq Objects
                          /\ db[o].message \in {"source", "prefix", "mixed"}
  /\ marked \in BOOLEAN /\ remote \in BOOLEAN /\ tampered \in BOOLEAN

\* The objects of the repository, in the terms of the source: a source commit,
\* a commit as compaction makes it, one that path filtering leaves, a root
\* without content; then the commits that are left and where a reference ends.
OriginalCommit(c) ==
  [parents |-> Map(Original, source.parents[c]), tree |-> source.tree[c], message |-> "source"]
CompactCommit(c) ==
  [parents |-> Map(Rewritten, retained[c]), tree |-> source.tree[c],
   message |-> IF retained[c] = <<>> THEN "prefix" ELSE "source"]
FilteredCommit(survive, c) ==
  [parents |-> Map(Rewritten, survive[c].parents), tree |-> Kept(source.tree[c]),
   message |-> IF Touches(c) /\ survive[c].parents # <<>> THEN "mixed"
               ELSE CompactCommit(c).message]
EmptyCommit == [parents |-> <<>>, tree |-> <<0, 0>>, message |-> "prefix"]

Standing(survive) == {c \in DOMAIN retained : policy.rules => survive[c].to = c}
Final(survive, n) ==
  LET to == IF policy.rules THEN survive[source.target[n]].to ELSE source.target[n]
  IN  IF to = 0 THEN Empty(RootOf(n)) ELSE Rewritten(to)

RetainedInv ==
  stage \notin {"start", "refused"} => retained = RetainedParents /\ Retainable

IsOriginal(o) ==
  o[2] \in Commits /\ o = Original(o[2]) /\ db[o] = OriginalCommit(o[2])
IsCompact(o) ==
  o[2] \in DOMAIN retained /\ o = Rewritten(o[2]) /\ db[o] = CompactCommit(o[2])
IsOutput(survive, o) ==
  /\ o[2] \in Standing(survive) /\ o = Rewritten(o[2])
  /\ db[o] = IF policy.rules THEN FilteredCommit(survive, o[2]) ELSE CompactCommit(o[2])
IsEmpty(survive, o) ==
  /\ o = Empty(o[2]) /\ db[o] = EmptyCommit
  /\ \E n \in policy.keep : o = Final(survive, n)

Finished == {"cleaned", "attested", "verified", "rejected"}

ObjectsInv ==
  LET survive == Surviving IN
  \A o \in DOMAIN db :
    \/ /\ stage \in {"cloned", "compacted", "filtered", "restored"} \/ tampered
       /\ IsOriginal(o)
    \/ /\ \/ stage = "compacted"
          \/ stage \in {"filtered", "restored"} /\ o[2] \notin Standing(survive)
       /\ IsCompact(o)
    \/ stage \in {"filtered", "restored"} \cup Finished /\ IsOutput(survive, o)
    \/ stage \in {"restored"} \cup Finished /\ IsEmpty(survive, o)

\* Until the clone is cleaned, every retained commit is there; then, whatever the
\* commits that are there descend from.
CommitsInv ==
  /\ stage \in {"compacted", "filtered", "restored"} =>
       {Rewritten(c) : c \in DOMAIN retained} \subseteq DOMAIN db
  /\ stage \in Finished /\ ~tampered =>
       \A o \in DOMAIN db : Range(db[o].parents) \subseteq DOMAIN db

RefsInv ==
  LET survive == Surviving IN
  /\ refs = [r \in DOMAIN refs |-> refs[r]]
  /\ stage \in {"start", "refused", "analysed"} => refs = <<>>
  /\ stage = "cloned" => DOMAIN refs \subseteq Selected
  /\ stage = "compacted" =>
       /\ {Recovery(n) : n \in policy.keep} \subseteq DOMAIN refs
       /\ \A r \in DOMAIN refs : refs[r] = Rewritten(source.target[r[2]])
  /\ stage = "filtered" =>
       /\ \A r \in DOMAIN refs : refs[r] = Final(survive, r[2])
       /\ \A n \in policy.keep : Recovery(n) \in DOMAIN refs <=> Final(survive, n)[1] = "rewritten"
  /\ stage \in {"compacted", "filtered"} =>
       DOMAIN refs \subseteq Selected \cup {Recovery(n) : n \in policy.keep}
  /\ stage \in {"restored"} \cup Finished /\ ~tampered =>
       /\ DOMAIN refs = Selected
       /\ \A r \in DOMAIN refs : refs[r] = Final(survive, r[2])

ReceiptInv ==
  /\ tampered => stage \in {"attested", "verified", "rejected"}
  /\ stage \in {"attested", "verified", "rejected"} /\ policy.cutoff # 0 =>
       receipt.refs = [r \in Selected |-> receipt.refs[r]]
  /\ stage = "verified" => Accepted

\* The inductive invariant.
Inv == TypeOK /\ RetainedInv /\ ObjectsInv /\ CommitsInv /\ RefsInv /\ ReceiptInv

\* What the rewrite produced, until somebody changes it.
Produced == stage \in {"cleaned", "attested", "verified"} /\ ~tampered

\* The cutoff and the selection hold for the objects, not only for what the
\* references show: once the clone is cleaned (cleanup.py:35), nothing in it is
\* a commit that the cutoff or the selection leaves out, unsanitized or not.
OnlyRetainedObjects ==
  Produced =>
    \A o \in DOMAIN db :
      /\ o[1] # "original" /\ o[2] \in History(Targets)
      /\ policy.mode # "snapshot" =>
           IF policy.cutoff = 0 THEN o[2] \in source.recent
           ELSE policy.cutoff \in History({o[2]})

\* Pruning, recovery references and empty roots (compact.py:142) never change
\* what a selected reference leads to: the allowed paths of its source commit.
ReferencesKeepContent ==
  Produced => /\ DOMAIN refs = Selected
              /\ \A n \in policy.keep :
                   LET old == source.tree[source.target[n]]
                   IN  db[refs[Ref(n)]].tree = IF policy.rules THEN Kept(old) ELSE old

\* The output has the source's ancestry: two commits that are left are one
\* above the other exactly when they are in the retained graph (README:495).
AncestryPreserved ==
  Produced =>
    \A a, b \in {o \in DOMAIN db : o[1] = "rewritten"} :
      a \in Closure(Parents(db), {b}) <=> a[2] \in Closure(retained, {b[2]})

\* An accepted rewrite shows no message of a commit whose changes touched a
\* removed path, also when pruning took its parents away (filtering.py:42).
TouchedMessagesGone ==
  stage = "verified" /\ ~tampered /\ policy.rules =>
    \A o \in DOMAIN db :
      o[1] = "rewritten" /\ Touches(o[2]) => db[o].message # "source"

\* Whoever changed the output, what verify accepts (verify.py:318) has no
\* unsanitized commit, no removed path, no other reference and nothing that
\* is missing or unreachable, and a receipt pins its references.
VerdictHolds ==
  stage = "verified" =>
    /\ \A o \in DOMAIN db : o[1] # "original"
    /\ policy.rules => \A o \in DOMAIN db : db[o].tree[2] = 0
    /\ DOMAIN refs = Selected /\ DOMAIN db = Reachable
    /\ ~marked /\ ~remote
    /\ policy.cutoff # 0 => refs = receipt.refs

\* README.md:499-507: every frontier becomes a root with the prefix message,
\* pruning keeps the graph correct, and a component that is removed entirely
\* comes back; so an output nobody changed passes its own verification.
OwnOutputAccepted == stage = "rejected" => tampered

=============================================================================
