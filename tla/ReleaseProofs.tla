--------------------------- MODULE ReleaseProofs ---------------------------
(***************************************************************************)
(* Proofs about Release for any maintainers, versions and bounds.          *)
(***************************************************************************)
EXTENDS Release, TLAPS

-----------------------------------------------------------------------------
(* Commits are only added.                                                 *)

Extended ==
  /\ Len(commits) <= Len(commits')
  /\ \A c \in Commits : c \in Commits' /\ commits'[c] = commits[c]

\* What is on the branch stays on it.
Ahead == Past(branch) \subseteq Past(branch)'

\* The repository always has its first commit, and HEADs and the branch are commits.
LEMMA CommitsAre ==
  ASSUME TypeOK
  PROVE  /\ Len(commits) \in Nat /\ 1 \in Commits /\ Commits \subseteq Nat
         /\ None \notin Commits
         /\ \A c \in Commits : Holds(c) \in Version /\ Past(c) \in SUBSET Nat
         /\ branch \in Commits
         /\ \A m \in Maintainer : head[m] \in Commits
<1> DEFINE Kind == [version : Version, past : SUBSET Nat]
<1>1. commits \in Seq(Kind) /\ commits # <<>>
  BY DEF TypeOK
<1>2. Len(commits) \in Nat /\ Len(commits) >= 1
  <2> HIDE DEF Kind
  <2> QED BY <1>1
<1>3. \A c \in Commits : commits[c] \in Kind
  <2> HIDE DEF Kind
  <2> QED BY <1>1 DEF Commits
<1>4. \A c \in Commits : Holds(c) \in Version /\ Past(c) \in SUBSET Nat
  BY <1>3 DEF Holds, Past
<1> QED BY <1>2, <1>4 DEF TypeOK, Commits, None

\* No new commit is a case of history that only grows.
LEMMA SameCommitsExtend ==
  ASSUME TypeOK, UNCHANGED commits PROVE Extended
BY CommitsAre DEF Extended, Commits

\* git commit appends one commit that knows its parent's past and itself.
LEMMA CommitExtends ==
  ASSUME TypeOK, HistoryInv, NEW parent \in Commits, NEW version \in Version,
         Commit(parent, version)
  PROVE  /\ commits' \in Seq([version : Version, past : SUBSET Nat]) /\ commits' # <<>>
         /\ Extended
         /\ Len(commits) + 1 \in Commits' /\ Len(commits) + 1 \notin Commits
         /\ commits'[Len(commits) + 1] =
              [version |-> version, past |-> Past(parent) \cup {Len(commits) + 1}]
         /\ Commits' = Commits \cup {Len(commits) + 1}
<1> DEFINE new == [version |-> version, past |-> Past(parent) \cup {Len(commits) + 1}]
<1>1. commits \in Seq([version : Version, past : SUBSET Nat]) /\ Len(commits) \in Nat
  BY CommitsAre DEF TypeOK
<1>2. new \in [version : Version, past : SUBSET Nat]
  BY <1>1, CommitsAre
<1> HIDE DEF new
<1>3. commits' = Append(commits, new)
  BY DEF Commit, new
<1>4. /\ commits' \in Seq([version : Version, past : SUBSET Nat])
      /\ Len(commits') = Len(commits) + 1
      /\ commits'[Len(commits) + 1] = new
      /\ \A c \in 1..Len(commits) : commits'[c] = commits[c]
  BY <1>1, <1>2, <1>3
<1> QED BY <1>1, <1>4 DEF Extended, Commits, new

\* A new commit keeps that every commit knows its ancestors.
LEMMA HistoryExtends ==
  ASSUME TypeOK, HistoryInv, NEW parent \in Commits, NEW version \in Version,
         Commit(parent, version)
  PROVE  HistoryInv'
<1> DEFINE n == Len(commits) + 1
<1>1. /\ \A c \in Commits : commits'[c] = commits[c]
      /\ commits'[n] = [version |-> version, past |-> Past(parent) \cup {n}]
      /\ Commits' = Commits \cup {n}
  BY CommitExtends DEF Extended
<1> HIDE DEF n
<1>2. PICK k : k = n
  OBVIOUS
<1>5. \A c \in Commits : Past(c)' = Past(c)
  BY <1>1 DEF Past
<1>6. Past(k)' = Past(parent) \cup {k} /\ Commits' = Commits \cup {k}
  BY <1>1, <1>2 DEF Past
<1>3. \A c \in Commits : c \in Past(c) /\ \A d \in Past(c) : d \in Commits /\ Past(d) \subseteq Past(c)
  BY DEF HistoryInv
<1>4. ASSUME NEW c \in Commits'
      PROVE  c \in Past(c)' /\ \A d \in Past(c)' : d \in Commits' /\ Past(d)' \subseteq Past(c)'
  <2>1. CASE c \in Commits
    <3>1. Past(c)' = Past(c)  BY <1>5, <2>1
    <3>2. \A d \in Past(c) : d \in Commits /\ Past(d)' = Past(d)  BY <1>3, <1>5, <2>1
    <3> QED BY <1>3, <1>6, <2>1, <3>1, <3>2
  <2>2. CASE c = k
    <3>1. Past(c)' = Past(parent) \cup {c}  BY <1>6, <2>2
    <3>2. \A d \in Past(parent) : d \in Commits /\ Past(d)' \subseteq Past(parent)
      BY <1>3, <1>5
    <3> QED BY <1>6, <2>2, <3>1, <3>2
  <2> QED BY <1>6, <2>1, <2>2
<1> QED BY <1>4 DEF HistoryInv

\* So does no new commit.
LEMMA SameHistory ==
  ASSUME HistoryInv, UNCHANGED commits PROVE HistoryInv'
BY DEF HistoryInv, Commits, Past

\* What was a commit, a run or a tag stays one.
LEMMA TypesGrow ==
  ASSUME Extended
  PROVE  /\ Commits \subseteq Commits' /\ Run \subseteq Run' /\ Tags \subseteq Tags'
         /\ Clone \subseteq Clone'
<1>1. Commits \subseteq Commits'  BY DEF Extended
<1>2. Tags \subseteq Tags'  BY <1>1 DEF Tags
<1>3. Run \subseteq Run'  BY <1>1 DEF Run
<1>4. Clone \subseteq Clone'  BY <1>1, <1>2 DEF Clone
<1> QED BY <1>1, <1>2, <1>3, <1>4

\* What happens elsewhere does not change what is known of a prepare.
LEMMA OthersKeepRunInv ==
  ASSUME TypeOK, NEW m \in Maintainer, RunInv(m), Extended, Ahead,
         run'[m] = run[m], before'[m] = before[m], head'[m] = head[m],
         index'[m] = index[m], file'[m] = file[m], tags'[m] = tags[m]
  PROVE  RunInv(m)'
<1>1. head[m] \in Commits /\ before[m].head \in Commits
  BY CommitsAre DEF TypeOK, Clone
<1>2. /\ Holds(head[m])' = Holds(head[m]) /\ Past(head[m])' = Past(head[m])
      /\ Holds(before[m].head)' = Holds(before[m].head)
      /\ Past(before[m].head)' = Past(before[m].head)
  BY <1>1 DEF Extended, Holds, Past
<1> QED BY <1>2 DEF RunInv, Ahead

-----------------------------------------------------------------------------
(* The record of a prepare.                                                *)

Same(r, q) ==
  /\ r.version = q.version /\ r.push = q.push /\ r.head = q.head /\ r.file = q.file

\* A step of one maintainer's prepare leaves the others' alone.
LEMMA BecomeIs ==
  ASSUME TypeOK, NEW m \in Maintainer, NEW r \in Run, Become(m, r)
  PROVE  /\ run' \in [Maintainer -> Run] /\ before' = before /\ run'[m] = r
         /\ \A o \in Maintainer \ {m} : run'[o] = run[o]
BY DEF TypeOK, Become

\* Going on changes the position only.
LEMMA GotoIs ==
  ASSUME TypeOK, NEW m \in Maintainer, NEW step \in Steps, Goto(m, step)
  PROVE  /\ run' \in [Maintainer -> Run] /\ before' = before
         /\ run'[m].pc = step /\ Same(run'[m], run[m])
         /\ run'[m].tagged = run[m].tagged /\ run'[m].made = run[m].made
         /\ \A o \in Maintainer \ {m} : run'[o] = run[o]
<1> DEFINE r == [run[m] EXCEPT !.pc = step]
<1>1. run[m] \in Run  BY DEF TypeOK
<1>2. r \in Run  BY <1>1 DEF Run
<1>3. /\ r.pc = step /\ Same(r, run[m])
      /\ r.tagged = run[m].tagged /\ r.made = run[m].made
  BY <1>1 DEF Run, Same
<1>4. Become(m, r)  BY DEF Goto
<1> HIDE DEF r
<1> QED BY <1>2, <1>3, <1>4, BecomeIs

\* A prepare that was not started or was killed is a run.
LEMMA IdleIsRun ==
  ASSUME TypeOK PROVE Idle \in Run
BY VersionAssumption, CommitsAre DEF Idle, Run, Steps, Results, None

\* What a prepare leaves when it reports.
LEMMA EndIs ==
  ASSUME TypeOK, NEW m \in Maintainer, NEW result \in Results, End(m, result)
  PROVE  /\ run' \in [Maintainer -> Run] /\ before' \in [Maintainer -> Clone]
         /\ run'[m].pc = "idle" /\ run'[m].result = result
         /\ result # "failed" => /\ run'[m].version = run[m].version
                                /\ run'[m].made = run[m].made
         /\ \A o \in Maintainer \ {m} : run'[o] = run[o] /\ before'[o] = before[o]
<1> DEFINE f == [Idle EXCEPT !.result = result]
           g == [Idle EXCEPT !.result = result, !.version = run[m].version,
                             !.head = run[m].head, !.made = run[m].made]
<1>1. run[m] \in Run /\ Idle \in Run  BY IdleIsRun DEF TypeOK
<1>2. f \in Run /\ f.pc = "idle" /\ f.result = result
  BY <1>1 DEF Run, Idle
<1>3. g \in Run /\ g.pc = "idle" /\ g.result = result
      /\ g.version = run[m].version /\ g.made = run[m].made
  BY <1>1 DEF Run, Idle
<1>4. Fresh \in Clone
  BY VersionAssumption, CommitsAre DEF Fresh, Clone, Tags, NoTags
<1>5. run' = [run EXCEPT ![m] = IF result = "failed" THEN f ELSE g]
      /\ before' = [before EXCEPT ![m] = Fresh]
  BY DEF End
<1> HIDE DEF f, g
<1> QED BY <1>2, <1>3, <1>4, <1>5 DEF TypeOK

-----------------------------------------------------------------------------
(* Steps that change one clone only.                                       *)

Apart(m) ==
  \A o \in Maintainer \ {m} :
    /\ run'[o] = run[o] /\ before'[o] = before[o] /\ head'[o] = head[o]
    /\ index'[o] = index[o] /\ file'[o] = file[o] /\ tags'[o] = tags[o]

\* A step of one maintainer keeps the invariant if it does so for that maintainer and
\* what all share.
LEMMA OneMoves ==
  ASSUME PrepareInv, NEW m \in Maintainer, TypeOK', Extended, Ahead, HistoryInv',
         TagsFollowBranch', Apart(m), RunInv(m)'
  PROVE  PrepareInv'
<1>1. ASSUME NEW o \in Maintainer PROVE RunInv(o)'
  BY OthersKeepRunInv DEF PrepareInv, Apart
<1> QED BY <1>1 DEF PrepareInv

\* The same where neither commits nor the origin change.
LEMMA Locally ==
  ASSUME PrepareInv, NEW m \in Maintainer, UNCHANGED <<commits, branch, released, byHand>>,
         TypeOK', Apart(m), RunInv(m)'
  PROVE  PrepareInv'
<1>1. Extended /\ HistoryInv'  BY SameCommitsExtend, SameHistory DEF PrepareInv
<1>2. Ahead /\ TagsFollowBranch'  BY DEF PrepareInv, Ahead, TagsFollowBranch, Past
<1> QED BY <1>1, <1>2, OneMoves

\* Types of such a step.
LEMMA LocalTypes ==
  ASSUME TypeOK, UNCHANGED <<commits, branch, released, byHand, published>>,
         faults' \in 0..MaxFaults, work' \in 0..MaxWork,
         head' \in [Maintainer -> Commits], index' \in [Maintainer -> Version],
         file' \in [Maintainer -> Version], tags' \in [Maintainer -> Tags],
         run' \in [Maintainer -> Run], before' \in [Maintainer -> Clone]
  PROVE  TypeOK'
<1>1. Commits' = Commits  BY DEF Commits
<1>2. Run' = Run /\ Tags' = Tags /\ Clone' = Clone  BY <1>1 DEF Run, Tags, Clone
<1> QED BY <1>1, <1>2 DEF TypeOK

\* For a step that changes nothing but its record.
LEMMA RecordTypes ==
  ASSUME TypeOK, UNCHANGED <<commits, origin, clones, published>>,
         faults' \in 0..MaxFaults, work' \in 0..MaxWork,
         run' \in [Maintainer -> Run], before' \in [Maintainer -> Clone]
  PROVE  TypeOK'
BY LocalTypes DEF TypeOK, origin, clones

\* prepare: the clean clone, the version and the tag that must not exist.
LEMMA CheckCloneKeeps ==
  ASSUME PrepareInv, NEW m \in Maintainer, CheckClone(m) PROVE PrepareInv'
<1> USE DEF PrepareInv
<1>1. CASE ~IsClean(m) \/ TagTaken(m, run[m].version)
  <2>1. End(m, "failed") /\ UNCHANGED <<commits, origin, clones, control>>
    BY <1>1 DEF CheckClone
  <2>4. TypeOK'  BY <2>1, EndIs, RecordTypes DEF TypeOK, control, Results
  <2>2. Apart(m)  BY <2>1, EndIs DEF Apart, clones, Results
  <2>3. RunInv(m)'  BY <2>1, EndIs DEF RunInv, Results, Steps
  <2> QED BY <2>1, <2>2, <2>3, <2>4, Locally DEF origin
<1>2. CASE ~(~IsClean(m) \/ TagTaken(m, run[m].version))
  <2> DEFINE r == [run[m] EXCEPT !.pc = "write", !.head = head[m], !.file = file[m]]
  <2>1. Become(m, r) /\ At(m, "look") /\ UNCHANGED <<commits, origin, clones, control>>
    BY <1>2 DEF CheckClone
  <2>2. r \in Run /\ r.pc = "write" /\ r.head = head[m] /\ r.file = file[m]
        /\ r.version = run[m].version /\ r.tagged = run[m].tagged
    BY ZenonT(40) DEF TypeOK, Run, Steps
  <2> HIDE DEF r
  <2>5. TypeOK'  BY <2>1, <2>2, BecomeIs, RecordTypes DEF TypeOK, control
  <2>3. Apart(m)  BY <2>1, <2>2, BecomeIs DEF Apart, clones
  <2>4. RunInv(m)'
    <3>1. /\ head[m] = before[m].head /\ index[m] = before[m].index
          /\ file[m] = before[m].file /\ tags[m] = before[m].tags /\ ~run[m].tagged
      BY <2>1 DEF RunInv, At
    <3>2. {index[m], file[m]} = {Holds(head[m])} /\ tags[m][run[m].version] = None
      BY <1>2 DEF IsClean, TagTaken
    <3>3. run'[m] = r /\ before'[m] = before[m] /\ UNCHANGED <<commits, head, index, file, tags>>
      BY <2>1, <2>2, BecomeIs DEF clones
    <3> QED BY <2>2, <3>1, <3>2, <3>3 DEF RunInv, Holds
  <2> QED BY <2>1, <2>3, <2>4, <2>5, Locally DEF origin
<1> QED BY <1>1, <1>2

\* prepare: called with a version and with or without --push.
LEMMA PrepareKeeps ==
  ASSUME PrepareInv, NEW m \in Maintainer, NEW v \in Version, NEW push \in BOOLEAN,
         Prepare(m, v, push)
  PROVE  PrepareInv'
<1> DEFINE r == [Idle EXCEPT !.pc = "look", !.version = v, !.push = push]
<1>1. r \in Run /\ r.pc = "look" /\ r.tagged = FALSE
  BY IdleIsRun DEF PrepareInv, Run, Idle, Steps
<1>2. CloneOf(m) \in Clone
  BY CommitsAre DEF PrepareInv, TypeOK, CloneOf, Clone
<1>3. /\ run' = [run EXCEPT ![m] = r] /\ before' = [before EXCEPT ![m] = CloneOf(m)]
      /\ UNCHANGED <<commits, origin, clones, published, faults, work>>
  BY DEF Prepare
<1> HIDE DEF r
<1>4. run' \in [Maintainer -> Run] /\ before' \in [Maintainer -> Clone]
  BY <1>1, <1>2, <1>3 DEF PrepareInv, TypeOK
<1>5. run'[m] = r /\ before'[m] = CloneOf(m)
  BY <1>3 DEF PrepareInv, TypeOK
<1>6. TypeOK'
  BY <1>3, <1>4, RecordTypes DEF PrepareInv, TypeOK
<1>7. Apart(m)
  BY <1>3 DEF Apart, PrepareInv, TypeOK, clones
<1>8. RunInv(m)'
  BY <1>1, <1>3, <1>5 DEF RunInv, CloneOf, clones, Steps
<1> QED BY <1>3, <1>6, <1>7, <1>8, Locally DEF origin

\* A step of a prepare that ends it has nothing more to say of the clone.
LEMMA EndKeeps ==
  ASSUME PrepareInv, NEW m \in Maintainer, NEW result \in Results, End(m, result),
         UNCHANGED <<commits, origin, clones, published, work>>, faults' \in 0..MaxFaults
  PROVE  PrepareInv'
<1>1. TypeOK'  BY EndIs, RecordTypes DEF PrepareInv, TypeOK
<1>2. Apart(m)  BY EndIs DEF Apart, PrepareInv, clones
<1>3. RunInv(m)'  BY EndIs DEF RunInv, PrepareInv, Steps
<1> QED BY <1>1, <1>2, <1>3, Locally DEF origin

\* prepare: the version file.
LEMMA WriteVersionKeeps ==
  ASSUME PrepareInv, NEW m \in Maintainer, WriteVersion(m) PROVE PrepareInv'
<1> USE DEF PrepareInv
<1>1. /\ At(m, "write") /\ Goto(m, "add") /\ file' = [file EXCEPT ![m] = run[m].version]
      /\ UNCHANGED <<commits, origin, head, index, tags, control>>
  BY DEF WriteVersion
<1>2. run[m].version \in Version  BY DEF TypeOK, Run
<1>3. TypeOK'
  <2>1. file' \in [Maintainer -> Version]  BY <1>1, <1>2 DEF TypeOK
  <2> QED BY <1>1, <2>1, GotoIs, LocalTypes DEF TypeOK, origin, control, Steps
<1>4. Apart(m)  BY <1>1, GotoIs DEF Apart, TypeOK, Steps
<1>5. RunInv(m)'
  <2>1. file'[m] = run[m].version /\ UNCHANGED <<head, index, tags, before, commits>>
    BY <1>1, GotoIs DEF TypeOK, Steps
  <2>2. run'[m].pc = "add" /\ Same(run'[m], run[m]) /\ run'[m].tagged = run[m].tagged
    BY <1>1, GotoIs DEF Steps
  <2> QED BY <1>1, <2>1, <2>2, ZenonT(40) DEF RunInv, At, Same, Steps, Holds
<1> QED BY <1>1, <1>3, <1>4, <1>5, Locally DEF origin

\* prepare: git add.
LEMMA AddFileKeeps ==
  ASSUME PrepareInv, NEW m \in Maintainer, AddFile(m) PROVE PrepareInv'
<1> USE DEF PrepareInv
<1>1. /\ At(m, "add") /\ Goto(m, "commit") /\ index' = [index EXCEPT ![m] = file[m]]
      /\ UNCHANGED <<commits, origin, head, file, tags, control>>
  BY DEF AddFile
<1>3. TypeOK'
  <2>1. index' \in [Maintainer -> Version]  BY <1>1 DEF TypeOK
  <2> QED BY <1>1, <2>1, GotoIs, LocalTypes DEF TypeOK, origin, control, Steps
<1>4. Apart(m)  BY <1>1, GotoIs DEF Apart, TypeOK, Steps
<1>5. RunInv(m)'
  <2>1. index'[m] = file[m] /\ UNCHANGED <<head, file, tags, before, commits>>
    BY <1>1, GotoIs DEF TypeOK, Steps
  <2>2. run'[m].pc = "commit" /\ Same(run'[m], run[m]) /\ run'[m].tagged = run[m].tagged
    BY <1>1, GotoIs DEF Steps
  <2> QED BY <1>1, <2>1, <2>2, ZenonT(40) DEF RunInv, At, Same, Steps, Holds
<1> QED BY <1>1, <1>3, <1>4, <1>5, Locally DEF origin

\* Whatever fails after the checks, the undoing knows what to undo.
LEMMA ReadyToUndo ==
  ASSUME PrepareInv, NEW m \in Maintainer, Goto(m, "untag"),
         run[m].pc \in {"write", "add", "commit", "tag", "pushbranch", "pushtag"},
         UNCHANGED <<commits, clones>>
  PROVE  RunInv(m)'
<1> USE DEF PrepareInv
<1>1. /\ run'[m].pc = "untag" /\ Same(run'[m], run[m]) /\ run'[m].tagged = run[m].tagged
      /\ UNCHANGED <<before, commits, head, index, file, tags>>
  BY GotoIs DEF Steps, clones
<1>2. /\ before[m].tags \in Tags /\ run[m].version \in Version
  BY DEF TypeOK, Clone, Run
<1>3. /\ run[m].head = before[m].head /\ run[m].file = before[m].file
      /\ {before[m].index, before[m].file} = {Holds(before[m].head)}
      /\ before[m].tags[run[m].version] = None
  BY DEF RunInv, Steps
<1>4. tags[m] = IF run[m].tagged
                THEN [before[m].tags EXCEPT ![run[m].version] = tags[m][run[m].version]]
                ELSE before[m].tags
  <2>1. CASE run[m].pc \in {"pushbranch", "pushtag"}
    <3>1. run[m].tagged /\ tags[m] = [before[m].tags EXCEPT ![run[m].version] = head[m]]
      BY <2>1 DEF RunInv
    <3>2. tags[m][run[m].version] = head[m]  BY <1>2, <3>1 DEF Tags
    <3> QED BY <3>1, <3>2
  <2>2. CASE run[m].pc \in {"write", "add", "commit", "tag"}
    BY <2>2 DEF RunInv
  <2> QED BY <2>1, <2>2
<1> QED BY <1>1, <1>3, <1>4 DEF RunInv, Same, Steps, Holds

\* prepare: any failing call leads to the except branch with nothing else changed.
LEMMA UndoKeeps ==
  ASSUME PrepareInv, NEW m \in Maintainer, Goto(m, "untag"),
         run[m].pc \in {"write", "add", "commit", "tag", "pushbranch", "pushtag"},
         UNCHANGED <<commits, origin, clones, published, work>>, faults' \in 0..MaxFaults
  PROVE  PrepareInv'
<1>1. TypeOK'  BY GotoIs, RecordTypes DEF PrepareInv, TypeOK, Steps
<1>2. Apart(m)  BY GotoIs DEF Apart, PrepareInv, clones, Steps
<1>3. RunInv(m)'  BY ReadyToUndo
<1> QED BY <1>1, <1>2, <1>3, Locally DEF origin

\* prepare: git commit.
LEMMA MakeCommitKeeps ==
  ASSUME PrepareInv, NEW m \in Maintainer, MakeCommit(m) PROVE PrepareInv'
<1> USE DEF PrepareInv
<1>1. CASE index[m] = Holds(head[m])
  <2>1. /\ Goto(m, "untag") /\ At(m, "commit")
        /\ UNCHANGED <<commits, origin, clones, control>>
    BY <1>1 DEF MakeCommit, clones
  <2> QED BY <2>1, UndoKeeps DEF At, control, TypeOK
<1>2. CASE index[m] # Holds(head[m])
  <2> DEFINE n == Len(commits) + 1
             r == [run[m] EXCEPT !.pc = "tag", !.made = n]
  <2>1. /\ At(m, "commit") /\ Commit(head[m], index[m]) /\ Become(m, r)
        /\ head' = [head EXCEPT ![m] = n]
        /\ UNCHANGED <<origin, index, file, tags, control>>
    BY <1>2 DEF MakeCommit
  <2>2. /\ head[m] \in Commits /\ index[m] \in Version /\ before[m].head \in Commits
        /\ run[m] \in Run
    BY CommitsAre DEF TypeOK, Clone
  <2>3. /\ commits' \in Seq([version : Version, past : SUBSET Nat]) /\ commits' # <<>>
        /\ Extended /\ HistoryInv' /\ n \in Commits'
        /\ commits'[n] = [version |-> index[m], past |-> Past(head[m]) \cup {n}]
    BY <2>1, <2>2, CommitExtends, HistoryExtends
  <2>4. Commits \subseteq Commits' /\ Run \subseteq Run' /\ Tags \subseteq Tags' /\ Clone \subseteq Clone'
    BY <2>3, TypesGrow
  <2>5. r \in Run' /\ r.pc = "tag" /\ r.made = n /\ Same(r, run[m]) /\ r.tagged = run[m].tagged
    <3>1. run[m] \in Run'  BY <2>2, <2>4
    <3> QED BY <2>3, <3>1 DEF Run, Steps, Same
  <2> HIDE DEF r, n
  <2>6. run' = [run EXCEPT ![m] = r] /\ before' = before  BY <2>1 DEF Become
  <2>7. TypeOK'
    <3>1. run' \in [Maintainer -> Run']  BY <2>4, <2>5, <2>6 DEF TypeOK
    <3>2. head' \in [Maintainer -> Commits']  BY <2>1, <2>3, <2>4 DEF TypeOK
    <3>3. /\ before' \in [Maintainer -> Clone'] /\ tags' \in [Maintainer -> Tags']
          /\ released' \in Tags' /\ branch' \in Commits'
      BY <2>1, <2>4, <2>6 DEF TypeOK, origin
    <3>4. /\ index' \in [Maintainer -> Version] /\ file' \in [Maintainer -> Version]
          /\ byHand' \in [Version -> Ways \cup {"no"}] /\ published' \subseteq Version
          /\ faults' \in 0..MaxFaults /\ work' \in 0..MaxWork
      BY <2>1 DEF TypeOK, origin, control
    <3> QED BY <2>3, <3>1, <3>2, <3>3, <3>4 DEF TypeOK
  <2>8. Apart(m)  BY <2>1, <2>6 DEF Apart, TypeOK
  <2>9. Ahead /\ TagsFollowBranch'
    <3>1. UNCHANGED <<branch, released, byHand>> /\ Past(branch)' = Past(branch)
      BY <2>1, <2>3, CommitsAre DEF Extended, Past, origin
    <3> QED BY <3>1 DEF Ahead, TagsFollowBranch
  <2>10. RunInv(m)'
    <3>1. /\ run'[m] = r /\ before'[m] = before[m] /\ head'[m] = n
          /\ index'[m] = index[m] /\ file'[m] = file[m] /\ tags'[m] = tags[m]
      BY <2>1, <2>6 DEF TypeOK
    <3>2. /\ Holds(before[m].head)' = Holds(before[m].head)
          /\ Past(before[m].head)' = Past(before[m].head)
      BY <2>2, <2>3, <2>6 DEF Extended, Holds, Past
    <3>3. Holds(head[m])' = index[m] /\ Past(head[m])' = Past(head[m]) \cup {n}
      BY <2>3, <3>1 DEF Holds, Past
    <3>4. /\ run[m].head = before[m].head /\ run[m].file = before[m].file
          /\ {before[m].index, before[m].file} = {Holds(before[m].head)}
          /\ before[m].tags[run[m].version] = None
          /\ head[m] = before[m].head /\ index[m] = run[m].version /\ file[m] = run[m].version
          /\ tags[m] = before[m].tags /\ ~run[m].tagged
      BY <2>1 DEF RunInv, At, Steps
    <3> QED BY <2>5, <3>1, <3>2, <3>3, <3>4 DEF RunInv, Same, Steps
  <2> QED BY <2>3, <2>7, <2>8, <2>9, <2>10, OneMoves
<1> QED BY <1>1, <1>2

\* prepare: git tag.
LEMMA MakeTagKeeps ==
  ASSUME PrepareInv, NEW m \in Maintainer, MakeTag(m) PROVE PrepareInv'
<1> USE DEF PrepareInv
<1>1. /\ At(m, "tag") /\ tags' = [tags EXCEPT ![m][run[m].version] = head[m]]
      /\ UNCHANGED <<commits, origin, head, index, file, control>>
  BY DEF MakeTag
<1>2. /\ head[m] \in Commits /\ run[m] \in Run /\ run[m].version \in Version /\ tags[m] \in Tags
  BY DEF TypeOK, Run
<1>3. /\ tags'[m] = [tags[m] EXCEPT ![run[m].version] = head[m]]
      /\ \A o \in Maintainer \ {m} : tags'[o] = tags[o]
      /\ tags' \in [Maintainer -> Tags]
  <2>1. [tags[m] EXCEPT ![run[m].version] = head[m]] \in Tags  BY <1>2 DEF Tags
  <2> QED BY <1>1, <2>1 DEF TypeOK
<1>4. CASE run[m].push
  <2> DEFINE r == [run[m] EXCEPT !.pc = "pushbranch", !.tagged = TRUE]
  <2>1. Become(m, r)  BY <1>4 DEF MakeTag
  <2>2. r \in Run /\ r.pc = "pushbranch" /\ Same(r, run[m]) /\ r.made = run[m].made /\ r.tagged
    BY <1>2 DEF Run, Steps, Same
  <2> HIDE DEF r
  <2>3. run' \in [Maintainer -> Run] /\ before' = before /\ run'[m] = r
        /\ \A o \in Maintainer \ {m} : run'[o] = run[o]
    BY <2>1, <2>2, BecomeIs
  <2>4. TypeOK'  BY <1>1, <1>3, <2>3, LocalTypes DEF TypeOK, origin, control
  <2>5. Apart(m)  BY <1>1, <1>3, <2>3 DEF Apart
  <2>6. RunInv(m)'
    <3>1. /\ head'[m] = head[m] /\ index'[m] = index[m] /\ file'[m] = file[m]
          /\ commits' = commits
      BY <1>1
    <3>2. /\ run[m].head = before[m].head /\ run[m].file = before[m].file
          /\ {before[m].index, before[m].file} = {Holds(before[m].head)}
          /\ before[m].tags[run[m].version] = None
          /\ run[m].made = head[m] /\ Holds(head[m]) = run[m].version
          /\ Past(head[m]) = Past(before[m].head) \cup {head[m]}
          /\ index[m] = run[m].version /\ file[m] = run[m].version
          /\ tags[m] = before[m].tags
      BY <1>1 DEF RunInv, At, Steps
    <3>3. tags'[m] = [before'[m].tags EXCEPT ![r.version] = head'[m]]
      BY <1>3, <2>2, <2>3, <3>1, <3>2 DEF Same
    <3> QED BY <2>2, <2>3, <3>1, <3>2, <3>3 DEF RunInv, Same, Steps, Holds, Past
  <2> QED BY <1>1, <2>4, <2>5, <2>6, Locally DEF origin
<1>5. CASE ~run[m].push
  <2>1. End(m, "ready")  BY <1>5 DEF MakeTag
  <2>2. TypeOK'  BY <1>1, <1>3, <2>1, EndIs, LocalTypes DEF TypeOK, origin, control, Results
  <2>3. Apart(m)  BY <1>1, <1>3, <2>1, EndIs DEF Apart, Results
  <2>4. RunInv(m)'  BY <2>1, EndIs DEF RunInv, Results, Steps
  <2> QED BY <1>1, <2>2, <2>3, <2>4, Locally DEF origin
<1> QED BY <1>4, <1>5

\* prepare: the branch is pushed, with its answer or without.
LEMMA PushBranchKeeps ==
  ASSUME PrepareInv, NEW m \in Maintainer, At(m, "pushbranch"), FastForward(m),
         branch' = head[m], Goto(m, "pushtag") \/ Goto(m, "untag"),
         UNCHANGED <<commits, released, byHand, clones, published, work>>,
         faults' \in 0..MaxFaults
  PROVE  PrepareInv'
<1> USE DEF PrepareInv
<1>1. branch \in Past(head[m]) /\ head[m] \in Commits
  BY CommitsAre DEF FastForward
<1>2. Past(branch)' = Past(head[m]) /\ head[m] \in Past(head[m]) /\ Past(branch) \subseteq Past(head[m])
  <2>1. Past(branch)' = Past(head[m])  BY DEF Past
  <2> QED BY <1>1, <2>1 DEF HistoryInv
<1>3. Extended /\ HistoryInv'  BY SameCommitsExtend, SameHistory
<1>4. Ahead /\ TagsFollowBranch'
  <2>1. Ahead  BY <1>2 DEF Ahead
  <2> QED BY <2>1 DEF Ahead, TagsFollowBranch
<1>5. /\ run' \in [Maintainer -> Run] /\ before' = before /\ run'[m].pc \in {"pushtag", "untag"}
      /\ Same(run'[m], run[m]) /\ run'[m].tagged = run[m].tagged /\ run'[m].made = run[m].made
      /\ \A o \in Maintainer \ {m} : run'[o] = run[o]
  BY GotoIs DEF Steps
<1>6. TypeOK'
  <2>1. Commits' = Commits  BY DEF Commits
  <2>2. Run' = Run /\ Tags' = Tags /\ Clone' = Clone  BY <2>1 DEF Run, Tags, Clone
  <2> QED BY <1>1, <1>5, <2>1, <2>2 DEF TypeOK, clones
<1>7. Apart(m)  BY <1>5 DEF Apart, clones
<1>8. RunInv(m)'
  <2>1. CASE Goto(m, "untag")
    BY <2>1, ReadyToUndo DEF At
  <2>2. CASE Goto(m, "pushtag")
    <3>1. run'[m].pc = "pushtag"  BY <2>2, GotoIs DEF Steps
    <3>2. /\ run[m].head = before[m].head /\ run[m].file = before[m].file
          /\ {before[m].index, before[m].file} = {Holds(before[m].head)}
          /\ before[m].tags[run[m].version] = None
          /\ run[m].made = head[m] /\ Holds(head[m]) = run[m].version
          /\ Past(head[m]) = Past(before[m].head) \cup {head[m]}
          /\ index[m] = run[m].version /\ file[m] = run[m].version
          /\ tags[m] = [before[m].tags EXCEPT ![run[m].version] = head[m]] /\ run[m].tagged
      BY DEF RunInv, At, Steps
    <3>3. UNCHANGED <<commits, head, index, file, tags>>  BY DEF clones
    <3> QED BY <1>2, <1>5, <3>1, <3>2, <3>3 DEF RunInv, Same, Steps, Holds, Past
  <2> QED BY <2>1, <2>2
<1> QED BY <1>3, <1>4, <1>6, <1>7, <1>8, OneMoves

\* prepare: the tag is pushed, with its answer or without.
LEMMA PushTagKeeps ==
  ASSUME PrepareInv, NEW m \in Maintainer, At(m, "pushtag"), TagIsNew(m), TakeTag(m),
         End(m, "pushed") \/ Goto(m, "untag"),
         UNCHANGED <<commits, branch, byHand, clones, published, work>>,
         faults' \in 0..MaxFaults
  PROVE  PrepareInv'
<1> USE DEF PrepareInv
<1>1. /\ run[m].version \in Version /\ before[m].tags \in Tags /\ head[m] \in Commits
      /\ released \in Tags
  BY CommitsAre DEF TypeOK, Run, Clone
<1>2. tags[m] = [before[m].tags EXCEPT ![run[m].version] = head[m]] /\ head[m] \in Past(branch)
  BY DEF RunInv, At
<1>3. released' = [released EXCEPT ![run[m].version] = head[m]]
  BY <1>1, <1>2 DEF TakeTag, Tags
<1>4. Extended /\ HistoryInv'  BY SameCommitsExtend, SameHistory
<1>5. Ahead /\ TagsFollowBranch'
  <2>1. Past(branch)' = Past(branch)  BY DEF Past
  <2> QED BY <1>1, <1>2, <1>3, <2>1 DEF Ahead, TagsFollowBranch, Tags
<1>6. TypeOK'
  <2>1. Commits' = Commits  BY DEF Commits
  <2>2. Run' = Run /\ Tags' = Tags /\ Clone' = Clone  BY <2>1 DEF Run, Tags, Clone
  <2>3. released' \in Tags  BY <1>1, <1>3 DEF Tags
  <2>4. run' \in [Maintainer -> Run] /\ before' \in [Maintainer -> Clone]
    BY GotoIs, EndIs DEF TypeOK, Steps, Results
  <2> QED BY <2>1, <2>2, <2>3, <2>4 DEF TypeOK, clones
<1>7. Apart(m)  BY GotoIs, EndIs DEF Apart, clones, Steps, Results
<1>8. RunInv(m)'
  <2>1. CASE End(m, "pushed")
    BY <2>1, EndIs DEF RunInv, Results, Steps
  <2>2. CASE Goto(m, "untag")
    BY <2>2, ReadyToUndo DEF At
  <2> QED BY <2>1, <2>2
<1> QED BY <1>4, <1>5, <1>6, <1>7, <1>8, OneMoves

\* The except branch: git tag --delete.
LEMMA UntagKeeps ==
  ASSUME PrepareInv, NEW m \in Maintainer, Untag(m) PROVE PrepareInv'
<1> USE DEF PrepareInv
<1>1. /\ At(m, "untag") /\ Goto(m, "reset")
      /\ tags' = IF run[m].tagged THEN [tags EXCEPT ![m][run[m].version] = None] ELSE tags
      /\ UNCHANGED <<commits, origin, head, index, file, control>>
  BY DEF Untag
<1>2. /\ run[m].version \in Version /\ before[m].tags \in Tags /\ tags[m] \in Tags
      /\ tags \in [Maintainer -> Tags]
  BY DEF TypeOK, Run, Clone
<1>3. /\ tags[m] = IF run[m].tagged
                   THEN [before[m].tags EXCEPT ![run[m].version] = tags[m][run[m].version]]
                   ELSE before[m].tags
      /\ run[m].head = before[m].head /\ run[m].file = before[m].file
      /\ {before[m].index, before[m].file} = {Holds(before[m].head)}
      /\ before[m].tags[run[m].version] = None
  BY <1>1 DEF RunInv, At, Steps
<1>4. tags'[m] = before[m].tags /\ \A o \in Maintainer \ {m} : tags'[o] = tags[o]
  <2>1. CASE run[m].tagged
    <3>1. tags' = [tags EXCEPT ![m] = [tags[m] EXCEPT ![run[m].version] = None]]
      BY <1>1, <2>1
    <3>2. [tags[m] EXCEPT ![run[m].version] = None] = before[m].tags
      BY <1>2, <1>3, <2>1 DEF Tags
    <3> QED BY <1>2, <3>1, <3>2
  <2>2. CASE ~run[m].tagged  BY <1>1, <1>3, <2>2
  <2> QED BY <2>1, <2>2
<1>5. tags' \in [Maintainer -> Tags]
  <2>1. DOMAIN tags' = Maintainer /\ tags' = [o \in Maintainer |-> tags'[o]]
    BY <1>1, <1>2
  <2> QED BY <1>2, <1>4, <2>1
<1>6. TypeOK'  BY <1>1, <1>5, GotoIs, LocalTypes DEF TypeOK, origin, control, Steps
<1>7. Apart(m)  BY <1>1, <1>4, GotoIs DEF Apart, Steps
<1>8. RunInv(m)'
  <2>1. /\ run'[m].pc = "reset" /\ Same(run'[m], run[m]) /\ before' = before
        /\ UNCHANGED <<commits, head, index, file>>
    BY <1>1, GotoIs DEF Steps
  <2> QED BY <1>3, <1>4, <2>1 DEF RunInv, Same, Steps, Holds
<1> QED BY <1>1, <1>6, <1>7, <1>8, Locally DEF origin

\* The except branch: git reset.
LEMMA ResetKeeps ==
  ASSUME PrepareInv, NEW m \in Maintainer, Reset(m) PROVE PrepareInv'
<1> USE DEF PrepareInv
<1>1. /\ At(m, "reset") /\ Goto(m, "restore")
      /\ head' = [head EXCEPT ![m] = run[m].head]
      /\ index' = [index EXCEPT ![m] = Holds(run[m].head)]
      /\ UNCHANGED <<commits, origin, file, tags, control>>
  BY DEF Reset
<1>2. run[m].head \in Commits /\ Holds(run[m].head) \in Version
  BY CommitsAre DEF TypeOK, Run
<1>3. TypeOK'
  <2>1. head' \in [Maintainer -> Commits] /\ index' \in [Maintainer -> Version]
    BY <1>1, <1>2 DEF TypeOK
  <2> QED BY <1>1, <2>1, GotoIs, LocalTypes DEF TypeOK, origin, control, Steps
<1>4. Apart(m)  BY <1>1, GotoIs DEF Apart, TypeOK, Steps
<1>5. RunInv(m)'
  <2>1. /\ head'[m] = run[m].head /\ index'[m] = Holds(run[m].head)
        /\ UNCHANGED <<file, tags, before, commits>>
    BY <1>1, GotoIs DEF TypeOK, Steps
  <2>2. run'[m].pc = "restore" /\ Same(run'[m], run[m])  BY <1>1, GotoIs DEF Steps
  <2>3. /\ run[m].head = before[m].head /\ run[m].file = before[m].file
        /\ {before[m].index, before[m].file} = {Holds(before[m].head)}
        /\ before[m].tags[run[m].version] = None /\ tags[m] = before[m].tags
    BY <1>1 DEF RunInv, At, Steps
  <2> QED BY <2>1, <2>2, <2>3 DEF RunInv, Same, Steps, Holds
<1> QED BY <1>1, <1>3, <1>4, <1>5, Locally DEF origin

\* The except branch: the version file is written back.
LEMMA RestoreKeeps ==
  ASSUME PrepareInv, NEW m \in Maintainer, Restore(m) PROVE PrepareInv'
<1> USE DEF PrepareInv
<1>1. /\ End(m, "failed") /\ file' = [file EXCEPT ![m] = run[m].file]
      /\ UNCHANGED <<commits, origin, head, index, tags, control>>
  BY DEF Restore
<1>2. TypeOK'
  <2>1. file' \in [Maintainer -> Version]  BY <1>1 DEF TypeOK, Run
  <2> QED BY <1>1, <2>1, EndIs, LocalTypes DEF TypeOK, origin, control, Results
<1>3. Apart(m)  BY <1>1, EndIs DEF Apart, TypeOK, Results
<1>4. RunInv(m)'  BY <1>1, EndIs DEF RunInv, Results, Steps
<1> QED BY <1>1, <1>2, <1>3, <1>4, Locally DEF origin

\* Every step of prepare keeps the invariant.
LEMMA StepKeeps ==
  ASSUME PrepareInv, NEW m \in Maintainer, Step(m) PROVE PrepareInv'
<1>0. faults \in 0..MaxFaults  BY DEF PrepareInv, TypeOK
<1>1. CASE CheckClone(m)  BY <1>1, CheckCloneKeeps
<1>2. CASE WriteVersion(m)  BY <1>2, WriteVersionKeeps
<1>3. CASE AddFile(m)  BY <1>3, AddFileKeeps
<1>4. CASE MakeCommit(m)  BY <1>4, MakeCommitKeeps
<1>5. CASE MakeTag(m)  BY <1>5, MakeTagKeeps
<1>6. CASE PushBranch(m)
  <2>1. CASE FastForward(m)
    BY <1>0, <1>6, <2>1, PushBranchKeeps DEF PushBranch, control
  <2>2. CASE ~FastForward(m)
    BY <1>0, <1>6, <2>2, UndoKeeps DEF PushBranch, control, origin, At
  <2> QED BY <2>1, <2>2
<1>7. CASE PushTag(m)
  <2>1. CASE TagIsNew(m)
    BY <1>0, <1>7, <2>1, PushTagKeeps DEF PushTag, control
  <2>2. CASE ~TagIsNew(m)
    BY <1>0, <1>7, <2>2, UndoKeeps DEF PushTag, control, origin, At
  <2> QED BY <2>1, <2>2
<1>8. CASE Untag(m)  BY <1>8, UntagKeeps
<1>9. CASE Reset(m)  BY <1>9, ResetKeeps
<1>10. CASE Restore(m)  BY <1>10, RestoreKeeps
<1> QED BY <1>1, <1>2, <1>3, <1>4, <1>5, <1>6, <1>7, <1>8, <1>9, <1>10 DEF Step

\* A fault is counted.
LEMMA FaultCounts ==
  ASSUME TypeOK, Fault PROVE faults' \in 0..MaxFaults
BY BoundsAssumption DEF TypeOK, Fault

\* So do failing calls, lost answers and SIGKILL.
LEMMA FaultsKeep ==
  ASSUME PrepareInv, NEW m \in Maintainer, CallFails(m) \/ AnswerLost(m) \/ Kill(m)
  PROVE  PrepareInv'
<1>0. faults' \in 0..MaxFaults  BY FaultCounts DEF PrepareInv, CallFails, AnswerLost, Kill
<1>1. CASE CallFails(m)
  <2>1. UNCHANGED <<commits, origin, clones, published, work>>  BY <1>1 DEF CallFails
  <2>2. CASE End(m, "failed") \/ End(m, "broken")
    BY <1>0, <2>1, <2>2, EndKeeps DEF Results
  <2>3. CASE /\ run[m].pc \in {"write", "add", "commit", "tag", "pushbranch", "pushtag"}
             /\ Goto(m, "untag")
    BY <1>0, <2>1, <2>3, UndoKeeps
  <2> QED BY <1>1, <2>2, <2>3 DEF CallFails
<1>2. CASE AnswerLost(m)
  <2>1. CASE At(m, "pushbranch") /\ FastForward(m) /\ branch' = head[m] /\ UNCHANGED released
    BY <1>0, <1>2, <2>1, PushBranchKeeps DEF AnswerLost
  <2>2. CASE At(m, "pushtag") /\ TagIsNew(m) /\ TakeTag(m) /\ UNCHANGED branch
    BY <1>0, <1>2, <2>2, PushTagKeeps DEF AnswerLost
  <2> QED BY <1>2, <2>1, <2>2 DEF AnswerLost
<1>3. CASE Kill(m)  BY <1>0, <1>3, EndKeeps DEF Kill, Results
<1> QED BY <1>1, <1>2, <1>3

-----------------------------------------------------------------------------
(* What is done by hand.                                                   *)

\* A piece of other work is counted.
LEMMA WorkCounts ==
  ASSUME TypeOK, Work PROVE work' \in 0..MaxWork
BY BoundsAssumption DEF TypeOK, Work

\* So does other work that is pushed,
LEMMA PushWorkKeeps ==
  ASSUME PrepareInv, NEW m \in Maintainer, PushWork(m) PROVE PrepareInv'
<1> USE DEF PrepareInv
<1> DEFINE n == Len(commits) + 1
<1>1. /\ At(m, "idle") /\ branch \in Past(head[m]) /\ Commit(head[m], Holds(head[m]))
      /\ head' = [head EXCEPT ![m] = n] /\ branch' = n /\ work' \in 0..MaxWork
      /\ UNCHANGED <<released, byHand, index, file, tags, process, published, faults>>
  BY WorkCounts DEF PushWork, Rests, FastForward
<1>2. head[m] \in Commits /\ Holds(head[m]) \in Version
  BY CommitsAre
<1>3. /\ commits' \in Seq([version : Version, past : SUBSET Nat]) /\ commits' # <<>>
      /\ Extended /\ HistoryInv' /\ n \in Commits'
      /\ commits'[n] = [version |-> Holds(head[m]), past |-> Past(head[m]) \cup {n}]
  BY <1>1, <1>2, CommitExtends, HistoryExtends
<1>4. Commits \subseteq Commits' /\ Run \subseteq Run' /\ Tags \subseteq Tags' /\ Clone \subseteq Clone'
  BY <1>3, TypesGrow
<1> HIDE DEF n
<1>5. TypeOK'
  <2>1. head' \in [Maintainer -> Commits']  BY <1>1, <1>3, <1>4 DEF TypeOK
  <2>2. /\ run' \in [Maintainer -> Run'] /\ before' \in [Maintainer -> Clone']
        /\ tags' \in [Maintainer -> Tags'] /\ released' \in Tags' /\ branch' \in Commits'
    BY <1>1, <1>3, <1>4 DEF TypeOK, process
  <2>3. /\ index' \in [Maintainer -> Version] /\ file' \in [Maintainer -> Version]
        /\ byHand' \in [Version -> Ways \cup {"no"}] /\ published' \subseteq Version
        /\ faults' \in 0..MaxFaults /\ work' \in 0..MaxWork
    BY <1>1 DEF TypeOK
  <2> QED BY <1>3, <2>1, <2>2, <2>3 DEF TypeOK
<1>6. Apart(m)  BY <1>1 DEF Apart, TypeOK, process
<1>7. Ahead /\ TagsFollowBranch'
  <2>1. Past(branch)' = Past(head[m]) \cup {n}  BY <1>1, <1>3 DEF Past
  <2>2. Past(branch) \subseteq Past(head[m])  BY <1>1, <1>2 DEF HistoryInv
  <2>3. Ahead  BY <2>1, <2>2 DEF Ahead
  <2> QED BY <1>1, <2>3 DEF Ahead, TagsFollowBranch
<1>8. RunInv(m)'  BY <1>1 DEF RunInv, At, process, Steps
<1> QED BY <1>3, <1>5, <1>6, <1>7, <1>8, OneMoves

\* a clone that is reset to the origin,
LEMMA DiscardKeeps ==
  ASSUME PrepareInv, NEW m \in Maintainer, Discard(m) PROVE PrepareInv'
<1> USE DEF PrepareInv
<1>1. /\ At(m, "idle") /\ UNCHANGED <<commits, origin, process, control>>
      /\ index' = [index EXCEPT ![m] = Holds(head'[m])]
      /\ file' = [file EXCEPT ![m] = Holds(head'[m])]
  BY DEF Discard
<1>2. /\ head' \in [Maintainer -> Commits] /\ tags' \in [Maintainer -> Tags]
      /\ \A o \in Maintainer \ {m} : head'[o] = head[o] /\ tags'[o] = tags[o]
  <2>1. CASE UNCHANGED <<head, tags>>  BY <2>1 DEF TypeOK
  <2>2. CASE /\ head' = [head EXCEPT ![m] = run[m].head]
             /\ tags' = [tags EXCEPT ![m][run[m].version] = None]
    <3>1. run[m].head \in Commits /\ tags[m] \in Tags  BY DEF TypeOK, Run
    <3>2. [tags[m] EXCEPT ![run[m].version] = None] \in Tags  BY <3>1 DEF Tags
    <3> QED BY <2>2, <3>1, <3>2 DEF TypeOK
  <2> QED BY <2>1, <2>2 DEF Discard
<1>3. Holds(head'[m]) \in Version
  <2>1. head'[m] \in Commits  BY <1>2
  <2> QED BY <2>1, CommitsAre
<1>4. TypeOK'
  <2>1. index' \in [Maintainer -> Version] /\ file' \in [Maintainer -> Version]
    BY <1>1, <1>3 DEF TypeOK
  <2> QED BY <1>1, <1>2, <2>1, LocalTypes DEF TypeOK, origin, control, process
<1>5. Apart(m)  BY <1>1, <1>2 DEF Apart, TypeOK, process
<1>6. RunInv(m)'  BY <1>1 DEF RunInv, At, process, Steps
<1> QED BY <1>1, <1>4, <1>5, <1>6, Locally DEF origin

\* a pull,
LEMMA PullKeeps ==
  ASSUME PrepareInv, NEW m \in Maintainer, Pull(m) PROVE PrepareInv'
<1> USE DEF PrepareInv
<1> DEFINE t == [v \in Version |-> IF tags[m][v] = None /\ released[v] \in Past(branch)
                                  THEN released[v] ELSE tags[m][v]]
<1>1. /\ At(m, "idle") /\ head' = [head EXCEPT ![m] = branch]
      /\ index' = [index EXCEPT ![m] = Holds(branch)]
      /\ file' = [file EXCEPT ![m] = Holds(branch)]
      /\ UNCHANGED <<commits, origin, process, control>>
  BY DEF Pull, Rests
<1>2. tags' = [tags EXCEPT ![m] = t]  BY DEF Pull
<1>3. t \in Tags  BY DEF TypeOK, Tags
<1> HIDE DEF t
<1>4. TypeOK'
  <2>1. /\ head' \in [Maintainer -> Commits] /\ tags' \in [Maintainer -> Tags]
        /\ index' \in [Maintainer -> Version] /\ file' \in [Maintainer -> Version]
    BY <1>1, <1>2, <1>3, CommitsAre DEF TypeOK
  <2> QED BY <1>1, <2>1, LocalTypes DEF TypeOK, origin, control, process
<1>5. Apart(m)  BY <1>1, <1>2 DEF Apart, TypeOK, process
<1>6. RunInv(m)'  BY <1>1 DEF RunInv, At, process, Steps
<1> QED BY <1>1, <1>4, <1>5, <1>6, Locally DEF origin

\* Nothing happens in any clone.
LEMMA NoneMoves ==
  ASSUME PrepareInv, UNCHANGED <<commits, branch, clones, process>>, TypeOK', TagsFollowBranch'
  PROVE  PrepareInv'
<1>1. Extended /\ HistoryInv'  BY SameCommitsExtend, SameHistory DEF PrepareInv
<1>2. Ahead  BY DEF Ahead, Past
<1>3. ASSUME NEW o \in Maintainer PROVE RunInv(o)'
  BY <1>1, <1>2, OthersKeepRunInv DEF PrepareInv, clones, process
<1> QED BY <1>1, <1>3 DEF PrepareInv

\* and what happens at the origin: the gate, and a tag pushed by hand.
LEMMA OriginKeeps ==
  ASSUME PrepareInv, NEW v \in Version, Gate(v) \/ \E c \in Commits, how \in Ways : TagByHand(v, c, how)
  PROVE  PrepareInv'
<1> USE DEF PrepareInv
<1>0. UNCHANGED <<commits, branch, clones, process>>  BY DEF Gate, TagByHand, origin
<1>1. Commits' = Commits /\ Past(branch)' = Past(branch)  BY <1>0 DEF Commits, Past
<1>2. Run' = Run /\ Tags' = Tags /\ Clone' = Clone  BY <1>1 DEF Run, Tags, Clone
<1>3. CASE Gate(v)
  <2>1. TypeOK'  BY <1>0, <1>1, <1>2, <1>3 DEF TypeOK, Gate, origin, clones, process
  <2>2. TagsFollowBranch'  BY <1>1, <1>3 DEF TagsFollowBranch, Gate, origin
  <2> QED BY <1>0, <2>1, <2>2, NoneMoves
<1>4. CASE \E c \in Commits, how \in Ways : TagByHand(v, c, how)
  <2>1. PICK c \in Commits, how \in Ways : TagByHand(v, c, how)  BY <1>4
  <2>2. released \in Tags /\ byHand \in [Version -> Ways \cup {"no"}]  BY DEF TypeOK
  <2>3. /\ released' = [released EXCEPT ![v] = c] /\ byHand' = [byHand EXCEPT ![v] = how]
        /\ how # "no"
    BY <2>1 DEF TagByHand, Ways
  <2>4. TypeOK'
    <3>1. released' \in Tags /\ byHand' \in [Version -> Ways \cup {"no"}] /\ work' \in 0..MaxWork
      BY <2>1, <2>2, <2>3, WorkCounts DEF TagByHand, Tags, TypeOK
    <3>2. UNCHANGED <<published, faults>>  BY <2>1 DEF TagByHand
    <3> QED BY <1>0, <1>1, <1>2, <3>1, <3>2 DEF TypeOK, clones, process
  <2>5. TagsFollowBranch'  BY <1>1, <2>2, <2>3 DEF TagsFollowBranch, Tags
  <2> QED BY <1>0, <2>4, <2>5, NoneMoves
<1> QED BY <1>3, <1>4

-----------------------------------------------------------------------------

\* The invariant holds of one commit and fresh clones.
LEMMA InitHolds == Init => PrepareInv
<1> SUFFICES ASSUME Init PROVE PrepareInv  OBVIOUS
<1>1. Commits = {1} /\ Holds(1) = First /\ Past(1) = {1} /\ Len(commits) = 1
  BY DEF Init, Commits, Holds, Past
<1>2. Idle \in Run /\ NoTags \in Tags
  BY <1>1, VersionAssumption DEF Idle, Run, Steps, Results, NoTags, Tags, None
<1>3. Fresh \in Clone  BY <1>1, <1>2, VersionAssumption DEF Fresh, Clone
<1>4. TypeOK
  <2>1. commits \in Seq([version : Version, past : SUBSET Nat]) /\ commits # <<>>
    <3>1. [version |-> First, past |-> {1}] \in [version : Version, past : SUBSET Nat]
      BY VersionAssumption
    <3> DEFINE c == [version |-> First, past |-> {1}]
               Kind == [version : Version, past : SUBSET Nat]
    <3>2. c \in Kind /\ commits = <<c>>  BY <3>1 DEF Init
    <3> HIDE DEF c, Kind
    <3>3. commits \in Seq(Kind) /\ commits # <<>>  BY <3>2
    <3> QED BY <3>3 DEF Kind
  <2>2. faults \in 0..MaxFaults /\ work \in 0..MaxWork  BY BoundsAssumption DEF Init
  <2> QED BY <1>1, <1>2, <1>3, <2>1, <2>2, VersionAssumption DEF TypeOK, Init
<1>5. HistoryInv  BY <1>1 DEF HistoryInv
<1>6. TagsFollowBranch  BY DEF TagsFollowBranch, Init, NoTags
<1>7. \A m \in Maintainer : RunInv(m)  BY DEF Init, RunInv, Idle, Steps
<1> QED BY <1>4, <1>5, <1>6, <1>7 DEF PrepareInv

\* Every step keeps it.
LEMMA NextKeeps == PrepareInv /\ [Next]_vars => PrepareInv'
<1> SUFFICES ASSUME PrepareInv, [Next]_vars PROVE PrepareInv'  OBVIOUS
<1>1. CASE \E m \in Maintainer : Step(m)  BY <1>1, StepKeeps
<1>2. CASE \E m \in Maintainer : CallFails(m) \/ AnswerLost(m) \/ Kill(m)  BY <1>2, FaultsKeep
<1>3. CASE \E m \in Maintainer : PushWork(m)  BY <1>3, PushWorkKeeps
<1>4. CASE \E m \in Maintainer : Discard(m)  BY <1>4, DiscardKeeps
<1>5. CASE \E m \in Maintainer : Pull(m)  BY <1>5, PullKeeps
<1>6. CASE \E m \in Maintainer, v \in Version, push \in BOOLEAN : Prepare(m, v, push)
  BY <1>6, PrepareKeeps
<1>7. CASE \E v \in Version : Gate(v) \/ \E c \in Commits, how \in Ways : TagByHand(v, c, how)
  BY <1>7, OriginKeeps
<1>8. CASE UNCHANGED vars
  <2>1. UNCHANGED <<commits, origin, clones, process, control>>  BY <1>8 DEF vars
  <2>2. TypeOK'  BY <2>1, RecordTypes DEF PrepareInv, TypeOK, process, control
  <2>3. TagsFollowBranch'  BY <2>1 DEF PrepareInv, TagsFollowBranch, Past, origin
  <2> QED BY <2>1, <2>2, <2>3, NoneMoves DEF origin
<1> QED BY <1>1, <1>2, <1>3, <1>4, <1>5, <1>6, <1>7, <1>8 DEF Next

\* What each step of a prepare has done to its clone, that commits know their
\* ancestors, and that every tag of a prepare at the origin leads to a commit of the
\* branch.
LEMMA PrepareInvariant == Spec => []PrepareInv
BY InitHolds, NextKeeps, PTL DEF Spec

-----------------------------------------------------------------------------
(* What the origin has is never taken away, and what is reported of it.    *)

Grows ==
  /\ Extended /\ Ahead
  /\ \A v \in Version : released[v] # None => released'[v] = released[v]

\* A fast-forward leads to a commit above the branch.
LEMMA BranchGrows ==
  ASSUME PrepareInv, UNCHANGED <<commits, released>>, NEW m \in Maintainer,
         FastForward(m), branch' = head[m]
  PROVE  Grows
<1>1. branch \in Past(head[m]) /\ head[m] \in Commits
  BY CommitsAre DEF FastForward, PrepareInv
<1>2. Past(branch) \subseteq Past(head[m])  BY <1>1 DEF PrepareInv, HistoryInv
<1>3. Ahead  BY <1>2 DEF Ahead, Past
<1> QED BY <1>3, SameCommitsExtend DEF Grows, PrepareInv

\* A tag that is new to the origin moves none.
LEMMA TagGrows ==
  ASSUME PrepareInv, UNCHANGED <<commits, branch>>, NEW v \in Version, NEW c,
         released[v] = None, released' = [released EXCEPT ![v] = c]
  PROVE  Grows
<1>1. Ahead  BY DEF Ahead, Past
<1> QED BY <1>1, SameCommitsExtend DEF Grows, PrepareInv, TypeOK, Tags

\* Most steps change nothing at the origin.
LEMMA NothingGrows ==
  ASSUME PrepareInv, UNCHANGED <<commits, branch, released>> PROVE Grows
<1>1. Ahead  BY DEF Ahead, Past
<1> QED BY <1>1, SameCommitsExtend DEF Grows, PrepareInv

\* A commit in a clone is none at the origin yet.
LEMMA CommitGrows ==
  ASSUME PrepareInv, NEW parent \in Commits, NEW version \in Version,
         Commit(parent, version), UNCHANGED <<branch, released>>
  PROVE  Grows
<1>1. Extended  BY CommitExtends DEF PrepareInv
<1>2. Ahead  BY <1>1, CommitsAre DEF Ahead, Extended, Past, PrepareInv
<1> QED BY <1>1, <1>2 DEF Grows

\* No step of prepare takes anything from the origin.
LEMMA StepGrows ==
  ASSUME PrepareInv, NEW m \in Maintainer, Step(m) PROVE Grows
<1>1. CASE /\ CheckClone(m) \/ WriteVersion(m) \/ AddFile(m) \/ MakeTag(m) \/ Untag(m)
              \/ Reset(m) \/ Restore(m)
  <2>1. UNCHANGED <<commits, branch, released>>
    BY <1>1 DEF CheckClone, WriteVersion, AddFile, MakeTag, Untag, Reset, Restore, origin
  <2> QED BY <2>1, NothingGrows
<1>2. CASE MakeCommit(m)
  <2>1. UNCHANGED <<branch, released>> /\ (UNCHANGED commits \/ Commit(head[m], index[m]))
    BY <1>2 DEF MakeCommit, origin
  <2> QED BY <2>1, NothingGrows, CommitGrows, CommitsAre DEF PrepareInv, TypeOK
<1>3. CASE PushBranch(m)
  <2>1. UNCHANGED <<commits, released>> /\ (UNCHANGED branch \/ (FastForward(m) /\ branch' = head[m]))
    BY <1>3 DEF PushBranch
  <2> QED BY <2>1, NothingGrows, BranchGrows
<1>4. CASE PushTag(m)
  <2>1. /\ UNCHANGED <<commits, branch>>
        /\ UNCHANGED released \/ (TagIsNew(m) /\ TakeTag(m))
    BY <1>4 DEF PushTag
  <2>2. run[m].version \in Version  BY DEF PrepareInv, TypeOK, Run
  <2> QED BY <2>1, <2>2, NothingGrows, TagGrows DEF TagIsNew, TakeTag
<1> QED BY <1>1, <1>2, <1>3, <1>4 DEF Step

\* Nor does a fault or another maintainer's work.
LEMMA OthersGrow ==
  ASSUME PrepareInv, NEW m \in Maintainer,
         \/ CallFails(m) \/ AnswerLost(m) \/ Kill(m) \/ PushWork(m) \/ Discard(m) \/ Pull(m)
         \/ \E v \in Version, push \in BOOLEAN : Prepare(m, v, push)
  PROVE  Grows
<1>1. CASE \/ CallFails(m) \/ Kill(m) \/ Discard(m) \/ Pull(m)
           \/ \E v \in Version, push \in BOOLEAN : Prepare(m, v, push)
  <2>1. UNCHANGED <<commits, branch, released>>
    BY <1>1 DEF CallFails, Kill, Discard, Pull, Prepare, origin
  <2> QED BY <2>1, NothingGrows
<1>2. CASE AnswerLost(m)
  <2>1. run[m].version \in Version  BY DEF PrepareInv, TypeOK, Run
  <2>2. CASE FastForward(m) /\ branch' = head[m] /\ UNCHANGED released
    BY <1>2, <2>2, BranchGrows DEF AnswerLost
  <2>3. CASE TagIsNew(m) /\ TakeTag(m) /\ UNCHANGED branch
    BY <1>2, <2>1, <2>3, TagGrows DEF AnswerLost, TagIsNew, TakeTag
  <2> QED BY <1>2, <2>2, <2>3 DEF AnswerLost
<1>3. CASE PushWork(m)
  <2> DEFINE n == Len(commits) + 1
  <2>1. /\ branch \in Past(head[m]) /\ Commit(head[m], Holds(head[m])) /\ branch' = n
        /\ UNCHANGED released
    BY <1>3 DEF PushWork, Rests, FastForward
  <2>2. head[m] \in Commits /\ Holds(head[m]) \in Version  BY CommitsAre DEF PrepareInv
  <2>3. Extended /\ commits'[n] = [version |-> Holds(head[m]), past |-> Past(head[m]) \cup {n}]
    BY <2>1, <2>2, CommitExtends DEF PrepareInv
  <2> HIDE DEF n
  <2>4. Past(branch)' = Past(head[m]) \cup {n}  BY <2>1, <2>3 DEF Past
  <2>5. Past(branch) \subseteq Past(head[m])  BY <2>1, <2>2 DEF PrepareInv, HistoryInv
  <2> QED BY <2>1, <2>3, <2>4, <2>5 DEF Grows, Ahead
<1> QED BY <1>1, <1>2, <1>3

\* Nor does any step.
LEMMA NextGrows == PrepareInv /\ [Next]_vars => Grows
<1> SUFFICES ASSUME PrepareInv, [Next]_vars PROVE Grows  OBVIOUS
<1>1. CASE \E m \in Maintainer : Step(m)  BY <1>1, StepGrows
<1>2. CASE \E m \in Maintainer :
             \/ CallFails(m) \/ AnswerLost(m) \/ Kill(m) \/ PushWork(m) \/ Discard(m) \/ Pull(m)
             \/ \E v \in Version, push \in BOOLEAN : Prepare(m, v, push)
  BY <1>2, OthersGrow
<1>3. CASE UNCHANGED vars \/ \E v \in Version : Gate(v)
  <2>1. UNCHANGED <<commits, branch, released>>  BY <1>3 DEF vars, Gate, origin
  <2> QED BY <2>1, NothingGrows
<1>4. CASE \E v \in Version, c \in Commits, how \in Ways : TagByHand(v, c, how)
  BY <1>4, TagGrows DEF TagByHand
<1> QED BY <1>1, <1>2, <1>3, <1>4 DEF Next

\* Nothing that the origin took is lost: commits stay, the branch keeps all it led
\* to, and a tag never moves, although every prepare that fails resets its clone.
THEOREM OriginOnlyGrows == Spec => [][Grows]_vars
<1>1. PrepareInv /\ [Next]_vars => [Grows]_vars  BY NextGrows
<1> QED BY <1>1, PrepareInvariant, PTL DEF Spec

\* A tag that is at the origin stays what it is: made by prepare, or by hand and how.
LEMMA WayStays ==
  ASSUME PrepareInv, [Next]_vars, NEW v \in Version, released[v] # None
  PROVE  byHand'[v] = byHand[v]
<1>1. ASSUME NEW m \in Maintainer, Step(m) PROVE UNCHANGED byHand
  BY <1>1 DEF Step, CheckClone, WriteVersion, AddFile, MakeCommit, MakeTag, PushBranch,
     PushTag, Untag, Reset, Restore, origin
<1>2. ASSUME NEW m \in Maintainer,
             \/ CallFails(m) \/ AnswerLost(m) \/ Kill(m) \/ PushWork(m) \/ Discard(m) \/ Pull(m)
             \/ \E w \in Version, push \in BOOLEAN : Prepare(m, w, push)
      PROVE  UNCHANGED byHand
  BY <1>2 DEF CallFails, AnswerLost, Kill, PushWork, Discard, Pull, Prepare, origin
<1>3. ASSUME NEW w \in Version, Gate(w) PROVE UNCHANGED byHand
  BY <1>3 DEF Gate, origin
<1>4. ASSUME NEW w \in Version, NEW c \in Commits, NEW how \in Ways, TagByHand(w, c, how)
      PROVE  byHand'[v] = byHand[v]
  BY <1>4 DEF TagByHand, PrepareInv, TypeOK
<1>5. CASE UNCHANGED vars  BY <1>5 DEF vars, origin
<1> QED BY <1>1, <1>2, <1>3, <1>4, <1>5 DEF Next

\* What the gate let through stays as it was looked at.
LEMMA PublishedStaysTagged == PrepareInv /\ PublishedIsTagged /\ [Next]_vars => PublishedIsTagged'
<1> SUFFICES ASSUME PrepareInv, PublishedIsTagged, [Next]_vars, NEW v \in published'
             PROVE  /\ released'[v] # None /\ Holds(released[v])' = v /\ byHand'[v] # "light"
  BY DEF PublishedIsTagged
<1>1. v \in published \/ (v \in Version /\ Gate(v))
  <2>1. ASSUME NEW m \in Maintainer, Step(m) PROVE UNCHANGED published
    BY <2>1 DEF Step, CheckClone, WriteVersion, AddFile, MakeCommit, MakeTag, PushBranch,
       PushTag, Untag, Reset, Restore, control
  <2>2. ASSUME NEW m \in Maintainer,
               \/ CallFails(m) \/ AnswerLost(m) \/ Kill(m) \/ PushWork(m) \/ Discard(m) \/ Pull(m)
               \/ \E w \in Version, push \in BOOLEAN : Prepare(m, w, push)
        PROVE  UNCHANGED published
    BY <2>2 DEF CallFails, AnswerLost, Kill, PushWork, Discard, Pull, Prepare, control
  <2>3. ASSUME NEW w \in Version, Gate(w) PROVE v \in published \/ v = w
    BY <2>3 DEF Gate
  <2>4. ASSUME NEW w \in Version, NEW c \in Commits, NEW how \in Ways, TagByHand(w, c, how)
        PROVE  UNCHANGED published
    BY <2>4 DEF TagByHand
  <2>5. CASE UNCHANGED vars  BY <2>5 DEF vars, control
  <2> QED BY <2>1, <2>2, <2>3, <2>4, <2>5 DEF Next
<1>2. v \in Version /\ released[v] # None /\ Holds(released[v]) = v /\ byHand[v] # "light"
  <2>1. CASE v \in published  BY <2>1 DEF PublishedIsTagged, PrepareInv, TypeOK
  <2>2. CASE v \in Version /\ Gate(v)  BY <2>2 DEF Gate
  <2> QED BY <1>1, <2>1, <2>2
<1>3. released[v] \in Commits  BY <1>2 DEF PrepareInv, TypeOK, Tags
<1>4. released'[v] = released[v] /\ commits'[released[v]] = commits[released[v]]
  BY <1>2, <1>3, NextGrows DEF Grows, Extended
<1>5. byHand'[v] = byHand[v]  BY <1>2, WayStays
<1> QED BY <1>2, <1>4, <1>5 DEF Holds

\* What each step of a prepare has done to its clone and to the origin, and that what
\* passed the gate keeps an annotated tag at a commit that holds its version, whether
\* prepare made the tag or a maintainer did, at any commit, for any maintainers,
\* versions and numbers of faults and of other pushes.
THEOREM ReleaseInvariant == Spec => []ReleaseInv
<1>1. Init => PublishedIsTagged  BY DEF Init, PublishedIsTagged
<1> QED BY <1>1, PublishedStaysTagged, PrepareInvariant, PTL DEF Spec, ReleaseInv

\* Who changes the record of a prepare.
LEMMA RecordChanges ==
  ASSUME TypeOK, NEW m \in Maintainer, [Next]_vars, run'[m] # run[m]
  PROVE  \/ Step(m) \/ CallFails(m) \/ AnswerLost(m) \/ Kill(m)
         \/ \E v \in Version, push \in BOOLEAN : Prepare(m, v, push)
<1>1. ASSUME NEW o \in Maintainer, o # m, Step(o) PROVE FALSE
  BY <1>1 DEF TypeOK, Step, CheckClone, WriteVersion, AddFile, MakeCommit, MakeTag,
     PushBranch, PushTag, Untag, Reset, Restore, Become, Goto, End
<1>2. ASSUME NEW o \in Maintainer, o # m,
             \/ CallFails(o) \/ AnswerLost(o) \/ Kill(o)
             \/ \E v \in Version, push \in BOOLEAN : Prepare(o, v, push)
      PROVE  FALSE
  BY <1>2 DEF TypeOK, CallFails, AnswerLost, Kill, Prepare, Become, Goto, End
<1>3. ASSUME NEW o \in Maintainer, PushWork(o) \/ Discard(o) \/ Pull(o) PROVE FALSE
  BY <1>3 DEF PushWork, Discard, Pull, process
<1>4. ASSUME NEW v \in Version, Gate(v) \/ \E c \in Commits, how \in Ways : TagByHand(v, c, how)
      PROVE  FALSE
  BY <1>4 DEF Gate, TagByHand, process
<1>5. ~UNCHANGED vars  BY DEF vars, process
<1> QED BY <1>1, <1>2, <1>3, <1>4, <1>5 DEF Next

\* A step of a prepare that does not end it.
LEMMA GoesOn ==
  ASSUME TypeOK, NEW m \in Maintainer, NEW step \in Steps, step # "idle", Goto(m, step)
  PROVE  run'[m].pc # "idle"
BY GotoIs

\* The steps that end a prepare, and what they report.
LEMMA EndsWith ==
  ASSUME TypeOK, NEW m \in Maintainer, [Next]_vars, run'[m] # run[m], At(m, "idle")'
  PROVE  \/ PushTag(m) /\ TagIsNew(m) /\ run'[m].result = "pushed"
         \/ Restore(m) /\ run'[m].result = "failed"
         \/ At(m, "look") /\ UNCHANGED clones /\ run'[m].result = "failed"
         \/ run'[m].result \in {"ready", "broken", "killed"}
<1>0. run'[m].pc = "idle"  BY DEF At
<1>1. CASE CheckClone(m)
  <2>1. CASE End(m, "failed")  BY <1>1, <2>1, EndIs DEF CheckClone, Results
  <2>2. CASE Become(m, [run[m] EXCEPT !.pc = "write", !.head = head[m], !.file = file[m]])
    BY <1>0, <2>2 DEF Become, TypeOK, Run
  <2> QED BY <1>1, <2>1, <2>2 DEF CheckClone
<1>2. CASE WriteVersion(m) \/ AddFile(m) \/ Untag(m) \/ Reset(m) \/ PushBranch(m)
  BY <1>0, <1>2, GoesOn DEF WriteVersion, AddFile, Untag, Reset, PushBranch, Steps
<1>3. CASE MakeCommit(m)
  <2>1. CASE Goto(m, "untag")  BY <1>0, <2>1, GoesOn DEF Steps
  <2>2. CASE Become(m, [run[m] EXCEPT !.pc = "tag", !.made = Len(commits) + 1])
    BY <1>0, <2>2 DEF Become, TypeOK, Run
  <2> QED BY <1>3, <2>1, <2>2 DEF MakeCommit
<1>4. CASE MakeTag(m)
  <2>1. CASE End(m, "ready")  BY <2>1, EndIs DEF Results
  <2>2. CASE Become(m, [run[m] EXCEPT !.pc = "pushbranch", !.tagged = TRUE])
    BY <1>0, <2>2 DEF Become, TypeOK, Run
  <2> QED BY <1>4, <2>1, <2>2 DEF MakeTag
<1>5. CASE PushTag(m)
  <2>1. CASE TagIsNew(m)  BY <1>5, <2>1, EndIs DEF PushTag, Results
  <2>2. CASE ~TagIsNew(m)  BY <1>0, <1>5, <2>2, GoesOn DEF PushTag, Steps
  <2> QED BY <2>1, <2>2
<1>6. CASE Restore(m)  BY <1>6, EndIs DEF Restore, Results
<1>7. CASE CallFails(m)
  <2>1. CASE At(m, "look") /\ End(m, "failed")
    BY <1>7, <2>1, EndIs DEF CallFails, Results
  <2>2. CASE Goto(m, "untag")  BY <1>0, <2>2, GoesOn DEF Steps
  <2>3. CASE End(m, "broken")  BY <2>3, EndIs DEF Results
  <2> QED BY <1>7, <2>1, <2>2, <2>3 DEF CallFails
<1>8. CASE AnswerLost(m)  BY <1>0, <1>8, GoesOn DEF AnswerLost, Steps
<1>9. CASE Kill(m)  BY <1>9, EndIs DEF Kill, Results
<1>10. CASE \E v \in Version, push \in BOOLEAN : Prepare(m, v, push)
  BY <1>0, <1>10 DEF Prepare, TypeOK, Idle
<1> QED BY <1>1, <1>2, <1>3, <1>4, <1>5, <1>6, <1>7, <1>8, <1>9, <1>10, RecordChanges DEF Step

\* What a prepare that reported its release left at the origin.
IsReleased(m) ==
  LET c == released[run[m].version]
  IN  c # None /\ c = run[m].made /\ Holds(c) = run[m].version /\ c \in Past(branch)

\* When the tag is taken, the origin has the commit of this prepare on its branch.
LEMMA PushIsReleased ==
  ASSUME PrepareInv, NEW m \in Maintainer, PushTag(m), TagIsNew(m) PROVE IsReleased(m)'
<1> USE DEF PrepareInv
<1>1. /\ At(m, "pushtag") /\ TakeTag(m) /\ End(m, "pushed")
      /\ UNCHANGED <<commits, branch, clones>>
  BY DEF PushTag
<1>2. /\ run[m].version \in Version /\ before[m].tags \in Tags /\ head[m] \in Commits
      /\ released \in Tags /\ None \notin Commits
  BY CommitsAre DEF TypeOK, Run, Clone
<1>3. /\ tags[m] = [before[m].tags EXCEPT ![run[m].version] = head[m]]
      /\ head[m] \in Past(branch) /\ run[m].made = head[m] /\ Holds(head[m]) = run[m].version
  BY <1>1 DEF RunInv, At
<1>4. released'[run[m].version] = head[m]
  BY <1>1, <1>2, <1>3 DEF TakeTag, Tags
<1>5. run'[m].version = run[m].version /\ run'[m].made = run[m].made
  BY <1>1, EndIs DEF Results
<1>6. released'[run'[m].version] = head[m] /\ Holds(head[m])' = Holds(head[m])
      /\ Past(branch)' = Past(branch)
  BY <1>1, <1>4, <1>5 DEF Holds, Past, clones
<1>7. UNCHANGED head  BY <1>1 DEF clones
<1> QED BY <1>2, <1>3, <1>5, <1>6, <1>7 DEF IsReleased, Holds

\* What was released stays so, since the origin only grows.
LEMMA ReleasedStays ==
  ASSUME PrepareInv, NEW m \in Maintainer, IsReleased(m), Grows, run'[m] = run[m]
  PROVE  IsReleased(m)'
<1>1. run[m].version \in Version /\ released \in Tags  BY DEF PrepareInv, TypeOK, Run
<1> DEFINE c == released[run[m].version]
<1>2. c # None /\ c = run[m].made /\ Holds(c) = run[m].version /\ c \in Past(branch)
  BY DEF IsReleased
<1>3. c \in Commits  BY <1>1, <1>2 DEF Tags
<1>4. released'[run'[m].version] = c  BY <1>1, <1>2 DEF Grows
<1> HIDE DEF c
<1>5. commits'[c] = commits[c] /\ c \in Past(branch)'
  BY <1>2, <1>3 DEF Grows, Extended, Ahead
<1> QED BY <1>2, <1>4, <1>5 DEF IsReleased, Holds

\* A release that prepare reported as pushed is at the origin, with the commit it
\* made, and stays there, for any maintainers, versions and faults.
THEOREM PushedIsReleasedAlways == Spec => []PushedIsReleased
<1>1. Init => PushedIsReleased  BY DEF Init, PushedIsReleased, Idle
<1>2. PrepareInv /\ PushedIsReleased /\ [Next]_vars => PushedIsReleased'
  <2> SUFFICES ASSUME PrepareInv, PushedIsReleased, [Next]_vars,
                      NEW m \in Maintainer, At(m, "idle")', run'[m].result = "pushed"
               PROVE  IsReleased(m)'
    BY DEF PushedIsReleased, IsReleased
  <2>1. CASE run'[m] = run[m]
    <3>1. IsReleased(m)  BY <2>1 DEF PushedIsReleased, IsReleased, At
    <3> QED BY <2>1, <3>1, NextGrows, ReleasedStays
  <2>2. CASE run'[m] # run[m]
    BY <2>2, EndsWith, PushIsReleased DEF PrepareInv
  <2> QED BY <2>1, <2>2
<1> QED BY <1>1, <1>2, PrepareInvariant, PTL DEF Spec

\* A prepare that reports a failure has left HEAD, the index, the version file and
\* the tags of its clone as it found them, for any maintainers, versions and faults.
THEOREM FailureIsUndoneAlways == Spec => FailureIsUndone
<1> DEFINE Undone == \A m \in Maintainer :
             ~At(m, "idle") /\ At(m, "idle")' /\ run'[m].result = "failed" =>
               CloneOf(m)' = before[m]
<1>1. PrepareInv /\ [Next]_vars => [Undone]_vars
  <2> SUFFICES ASSUME PrepareInv, [Next]_vars, NEW m \in Maintainer,
                      ~At(m, "idle"), At(m, "idle")', run'[m].result = "failed"
               PROVE  CloneOf(m)' = before[m]
    OBVIOUS
  <2>1. run'[m] # run[m]  BY DEF At
  <2>2. before[m] = [head |-> before[m].head, index |-> before[m].index,
                     file |-> before[m].file, tags |-> before[m].tags]
    BY DEF PrepareInv, TypeOK, Clone
  <2>3. CASE At(m, "look") /\ UNCHANGED clones
    <3>1. /\ head[m] = before[m].head /\ index[m] = before[m].index
          /\ file[m] = before[m].file /\ tags[m] = before[m].tags
      BY <2>3 DEF PrepareInv, RunInv, At
    <3> QED BY <2>2, <2>3, <3>1 DEF CloneOf, clones
  <2>4. CASE Restore(m)
    <3>1. /\ head[m] = before[m].head /\ index[m] = before[m].index
          /\ tags[m] = before[m].tags /\ run[m].file = before[m].file
      BY <2>4 DEF PrepareInv, RunInv, At, Restore, Steps
    <3>2. file'[m] = run[m].file /\ UNCHANGED <<head, index, tags>>
      BY <2>4 DEF Restore, PrepareInv, TypeOK
    <3> QED BY <2>2, <3>1, <3>2 DEF CloneOf
  <2> QED BY <2>1, <2>3, <2>4, EndsWith DEF PrepareInv
<1> QED BY <1>1, PrepareInvariant, PTL DEF Spec, FailureIsUndone
=============================================================================
