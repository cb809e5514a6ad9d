------------------------------ MODULE Release ------------------------------
(***************************************************************************)
(* scripts/release.py: prepare, which writes the version, checks, commits, *)
(* tags and pushes, and undoes its work in the clone when something fails; *)
(* and check --tag, the gate of release.yml, which runs for every tag that *)
(* reaches the origin.  Several maintainers have clones of one origin.     *)
(***************************************************************************)
EXTENDS Naturals, Sequences, FiniteSets

CONSTANTS
  Maintainer,
  Version,      \* stable versions
  First,        \* the version in the first commit
  MaxCommits, MaxFaults, MaxWork

ASSUME VersionAssumption == First \in Version
ASSUME BoundsAssumption == {MaxCommits, MaxFaults, MaxWork} \subseteq Nat

VARIABLES
  commits,     \* each one's version file, and its ancestors with itself
  branch,      \* the branch at the origin
  released,    \* the tags at the origin
  byHand,      \* which of them were made by hand, and how
  head, index, file, tags,   \* of each clone: HEAD, staged and written version
  run,         \* the prepare of each maintainer, and what stays of one that ended
  before,      \* the clone when it began
  published,   \* the versions that passed the gate
  faults, work

clones == <<head, index, file, tags>>
origin == <<branch, released, byHand>>
process == <<run, before>>
control == <<published, faults, work>>
vars == <<commits, origin, clones, process, control>>

None == 0
NoTags == [v \in Version |-> None]
Idle == [pc |-> "idle", version |-> First, push |-> FALSE, head |-> 1, file |-> First,
         tagged |-> FALSE, made |-> None, result |-> "none"]
Fresh == [head |-> 1, index |-> First, file |-> First, tags |-> NoTags]
Commits == 1..Len(commits)
Holds(c) == commits[c].version
Past(c) == commits[c].past
CloneOf(m) == [head |-> head[m], index |-> index[m], file |-> file[m], tags |-> tags[m]]

Init ==
  /\ commits = <<[version |-> First, past |-> {1}]>>
  /\ branch = 1 /\ released = NoTags /\ byHand = [v \in Version |-> "no"]
  /\ head = [m \in Maintainer |-> 1]
  /\ index = [m \in Maintainer |-> First]
  /\ file = [m \in Maintainer |-> First]
  /\ tags = [m \in Maintainer |-> NoTags]
  /\ run = [m \in Maintainer |-> Idle]
  /\ before = [m \in Maintainer |-> Fresh]
  /\ published = {} /\ faults = 0 /\ work = 0

At(m, step) == run[m].pc = step
Become(m, r) == run' = [run EXCEPT ![m] = r] /\ UNCHANGED before
Goto(m, step) == Become(m, [run[m] EXCEPT !.pc = step])
\* What the process knew is gone; a maintainer knows what it reported, and finds
\* its commit.
End(m, result) ==
  /\ run' = [run EXCEPT ![m] =
       IF result = "failed" THEN [Idle EXCEPT !.result = result]
       ELSE [Idle EXCEPT !.result = result, !.version = run[m].version,
                                  !.head = run[m].head, !.made = run[m].made]]
  /\ before' = [before EXCEPT ![m] = Fresh]
Commit(parent, version) ==
  commits' = Append(commits, [version |-> version,
                              past |-> Past(parent) \cup {Len(commits) + 1}])
\* Room for a commit more than the prepares under way may still make.
Room == Len(commits) + Cardinality({m \in Maintainer : ~At(m, "idle") /\ run[m].made = None})
          < MaxCommits

-----------------------------------------------------------------------------
(* prepare.                                                                *)

Prepare(m, v, push) ==
  /\ At(m, "idle") /\ Room
  /\ run' = [run EXCEPT ![m] = [Idle EXCEPT !.pc = "look", !.version = v, !.push = push]]
  /\ before' = [before EXCEPT ![m] = CloneOf(m)]
  /\ UNCHANGED <<commits, origin, clones, published, faults, work>>

\* git status refuses a dirty clone; tag_exists and ls-remote look for the tag.
IsClean(m) == {index[m], file[m]} = {Holds(head[m])}
TagTaken(m, v) == tags[m][v] # None \/ released[v] # None

CheckClone(m) ==
  /\ At(m, "look")
  /\ IF ~IsClean(m) \/ TagTaken(m, run[m].version)
     THEN End(m, "failed")
     ELSE Become(m, [run[m] EXCEPT !.pc = "write", !.head = head[m], !.file = file[m]])
  /\ UNCHANGED <<commits, origin, clones, control>>

\* Then check and the release tests, which only read what is written.
WriteVersion(m) ==
  /\ At(m, "write")
  /\ file' = [file EXCEPT ![m] = run[m].version]
  /\ Goto(m, "add")
  /\ UNCHANGED <<commits, origin, head, index, tags, control>>

AddFile(m) ==
  /\ At(m, "add")
  /\ index' = [index EXCEPT ![m] = file[m]]
  /\ Goto(m, "commit")
  /\ UNCHANGED <<commits, origin, head, file, tags, control>>

\* Faulty variant: a commit with nothing staged is tried again.
CommitRetried(m) ==
  /\ At(m, "commit")
  /\ IF index[m] = Holds(head[m])
     THEN Goto(m, "write") /\ UNCHANGED <<commits, head>>
     ELSE /\ Commit(head[m], index[m])
          /\ head' = [head EXCEPT ![m] = Len(commits) + 1]
          /\ Become(m, [run[m] EXCEPT !.pc = "tag", !.made = Len(commits) + 1])
  /\ UNCHANGED <<origin, index, file, tags, control>>

\* git commit fails when nothing is staged.
MakeCommit(m) ==
  /\ At(m, "commit")
  /\ IF index[m] = Holds(head[m])
     THEN Goto(m, "untag") /\ UNCHANGED <<commits, head>>
     ELSE /\ Commit(head[m], index[m])
          /\ head' = [head EXCEPT ![m] = Len(commits) + 1]
          /\ Become(m, [run[m] EXCEPT !.pc = "tag", !.made = Len(commits) + 1])
  /\ UNCHANGED <<origin, index, file, tags, control>>

MakeTag(m) ==
  /\ At(m, "tag")
  /\ tags' = [tags EXCEPT ![m][run[m].version] = head[m]]
  /\ IF run[m].push THEN Become(m, [run[m] EXCEPT !.pc = "pushbranch", !.tagged = TRUE])
                    ELSE End(m, "ready")
  /\ UNCHANGED <<commits, origin, head, index, file, control>>

\* The origin takes a branch only if it is a fast-forward, and only new tags.
FastForward(m) == branch \in Past(head[m])
TagIsNew(m) == released[run[m].version] = None
TakeTag(m) ==
  released' = [released EXCEPT ![run[m].version] = tags[m][run[m].version]]

\* Faulty variant: the branch is forced.
PushForced(m) ==
  /\ At(m, "pushbranch")
  /\ branch' = head[m]
  /\ Goto(m, "pushtag")
  /\ UNCHANGED <<commits, released, byHand, clones, control>>

PushBranch(m) ==
  /\ At(m, "pushbranch")
  /\ IF FastForward(m) THEN branch' = head[m] /\ Goto(m, "pushtag")
                       ELSE UNCHANGED branch /\ Goto(m, "untag")
  /\ UNCHANGED <<commits, released, byHand, clones, control>>

PushTag(m) ==
  /\ At(m, "pushtag")
  /\ IF TagIsNew(m) THEN TakeTag(m) /\ End(m, "pushed")
                    ELSE UNCHANGED released /\ Goto(m, "untag")
  /\ UNCHANGED <<commits, branch, byHand, clones, control>>

\* except Exception: the tag, then HEAD and the index, then the file.
Untag(m) ==
  /\ At(m, "untag")
  /\ tags' = IF run[m].tagged THEN [tags EXCEPT ![m][run[m].version] = None] ELSE tags
  /\ Goto(m, "reset")
  /\ UNCHANGED <<commits, origin, head, index, file, control>>

\* Faulty variant: HEAD is reset and the index is not.
ResetSoft(m) ==
  /\ At(m, "reset")
  /\ head' = [head EXCEPT ![m] = run[m].head]
  /\ Goto(m, "restore")
  /\ UNCHANGED <<commits, origin, index, file, tags, control>>

Reset(m) ==
  /\ At(m, "reset")
  /\ head' = [head EXCEPT ![m] = run[m].head]
  /\ index' = [index EXCEPT ![m] = Holds(run[m].head)]
  /\ Goto(m, "restore")
  /\ UNCHANGED <<commits, origin, file, tags, control>>

Restore(m) ==
  /\ At(m, "restore")
  /\ file' = [file EXCEPT ![m] = run[m].file]
  /\ End(m, "failed")
  /\ UNCHANGED <<commits, origin, head, index, tags, control>>

-----------------------------------------------------------------------------
(* Faults.                                                                 *)

Fault == faults < MaxFaults /\ faults' = faults + 1

\* A command fails: before the try nothing is undone, in it everything is, and
\* what fails while undoing leaves the rest undone.
CallFails(m) ==
  /\ Fault
  /\ \/ At(m, "look") /\ End(m, "failed")
     \/ /\ run[m].pc \in {"write", "add", "commit", "tag", "pushbranch", "pushtag"}
        /\ Goto(m, "untag")
     \/ run[m].pc \in {"untag", "reset", "restore"} /\ End(m, "broken")
  /\ UNCHANGED <<commits, origin, clones, published, work>>

\* The origin takes what is pushed, and the answer does not arrive.
AnswerLost(m) ==
  /\ Fault
  /\ \/ At(m, "pushbranch") /\ FastForward(m) /\ branch' = head[m] /\ UNCHANGED released
     \/ At(m, "pushtag") /\ TagIsNew(m) /\ TakeTag(m) /\ UNCHANGED branch
  /\ Goto(m, "untag")
  /\ UNCHANGED <<commits, byHand, clones, published, work>>

\* A signal ends it; KeyboardInterrupt is no Exception either.
Kill(m) ==
  /\ Fault
  /\ ~At(m, "idle")
  /\ End(m, "killed")
  /\ UNCHANGED <<commits, origin, clones, published, work>>

-----------------------------------------------------------------------------
(* What maintainers do by hand, and release.yml.                           *)

Work == work < MaxWork /\ work' = work + 1
Rests(m) == At(m, "idle") /\ IsClean(m)

\* A change of something else, pushed.
PushWork(m) ==
  /\ Work
  /\ Rests(m) /\ FastForward(m) /\ Room
  /\ Commit(head[m], Holds(head[m]))
  /\ head' = [head EXCEPT ![m] = Len(commits) + 1]
  /\ branch' = Len(commits) + 1
  /\ UNCHANGED <<released, byHand, index, file, tags, process, published, faults>>

\* git reset --hard to HEAD, or to what a prepare began with, and its tag deleted.
Discard(m) ==
  /\ At(m, "idle")
  /\ \/ /\ ~IsClean(m)
        /\ UNCHANGED <<head, tags>>
     \/ /\ run[m].result \in {"ready", "killed", "broken"} /\ head[m] = run[m].made
        /\ head' = [head EXCEPT ![m] = run[m].head]
        /\ tags' = [tags EXCEPT ![m][run[m].version] = None]
  /\ index' = [index EXCEPT ![m] = Holds(head'[m])]
  /\ file' = [file EXCEPT ![m] = Holds(head'[m])]
  /\ UNCHANGED <<commits, origin, process, control>>

\* git pull of a clone that is behind; the tags of what it fetches come along.
Pull(m) ==
  /\ Rests(m) /\ head[m] \in Past(branch)
  /\ head' = [head EXCEPT ![m] = branch]
  /\ tags' = [tags EXCEPT ![m] =
       [v \in Version |-> IF @[v] = None /\ released[v] \in Past(branch)
                          THEN released[v] ELSE @[v]]]
  /\ index' = [index EXCEPT ![m] = Holds(branch)]
  /\ file' = [file EXCEPT ![m] = Holds(branch)]
  /\ UNCHANGED <<commits, origin, process, control>>

Ways == {"annotated", "light"}

\* A tag made by hand, annotated or not, and pushed with the commit it is made at,
\* which may be any.
TagByHand(v, c, how) ==
  /\ Work
  /\ released[v] = None
  /\ released' = [released EXCEPT ![v] = c]
  /\ byHand' = [byHand EXCEPT ![v] = how]
  /\ UNCHANGED <<commits, branch, clones, process, published, faults>>

\* Faulty variant: it is not asked whether the tag is annotated.
GateUnannotated(v) ==
  /\ released[v] # None /\ v \notin published
  /\ Holds(released[v]) = v
  /\ published' = published \cup {v}
  /\ UNCHANGED <<commits, origin, clones, process, faults, work>>

\* check --tag in a checkout of the tag: source_version, then validate_tag.
Gate(v) ==
  /\ released[v] # None /\ v \notin published
  /\ Holds(released[v]) = v
  /\ byHand[v] # "light"
  /\ published' = published \cup {v}
  /\ UNCHANGED <<commits, origin, clones, process, faults, work>>

Step(m) ==
  \/ CheckClone(m) \/ WriteVersion(m) \/ AddFile(m)
  \/ MakeCommit(m) \/ MakeTag(m) \/ PushBranch(m) \/ PushTag(m)
  \/ Untag(m) \/ Reset(m) \/ Restore(m)

Next ==
  \/ \E m \in Maintainer :
       \/ Step(m) \/ CallFails(m) \/ AnswerLost(m) \/ Kill(m)
       \/ PushWork(m) \/ Discard(m) \/ Pull(m)
       \/ \E v \in Version, push \in BOOLEAN : Prepare(m, v, push)
  \/ \E v \in Version : Gate(v) \/ \E c \in Commits, how \in Ways : TagByHand(v, c, how)

Spec == Init /\ [][Next]_vars

\* A prepare goes on by itself, and release.yml runs for each tag.
FairSpec == /\ Spec
            /\ \A m \in Maintainer : WF_vars(Step(m))
            /\ \A v \in Version : WF_vars(Gate(v))

-----------------------------------------------------------------------------
(* Properties.                                                             *)

Steps == {"idle", "look", "write", "add", "commit", "tag", "pushbranch",
          "pushtag", "untag", "reset", "restore"}
Results == {"none", "ready", "pushed", "failed", "broken", "killed"}
Run == [pc : Steps, version : Version, push : BOOLEAN, head : Commits, file : Version,
        tagged : BOOLEAN, made : Commits \cup {None}, result : Results]
Tags == [Version -> Commits \cup {None}]
Clone == [head : Commits, index : Version, file : Version, tags : Tags]

TypeOK ==
  /\ commits \in Seq([version : Version, past : SUBSET Nat]) /\ commits # <<>>
  /\ branch \in Commits /\ released \in Tags
  /\ byHand \in [Version -> Ways \cup {"no"}]
  /\ head \in [Maintainer -> Commits]
  /\ index \in [Maintainer -> Version] /\ file \in [Maintainer -> Version]
  /\ tags \in [Maintainer -> Tags]
  /\ run \in [Maintainer -> Run]
  /\ before \in [Maintainer -> Clone]
  /\ published \subseteq Version
  /\ faults \in 0..MaxFaults /\ work \in 0..MaxWork

\* Commits know their ancestors, and an ancestor's ancestors are theirs.
HistoryInv ==
  \A c \in Commits : c \in Past(c) /\ \A d \in Past(c) : d \in Commits /\ Past(d) \subseteq Past(c)

\* What a prepare has done to its clone so far.
RunInv(m) ==
  LET r == run[m]
      b == before[m]
      same(i, f) == head[m] = b.head /\ index[m] = i /\ file[m] = f /\ tags[m] = b.tags
      kept == r.head = b.head /\ r.file = b.file /\ {b.index, b.file} = {Holds(b.head)}
              /\ b.tags[r.version] = None
      made == r.made = head[m] /\ Holds(head[m]) = r.version
              /\ Past(head[m]) = Past(b.head) \cup {head[m]}
              /\ index[m] = r.version /\ file[m] = r.version
      tag == tags[m] = [b.tags EXCEPT ![r.version] = head[m]]
  IN  /\ r.pc = "look" => same(b.index, b.file) /\ ~r.tagged
      /\ r.pc \in Steps \ {"idle", "look"} => kept
      /\ r.pc = "write" => same(b.index, b.file) /\ ~r.tagged
      /\ r.pc = "add" => same(b.index, r.version) /\ ~r.tagged
      /\ r.pc = "commit" => same(r.version, r.version) /\ ~r.tagged
      /\ r.pc = "tag" => made /\ tags[m] = b.tags /\ ~r.tagged
      /\ r.pc \in {"pushbranch", "pushtag"} => made /\ tag /\ r.tagged
      /\ r.pc = "pushtag" => head[m] \in Past(branch)
      /\ r.pc = "untag" => tags[m] = IF r.tagged
                                     THEN [b.tags EXCEPT ![r.version] = tags[m][r.version]]
                                     ELSE b.tags
      /\ r.pc \in {"reset", "restore"} => tags[m] = b.tags
      /\ r.pc = "restore" => head[m] = b.head /\ index[m] = b.index

\* Every tag of a prepare at the origin leads to a commit of the branch there.
TagsFollowBranch ==
  \A v \in Version : released[v] # None /\ byHand[v] = "no" => released[v] \in Past(branch)

\* What passed the gate has an annotated tag at a commit that holds the version,
\* and keeps it: the check does not ask that the commit is in the branch.
PublishedIsTagged ==
  \A v \in published : released[v] # None /\ Holds(released[v]) = v /\ byHand[v] # "light"

\* A release reported as pushed is at the origin: its tag leads to the commit
\* that the prepare made, which holds the version and is in the branch, whatever
\* other maintainers push or tag.
PushedIsReleased ==
  \A m \in Maintainer :
    At(m, "idle") /\ run[m].result = "pushed" =>
      LET c == released[run[m].version]
      IN  c # None /\ c = run[m].made /\ Holds(c) = run[m].version /\ c \in Past(branch)

\* What each step of a prepare has done to its clone, and what the origin has of
\* it: pushing the branch before the tag is what keeps TagsFollowBranch.
PrepareInv ==
  /\ TypeOK
  /\ HistoryInv
  /\ TagsFollowBranch
  /\ \A m \in Maintainer : RunInv(m)

\* With it, what the gate let through among tags of prepares and tags of any kind
\* made by hand anywhere.
ReleaseInv == PrepareInv /\ PublishedIsTagged

\* A prepare that fails, at any step and for any reason, leaves HEAD, the index,
\* the version file and the tags of the clone as it found them.
FailureIsUndone ==
  [][\A m \in Maintainer : ~At(m, "idle") /\ At(m, "idle")' /\ run'[m].result = "failed" =>
       CloneOf(m)' = before[m]]_vars

\* Every prepare ends, and a release reported as pushed passes the gate, also
\* when more is pushed to the branch before the gate looks at it.
ReleasesComplete ==
  /\ \A m \in Maintainer : ~At(m, "idle") ~> At(m, "idle")
  /\ \A v \in Version :
       (\E m \in Maintainer : At(m, "idle") /\ run[m].result = "pushed" /\ run[m].version = v)
         ~> v \in published

\* PUBLISHING_PLAN.md:251-258: after prepare <version> and a review of the commit
\* and the tag it made, prepare <version> --push pushes that release.
Reviewed(m) ==
  LET v == run[m].version
  IN  tags[m][v] = head[m] /\ Holds(head[m]) = v /\ released[v] = None

ReviewedIsPushed ==
  [][\A m \in Maintainer :
       At(m, "look") /\ IsClean(m) /\ run[m].push /\ Reviewed(m) /\ UNCHANGED faults =>
         run'[m].result # "failed"]_vars
=============================================================================
