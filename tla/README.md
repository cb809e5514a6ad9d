# Verification of git-history-sanitize

`git-history-sanitize` copies a Git repository, cuts and filters its history and
publishes the result, with a receipt if one is asked for, at paths that must not
exist yet. This directory holds TLA+ modules for the parts of the program that are
hard to test, the TLC configurations that check them on small instances, and
theorems about them that TLAPS checks. Paths of the program below are relative
to `src/git_history_sanitize/`, except `scripts/`, which is the repository's.

Run `tlc -config Rewrite_publish.cfg MCRewrite` to check a model and
`tlapm ReservationProofs.tla` to check a proof.

## Inventory

| part | state it keeps | operations | what makes it correct |
|---|---|---|---|
| workspace lifecycle (`workspace.py`) | a private directory beside the destination: lock file, manifest, staged work; the lock is an `flock` shared with every descendant | `create`, `create_file`, `close`, `_mark_interrupted`, `list_workspaces`, `clean_workspace` | nothing in use is removed or reported as stale; an interrupted one is kept; what cannot be validated is never touched; what can be cleaned gets cleaned |
| destination reservation (`destination.py`) | one lock file per directory and case-folded name, created once and never removed | `validate`, `reserve` | two rewrites, or what they left running, never work on one destination; none waits for ever; a crash blocks nobody |
| rewrite orchestration (`engine.py`) | the staged clones, two publication flags, an `ExitStack` of workspaces | `plan`, `rewrite` | what a receipt binds is what was rewritten; success means nothing is left staged |
| publication (`publication.py`) | directory entries and their durability | `publish`, `sync_*` | a destination appears whole, replaces nothing, survives a power loss with its receipt |
| command line (`cli.py`) | signal handlers | `main` | the first signal unwinds; what is reported of the destinations is true |
| child processes (`git.py`, `verify.py`) | inherited locks, registered process groups | `run`, `start_process`, `terminate_process`, `_dependency_output`, `_object_body_chunks` | a result is whole; every child is stopped or keeps the locks; stopping ends and reaches no other group |
| repository inspection (`git.py`) | none | discovery, `source_state`, `retained_refs`, `clone_to` | reads one repository, though at several moments |
| analysis and compaction (`rewrite_analysis.py`, `compact.py`, `cleanup.py`) | a mapping of commits, recovery refs | `create`, `compact`, `restore_selected_components`, `cleanup` | the output graph is the retained subgraph with synthetic roots, and nothing else is left in the database |
| path filtering (`filtering.py`) | none | callback, predicates | filter, plan and verifier agree on the retained paths |
| policy (`policy.py`), source scope (`source_scope.py`) | none | `from_text`, `inspect_source` | what is accepted has one meaning for every later command |
| verification (`verify.py`), receipt (`receipt.py`), scope metadata (`scope_metadata.py`) | the receipt and scope files | `verify`, `_verify_receipt`, `read`, `write` | what is accepted satisfies the policy and comes from the source that the receipt names; what the program makes is accepted |
| forbidden content (`forbidden.py`) | pending bytes, the automaton, its state between chunks | `read_records`, `collect`, `Matcher`, `feed` | looks for exactly the given records and finds exactly what contains one |
| release script (`scripts/release.py`) | version file, commit, tag, branch and tag at the origin | `prepare`, `check --tag` | a failure is undone; what is reported as pushed is what the gate finds |
| hooks, reporting, toolchain manifest, other CI scripts | none | copy, parse, format | not modelled: input and output only |

How they interact. `rewrite` validates its destinations, reserves them, and inside
the reservation creates a workspace beside the output, and another one beside the
receipt if that has another parent. `hold_process_lock` makes every child that Git
operations start inherit the reservation's and the workspaces' lock descriptors;
since an `flock` belongs to the open file description, those locks live until the
last descendant is gone. `main` turns the first SIGINT or SIGTERM into an
`InterruptionError` raised wherever Python is, and the second into default
termination. `workspace list` and `workspace clean` run beside all of this and see
only the file system.

The hard behaviours: any two system calls of a rewrite, its descendants, another
rewrite, a listing or a cleaning may be interleaved; a signal may come between any
two steps, also while unwinding; any call may fail; SIGKILL and power loss; the
source moves while it is read; policy, source, output and receipt change between
the commands that read them; chunks end anywhere; several maintainers push to one
origin. `PROJECT.json` lists each hazard at its line.

## Modules

| module | models | composed with |
|---|---|---|
| `Workspace` | one workspace: owner, children, commands | the lock it describes is what `Rewrite` takes as open, removed, marked or left |
| `Reservation` | several rewrites taking reservations | its `body` is what `Rewrite` models in detail |
| `Publication` | abstract: what README.md promises of the destinations | implemented by `Rewrite` |
| `Rewrite` | one rewrite from the analysis to the exit code | `Promise == INSTANCE Publication` |
| `ChildProcess` | one Git command, version record or object scan | the children of `Workspace` and `Reservation`, and the failing steps of `Rewrite` |
| `History` | the commit graph from the source to the verdict | the content of what `Rewrite` stages and publishes |
| `Forbidden` | collecting patterns, building the matcher, scanning bodies | the check `content.forbidden` of `Acceptance` and `History`'s verdicts |
| `PathRules` | valid lists of rules and everybody who decides by them (no state) | used by `Acceptance` |
| `Acceptance` | policy, source, plan, rewrite, receipt, scope file and verdict, a command a step | EXTENDS `PathRules`; its `Rewrite` is what `Rewrite` and `History` do in steps |
| `Release` | `prepare` of several maintainers, one origin, the release gate | |
| `MC...` | constants for TLC | |
| `...Proofs` | theorems | |

**Workspace.** A step is a system call, or several that no other process can tell
apart. `linked` is the directory's name in the parent, `files` the names in it,
`manifest` its content (`torn` from `O_TRUNC` or creation until the write is
complete), `flock` the process whose file description holds the lock, `opened` the
processes with a descriptor of it and `heirs` the live children, which share the
owner's. `MakeDirectory` to `SyncCreated` are `create`; `TruncateManifest` to
`SyncMarked` are `_mark_interrupted`; `Scan`, `Unlink` and `RemoveDirectory` are
`_remove_root` for the owner and for a cleaning command alike; `Begin` to
`CleanFails` are `list_workspaces` and `clean_workspace`. `Signal` raises in each
of these places what the code raises there: create() removes and re-raises, the
body marks, a removal becomes a `WorkspaceError`. Commands are repeated without
bound. The nested content of the directory is one name, `staged`; ownership, mode
and schema checks are part of `ValidManifest` and not told apart.

**Reservation.** A path has a key, the sorted tuple the code locks by. `entry` is
the lock file in the directory, numbered by generation, because an administrator
may remove a lock file (README.md asks to stop all writers first; `RemoveLock`
only asks that nobody has it locked). `holder` is per inode, so that two rewrites
with locks on different generations are possible states of the model;
`_validate_lock` is `Current`. Descendants are `heirs`, as above. `Fail` stands
for anything that ends the body early.

**Rewrite.** One action per step of `_rewrite_reserved`. The source has three parts
that gain commits each for itself: HEAD's branch, which the policy always selects, the other
selected references, and those it does not select. `analysed`, `head`, `refs` and
`cloned` are what each read saw of the parts it looks at: `CheckClone` compares HEAD,
the scope of a receipt the selected parts, its fingerprint HEAD and all. `synced` is
staged content that is durable, `durable` the published entries whose directory
was synchronized, `torn` what a power loss left without content. `Fails`,
`CloseFails` and `ReportFails` are failing calls; `Raise` starts the unwinding,
`Close(w)` is `__exit__` of each workspace, receipt first; `PublicationState` is
the `except PublicationError` of `_rewrite_reserved` and `Report` is `main`.

**Publication** says when a destination may appear, what a report may say and
what a power loss may take: never the receipt without the output, and nothing
once success was reported. The refinement maps `outcome` to the process's state.

**ChildProcess.** `leader` is the command as its parent sees it, `helper` another
process of its group, `holds` who has the write end of the pipe: reading ends when
nobody has, which is not when the command exits. `caller` tells `run`,
`_dependency_output` (`read`: with a deadline and a limit) and `_object_body_chunks`
(`scan`: with a consumer that may stop early) apart. `Poll` to `Reap` are
`terminate_process`; `Send` is `killpg`, or `terminate` and `kill` where that is
not permitted. `Signal` may come at any position; `Unwind` says where a handler
or `finally` takes it, and where none does: in `start_process`, in the lines
between it and the `try`, and in `terminate_process` itself. `where` remembers the
position for the properties. Object scans run in `verify`, where `_rewrite_signals` is
not installed: `Signal` is there the `KeyboardInterrupt` of a SIGINT, which the same
`finally` meets, and `DeadlySignal` any SIGTERM.

**History.** A tree is the content of its allowed and of its removed paths, an
object is named for the source commit that it stands for (`Original`, `Rewritten`
or the `Empty` root that comes back), `db` is the object database and `refs` its
references, recovery ones included. `Analyse` to `Attest` are the steps of
`_rewrite_reserved` that change the staged repository, in its order; `Clean`
stands for the two cleanups and the bare clone between them. `Survive` is
git filter-repo, which is not part of the repository: it drops what is removed,
prunes commits that become empty or whose parents moved onto each other, and moves
references. `Tamper` is one change by somebody else to a finished output, and
`Verify` the verdict.

**Forbidden.** A node of the trie is the text that leads to it, which is what
`_next` makes of it, so `failure` and `terminal` are functions and sets of texts.
`ReadChunk` to `EndStream` are `read_records`, whose `pending` holds what is not
yet a record; `StartValidation` and `Validate` are `_validated`, which counts
again; `EndCollect` is the end of `collect` and the first half of `Matcher`'s
constructor; `Dequeue` to `Link` its breadth-first loop with the walk along
failures; `NextBody` to `EndScan` are the scan of objects and hooks, whose
bodies come in chunks, with `Matcher.feed` byte by byte. The queue is a set from
which the nearest node to the root is taken: that is what a first-in first-out
queue of a trie delivers, and the order among equals is left open.

**PathRules.** A path or a rule is the sequence of segments that `split("/")`
makes. Each place that decides is an operator of its own, written the way that
place does it: `IsRetainedPath` (plan), `IsRemoved` with `IsFiltered` (callback and
caller), `PathAccepted` (verifier), `MatchedBy` (effects). `Retained` is README's
predicate.

**Acceptance.** `Accepted` is `Policy.from_text` on a policy whose YAML is parsed;
`Inspected`, `Analysable`, `Descriptors` and `Fingerprint` are what the program
reads of a source; `Output`, `Receipt` and `ScopeFile` what a rewrite makes;
`Evidence`, `ScopeAccepted` and `Judge` what `verify` asks, in its order. The
history is a line of commits, because merges are `History`'s; times are half
seconds in the policy and seconds in commits, which is what rounding is about.
A digest is the value it digests. `Tamper` (one `Damage`), `OlderRelease`, `EditPolicy` and
`ChangeSource` are what happens to the artifacts between commands.

**Release.** `prepare` up to the origin's answer, a Git command a step; a clone is
its HEAD, index, version file and tags. `Untag`, `Reset` and `Restore` are the
`except` branch. `Gate` is `check --tag` in `release.yml`, for any tag that reaches
the origin. Building and validating artifacts only reads: it is a call that
may fail. Maintainers also push other work, pull, discard and tag by hand: annotated
or not, and any commit, also one that no branch of the origin leads to. `byHand`
remembers which tags they made.

## Runs

| run | instance | shows |
|---|---|---|
| `workspace_safety` | two children, two commands that list or clean, two faults, two signals | `Inv` (types, who has the lock, and what is in the directory and the manifest), `RemovalExclusive`, `NoCleanWhileInUse`, `StaleIsFinal`, `RetentionHolds` |
| `workspace_live` | two cleaning commands, one child, one fault | `ReleasedGetsCleaned` |
| `reservation` | two rewrites; `a`, `A` (one key) and `b`; one lock file removed, one foreign writer, one kill | `Inv` (types, `ReservationInv`, and who can hold a lock at all), `MutualExclusion`, `DestinationStaysFree`, `NobodyIsBlocked` |
| `rewrite` | no receipt, one beside the output, one apart; both kinds of file system; two commits anywhere in the source, two faults, one signal | `Inv` (what was read, staged, published, flagged and reported at each step), `PublicationPromise` (refinement), `PublishedIsWhole`, `EvidenceIsTrue`, `StagingIsSettled` (how each workspace ends, and what the exit says of it), `RewriteEnds` |
| `child_process` | the three callers; one helper; any of the two ignores SIGTERM; an output limit of one chunk, two failing calls, two signals | `Inv` (types and `CallInv`), `ResultIsWhole`, `OnlyLateSignalsOrphan`, `SignalsOwnGroup`, `CallsEnd` |
| `history` | every graph of three commits, merges in both orders, every content, two references, skewed clocks, shallow and partial sources, seven policies, one change by somebody else | `Inv` (which commits in which form are in the database and behind the references at each step), `OnlyRetainedObjects`, `ReferencesKeepContent`, `AncestryPreserved`, `TouchedMessagesGone`, `VerdictHolds` |
| `forbidden` | every text of up to six bytes as one stream or three as two, with arguments; five sets of overlapping patterns over every pair of bodies of up to four and two bytes; chunks of two, records of up to three, five in all | `Inv` (what every loop keeps), `InputsExact`, `VerdictExact`, `ScanEnds` |
| `acceptance` | every pair of short rule lists over three sources; and thirty-odd policies over nine sources, with every mode, kind of cutoff and selection; two rewrites and one change to policy, source, output, scope file or receipt | `Inv` (how every artifact was made, and what a report, an outcome and a verdict are of), `RulesAgree`, `PlanTrue`, `VerdictSound`, `OwnAccepted` |
| `release` | two maintainers, two versions, two commits beside the first, one fault, one other piece of work or tag made by hand | `ReleaseInv` (what every step of `prepare` has done, and what the gate let through), `PushedIsReleased`, `FailureIsUndone`, `ReleasesComplete` |
| `pruned_root`, `tampered_scope`, `release_procedure` | the smallest that shows it | where the code does not do what a document says, see below |

Bounds. Two commands and the owner are every pair of lockers, and a third adds only
another of the same kind; two children distinguish the last heir from the others.
Two faults allow a failure and a second one while unwinding from it. Two rewrites
and one removed lock file are enough for two generations of a lock to be held at
once, which is what the second check prevents; the theorems hold for any number.
Two commits, in one part of the source or in two, make three reads of a part all
different. Three commits are the smallest graph with a merge, a frontier of two roots and a pruned commit between
two others; two references are on one component or two. One helper is enough to
tell the group from its leader. One signal unwinds and
the second kills, so no third matters.

In `forbidden`, chunks of two bytes make records and matches that lie in one
chunk, end where it ends, and span two or three; a limit of three is one more
than a chunk and the total of five less than two records. Patterns of three bytes
are the shortest whose failure walks take more than one step, and the theorem has
no bound. In `acceptance` two rewrites with a change of
policy or source between them are what it takes to exchange outputs and receipts,
and one change to an artifact is what a verdict must notice; two levels of paths
give exact and directory rules that match, shadow each other or do not. In `release`
two maintainers and two versions are every race for one tag and for one branch;
a second fault only hits the undoing of the first, which `CallFails` reaches by a failing push that `PushBranch` refuses.

Fairness. The operating system schedules a running process and lock probes do not
block, so each process has weak fairness on its own steps; Git subprocesses end.
Nothing is fair that depends on a failure, a signal or the environment. In
`Reservation` descendants need never exit. `workspace_live` assumes that an
operator repeats the command and that children exit, since nothing may be cleaned
before.

In `ChildProcess` the caller goes on, time passes, and a process that was sent
SIGKILL, or SIGTERM without ignoring it, ends (`Doomed`). Nothing makes a command
that is left alone write or exit, so that `run` may wait for ever, as it may in
the code.

`Forbidden` is one thread that waits for nothing but reads, so its next-state
relation is fair. In `Release` a prepare goes on by itself, and a workflow starts
for each tag; what maintainers do by hand is not fair.

Assumptions about what is outside. `EvidenceIsTrue` speaks of the selected references, and
assumes a source that only gains commits: were it moved away and back between two
reads, equal states would not mean an unchanged source. `VerdictHolds` assumes that
no source commit has the prefix message as its own, since the message is what
`verify` knows a synthetic root by, and that somebody made one change to the output
out of those of `Tamper`. `TagsFollowBranch` speaks of tags that `prepare` pushed.

## Proofs

Every safety invariant and every action property that a run checks is a theorem
here, for every value of the constants that the modules' assumptions allow: any
number of processes, commits, faults, any rules, texts, sizes. The properties are
seldom inductive; each module has an invariant `Inv` (or `ReleaseInv`) that is, and
that its run checks. A proof that it is kept has a lemma or a step for each action.

- `WorkspaceProofs`. `LockInv`: the flock belongs to the owner from before the
  manifest exists until the owner and its heirs are gone, or to the one client that
  took it afterwards. Whether a client may remove depends on who could have had the
  lock when it read the manifest, which no property mentions. `FilesInv` and
  `MarkedInv` say what is in the directory and the manifest at each step of marking
  and removing. From these: `CreatorNeverBlockedAlways`, `RemovalExclusiveAlways`,
  `NoCleanWhileInUseAlways`, `StaleIsFinalAlways`, `RetentionHoldsAlways`.
- `ReservationProofs`. `ReservationInv`: every key a rewrite has taken is locked, by
  it or its heirs, on the lock file that is in the directory now. A lock file
  somebody holds is never removed, so a second rewrite can open no other, and
  `MutualExclusionAlways` follows. `DestinationStaysFreeAlways` uses it for the step
  of another rewrite that publishes: it works on other keys. `HeldInv` says who can
  hold an inode, from which `BusyMeansContendedAlways`: whoever is refused as busy
  met another live rewrite, or its children, that wants the same key.
- `ChildProcessProofs`. `CallInv` is what is known at each position of a call:
  `WholeResults` is about the end of a call and was decided when the pipe was
  drained, `OwnGroupOnly` is about `term` and `kill` and was decided by `Poll`, and
  `OrphansOnlyByLateSignals` remembers where a signal or a failure came.
- `RewriteProofs`. The invariant has a part for the order of the reads (`ReadInv`),
  for what is staged and synchronized (`StageInv`), for what is at the destinations
  and durable (`PlaceInv`), for the flags between a rename and the report
  (`FlagInv`), for how it ends (`EndInv`) and for what becomes of the workspaces and
  what the error tells of them (`CloseInv`). `PublishedIsWholeAlways`,
  `EvidenceIsTrueAlways` and `StagingIsSettledAlways` are read off it.
  `ImplementsPublication` is the refinement: a step that publishes, ends, or loses
  power is that step of `Publication`, and every other one is a stutter; the
  invariant is what makes the guards of the abstract steps true.
- `HistoryProofs`. The model's recursive functions (reachability, what pruning makes
  of a commit) are first shown to exist, by a lemma on functions over the commits up
  to a number, from the least-number principle; closures are least closed sets.
  The invariant names for every step the shapes of the objects in the database and
  of the commits behind references. `OnlyRetainedObjectsAlways`,
  `ReferencesKeepContentAlways` and `TouchedMessagesGoneAlways` follow from what each
  pruning does to one commit, `AncestryPreservedAlways` from paths that survive it,
  `VerdictHoldsAlways` from what `Verify` asked of whatever `Tamper` left.
- `ForbiddenProofs`. One loop after the other: what is pending is the stream from the
  last cut on, with the bytes counted where they stand in the stream; the nodes are
  closed under prefixes and every node nearer to the root than the queue has its
  longest proper suffix as failure; the state is the longest node that what was fed
  ends with. `LongestGoesOn` is the step that building and scanning share. Hence
  `InputsExactAlways` and `VerdictExactAlways`.
- `AcceptanceProofs`. `AtMostOneMatches`: in a valid list no rule is a prefix of
  another, so at most one of its rules matches a path; hence `EverybodyDecidesAlike`,
  `EffectsAreExact`, and with `PolicyInvariant` `RulesAgreeAlways`. What a line of
  commits becomes is a recursive function again, and `RestoredLine` says by induction
  on the line what it makes of each commit. `ArtifactInvariant` keeps with every
  artifact the policy and the source it was made from and what its receipts say;
  `VerdictSoundAlways` and `OwnAcceptedAlways` go through `verify` in its order, and
  `PlanTrueAlways` compares the count of HEAD's paths with the tree it becomes.
- `ReleaseProofs`. `HistoryInv`, that commits know their ancestors, `TagsFollowBranch`,
  that tags of prepares lead to the branch, and `RunInv`, what a prepare has done to
  its clone at each step. `OriginOnlyGrows` is an action property of every step, and
  `PushedIsReleasedAlways` rests on it: what was true when the tag was taken cannot
  be undone by others. So does `PublishedIsTagged`, the part of `ReleaseInvariant`
  about the gate: what it saw of a tag stays true.
  `FailureIsUndoneAlways` is the last step of the `except` branch.

Assumptions. `Workspace`: the owner is no client. `Reservation`: a path has one key
and a rewrite one or two destinations. `ChildProcess`, `Rewrite`: the kinds of
callers, receipts and file systems. `History`: there is a commit, parents are
numbered before children, a shallow commit has no parents (Git hides them), a
policy keeps HEAD and a snapshot nothing else. `PathRules`, `Acceptance`: segments
are neither empty nor `.` or `..`, rules are lists of texts, a source's references
lead to its commits, and an id names a commit with its whole ancestry wherever it
occurs, as a digest does (`IdsAssumption`). `Forbidden`: a newline is a byte, and the
limit of a record and the size of a chunk are positive. `Release`: the version
of the first commit is a version. Beside these, that bounds are numbers.

What the attempts to prove found:

- In `Rewrite`, two cases of `PublicationState` overlapped, which leaves open which one
  holds; they are ordered now as the code asks them.
- In `Forbidden`, the invariant said what the trie and the scan are and nothing of how
  a stream is cut, which records were collected and which bytes the two totals
  stand for; without `CutInv`, `ValidatedInv` and `PatternsInv` it is true and not
  inductive.
- In `Acceptance`, `VerdictSound` claimed too much: a receipt of version 2 does not bind
  the name of HEAD's branch. And the model issued receipts of version 1 outside
  complete mode, which no release did.
- In `History` and `Acceptance`, what was a fold is a recursive function: an induction
  over its argument can be stated as a set of numbers, one over a fold cannot.

Only model-checked: liveness (`ReleasedGetsCleaned`, `NobodyIsBlocked` beyond
`BusyMeansContendedAlways`, `RewriteEnds`, `CallsEnd`, `ScanEnds`, `ReleasesComplete`),
because the prover has neither fairness nor `ENABLED`.

## Where code and documents differ

- `pruned_root`: when path filtering prunes a synthetic root and keeps a child of
  it, the child is a root without the prefix message, and the verification
  rejects what the rewrite made.
- `tampered_scope`: README.md:697-698 says that missing or tampered scope metadata
  is rejected; `read` compares the mode only, so that changed counts, or the
  coverage of another mode, are accepted.
- `release_procedure`: PUBLISHING_PLAN.md:251-258 prepares, reviews and then
  prepares with `--push`; the tag of the first step makes the last one fail.

Met while modelling, and shown by no run:

- A signal that arrives while the workspace is being removed ends as an ordinary
  failure with exit code 2 (`workspace.py:419`) and perhaps an unmarked remainder, where
  README.md:47-48 says that SIGINT and SIGTERM "retain the private workspace for
  inspection, and exit 130 or 143". `StagingIsSettled` says what remains of that:
  no signal and no workspace is passed over by a rewrite that reports success.
- Where directories cannot be synchronized, `Workspace.create` fails
  (`workspace.py:337`) although publication tolerates it.
- If the workspace cannot be removed after a failing synchronization of the parent,
  the error no longer says that the output is published (`workspace.py:426`).
- The check that the clone is of the analysed HEAD (`engine.py:186`) compares with
  a HEAD read after the analysis, and no other reference; without a receipt nothing
  looks again.
- The gate does not ask that a tag's commit is in the branch, so that a tag made by
  hand beside it can be released (`scripts/release.py:62`).
- Once the leader has exited nothing is sent to its group (`git.py:142`), so a
  helper that holds the pipe survives an interruption.
- A probe by one command makes another report `active` for a workspace nobody
  uses, and a signal between `mkdir` and `open` in `create` leaves an unmarked
  directory that `workspace clean` refuses.
- Newlines do not count for the total that `read_records` keeps, so that a stream
  of empty lines may be longer than the limit; empty records are rejected later.
- After the branch was pushed and the tag was not, `prepare` undoes its work in the
  clone but not at the origin: preparing the same version again finds, once
  pulled, nothing to commit and fails.

## Plan

Done: `Workspace`, `Reservation`, `Rewrite` with `Publication`, `ChildProcess`,
`History`, `Forbidden`, `PathRules`, `Acceptance`, `Release`, and a theorem for each of
their safety properties. What is left, in this order:

1. A property for the one hazard without one (`cli.py:187`): after the rename of the
   output, a signal or a report that cannot be written still changes the exit, and
   no document of the repository says what it should be.
2. Shorter proofs: the three longest (`HistoryProofs`, `ForbiddenProofs`,
   `AcceptanceProofs`) each prove facts about sequences and counts that could be one
   family of lemmas.
3. Of the parts modelled partly, the early refusals of a repository's configuration
   (grafts, replace refs, alternates), as preconditions of `History`'s sources.

## Not modelled

Hooks, the toolchain manifest and reporting copy a directory, parse a file or
format a document, and keep nothing between calls. The other CI scripts check the
text of workflow files; the container image, prototypes and examples are not part
of the installed program. Of the parts that are modelled partly: the YAML syntax
and the types of policy values, timestamps and reference names as texts, the
early refusals of grafts, replace refs and alternates, discovery of the
repository, and the canonical form of a receipt, each a predicate on one input
with nothing before or after it.
