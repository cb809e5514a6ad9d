----------------------------- MODULE Workspace -----------------------------
(***************************************************************************)
(* One private workspace directory of git_history_sanitize/workspace.py:   *)
(* the rewrite that creates, uses and closes it (Owner), the processes the *)
(* rewrite started, which inherit its lock descriptor (Children), and the  *)
(* `workspace list` and `workspace clean` commands run beside it (Clients).*)
(*                                                                         *)
(* A step is one system call, or several that no other process can tell    *)
(* apart.  The lock file is created once, so its flock is one lock: an     *)
(* open file description holds it, and the owner's is shared with every    *)
(* live child.  Workspace identifiers are random and never reused.         *)
(***************************************************************************)
EXTENDS Naturals, FiniteSets

CONSTANTS
  Owner,      \* the rewrite process
  Clients,    \* processes running `workspace list` or `workspace clean`
  Children,   \* descendants of the rewrite that inherit its lock descriptor
  NoProc,     \* no open file description holds the flock
  Ops,        \* which workspace commands the clients run
  MaxFaults   \* bound on failing system calls and SIGKILLs

ASSUME ProcsAssumption ==
  /\ Owner \notin Clients
  /\ NoProc \notin Clients \cup {Owner}
ASSUME OpsAssumption == Ops \subseteq {"list", "clean"}
ASSUME FaultsAssumption == MaxFaults \in Nat

VARIABLES
  linked,     \* the directory's name exists in the parent
  files,      \* the names inside the directory
  manifest,   \* content of the manifest: "torn" while empty or part-written
  flock,      \* whose open file description holds the lock
  opened,     \* processes with a descriptor of the lock file
  heirs,      \* live children; each shares the owner's file description
  pc,         \* where each process is
  names,      \* what a removing process has still to unlink
  leaving,    \* create() undoes, or close() removes, or close() marks
  exit,       \* how the command will end
  op, seen, report,  \* per client: its command, the state it read, its answer
  signals, faults

diskVars   == <<linked, files, manifest>>
lockVars   == <<flock, opened, heirs>>
ownerVars  == <<leaving, exit>>
clientVars == <<op, seen, report>>
bounds     == <<signals, faults>>
vars == <<diskVars, lockVars, pc, names, ownerVars, clientVars, bounds>>

Procs == Clients \cup {Owner}
Names == {"lock", "manifest", "staged"}

Creating == {"start", "made", "opened", "lockMade", "locked", "manifestMade",
             "written"}
Marking  == {"mark", "truncated", "marked"}
RemovalSteps == {"scan", "unlink", "sync"}
OwnerSteps  == Creating \cup Marking \cup RemovalSteps
                 \cup {"using", "release", "done", "dead"}
ClientSteps == RemovalSteps
                 \cup {"idle", "begun", "rooted", "loaded", "lockOpen",
                       "checked", "holding"}

\* The manifest passes _load_manifest: present, complete, of a known state.
ValidManifest == "manifest" \in files /\ manifest \in {"active", "interrupted"}

Removing(p) == pc[p] \in {"scan", "unlink"}
OwnerGone == pc[Owner] \in {"done", "dead"}

Goto(p, step) == pc' = [pc EXCEPT ![p] = step]

\* Faulty variant: the lock does not outlive its owner in the children.
CloseLockForHeirs(p) ==
  /\ opened' = opened \ {p}
  /\ flock' = IF flock = p THEN NoProc ELSE flock

\* Closing a lock descriptor gives up the flock once no process shares it.
CloseLock(p) ==
  /\ opened' = opened \ {p}
  /\ flock' = IF flock = p /\ (p = Owner => heirs = {}) THEN NoProc ELSE flock

Spend == faults < MaxFaults /\ faults' = faults + 1

Init ==
  /\ linked = FALSE /\ files = {} /\ manifest = "torn"
  /\ flock = NoProc /\ opened = {} /\ heirs = {}
  /\ pc = [p \in Procs |-> IF p = Owner THEN "start" ELSE "idle"]
  /\ names = [p \in Procs |-> {}]
  /\ leaving = "no" /\ exit = "ok"
  /\ op \in [Clients -> Ops]
  /\ seen = [c \in Clients |-> "none"]
  /\ report = [c \in Clients |-> "none"]
  /\ signals = 0 /\ faults = 0

-----------------------------------------------------------------------------
(* Workspace.create: directory, lock file, flock, and only then manifest.  *)

MakeDirectory ==
  /\ pc[Owner] = "start"
  /\ linked' = TRUE
  /\ Goto(Owner, "made")
  /\ UNCHANGED <<files, manifest, lockVars, names, ownerVars, clientVars,
                 bounds>>

OpenDirectory ==
  /\ pc[Owner] = "made"
  /\ Goto(Owner, "opened")
  /\ UNCHANGED <<diskVars, lockVars, names, ownerVars, clientVars, bounds>>

CreateLock ==
  /\ pc[Owner] = "opened"
  /\ files' = files \cup {"lock"}
  /\ opened' = opened \cup {Owner}
  /\ Goto(Owner, "lockMade")
  /\ UNCHANGED <<linked, manifest, flock, heirs, names, ownerVars, clientVars,
                 bounds>>

TakeLock ==
  /\ pc[Owner] = "lockMade"
  /\ flock = NoProc
  /\ flock' = Owner
  /\ Goto(Owner, "locked")
  /\ UNCHANGED <<diskVars, opened, heirs, names, ownerVars, clientVars,
                 bounds>>

CreateManifest ==
  /\ pc[Owner] = "locked"
  /\ files' = files \cup {"manifest"}
  /\ manifest' = "torn"
  /\ Goto(Owner, "manifestMade")
  /\ UNCHANGED <<linked, lockVars, names, ownerVars, clientVars, bounds>>

WriteManifest ==
  /\ pc[Owner] = "manifestMade"
  /\ manifest' = "active"
  /\ Goto(Owner, "written")
  /\ UNCHANGED <<linked, files, lockVars, names, ownerVars, clientVars,
                 bounds>>

SyncCreated ==
  /\ pc[Owner] = "written"
  /\ Goto(Owner, "using")
  /\ UNCHANGED <<diskVars, lockVars, names, ownerVars, clientVars, bounds>>

\* An exception in create(): what exists is removed, but only once root_fd is
\* known; after mkdir and before that the directory is left behind.
AbandonCreate(how) ==
  /\ pc[Owner] \in Creating
  /\ exit' = how
  /\ leaving' = "undo"
  /\ Goto(Owner, IF pc[Owner] \in {"start", "made"} THEN "release" ELSE "scan")
  /\ UNCHANGED <<diskVars, lockVars, names, clientVars>>

CreateFails == AbandonCreate("failed") /\ Spend /\ UNCHANGED signals

-----------------------------------------------------------------------------
(* The body of the rewrite, under hold_process_lock.                       *)

CreateFile ==
  /\ pc[Owner] = "using"
  /\ "staged" \notin files
  /\ files' = files \cup {"staged"}
  /\ UNCHANGED <<linked, manifest, lockVars, pc, names, ownerVars, clientVars,
                 bounds>>

StartChild(k) ==
  /\ pc[Owner] = "using"
  /\ heirs' = heirs \cup {k}
  /\ UNCHANGED <<diskVars, flock, opened, pc, names, ownerVars, clientVars,
                 bounds>>

\* A child, or a process it left running, writes below the workspace.
ChildWrites(k) ==
  /\ k \in heirs
  /\ linked
  /\ files' = files \cup {"staged"}
  /\ UNCHANGED <<linked, manifest, lockVars, pc, names, ownerVars, clientVars,
                 bounds>>

ChildExits(k) ==
  /\ k \in heirs
  /\ heirs' = heirs \ {k}
  /\ flock' = IF flock = Owner /\ heirs' = {} /\ Owner \notin opened
                THEN NoProc ELSE flock
  /\ UNCHANGED <<diskVars, opened, pc, names, ownerVars, clientVars, bounds>>

\* The body returns or raises; __exit__ calls close(interrupted=False).
CloseRemoving(how) ==
  /\ pc[Owner] = "using"
  /\ exit' = how
  /\ leaving' = "remove"
  /\ Goto(Owner, "scan")
  /\ UNCHANGED <<diskVars, lockVars, names, clientVars>>

LeaveBody(how) == CloseRemoving(how) /\ UNCHANGED <<bounds>>

-----------------------------------------------------------------------------
(* _mark_interrupted, then close() releases the descriptors.               *)

TruncateManifest ==
  /\ pc[Owner] = "mark"
  /\ manifest' = "torn"
  /\ Goto(Owner, "truncated")
  /\ UNCHANGED <<linked, files, lockVars, names, ownerVars, clientVars,
                 bounds>>

RewriteManifest ==
  /\ pc[Owner] = "truncated"
  /\ manifest' = "interrupted"
  /\ Goto(Owner, "marked")
  /\ UNCHANGED <<linked, files, lockVars, names, ownerVars, clientVars,
                 bounds>>

SyncMarked ==
  /\ pc[Owner] = "marked"
  /\ Goto(Owner, "release")
  /\ UNCHANGED <<diskVars, lockVars, names, ownerVars, clientVars, bounds>>

\* close() ignores an OSError of _mark_interrupted.
MarkFails ==
  /\ pc[Owner] \in Marking
  /\ Goto(Owner, "release")
  /\ Spend
  /\ UNCHANGED <<diskVars, lockVars, names, ownerVars, clientVars, signals>>

Release ==
  /\ pc[Owner] = "release"
  /\ CloseLock(Owner)
  /\ Goto(Owner, "done")
  /\ UNCHANGED <<diskVars, heirs, names, ownerVars, clientVars, bounds>>

-----------------------------------------------------------------------------
(* Signals.  The first raises InterruptionError wherever the owner is; a   *)
(* second one, or SIGKILL, ends it on the spot.                            *)

InterruptCreate == AbandonCreate("interrupted") /\ UNCHANGED faults

InterruptBody ==
  /\ pc[Owner] = "using"
  /\ exit' = "interrupted"
  /\ leaving' = "mark"
  /\ Goto(Owner, "mark")
  /\ UNCHANGED <<diskVars, lockVars, names, clientVars, faults>>

\* git.run could not stop its process group: its GitError replaces the signal.
InterruptUnstoppable == CloseRemoving("failed") /\ Spend

\* create() swallows what its removal raises; close() turns it into a
\* WorkspaceError, an InterruptionError included.
InterruptRemoval ==
  /\ pc[Owner] \in RemovalSteps
  /\ exit' = IF leaving = "undo" THEN exit ELSE "failed"
  /\ Goto(Owner, "release")
  /\ UNCHANGED <<diskVars, lockVars, names, leaving, clientVars, faults>>

InterruptRelease ==
  /\ pc[Owner] = "release"
  /\ exit' = "interrupted"
  /\ UNCHANGED <<diskVars, lockVars, pc, names, leaving, clientVars, faults>>

Signal ==
  /\ signals = 0
  /\ signals' = 1
  /\ \/ InterruptCreate \/ InterruptBody \/ InterruptUnstoppable
     \/ InterruptRemoval \/ InterruptRelease

OwnerKilled ==
  /\ ~OwnerGone
  /\ \/ Spend /\ UNCHANGED signals
     \/ signals = 1 /\ signals' = 2 /\ UNCHANGED faults
  /\ CloseLock(Owner)
  /\ Goto(Owner, "dead")
  /\ UNCHANGED <<diskVars, heirs, names, ownerVars, clientVars>>

-----------------------------------------------------------------------------
(* _remove_root, by the owner or by a cleaning client.                     *)

Scan(p) ==
  /\ pc[p] = "scan"
  /\ linked
  /\ names' = [names EXCEPT ![p] = files]
  /\ Goto(p, "unlink")
  /\ UNCHANGED <<diskVars, lockVars, ownerVars, clientVars, bounds>>

\* scandir gives the names in any order: the lock or the manifest may go first.
Unlink(p, n) ==
  /\ pc[p] = "unlink"
  /\ n \in names[p] \cap files
  /\ files' = files \ {n}
  /\ names' = [names EXCEPT ![p] = @ \ {n}]
  /\ UNCHANGED <<linked, manifest, lockVars, pc, ownerVars, clientVars,
                 bounds>>

RemoveDirectory(p) ==
  /\ pc[p] = "unlink"
  /\ names[p] = {} /\ files = {} /\ linked
  /\ linked' = FALSE
  /\ Goto(p, "sync")
  /\ UNCHANGED <<files, manifest, lockVars, names, ownerVars, clientVars,
                 bounds>>

\* The name is gone, the directory is not empty, or the system call fails.
RemovalError(p) ==
  \/ pc[p] = "scan" /\ ~linked /\ UNCHANGED faults
  \/ pc[p] = "unlink" /\ names[p] = {} /\ files # {} /\ UNCHANGED faults
  \/ pc[p] \in RemovalSteps /\ Spend

OwnerRemoved ==
  /\ pc[Owner] = "sync"
  /\ Goto(Owner, "release")
  /\ UNCHANGED <<diskVars, lockVars, names, ownerVars, clientVars, bounds>>

OwnerRemovalFails ==
  /\ RemovalError(Owner)
  /\ exit' = IF leaving = "undo" THEN exit ELSE "failed"
  /\ Goto(Owner, "release")
  /\ UNCHANGED <<diskVars, lockVars, names, leaving, clientVars, signals>>

-----------------------------------------------------------------------------
(* The commands: list_workspaces (_record) and clean_workspace.            *)

Answer(c, result) ==
  /\ report' = [report EXCEPT ![c] = result]
  /\ CloseLock(c)
  /\ Goto(c, "idle")

\* What a command that cannot open a valid workspace answers.
Refusal(c) == IF op[c] = "list" THEN "ambiguous" ELSE "refused"

Begin(c, o) ==
  /\ pc[c] = "idle"
  /\ o = "list" => linked
  /\ op' = [op EXCEPT ![c] = o]
  /\ seen' = [seen EXCEPT ![c] = "none"]
  /\ report' = [report EXCEPT ![c] = "none"]
  /\ Goto(c, "begun")
  /\ UNCHANGED <<diskVars, lockVars, names, ownerVars, bounds>>

OpenRoot(c) ==
  /\ pc[c] = "begun"
  /\ linked
  /\ Goto(c, "rooted")
  /\ UNCHANGED <<diskVars, lockVars, names, ownerVars, clientVars, bounds>>

\* Faulty variant: the manifest is read but not validated.
LoadAnyManifest(c) ==
  /\ pc[c] = "rooted"
  /\ seen' = [seen EXCEPT ![c] = manifest]
  /\ Goto(c, "loaded")
  /\ UNCHANGED <<diskVars, lockVars, names, ownerVars, op, report, bounds>>

\* Faulty variant: only workspaces marked interrupted are valid.
LoadInterruptedManifest(c) ==
  /\ pc[c] = "rooted"
  /\ ValidManifest /\ manifest = "interrupted"
  /\ seen' = [seen EXCEPT ![c] = manifest]
  /\ Goto(c, "loaded")
  /\ UNCHANGED <<diskVars, lockVars, names, ownerVars, op, report, bounds>>

LoadManifest(c) ==
  /\ pc[c] = "rooted"
  /\ ValidManifest
  /\ seen' = [seen EXCEPT ![c] = manifest]
  /\ Goto(c, "loaded")
  /\ UNCHANGED <<diskVars, lockVars, names, ownerVars, op, report, bounds>>

OpenLock(c) ==
  /\ pc[c] = "loaded"
  /\ "lock" \in files
  /\ opened' = opened \cup {c}
  /\ Goto(c, "lockOpen")
  /\ UNCHANGED <<diskVars, flock, heirs, names, ownerVars, clientVars, bounds>>

\* fstat of the descriptor: st_nlink # 1 once the name was removed.
CheckLock(c) ==
  /\ pc[c] = "lockOpen"
  /\ "lock" \in files
  /\ Goto(c, "checked")
  /\ UNCHANGED <<diskVars, lockVars, names, ownerVars, clientVars, bounds>>

Refuse(c) ==
  /\ \/ pc[c] = "begun" /\ ~linked
     \/ pc[c] = "rooted" /\ ~ValidManifest
     \/ pc[c] \in {"loaded", "lockOpen"} /\ "lock" \notin files
  /\ Answer(c, Refusal(c))
  /\ UNCHANGED <<diskVars, heirs, names, ownerVars, op, seen, bounds>>

\* Faulty variant: the flock is not taken exclusively.
AcquireShared(c) ==
  /\ pc[c] = "checked"
  /\ flock # Owner
  /\ flock' = c
  /\ Goto(c, IF op[c] = "list" THEN "holding" ELSE "scan")
  /\ UNCHANGED <<diskVars, opened, heirs, names, ownerVars, clientVars,
                 bounds>>

Acquire(c) ==
  /\ pc[c] = "checked"
  /\ flock = NoProc
  /\ flock' = c
  /\ Goto(c, IF op[c] = "list" THEN "holding" ELSE "scan")
  /\ UNCHANGED <<diskVars, opened, heirs, names, ownerVars, clientVars,
                 bounds>>

Busy(c) ==
  /\ pc[c] = "checked"
  /\ flock # NoProc
  /\ Answer(c, IF op[c] = "list" THEN "active" ELSE "refused")
  /\ UNCHANGED <<diskVars, heirs, names, ownerVars, op, seen, bounds>>

ListDone(c) ==
  /\ pc[c] = "holding"
  /\ Answer(c, IF seen[c] = "interrupted" THEN "interrupted" ELSE "stale")
  /\ UNCHANGED <<diskVars, heirs, names, ownerVars, op, seen, bounds>>

CleanDone(c) ==
  /\ pc[c] = "sync"
  /\ Answer(c, "removed")
  /\ UNCHANGED <<diskVars, heirs, names, ownerVars, op, seen, bounds>>

CleanFails(c) ==
  /\ RemovalError(c)
  /\ Answer(c, "refused")
  /\ UNCHANGED <<diskVars, heirs, names, ownerVars, op, seen, signals>>

ClientKilled(c) ==
  /\ pc[c] # "idle"
  /\ Spend
  /\ Answer(c, "none")
  /\ UNCHANGED <<diskVars, heirs, names, ownerVars, op, seen, signals>>

-----------------------------------------------------------------------------
OwnerStep ==
  \/ MakeDirectory \/ OpenDirectory \/ CreateLock \/ TakeLock
  \/ CreateManifest \/ WriteManifest \/ SyncCreated \/ CreateFails
  \/ CreateFile \/ \E how \in {"ok", "failed"} : LeaveBody(how)
  \/ TruncateManifest \/ RewriteManifest \/ SyncMarked \/ MarkFails \/ Release
  \/ OwnerRemoved \/ OwnerRemovalFails

ChildStep == \E k \in Children : StartChild(k) \/ ChildWrites(k) \/ ChildExits(k)

RemovalStep(p) == Scan(p) \/ RemoveDirectory(p) \/ \E n \in Names : Unlink(p, n)

ClientStep(c) ==
  \/ \E o \in Ops : Begin(c, o)
  \/ OpenRoot(c) \/ LoadManifest(c) \/ OpenLock(c) \/ CheckLock(c)
  \/ Refuse(c) \/ Acquire(c) \/ Busy(c) \/ ListDone(c) \/ CleanDone(c)
  \/ CleanFails(c)

Next ==
  \/ OwnerStep \/ ChildStep \/ Signal \/ OwnerKilled
  \/ \E p \in Procs : RemovalStep(p)
  \/ \E c \in Clients : ClientStep(c) \/ ClientKilled(c)

Spec == Init /\ [][Next]_vars

\* A started program keeps running, a rewrite and its children end, and the
\* operator repeats the commands.
Fairness ==
  /\ WF_vars(OwnerStep) /\ WF_vars(RemovalStep(Owner))
  /\ \A k \in Children : WF_vars(ChildExits(k))
  /\ \A c \in Clients : WF_vars(ClientStep(c)) /\ WF_vars(RemovalStep(c))

FairSpec == Spec /\ Fairness

-----------------------------------------------------------------------------
PcOK ==
  /\ pc \in [Procs -> OwnerSteps \cup ClientSteps]
  /\ pc[Owner] \in OwnerSteps
  /\ \A c \in Clients : pc[c] \in ClientSteps

DiskOK ==
  /\ linked \in BOOLEAN
  /\ files \subseteq Names
  /\ manifest \in {"torn", "active", "interrupted"}
  /\ names \in [Procs -> SUBSET Names]

LockOK ==
  /\ flock \in Procs \cup {NoProc}
  /\ opened \subseteq Procs
  /\ heirs \subseteq Children

ExitOK ==
  /\ leaving \in {"no", "undo", "remove", "mark"}
  /\ exit \in {"ok", "failed", "interrupted"}
  /\ signals \in 0..2 /\ faults \in 0..MaxFaults

AnswerOK ==
  /\ op \in [Clients -> Ops]
  /\ seen \in [Clients -> {"none", "active", "interrupted"}]
  /\ report \in [Clients -> {"none", "active", "stale", "interrupted",
                             "ambiguous", "refused", "removed"}]

\* Every variable keeps its type.
TypeOK == PcOK /\ DiskOK /\ LockOK /\ ExitOK /\ AnswerOK

\* No manifest is readable yet, and no command has got past reading one.
Early ==
  /\ manifest = "torn"
  /\ \A c \in Clients : pc[c] \in {"idle", "begun", "rooted"}

OwnerLocked == flock = Owner /\ Owner \in opened

OwnerHolds == {"locked", "manifestMade", "written", "using"} \cup Marking

\* A client holds the flock exactly while it lists or removes.
ClientHoldsInv ==
  \A c \in Clients : flock = c <=> pc[c] \in {"holding"} \cup RemovalSteps

\* Nothing is readable or locked before create() has its flock.
EarlyInv ==
  /\ pc[Owner] \in {"start", "made", "opened", "lockMade"} =>
       Early /\ flock = NoProc
  /\ pc[Owner] \in {"locked", "manifestMade"} => Early

\* From then on the owner keeps it; without it the owner removes only a
\* directory no client can have opened (create() failing before its flock).
OwnerHoldsInv ==
  /\ pc[Owner] = "lockMade" => Owner \in opened
  /\ pc[Owner] \in OwnerHolds => OwnerLocked
  /\ pc[Owner] \in RemovalSteps \cup {"release"} => OwnerLocked \/ Early

HeirsInv == heirs # {} => flock = Owner

NamesInv == \A p \in Procs : pc[p] = "unlink" => names[p] \subseteq files

ReportInv ==
  \A c \in Clients : report[c] \in {"stale", "interrupted", "removed"} =>
    (OwnerGone /\ heirs = {})

\* Why the properties below hold: the flock belongs to the owner from before
\* the manifest exists until owner and heirs are gone, or to the one client
\* that took it after that.
LockInv ==
  ClientHoldsInv /\ EarlyInv /\ OwnerHoldsInv /\ HeirsInv /\ NamesInv /\ ReportInv

\* Lock and manifest are there from their creation until somebody removes them,
\* and a marked manifest says so.
FilesInv ==
  /\ pc[Owner] \in {"lockMade"} \cup OwnerHolds => "lock" \in files
  /\ pc[Owner] \in {"manifestMade", "written", "using"} \cup Marking => "manifest" \in files
  /\ pc[Owner] = "marked" => manifest = "interrupted"

\* Unless a call fails, what was marked stays marked, and whoever starts to
\* unlink, alone by then, ends with the directory.
MarkedInv ==
  /\ pc[Owner] \in Marking => leaving = "mark"
  /\ leaving = "mark" => pc[Owner] \in Marking \cup {"release", "done", "dead"}
  /\ \A c \in Clients : pc[c] = "unlink" => names[c] = files
  /\ leaving = "mark" /\ faults = 0 /\ pc[Owner] \in {"release", "done"} =>
       /\ manifest = "interrupted"
       /\ linked /\ (\A c \in Clients : pc[c] # "unlink") =>
            {"lock", "manifest"} \subseteq files

\* The inductive invariant: what every other safety property here follows from.
Inv == TypeOK /\ LockInv /\ FilesInv /\ MarkedInv

\* create() takes its nonblocking flock after other processes can see the lock
\* file, yet never finds it held: a command opens the lock only after it read
\* a valid manifest, which create() writes once it holds the lock.
CreatorNeverBlocked == pc[Owner] = "lockMade" => flock = NoProc

\* No two processes are inside _remove_root of the workspace at once, and what
\* a removal has listed is still there when it comes to unlink it.
RemovalExclusive ==
  \A p \in Procs : Removing(p) =>
    /\ \A q \in Procs : Removing(q) => q = p
    /\ pc[p] = "unlink" => names[p] \subseteq files

\* clean_workspace deletes nothing while the rewrite, or a descendant that
\* outlived it, still runs on the workspace (the inherited lock).
NoCleanWhileInUse ==
  \A c \in Clients : Removing(c) =>
    (pc[Owner] \in {"done", "dead"} /\ heirs = {})

\* A workspace listed as stale or interrupted has no process working in it, and
\* never will again: the answer stays true for the operator who then cleans.
StaleIsFinal ==
  \A c \in Clients : report[c] \in {"stale", "interrupted", "removed"} =>
    (pc[Owner] \in {"done", "dead"} /\ heirs = {})

\* A signal during the body keeps the staged work and marks the manifest; with
\* no failing call the interrupted workspace stays intact until a clean.
InterruptedIsKept ==
  (pc[Owner] = "done" /\ leaving = "mark" /\ linked
     /\ faults = 0 /\ \A c \in Clients : ~Removing(c))
  => (manifest = "interrupted" /\ {"lock", "manifest"} \subseteq files)

\* An entry without a valid manifest, its owner gone, and no command past the
\* reading of a manifest.
Ambiguous ==
  /\ OwnerGone /\ linked /\ ~ValidManifest
  /\ \A c \in Clients : pc[c] \in {"idle", "begun", "rooted"}

\* An ambiguous entry is never cleaned: no order of commands ever gets past it
\* or deletes anything of it.
AmbiguousIsRetained ==
  [][Ambiguous => Ambiguous' /\ files \subseteq files']_vars

\* What the documents say is retained for inspection is retained: interrupted
\* workspaces and ambiguous entries.
RetentionHolds == []InterruptedIsKept /\ AmbiguousIsRetained

\* If nothing fails any more, clean commands alone get rid of a released
\* workspace with a valid manifest and its lock, whatever order they run in.
ReleasedGetsCleaned ==
  (/\ OwnerGone /\ linked /\ ValidManifest /\ "lock" \in files
   /\ faults = MaxFaults) ~> ~linked

=============================================================================
