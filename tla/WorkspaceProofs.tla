-------------------------- MODULE WorkspaceProofs --------------------------
(***************************************************************************)
(* Proofs about Workspace for any number of clients and children, any set  *)
(* of commands and any bound on faults.                                    *)
(***************************************************************************)
EXTENDS Workspace, TLAPS

(***************************************************************************)
(* Types, one group of variables at a time.                                *)
(***************************************************************************)

\* The owner goes from step to step of create(), its body, closing and marking.
LEMMA OwnerPc ==
  ASSUME PcOK, NEW s \in OwnerSteps, Goto(Owner, s)
  PROVE  PcOK'
BY ProcsAssumption DEF PcOK, Goto, Procs

\* A client goes from step to step of list or clean.
LEMMA ClientPc ==
  ASSUME PcOK, NEW c \in Clients, NEW s \in ClientSteps, Goto(c, s)
  PROVE  PcOK'
BY ProcsAssumption DEF PcOK, Goto, Procs

\* Types: the steps of the rewrite that owns the workspace.
LEMMA OwnerTypes == TypeOK /\ OwnerStep => TypeOK'
<1> SUFFICES ASSUME TypeOK, OwnerStep PROVE TypeOK'
  OBVIOUS
<1> USE DEF diskVars, lockVars, bounds, TypeOK, OwnerStep, MakeDirectory,
            OpenDirectory, CreateLock, TakeLock, CreateManifest, WriteManifest,
            SyncCreated, CreateFails, AbandonCreate, CreateFile, LeaveBody,
            CloseRemoving, TruncateManifest, RewriteManifest, SyncMarked,
            MarkFails, Release, CloseLock, OwnerRemoved, OwnerRemovalFails,
            RemovalError, Spend
<1>1. PcOK'
  BY OwnerPc DEF OwnerSteps, Creating, Marking, RemovalSteps, PcOK
<1>2. DiskOK'
  BY DEF DiskOK, Names
<1>3. LockOK'
  BY DEF LockOK, Procs
<1>4. ExitOK'
  BY FaultsAssumption DEF ExitOK, ownerVars
<1>5. AnswerOK'
  BY DEF AnswerOK, clientVars
<1> QED
  BY <1>1, <1>2, <1>3, <1>4, <1>5

\* Types: children, signals and SIGKILL.
LEMMA EnvironmentTypes == TypeOK /\ (ChildStep \/ Signal \/ OwnerKilled) => TypeOK'
<1> SUFFICES ASSUME TypeOK, ChildStep \/ Signal \/ OwnerKilled PROVE TypeOK'
  OBVIOUS
<1> USE DEF diskVars, lockVars, bounds, TypeOK, ChildStep, StartChild,
            ChildWrites, ChildExits, Signal, InterruptCreate, AbandonCreate,
            InterruptBody, InterruptUnstoppable, CloseRemoving,
            InterruptRemoval, InterruptRelease, OwnerKilled, CloseLock, Spend
<1>1. PcOK'
  BY OwnerPc DEF OwnerSteps, Creating, Marking, RemovalSteps, PcOK
<1>2. DiskOK'
  BY DEF DiskOK, Names
<1>3. LockOK'
  BY DEF LockOK, Procs
<1>4. ExitOK'
  BY FaultsAssumption DEF ExitOK, ownerVars
<1>5. AnswerOK'
  BY DEF AnswerOK, clientVars
<1> QED
  BY <1>1, <1>2, <1>3, <1>4, <1>5

\* Types: _remove_root, whoever runs it.
LEMMA RemovalTypes ==
  ASSUME TypeOK, NEW p \in Procs, RemovalStep(p)
  PROVE  TypeOK'
<1> USE DEF diskVars, lockVars, bounds, TypeOK, RemovalStep, Scan,
            RemoveDirectory, Unlink
<1>1. PcOK'
  BY OwnerPc, ClientPc DEF OwnerSteps, ClientSteps, RemovalSteps, PcOK, Procs
<1>2. DiskOK'
  BY DEF DiskOK, Names
<1>3. LockOK' /\ ExitOK' /\ AnswerOK'
  BY DEF LockOK, ExitOK, AnswerOK, ownerVars, clientVars
<1> QED
  BY <1>1, <1>2, <1>3

\* Types: listing and cleaning commands.
LEMMA ClientTypes ==
  ASSUME TypeOK, NEW c \in Clients, ClientStep(c) \/ ClientKilled(c)
  PROVE  TypeOK'
<1> USE DEF diskVars, lockVars, bounds, TypeOK, ClientStep, ClientKilled,
            Begin, OpenRoot, LoadManifest, OpenLock, CheckLock, Refuse,
            Acquire, Busy, ListDone, CleanDone, CleanFails, RemovalError,
            Answer, CloseLock, Spend
<1>1. PcOK'
  BY ClientPc DEF ClientSteps, RemovalSteps, PcOK
<1>2. DiskOK'
  BY DEF DiskOK
<1>3. LockOK'
  BY DEF LockOK, Procs
<1>4. ExitOK'
  BY FaultsAssumption DEF ExitOK, ownerVars
<1>5. AnswerOK'
  BY OpsAssumption DEF AnswerOK, clientVars, Refusal, DiskOK, ValidManifest
<1> QED
  BY <1>1, <1>2, <1>3, <1>4, <1>5

\* Every reachable state of the workspace is well-typed.
THEOREM TypeCorrect == Spec => []TypeOK
<1>1. Init => TypeOK
  <2> SUFFICES ASSUME Init PROVE TypeOK
    OBVIOUS
  <2>1. PcOK
    BY ProcsAssumption DEF Init, PcOK, OwnerSteps, ClientSteps, Creating, Procs
  <2>2. DiskOK /\ LockOK /\ AnswerOK
    BY DEF Init, DiskOK, LockOK, AnswerOK
  <2>3. ExitOK
    BY FaultsAssumption DEF Init, ExitOK
  <2> QED
    BY <2>1, <2>2, <2>3 DEF TypeOK
<1>2. TypeOK /\ UNCHANGED vars => TypeOK'
  BY DEF TypeOK, PcOK, DiskOK, LockOK, ExitOK, AnswerOK, vars, diskVars,
         lockVars, ownerVars, clientVars, bounds
<1>3. TypeOK /\ [Next]_vars => TypeOK'
  BY <1>2, OwnerTypes, EnvironmentTypes, RemovalTypes, ClientTypes DEF Next
<1> QED
  BY <1>1, <1>3, PTL DEF Spec

(***************************************************************************)
(* The lock.                                                               *)
(***************************************************************************)

\* A client that holds the flock has outlived the owner and its heirs.
LEMMA ClientHolder ==
  ASSUME TypeOK, LockInv, NEW c \in Clients, flock = c
  PROVE  OwnerGone /\ heirs = {} /\ pc[c] \in {"holding"} \cup RemovalSteps
<1>1. flock # Owner /\ flock # NoProc
  BY ProcsAssumption
<1>2. pc[c] \in {"holding"} \cup RemovalSteps /\ ~Early
  BY DEF LockInv, ClientHoldsInv, Early, RemovalSteps
<1>3. pc[Owner] \notin OwnerHolds \cup RemovalSteps \cup
        {"release", "start", "made", "opened", "lockMade"}
  BY <1>1, <1>2 DEF LockInv, EarlyInv, OwnerHoldsInv, OwnerLocked
<1> QED
  BY <1>1, <1>2, <1>3
  DEF LockInv, HeirsInv, TypeOK, PcOK, OwnerGone, OwnerSteps, OwnerHolds,
      Creating, Marking, RemovalSteps

\* Two processes inside _remove_root are one.
LEMMA OneRemover ==
  ASSUME TypeOK, LockInv, NEW p \in Procs, NEW q \in Procs,
         pc[p] \in RemovalSteps, pc[q] \in RemovalSteps
  PROVE  p = q
<1>1. ASSUME NEW c \in Clients, pc[c] \in RemovalSteps
      PROVE  flock = c /\ OwnerGone
  BY <1>1, ClientHolder DEF LockInv, ClientHoldsInv
<1> QED
  BY <1>1 DEF Procs, OwnerGone, RemovalSteps

\* Who holds the lock: the steps of the owner, which takes it before the manifest exists.
LEMMA OwnerLockInv == TypeOK /\ LockInv /\ OwnerStep => LockInv'
<1> SUFFICES ASSUME TypeOK, LockInv, OwnerStep PROVE LockInv'
  OBVIOUS
<1> USE ProcsAssumption
    DEF diskVars, lockVars, bounds, LockInv, Goto, OwnerStep, MakeDirectory,
        OpenDirectory, CreateLock, TakeLock, CreateManifest, WriteManifest,
        SyncCreated, CreateFails, AbandonCreate, CreateFile, LeaveBody,
        CloseRemoving, TruncateManifest, RewriteManifest, SyncMarked,
        MarkFails, Release, CloseLock, OwnerRemoved, OwnerRemovalFails,
        RemovalError, Creating, Marking, RemovalSteps, OwnerHolds
<1>0. \A c \in Clients : c # Owner /\ pc'[c] = pc[c]
  BY DEF TypeOK, PcOK, Procs
<1>1. ClientHoldsInv'
  BY <1>0 DEF ClientHoldsInv, EarlyInv, OwnerHoldsInv, HeirsInv, OwnerLocked
<1>2. EarlyInv'
  BY <1>0 DEF EarlyInv, Early, TypeOK, PcOK, Procs
<1>3. OwnerHoldsInv'
  BY <1>0 DEF OwnerHoldsInv, EarlyInv, OwnerLocked, Early, TypeOK, PcOK, Procs
<1>4. HeirsInv'
  BY DEF HeirsInv, EarlyInv, OwnerHoldsInv, OwnerLocked
<1>5. NamesInv'
  BY DEF NamesInv, TypeOK, PcOK, Procs
<1>6. ReportInv'
  BY DEF ReportInv, OwnerGone, clientVars, TypeOK, PcOK, Procs
<1> QED
  BY <1>1, <1>2, <1>3, <1>4, <1>5, <1>6

\* Who holds the lock: children keep it, and a death releases it with the last descriptor.
LEMMA EnvironmentLockInv ==
  TypeOK /\ LockInv /\ (ChildStep \/ Signal \/ OwnerKilled) => LockInv'
<1> SUFFICES ASSUME TypeOK, LockInv, ChildStep \/ Signal \/ OwnerKilled
             PROVE  LockInv'
  OBVIOUS
<1> USE ProcsAssumption
    DEF diskVars, lockVars, bounds, LockInv, Goto, ChildStep, StartChild,
        ChildWrites, ChildExits, Signal, InterruptCreate, AbandonCreate,
        InterruptBody, InterruptUnstoppable, CloseRemoving, InterruptRemoval,
        InterruptRelease, OwnerKilled, CloseLock, Creating, Marking,
        RemovalSteps, OwnerHolds
<1>0. \A c \in Clients : c # Owner /\ pc'[c] = pc[c]
  BY DEF TypeOK, PcOK, Procs
<1>1. ClientHoldsInv'
  BY <1>0 DEF ClientHoldsInv, EarlyInv, OwnerHoldsInv, HeirsInv, OwnerLocked
<1>2. EarlyInv'
  BY <1>0 DEF EarlyInv, Early, TypeOK, PcOK, Procs
<1>3. OwnerHoldsInv'
  BY <1>0 DEF OwnerHoldsInv, EarlyInv, OwnerLocked, Early, TypeOK, PcOK, Procs
<1>4. HeirsInv'
  BY DEF HeirsInv, EarlyInv, OwnerHoldsInv, OwnerLocked
<1>5. NamesInv'
  BY DEF NamesInv, TypeOK, PcOK, Procs
<1>6. ReportInv'
  BY DEF ReportInv, OwnerGone, clientVars, TypeOK, PcOK, Procs
<1> QED
  BY <1>1, <1>2, <1>3, <1>4, <1>5, <1>6

\* Who holds the lock: a removal goes on only with the lock it started with.
LEMMA RemovalLockInv ==
  ASSUME TypeOK, LockInv, NEW p \in Procs, RemovalStep(p)
  PROVE  LockInv'
<1> USE ProcsAssumption
    DEF diskVars, lockVars, bounds, LockInv, Goto, RemovalStep, Scan,
        RemoveDirectory, Unlink, RemovalSteps
<1>1. ClientHoldsInv'
  BY DEF ClientHoldsInv, TypeOK, PcOK, Procs
<1>2. EarlyInv'
  BY DEF EarlyInv, Early, TypeOK, PcOK, Procs
<1>3. OwnerHoldsInv'
  BY DEF OwnerHoldsInv, OwnerLocked, OwnerHolds, Marking, Early, TypeOK, PcOK,
         Procs
<1>4. HeirsInv'
  BY DEF HeirsInv
<1>5. NamesInv'
  BY OneRemover DEF NamesInv, TypeOK, PcOK, DiskOK
<1>6. ReportInv'
  BY DEF ReportInv, OwnerGone, clientVars, TypeOK, PcOK, Procs
<1> QED
  BY <1>1, <1>2, <1>3, <1>4, <1>5, <1>6

\* Who holds the lock: a client gets it only when the owner and its children are gone.
LEMMA ClientLockInv ==
  ASSUME TypeOK, LockInv, NEW c \in Clients, ClientStep(c) \/ ClientKilled(c)
  PROVE  LockInv'
<1> USE ProcsAssumption
    DEF diskVars, lockVars, bounds, LockInv, Goto, ClientStep, ClientKilled,
        Begin, OpenRoot, LoadManifest, OpenLock, CheckLock, Refuse, Acquire,
        Busy, ListDone, CleanDone, CleanFails, RemovalError, Answer, Refusal,
        CloseLock, RemovalSteps
<1>0. /\ c # Owner /\ pc'[Owner] = pc[Owner]
      /\ \A d \in Clients : d # c => pc'[d] = pc[d]
  BY DEF TypeOK, PcOK, Procs
<1>1. ClientHoldsInv'
  BY <1>0 DEF ClientHoldsInv, TypeOK, PcOK, Procs
<1>2. EarlyInv'
  BY <1>0 DEF EarlyInv, Early, ValidManifest, TypeOK, PcOK, Procs
<1>3. OwnerHoldsInv'
  BY <1>0
  DEF OwnerHoldsInv, OwnerLocked, OwnerHolds, Marking, Early, ValidManifest,
      TypeOK, PcOK, Procs
<1>4. HeirsInv'
  BY DEF HeirsInv
<1>5. NamesInv'
  BY DEF NamesInv, TypeOK, PcOK, Procs
<1>6. ReportInv'
  <2>1. ASSUME pc[c] \in {"holding", "sync"} PROVE OwnerGone /\ heirs = {}
    BY <2>1, ClientHolder DEF ClientHoldsInv
  <2>2. heirs' = heirs /\ \A d \in Clients : d # c => report'[d] = report[d]
    BY DEF TypeOK, AnswerOK, clientVars
  <2>3. \/ report'[c] \in {report[c], "none", "active", "ambiguous", "refused"}
        \/ pc[c] \in {"holding", "sync"}
    BY DEF TypeOK, AnswerOK, clientVars
  <2> QED
    BY <1>0, <2>1, <2>2, <2>3 DEF ReportInv, OwnerGone
<1> QED
  BY <1>1, <1>2, <1>3, <1>4, <1>5, <1>6

(***************************************************************************)
(* What is in the directory.                                               *)
(***************************************************************************)

\* The owner alone makes and marks files, and removes them in no state that
\* the invariant speaks of.
LEMMA OwnerKeepsFiles ==
  TypeOK /\ LockInv /\ FilesInv /\ MarkedInv /\ (OwnerStep \/ ChildStep \/ Signal \/ OwnerKilled)
    => FilesInv' /\ MarkedInv'
<1> SUFFICES ASSUME TypeOK, LockInv, FilesInv, MarkedInv,
                    OwnerStep \/ ChildStep \/ Signal \/ OwnerKilled
             PROVE  FilesInv' /\ MarkedInv'
  OBVIOUS
<1> USE ProcsAssumption
    DEF diskVars, lockVars, ownerVars, bounds, Goto, OwnerStep, MakeDirectory,
        OpenDirectory, CreateLock, TakeLock, CreateManifest, WriteManifest,
        SyncCreated, CreateFails, AbandonCreate, CreateFile, LeaveBody,
        CloseRemoving, TruncateManifest, RewriteManifest, SyncMarked,
        MarkFails, Release, CloseLock, OwnerRemoved, OwnerRemovalFails,
        RemovalError, ChildStep, StartChild, ChildWrites, ChildExits, Signal,
        InterruptCreate, InterruptBody, InterruptUnstoppable, InterruptRemoval,
        InterruptRelease, OwnerKilled, Spend, Creating, Marking, RemovalSteps, OwnerHolds
<1>0. /\ \A c \in Clients : c # Owner /\ pc'[c] = pc[c]
      /\ names' = names /\ faults \in Nat /\ pc \in [Procs -> OwnerSteps \cup ClientSteps]
  BY FaultsAssumption DEF TypeOK, PcOK, ExitOK, Procs
<1>1. FilesInv'
  BY <1>0 DEF FilesInv, Procs
<1>2. ASSUME NEW c \in Clients, pc[c] = "unlink"
      PROVE  OwnerGone /\ heirs = {}
  BY <1>2, ClientHolder DEF LockInv, ClientHoldsInv
<1>3. \A c \in Clients : pc'[c] = "unlink" => names'[c] = files'
  BY <1>0, <1>2 DEF MarkedInv, OwnerGone
<1>4. /\ pc'[Owner] \in Marking => leaving' = "mark"
      /\ leaving' = "mark" => pc'[Owner] \in Marking \cup {"release", "done", "dead"}
  BY <1>0 DEF MarkedInv, Procs
<1>5. leaving' = "mark" /\ faults' = 0 /\ pc'[Owner] \in {"release", "done"} =>
       /\ manifest' = "interrupted"
       /\ linked' /\ (\A c \in Clients : pc'[c] # "unlink") =>
            {"lock", "manifest"} \subseteq files'
  BY <1>0 DEF MarkedInv, FilesInv, Procs
<1> QED
  BY <1>1, <1>3, <1>4, <1>5 DEF MarkedInv

\* A removal by a client comes when the owner is gone, and goes to its end.
LEMMA RemovalKeepsFiles ==
  ASSUME TypeOK, LockInv, FilesInv, MarkedInv, NEW p \in Procs, RemovalStep(p)
  PROVE  FilesInv' /\ MarkedInv'
<1> USE ProcsAssumption
    DEF diskVars, lockVars, ownerVars, bounds, Goto, RemovalStep, Scan, RemoveDirectory,
        Unlink, RemovalSteps, Marking, OwnerHolds
<1>1. pc[p] \in {"scan", "unlink"} /\ pc \in [Procs -> OwnerSteps \cup ClientSteps]
  BY DEF TypeOK, PcOK
<1>2. /\ \A q \in Procs : q # p => pc'[q] = pc[q] /\ names'[q] = names[q]
      /\ pc'[p] \in {"unlink", "sync"} /\ Owner \in Procs /\ Clients \subseteq Procs
      /\ leaving' = leaving /\ faults' = faults /\ manifest' = manifest
  BY <1>1 DEF TypeOK, DiskOK, Procs
<1>3. \A q \in Procs : pc[q] = "unlink" => q = p
  BY <1>1, OneRemover
<1>4. CASE p = Owner
  <2>1. \A c \in Clients : pc'[c] # "unlink"
    BY <1>2, <1>3, <1>4
  <2>2. pc[Owner] \in {"scan", "unlink"} /\ pc'[Owner] \in {"unlink", "sync"}
    BY <1>1, <1>2, <1>4
  <2>3. leaving # "mark"
    BY <2>2 DEF MarkedInv
  <2> QED
    BY <1>2, <2>1, <2>2, <2>3 DEF FilesInv, MarkedInv
<1>5. CASE p \in Clients
  <2>1. OwnerGone /\ pc'[Owner] = pc[Owner]
    BY <1>1, <1>2, <1>5, ClientHolder DEF LockInv, ClientHoldsInv
  <2>2. FilesInv'
    BY <2>1 DEF FilesInv, OwnerGone
  <2>3. pc'[p] = "unlink" => names'[p] = files'
    BY <1>1, <1>5 DEF MarkedInv, TypeOK, DiskOK
  <2>4. pc'[p] = "sync" => ~linked'
    BY <1>1
  <2>5. \A c \in Clients : pc'[c] = "unlink" => c = p
    BY <1>2, <1>3
  <2> QED
    BY <1>2, <1>5, <2>1, <2>2, <2>3, <2>4, <2>5 DEF MarkedInv, OwnerGone
<1> QED
  BY <1>4, <1>5 DEF Procs

\* No other step of a client touches a file, and without a fault a client
\* leaves the unlinking only with the directory.
LEMMA ClientKeepsFiles ==
  ASSUME TypeOK, LockInv, FilesInv, MarkedInv, NEW c \in Clients, ClientStep(c) \/ ClientKilled(c)
  PROVE  FilesInv' /\ MarkedInv'
<1> USE ProcsAssumption
    DEF diskVars, lockVars, ownerVars, bounds, Goto, ClientStep, ClientKilled,
        Begin, OpenRoot, LoadManifest, OpenLock, CheckLock, Refuse, Acquire,
        Busy, ListDone, CleanDone, CleanFails, RemovalError, Answer, Refusal,
        CloseLock, Spend, RemovalSteps, Marking, OwnerHolds
<1>1. /\ c # Owner /\ c \in Procs /\ pc'[Owner] = pc[Owner] /\ names' = names
      /\ \A d \in Clients : d # c => pc'[d] = pc[d]
      /\ pc'[c] # "unlink" /\ faults \in Nat
      /\ UNCHANGED <<linked, files, manifest, leaving>>
  BY FaultsAssumption DEF TypeOK, PcOK, ExitOK, Procs
<1>2. FilesInv'
  BY <1>1 DEF FilesInv
<1>3. faults' = 0 => faults = 0
  BY <1>1
<1>4. ASSUME pc[c] = "unlink", faults' = 0 PROVE FALSE
  <2>1. names[c] = files
    BY <1>4 DEF MarkedInv
  <2> QED
    BY <1>1, <1>4, <2>1
<1> QED
  BY <1>1, <1>2, <1>3, <1>4 DEF MarkedInv

\* The manifest never outlives who may use it, and the lock never does either:
\* owner, heirs and clients hold it in that order, whatever fails.
THEOREM LockInvariant == Spec => []Inv
<1>1. Init => LockInv
  BY ProcsAssumption
  DEF Init, LockInv, ClientHoldsInv, EarlyInv, Early, OwnerHoldsInv, HeirsInv,
      NamesInv, ReportInv, OwnerHolds, Marking, RemovalSteps, Procs
<1>2. TypeOK /\ LockInv /\ UNCHANGED vars => LockInv'
  BY DEF vars, diskVars, lockVars, clientVars, LockInv, ClientHoldsInv,
         EarlyInv, Early, OwnerHoldsInv, OwnerLocked, HeirsInv, NamesInv, ReportInv, OwnerGone
<1>3. TypeOK /\ LockInv /\ [Next]_vars => LockInv'
  BY <1>2, OwnerLockInv, EnvironmentLockInv, RemovalLockInv, ClientLockInv
  DEF Next
<1>4. Init => FilesInv /\ MarkedInv
  BY ProcsAssumption DEF Init, FilesInv, MarkedInv, OwnerHolds, Marking, Procs
<1>5. FilesInv /\ MarkedInv /\ UNCHANGED vars => FilesInv' /\ MarkedInv'
  BY DEF vars, diskVars, ownerVars, bounds, FilesInv, MarkedInv
<1>6. TypeOK /\ LockInv /\ FilesInv /\ MarkedInv /\ [Next]_vars => FilesInv' /\ MarkedInv'
  BY <1>5, OwnerKeepsFiles, RemovalKeepsFiles, ClientKeepsFiles DEF Next
<1> QED
  BY <1>1, <1>3, <1>4, <1>6, TypeCorrect, PTL DEF Spec, Inv

\* create()'s nonblocking flock never fails because of another process.
THEOREM CreatorNeverBlockedAlways == Spec => []CreatorNeverBlocked
<1>1. Inv => CreatorNeverBlocked
  BY DEF Inv, LockInv, EarlyInv, CreatorNeverBlocked
<1> QED
  BY <1>1, LockInvariant, PTL

\* At most one process is ever removing the workspace, and nobody else takes
\* away what it has listed.
THEOREM RemovalExclusiveAlways == Spec => []RemovalExclusive
<1>1. Inv => RemovalExclusive
  BY OneRemover DEF Inv, LockInv, NamesInv, RemovalExclusive, Removing, RemovalSteps
<1> QED
  BY <1>1, LockInvariant, PTL

\* `workspace clean` never deletes a workspace that a rewrite or one of its
\* descendants still uses.
THEOREM NoCleanWhileInUseAlways == Spec => []NoCleanWhileInUse
<1>1. Inv => NoCleanWhileInUse
  BY ClientHolder
  DEF Inv, LockInv, ClientHoldsInv, NoCleanWhileInUse, Removing, RemovalSteps,
      OwnerGone
<1> QED
  BY <1>1, LockInvariant, PTL

\* A workspace reported stale, interrupted or removed is out of use for good.
THEOREM StaleIsFinalAlways == Spec => []StaleIsFinal
<1>1. Inv => StaleIsFinal
  BY DEF Inv, LockInv, ReportInv, StaleIsFinal, OwnerGone
<1> QED
  BY <1>1, LockInvariant, PTL

\* What is left for inspection stays: a workspace that a signal interrupted keeps
\* its lock and its marked manifest until it is cleaned, unless a call fails, and
\* an entry that nobody can validate is never entered, let alone emptied.
THEOREM RetentionHoldsAlways == Spec => RetentionHolds
<1>1. Inv => InterruptedIsKept
  BY DEF Inv, MarkedInv, InterruptedIsKept, Removing
<1>2. Inv /\ [Next]_vars => [Ambiguous => Ambiguous' /\ files \subseteq files']_vars
  <2> SUFFICES ASSUME Inv, Next, Ambiguous PROVE Ambiguous' /\ files \subseteq files'
    OBVIOUS
  <2> USE DEF Ambiguous, OwnerGone
  <2>1. /\ pc \in [Procs -> OwnerSteps \cup ClientSteps] /\ Owner \in Procs
        /\ Clients \subseteq Procs /\ Owner \notin Clients
    BY ProcsAssumption DEF Inv, TypeOK, PcOK, Procs
  <2>2. ~OwnerStep /\ ~Signal /\ ~OwnerKilled
    BY DEF OwnerStep, MakeDirectory,
        OpenDirectory, CreateLock, TakeLock, CreateManifest, WriteManifest,
        SyncCreated, CreateFails, AbandonCreate, CreateFile, LeaveBody,
        CloseRemoving, TruncateManifest, RewriteManifest, SyncMarked,
        MarkFails, Release, OwnerRemoved, OwnerRemovalFails, RemovalError, Signal,
        InterruptCreate, InterruptBody, InterruptUnstoppable, InterruptRemoval,
        InterruptRelease, OwnerKilled, Creating, Marking, RemovalSteps
  <2>3. \A p \in Procs : ~RemovalStep(p)
    BY DEF RemovalStep, Scan, RemoveDirectory, Unlink, Procs
  <2>4. CASE ChildStep
    BY <2>4 DEF ChildStep, StartChild, ChildWrites, ChildExits, ValidManifest, diskVars
  <2>5. ASSUME NEW c \in Clients, ClientStep(c) \/ ClientKilled(c)
        PROVE  Ambiguous' /\ files \subseteq files'
    <3>1. /\ UNCHANGED diskVars /\ pc'[c] \in {"idle", "begun", "rooted"}
          /\ \A q \in Procs : q # c => pc'[q] = pc[q]
      BY <2>1, <2>5
      DEF ClientStep, ClientKilled, Begin, OpenRoot, LoadManifest, OpenLock, CheckLock, Refuse,
          Acquire, Busy, ListDone, CleanDone, CleanFails, RemovalError, Answer, Goto, RemovalSteps
    <3> QED
      BY <2>1, <2>5, <3>1 DEF diskVars, ValidManifest
  <2> QED
    BY <2>2, <2>3, <2>4, <2>5 DEF Next
<1> QED
  BY <1>1, <1>2, LockInvariant, PTL DEF Spec, RetentionHolds, AmbiguousIsRetained
=============================================================================
