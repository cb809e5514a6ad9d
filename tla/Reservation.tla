---------------------------- MODULE Reservation ----------------------------
(***************************************************************************)
(* Destination reservations: destination.py's reserve and validate, taken  *)
(* by several rewrites at once (engine.py's rewrite), inherited by their   *)
(* descendants (git.py's hold_process_lock and start_process).             *)
(*                                                                         *)
(* Each destination path has a key (device and inode of its parent, hash   *)
(* of the case-folded name); each key has a lock file that is created on   *)
(* first use and never removed by the program.  A flock is on the inode: a *)
(* key's g-th lock file is <<key, g>>, so two holders of one key are two   *)
(* processes that locked different generations of its lock file.           *)
(***************************************************************************)
EXTENDS Naturals, Sequences, FiniteSets

CONSTANTS
  Procs,        \* rewrites
  Paths,        \* destination paths
  Key,          \* the key of each path, comparable like the sorted tuples
  Targets,      \* the <<output>> or <<output, receipt>> each rewrite may ask for
  NoProc,
  MaxRemovals,  \* bound on lock files an administrator removes
  MaxForeign,   \* bound on destinations created by noncooperating writers
  MaxKills      \* bound on SIGKILLs

ASSUME KeyAssumption == Key \in [Paths -> Nat]
ASSUME TargetsAssumption ==
  \A t \in Targets : t \in Seq(Paths) /\ Len(t) \in 1..2
ASSUME NoProcAssumption == NoProc \notin Procs
ASSUME BoundsAssumption ==
  MaxRemovals \in Nat /\ MaxForeign \in Nat /\ MaxKills \in Nat

Keys == {Key[a] : a \in Paths}
Generations == 1..(MaxRemovals + 1)

VARIABLES
  target,     \* what each rewrite was asked to publish
  entry,      \* generation of the lock file in each parent, 0 if none
  latest,     \* generations created so far
  holder,     \* whose open file description holds each inode's flock
  fd,         \* the generation each rewrite opened for a key, 0 if none
  taken,      \* the keys each rewrite has locked and validated
  heirs,      \* rewrites with live descendants, which share their locks
  exists,     \* destination entries
  foreign,    \* those a noncooperating writer made
  left,       \* how many of its destinations each rewrite has to publish
  pc, result, kills

vars == <<target, entry, latest, holder, fd, taken, heirs, exists, foreign, left,
          pc, result, kills>>
lockVars == <<entry, latest, holder, fd, taken>>
pathVars == <<exists, foreign, left>>

Wanted(p) == {target[p][i] : i \in 1..Len(target[p])}
WantedKeys(p) == {Key[a] : a \in Wanted(p)}
Mine(p) == {target[p][i] : i \in (left[p] + 1)..Len(target[p])}

\* Locks are taken in sorted(entries) order.
NextKey(p) ==
  CHOOSE k \in WantedKeys(p) \ taken[p] :
    \A j \in WantedKeys(p) \ taken[p] : k <= j

\* _validate_lock: the descriptor is the entry, still linked once.
Current(p, k) == fd[p][k] = entry[k]

Goto(p, step) == pc' = [pc EXCEPT ![p] = step]

\* Faulty variant: the lock of a failed or killed rewrite stays taken, like
\* that of a lock file whose existence is the lock.
CloseAllStale(p) ==
  /\ fd' = [fd EXCEPT ![p] = [k \in Keys |-> 0]]
  /\ taken' = [taken EXCEPT ![p] = {}]
  /\ UNCHANGED <<entry, latest, holder>>

\* Leaving the ExitStack closes every descriptor; a lock lives on in heirs.
CloseAll(p) ==
  /\ fd' = [fd EXCEPT ![p] = [k \in Keys |-> 0]]
  /\ taken' = [taken EXCEPT ![p] = {}]
  /\ holder' = [x \in Keys \X Generations |->
                  IF holder[x] = p /\ p \notin heirs THEN NoProc ELSE holder[x]]
  /\ UNCHANGED <<entry, latest>>

Finish(p, answer) ==
  /\ result' = [result EXCEPT ![p] = answer]
  /\ Goto(p, "done")
  /\ CloseAll(p)

Init ==
  /\ target \in [Procs -> Targets]
  /\ entry = [k \in Keys |-> 0] /\ latest = [k \in Keys |-> 0]
  /\ holder = [x \in Keys \X Generations |-> NoProc]
  /\ fd = [p \in Procs |-> [k \in Keys |-> 0]]
  /\ taken = [p \in Procs |-> {}]
  /\ heirs = {}
  /\ exists = {} /\ foreign = {}
  /\ left = [p \in Procs |-> Len(target[p])]
  /\ pc = [p \in Procs |-> "validate"]
  /\ result = [p \in Procs |-> "none"]
  /\ kills = 0

-----------------------------------------------------------------------------
(* Taking the reservation.                                                 *)

\* _destination in rewrite(), then validate and the distinct-key test of
\* reserve(): destinations only ever appear, so the last look decides.
Validate(p) ==
  /\ pc[p] = "validate"
  /\ Wanted(p) \cap exists = {}
  /\ Cardinality(WantedKeys(p)) = Len(target[p])
  /\ Goto(p, "acquire")
  /\ UNCHANGED <<target, lockVars, heirs, pathVars, result, kills>>

RefuseTarget(p) ==
  /\ pc[p] = "validate"
  /\ \/ Wanted(p) \cap exists # {}
     \/ Cardinality(WantedKeys(p)) # Len(target[p])
  /\ Finish(p, "refused")
  /\ UNCHANGED <<target, heirs, pathVars, kills>>

\* os.open with O_CREAT | O_EXCL.
CreateLock(p) ==
  LET k == NextKey(p) IN
  /\ pc[p] = "acquire"
  /\ entry[k] = 0
  /\ latest' = [latest EXCEPT ![k] = @ + 1]
  /\ entry' = [entry EXCEPT ![k] = latest[k] + 1]
  /\ fd' = [fd EXCEPT ![p][k] = latest[k] + 1]
  /\ Goto(p, "opened")
  /\ UNCHANGED <<target, holder, taken, heirs, pathVars, result, kills>>

LockExists(p) ==
  /\ pc[p] = "acquire"
  /\ entry[NextKey(p)] # 0
  /\ Goto(p, "reopen")
  /\ UNCHANGED <<target, lockVars, heirs, pathVars, result, kills>>

OpenLock(p) ==
  LET k == NextKey(p) IN
  /\ pc[p] = "reopen"
  /\ entry[k] # 0
  /\ fd' = [fd EXCEPT ![p][k] = entry[k]]
  /\ Goto(p, "opened")
  /\ UNCHANGED <<target, entry, latest, holder, taken, heirs, pathVars, result,
                 kills>>

CheckOpened(p) ==
  /\ pc[p] = "opened"
  /\ Current(p, NextKey(p))
  /\ Goto(p, "checked")
  /\ UNCHANGED <<target, lockVars, heirs, pathVars, result, kills>>

TakeLock(p) ==
  LET k == NextKey(p) IN
  /\ pc[p] = "checked"
  /\ holder[<<k, fd[p][k]>>] = NoProc
  /\ holder' = [holder EXCEPT ![<<k, fd[p][k]>>] = p]
  /\ Goto(p, "locked")
  /\ UNCHANGED <<target, entry, latest, fd, taken, heirs, pathVars, result, kills>>

Busy(p) ==
  LET k == NextKey(p) IN
  /\ pc[p] = "checked"
  /\ holder[<<k, fd[p][k]>>] # NoProc
  /\ Finish(p, "busy")
  /\ UNCHANGED <<target, heirs, pathVars, kills>>

\* Faulty variant: no second check once the lock is taken.
CheckLockedNot(p) ==
  /\ pc[p] = "locked"
  /\ taken' = [taken EXCEPT ![p] = @ \cup {NextKey(p)}]
  /\ Goto(p, IF taken'[p] = WantedKeys(p) THEN "revalidate" ELSE "acquire")
  /\ UNCHANGED <<target, entry, latest, holder, fd, heirs, pathVars, result,
                 kills>>

\* The second _validate_lock, on the lock just taken.
CheckLocked(p) ==
  /\ pc[p] = "locked"
  /\ Current(p, NextKey(p))
  /\ taken' = [taken EXCEPT ![p] = @ \cup {NextKey(p)}]
  /\ Goto(p, IF taken'[p] = WantedKeys(p) THEN "revalidate" ELSE "acquire")
  /\ UNCHANGED <<target, entry, latest, holder, fd, heirs, pathVars, result,
                 kills>>

UnsafeLock(p) ==
  /\ \/ pc[p] = "reopen" /\ entry[NextKey(p)] = 0
     \/ pc[p] \in {"opened", "locked"} /\ ~Current(p, NextKey(p))
  /\ Finish(p, "unsafe")
  /\ UNCHANGED <<target, heirs, pathVars, kills>>

\* Faulty variant: the destinations are looked at only before the locks.
RevalidateNot(p) ==
  /\ pc[p] = "revalidate"
  /\ Goto(p, "body")
  /\ UNCHANGED <<target, lockVars, heirs, pathVars, result, kills>>

\* reserve() and rewrite() look at the destinations again under the locks.
Revalidate(p) ==
  /\ pc[p] = "revalidate"
  /\ Wanted(p) \cap exists = {}
  /\ Goto(p, "body")
  /\ UNCHANGED <<target, lockVars, heirs, pathVars, result, kills>>

RefuseLate(p) ==
  /\ pc[p] = "revalidate"
  /\ Wanted(p) \cap exists # {}
  /\ Finish(p, "refused")
  /\ UNCHANGED <<target, heirs, pathVars, kills>>

-----------------------------------------------------------------------------
(* The rewrite under its reservation.                                      *)

StartChild(p) ==
  /\ pc[p] = "body"
  /\ heirs' = heirs \cup {p}
  /\ UNCHANGED <<target, lockVars, pathVars, pc, result, kills>>

\* The last descendant exits, possibly long after the rewrite.
ChildrenExit(p) ==
  /\ p \in heirs
  /\ heirs' = heirs \ {p}
  /\ holder' = [x \in Keys \X Generations |->
                  IF holder[x] = p /\ pc[p] \in {"done", "dead"}
                    THEN NoProc ELSE holder[x]]
  /\ UNCHANGED <<target, entry, latest, fd, taken, pathVars, pc, result, kills>>

\* The receipt is published before the output; a rename never replaces.
Publish(p) ==
  LET a == target[p][left[p]] IN
  /\ pc[p] = "body"
  /\ a \notin exists
  /\ exists' = exists \cup {a}
  /\ left' = [left EXCEPT ![p] = @ - 1]
  /\ Goto(p, IF left[p] = 1 THEN "published" ELSE "body")
  /\ UNCHANGED <<target, lockVars, heirs, foreign, result, kills>>

Succeed(p) ==
  /\ pc[p] = "published"
  /\ Finish(p, "published")
  /\ UNCHANGED <<target, heirs, pathVars, kills>>

\* The destination exists after all, or the rewrite fails anywhere else.
Fail(p) ==
  /\ pc[p] = "body"
  /\ Finish(p, "failed")
  /\ UNCHANGED <<target, heirs, pathVars, kills>>

Kill(p) ==
  /\ pc[p] \notin {"done", "dead"}
  /\ kills < MaxKills
  /\ kills' = kills + 1
  /\ Goto(p, "dead")
  /\ CloseAll(p)
  /\ UNCHANGED <<target, heirs, pathVars, result>>

-----------------------------------------------------------------------------
(* The environment.                                                        *)

\* An administrator removes a lock file that nobody has locked.  README asks
\* for more (stop all writers first), so this allows more than it should.
RemoveLock(k) ==
  /\ entry[k] # 0
  /\ latest[k] <= MaxRemovals
  /\ holder[<<k, entry[k]>>] = NoProc
  /\ entry' = [entry EXCEPT ![k] = 0]
  /\ UNCHANGED <<target, latest, holder, fd, taken, heirs, pathVars, pc, result,
                 kills>>

\* A writer that takes no reservation creates a destination.
ForeignWrite(a) ==
  /\ a \notin exists
  /\ Cardinality(foreign) < MaxForeign
  /\ exists' = exists \cup {a}
  /\ foreign' = foreign \cup {a}
  /\ UNCHANGED <<target, lockVars, heirs, left, pc, result, kills>>

Acquisition(p) ==
  \/ Validate(p) \/ RefuseTarget(p)
  \/ CreateLock(p) \/ LockExists(p) \/ OpenLock(p) \/ CheckOpened(p)
  \/ TakeLock(p) \/ Busy(p) \/ CheckLocked(p) \/ UnsafeLock(p)
  \/ Revalidate(p) \/ RefuseLate(p)

Body(p) == Publish(p) \/ Succeed(p) \/ Fail(p)

Next ==
  \/ \E p \in Procs : Acquisition(p) \/ Body(p) \/ StartChild(p)
                        \/ ChildrenExit(p) \/ Kill(p)
  \/ \E k \in Keys : RemoveLock(k)
  \/ \E a \in Paths : ForeignWrite(a)

Spec == Init /\ [][Next]_vars

\* A process that runs takes its next step; descendants need never exit.
FairSpec == Spec /\ \A p \in Procs : WF_vars(Acquisition(p)) /\ WF_vars(Body(p))

-----------------------------------------------------------------------------
\* Every variable keeps its type.
TypeOK ==
  /\ target \in [Procs -> Targets]
  /\ entry \in [Keys -> {0} \cup Generations]
  /\ latest \in [Keys -> {0} \cup Generations]
  /\ holder \in [Keys \X Generations -> Procs \cup {NoProc}]
  /\ fd \in [Procs -> [Keys -> {0} \cup Generations]]
  /\ taken \in [Procs -> SUBSET Keys]
  /\ heirs \subseteq Procs
  /\ exists \subseteq Paths /\ foreign \subseteq Paths
  /\ left \in [Procs -> 0..2]
  /\ pc \in [Procs -> {"validate", "acquire", "reopen", "opened", "checked",
                       "locked", "revalidate", "body", "published", "done",
                       "dead"}]
  /\ result \in [Procs -> {"none", "refused", "busy", "unsafe", "published",
                           "failed"}]
  /\ kills \in 0..MaxKills

Trying == {"acquire", "reopen", "opened", "checked", "locked"}
Working == {"revalidate", "body", "published"}

\* p may be changing the destinations of its keys: it is in the reserved part
\* of the rewrite, or descendants of it still run.
Active(p) == pc[p] \in Working \/ p \in heirs

\* Two rewrites, or what they left running, are never active on destinations
\* with a common key, though lock files may be removed and created anew.
MutualExclusion ==
  \A p, q \in Procs :
    (p # q /\ Active(p) /\ Active(q)) => WantedKeys(p) \cap WantedKeys(q) = {}

\* While a rewrite works, none of its destinations is taken by another
\* cooperating rewrite: what it validated is still true when it publishes.
DestinationStaysFree ==
  \A p \in Procs : pc[p] = "body" =>
    Wanted(p) \cap exists \subseteq Mine(p) \cup foreign

\* p holds the lock file that is in the directory now, not a removed one.
Holds(p, k) == entry[k] # 0 /\ holder[<<k, entry[k]>>] = p

\* Each lock file in a directory is the last one created there.
EntryInv ==
  \A k \in Keys : IF entry[k] = 0 THEN latest[k] <= MaxRemovals
                                  ELSE entry[k] = latest[k]

\* The keys a rewrite has taken at each step.
KeysInv(p) ==
  /\ taken[p] \subseteq WantedKeys(p)
  /\ pc[p] \in {"validate", "done", "dead"} => taken[p] = {}
  /\ pc[p] \in Trying => taken[p] # WantedKeys(p)
  /\ pc[p] \in Working => taken[p] = WantedKeys(p)

\* It keeps their locks until the last of its descendants is gone.
LocksInv(p) ==
  /\ p \in heirs => pc[p] \in {"body", "published", "done", "dead"}
  /\ \A k \in taken[p] : Holds(p, k)
  /\ Active(p) => \A k \in WantedKeys(p) : Holds(p, k)

\* The descriptor a rewrite is about to lock or to check.
DescriptorInv(p) ==
  /\ pc[p] \in {"opened", "checked", "locked"} => fd[p][NextKey(p)] # 0
  /\ pc[p] = "locked" => holder[<<NextKey(p), fd[p][NextKey(p)]>>] = p

\* What a rewrite still has to publish.
LeftInv(p) ==
  /\ left[p] <= Len(target[p])
  /\ pc[p] \in Trying \cup {"validate", "revalidate", "body"} => left[p] > 0

ProcInv(p) == KeysInv(p) /\ LocksInv(p) /\ DescriptorInv(p) /\ LeftInv(p)

\* The inductive invariant behind MutualExclusion: the keys a rewrite has
\* taken are locked, by it or its descendants, on the lock files that are in
\* the directories now, so a new lock file can never be locked beside an old.
ReservationInv == EntryInv /\ \A p \in Procs : ProcInv(p)

\* Whoever holds a lock is on its way or active, wants its key, and has taken
\* that key unless it has just locked it and still has to check.
HeldInv ==
  \A p \in Procs, x \in Keys \X Generations : holder[x] = p =>
    /\ pc[p] \in Trying \cup Working \/ p \in heirs
    /\ x[1] \in WantedKeys(p)
    /\ pc[p] \in Trying => x[1] \in taken[p] \/ (pc[p] = "locked" /\ x[1] = NextKey(p))

\* What every step of reserve() and of the rewrite under it keeps.
Inv == TypeOK /\ ReservationInv /\ HeldInv

\* A rewrite is refused as busy only while another rewrite that wants one of
\* its keys, or what that one left running, is alive: locks of crashed or
\* finished rewrites never block, though their files stay for ever.
BusyMeansContended ==
  [][\A p \in Procs : (result[p] = "none" /\ result'[p] = "busy") =>
       \E q \in Procs \ {p} : /\ pc[q] \in Trying \/ Active(q)
                              /\ NextKey(p) \in WantedKeys(q)]_vars

\* Every rewrite ends, even when orphaned descendants keep a lock for ever.
EveryRewriteEnds == \A p \in Procs : <>(pc[p] \in {"done", "dead"})

\* Nobody is blocked, neither by those who are gone nor by those who wait.
NobodyIsBlocked == BusyMeansContended /\ EveryRewriteEnds
=============================================================================
