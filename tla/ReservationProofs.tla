------------------------- MODULE ReservationProofs -------------------------
(***************************************************************************)
(* Proofs about Reservation for any rewrites, paths, keys and bounds.      *)
(***************************************************************************)
EXTENDS Reservation, TLAPS

USE DEF Trying, Working

\* The types of the variables that say what is wanted.
LEMMA WantedTypes ==
  ASSUME target \in [Procs -> Targets], NEW p \in Procs
  PROVE  /\ WantedKeys(p) \subseteq Keys
         /\ WantedKeys(p) # {}
         /\ Wanted(p) \subseteq Paths
         /\ Len(target[p]) \in 1..2
         /\ \A i \in 1..Len(target[p]) : target[p][i] \in Wanted(p)
<1>1. target[p] \in Seq(Paths) /\ Len(target[p]) \in 1..2
  BY TargetsAssumption
<1>2. \A i \in 1..Len(target[p]) : target[p][i] \in Paths
  BY <1>1
<1>3. target[p][1] \in Wanted(p)
  BY <1>1 DEF Wanted
<1> QED
  BY <1>1, <1>2, <1>3 DEF WantedKeys, Wanted, Keys

\* A rewrite that still lacks a key can tell which one comes next.
LEMMA NextKeyWanted ==
  ASSUME target \in [Procs -> Targets], NEW p \in Procs,
         taken[p] \subseteq WantedKeys(p), taken[p] # WantedKeys(p)
  PROVE  NextKey(p) \in WantedKeys(p) \ taken[p]
<1> DEFINE S == WantedKeys(p) \ taken[p]
<1>1. PICK a \in Nat, b \in Nat : WantedKeys(p) \subseteq {a, b}
  <2>1. target[p] \in Seq(Paths) /\ Len(target[p]) \in 1..2
    BY TargetsAssumption
  <2>2. \A i \in 1..Len(target[p]) : Key[target[p][i]] \in Nat
    BY <2>1, KeyAssumption
  <2>3. CASE Len(target[p]) = 1
    BY <2>2, <2>3 DEF WantedKeys, Wanted
  <2>4. CASE Len(target[p]) = 2
    BY <2>2, <2>4 DEF WantedKeys, Wanted
  <2> QED
    BY <2>1, <2>3, <2>4
<1>2. \E k \in S : \A j \in S : k <= j
  <2>1. S # {} /\ S \subseteq {a, b}
    BY <1>1
  <2> QED
    BY <2>1
<1> QED
  BY <1>2 DEF NextKey

(***************************************************************************)
(* Types, one group of variables at a time.                                *)
(***************************************************************************)

LockTypes ==
  /\ entry \in [Keys -> {0} \cup Generations]
  /\ latest \in [Keys -> {0} \cup Generations]
  /\ holder \in [Keys \X Generations -> Procs \cup {NoProc}]
  /\ fd \in [Procs -> [Keys -> {0} \cup Generations]]
  /\ taken \in [Procs -> SUBSET Keys]

\* Leaving the ExitStack keeps the types of the locks.
LEMMA CloseTypes ==
  ASSUME TypeOK, NEW p \in Procs, CloseAll(p)
  PROVE  LockTypes'
BY DEF TypeOK, LockTypes, CloseAll

\* Types: validating, opening, locking and checking again.
LEMMA AcquisitionTypes ==
  ASSUME Inv, NEW p \in Procs, Acquisition(p)
  PROVE  TypeOK'
<1> USE DEF Inv
<1>1. CASE Validate(p) \/ LockExists(p) \/ CheckOpened(p) \/ Revalidate(p)
  BY <1>1 DEF TypeOK, Validate, LockExists, CheckOpened, Revalidate, Goto,
              lockVars, pathVars
<1>2. CASE RefuseTarget(p) \/ Busy(p) \/ UnsafeLock(p) \/ RefuseLate(p)
  <2>1. LockTypes'
    BY <1>2, CloseTypes DEF RefuseTarget, Busy, UnsafeLock, RefuseLate, Finish
  <2> QED
    BY <1>2, <2>1 DEF TypeOK, LockTypes, RefuseTarget, Busy, UnsafeLock,
       RefuseLate, Finish, Goto, pathVars
<1>3. pc[p] \in Trying => NextKey(p) \in Keys
  BY NextKeyWanted, WantedTypes DEF TypeOK, ReservationInv, ProcInv, KeysInv
<1>4. CASE CreateLock(p)
  <2>1. latest[NextKey(p)] + 1 \in Generations
    BY <1>3, <1>4, BoundsAssumption, SMTT(30)
    DEF CreateLock, TypeOK, Generations, ReservationInv, EntryInv
  <2> QED
    BY <1>3, <1>4, <2>1 DEF CreateLock, TypeOK, Goto, pathVars
<1>5. CASE OpenLock(p)
  BY <1>3, <1>5 DEF OpenLock, TypeOK, Goto, pathVars
<1>6. CASE TakeLock(p)
  BY <1>6 DEF TakeLock, TypeOK, Goto, pathVars
<1>7. CASE CheckLocked(p)
  BY <1>3, <1>7 DEF CheckLocked, TypeOK, Goto, pathVars
<1> QED
  BY <1>1, <1>2, <1>4, <1>5, <1>6, <1>7 DEF Acquisition

\* Types: the body, its children, deaths and the environment.
LEMMA OtherTypes ==
  ASSUME Inv,
         \/ \E p \in Procs : Body(p) \/ StartChild(p) \/ ChildrenExit(p) \/ Kill(p)
         \/ \E k \in Keys : RemoveLock(k)
         \/ \E a \in Paths : ForeignWrite(a)
  PROVE  TypeOK'
<1> USE DEF Inv
<1>1. ASSUME NEW p \in Procs, StartChild(p) \/ ChildrenExit(p) PROVE TypeOK'
  BY <1>1 DEF StartChild, ChildrenExit, TypeOK, lockVars, pathVars
<1>2. ASSUME NEW p \in Procs, Publish(p) PROVE TypeOK'
  <2>1. left[p] \in 1..Len(target[p]) /\ target[p][left[p]] \in Paths
    <3>1. /\ Len(target[p]) \in 1..2 /\ Wanted(p) \subseteq Paths
          /\ \A i \in 1..Len(target[p]) : target[p][i] \in Wanted(p)
      BY WantedTypes DEF TypeOK
    <3>2. left[p] > 0 /\ left[p] <= Len(target[p])
      BY <1>2 DEF Publish, ReservationInv, ProcInv, LeftInv
    <3>3. left[p] \in 0..2
      BY DEF TypeOK
    <3> QED
      BY <3>1, <3>2, <3>3
  <2>2. left' \in [Procs -> 0..2]
    BY <1>2, <2>1 DEF Publish, TypeOK
  <2>3. pc' \in [Procs -> Trying \cup Working \cup {"validate", "done", "dead"}]
    BY <1>2 DEF Publish, TypeOK, Goto
  <2> QED
    BY <1>2, <2>1, <2>2, <2>3 DEF Publish, TypeOK, lockVars
<1>3. ASSUME NEW p \in Procs, Succeed(p) \/ Fail(p) \/ Kill(p) PROVE TypeOK'
  <2>1. LockTypes'
    BY <1>3, CloseTypes DEF Succeed, Fail, Kill, Finish
  <2>2. CASE Succeed(p) \/ Fail(p)
    BY <2>1, <2>2 DEF TypeOK, LockTypes, Succeed, Fail, Finish, Goto, pathVars
  <2>3. CASE Kill(p)
    BY <2>1, <2>3, BoundsAssumption
    DEF TypeOK, LockTypes, Kill, Goto, pathVars
  <2> QED
    BY <1>3, <2>2, <2>3
<1>4. ASSUME NEW k \in Keys, RemoveLock(k) PROVE TypeOK'
  BY <1>4 DEF RemoveLock, TypeOK, pathVars
<1>5. ASSUME NEW a \in Paths, ForeignWrite(a) PROVE TypeOK'
  BY <1>5 DEF ForeignWrite, TypeOK, lockVars
<1> QED
  BY <1>1, <1>2, <1>3, <1>4, <1>5 DEF Body

(***************************************************************************)
(* The reservation invariant, step by step.                                *)
(***************************************************************************)

\* A step that leaves q where it is and takes no lock from it keeps what the
\* invariant says of q.
LEMMA Frame ==
  ASSUME Inv, NEW q \in Procs,
         target' = target, pc'[q] = pc[q], taken'[q] = taken[q],
         fd'[q] = fd[q], left'[q] = left[q], q \in heirs' <=> q \in heirs,
         \A k \in Keys : Holds(q, k) => Holds(q, k)',
         \A x \in Keys \X Generations : holder[x] = q => holder'[x] = q
  PROVE  ProcInv(q)'
<1> USE DEF Inv, ReservationInv, ProcInv
<1>1. WantedKeys(q)' = WantedKeys(q) /\ WantedKeys(q) \subseteq Keys
  BY WantedTypes DEF WantedKeys, Wanted, TypeOK
<1>2. NextKey(q)' = NextKey(q)
  BY <1>1 DEF NextKey
<1>3. KeysInv(q)'
  BY <1>1 DEF KeysInv
<1>4. LocksInv(q)'
  BY <1>1 DEF LocksInv, KeysInv, Active
<1>5. pc[q] = "locked" => <<NextKey(q), fd[q][NextKey(q)]>> \in Keys \X Generations
  BY <1>1, NextKeyWanted DEF TypeOK, KeysInv, DescriptorInv
<1>6. DescriptorInv(q)'
  BY <1>2, <1>5 DEF DescriptorInv
<1>7. LeftInv(q)'
  BY DEF LeftInv
<1> QED
  BY <1>3, <1>4, <1>6, <1>7

\* Leaving the ExitStack, by an answer or a SIGKILL, frees only what the
\* rewrite holds and no descendant of it does.
LEMMA CloseKeeps ==
  ASSUME Inv, NEW p \in Procs, CloseAll(p),
         NEW s \in {"done", "dead"}, Goto(p, s),
         UNCHANGED <<target, heirs, left>>,
         p \in heirs => pc[p] \in {"body", "published"}
  PROVE  ReservationInv'
<1> USE DEF Inv, ReservationInv, ProcInv
<1>1. EntryInv'
  BY DEF EntryInv, CloseAll
<1>2. \A q \in Procs, x \in Keys \X Generations :
        (holder[x] = q /\ (q # p \/ p \in heirs)) => holder'[x] = q
  BY DEF CloseAll, TypeOK
<1>3. \A q \in Procs, k \in Keys :
        (Holds(q, k) /\ (q # p \/ p \in heirs)) => Holds(q, k)'
  BY <1>2 DEF Holds, CloseAll, TypeOK
<1>4. ASSUME NEW q \in Procs, q # p PROVE ProcInv(q)'
  BY <1>2, <1>3, <1>4, Frame DEF CloseAll, Goto, TypeOK
<1>5. ProcInv(p)'
  <2>1. pc'[p] = s /\ taken'[p] = {}
    BY DEF CloseAll, Goto, TypeOK
  <2>2. WantedKeys(p)' = WantedKeys(p) /\ WantedKeys(p) \subseteq Keys
    BY WantedTypes DEF WantedKeys, Wanted, TypeOK
  <2>3. LocksInv(p)'
    BY <1>3, <2>1, <2>2 DEF LocksInv, Active
  <2> QED
    BY <2>1, <2>2, <2>3 DEF KeysInv, DescriptorInv, LeftInv
<1> QED
  BY <1>1, <1>4, <1>5

\* A step that only moves one rewrite on, with every lock as it was.
LEMMA MoveKeeps ==
  ASSUME Inv, NEW p \in Procs,
         Validate(p) \/ LockExists(p) \/ CheckOpened(p) \/ Revalidate(p)
  PROVE  ReservationInv'
<1> USE DEF Inv, ReservationInv, Validate, LockExists, CheckOpened, Revalidate,
        lockVars, pathVars, Goto
<1>1. EntryInv'
  BY DEF EntryInv
<1>2. \A q \in Procs, k \in Keys : Holds(q, k) => Holds(q, k)'
  BY DEF Holds
<1>3. ASSUME NEW q \in Procs, q # p PROVE ProcInv(q)'
  BY <1>2, <1>3, Frame DEF TypeOK
<1>4. ProcInv(p)'
  <2> USE DEF ProcInv
  <2>1. WantedKeys(p)' = WantedKeys(p)
    <3>1. target' = target
      OBVIOUS
    <3> HIDE DEF Inv, ReservationInv
    <3> QED
      BY <3>1 DEF WantedKeys, Wanted
  <2>0. WantedKeys(p) \subseteq Keys /\ WantedKeys(p) # {}
    BY WantedTypes DEF TypeOK
  <2>2. NextKey(p)' = NextKey(p)
    BY <2>1 DEF NextKey
  <2>3. /\ pc[p] \in {"validate", "acquire", "opened", "revalidate"}
        /\ pc'[p] = CASE pc[p] = "validate" -> "acquire"
                      [] pc[p] = "acquire" -> "reopen"
                      [] pc[p] = "opened" -> "checked"
                      [] pc[p] = "revalidate" -> "body"
    BY DEF TypeOK
  <2>4. KeysInv(p)'
    BY <2>0, <2>1, <2>3 DEF KeysInv
  <2>5. LocksInv(p)'
    BY <2>0, <2>1, <2>3, <1>2 DEF LocksInv, KeysInv, Active
  <2>6. DescriptorInv(p)'
    BY <2>2, <2>3 DEF DescriptorInv
  <2>7. LeftInv(p)'
    BY <2>3 DEF LeftInv
  <2> QED
    BY <2>4, <2>5, <2>6, <2>7
<1> QED
  BY <1>1, <1>3, <1>4

\* Creating or opening a lock file disturbs nobody: a created one is new, so
\* nobody held its predecessor's entry.
LEMMA OpenKeeps ==
  ASSUME Inv, NEW p \in Procs, CreateLock(p) \/ OpenLock(p)
  PROVE  ReservationInv'
<1> USE DEF Inv, ReservationInv, pathVars, Goto
<1>0. pc[p] \in {"acquire", "reopen"} /\ p \notin heirs
  BY DEF CreateLock, OpenLock, ProcInv, LocksInv
<1>1. NextKey(p) \in Keys
  BY <1>0, NextKeyWanted, WantedTypes DEF TypeOK, ProcInv, KeysInv
<1>2. EntryInv'
  BY <1>1, BoundsAssumption, SMTT(30)
  DEF EntryInv, CreateLock, OpenLock, TypeOK, Generations
<1>3. \A q \in Procs, k \in Keys : Holds(q, k) => Holds(q, k)'
  BY DEF Holds, CreateLock, OpenLock, TypeOK
<1>4. ASSUME NEW q \in Procs, q # p PROVE ProcInv(q)'
  BY <1>3, <1>4, Frame DEF TypeOK, CreateLock, OpenLock
<1>5. ProcInv(p)'
  <2> USE DEF ProcInv
  <2>1. WantedKeys(p)' = WantedKeys(p)
    <3> HIDE DEF Inv, ReservationInv, ProcInv
    <3>1. target' = target
      BY DEF CreateLock, OpenLock
    <3> QED
      BY <3>1 DEF WantedKeys, Wanted
  <2>2. NextKey(p)' = NextKey(p)
    BY <2>1 DEF NextKey, CreateLock, OpenLock
  <2>3. pc'[p] = "opened" /\ taken' = taken /\ heirs' = heirs /\ left' = left /\ target' = target
    BY DEF CreateLock, OpenLock, TypeOK
  <2>4. KeysInv(p)' /\ LeftInv(p)'
    BY <1>0, <2>1, <2>3 DEF KeysInv, LeftInv
  <2>5. LocksInv(p)'
    BY <1>0, <1>3, <2>3 DEF LocksInv, Active, TypeOK
  <2>6. fd'[p][NextKey(p)] # 0
    <3>1. CASE CreateLock(p)
      <4>1. latest[NextKey(p)] \in Nat
        BY <1>1, BoundsAssumption DEF TypeOK, Generations
      <4>2. fd'[p][NextKey(p)] = latest[NextKey(p)] + 1
        BY <3>1, <1>1 DEF CreateLock, TypeOK
      <4> QED
        BY <4>1, <4>2
    <3>2. CASE OpenLock(p)
      BY <3>2, <1>1 DEF OpenLock, TypeOK
    <3> QED
      BY <3>1, <3>2
  <2>7. DescriptorInv(p)'
    BY <2>2, <2>3, <2>6 DEF DescriptorInv
  <2> QED
    BY <2>4, <2>5, <2>7
<1> QED
  BY <1>2, <1>4, <1>5

\* A lock is taken only from nobody.
LEMMA TakeKeeps ==
  ASSUME Inv, NEW p \in Procs, TakeLock(p)
  PROVE  ReservationInv'
<1> USE DEF Inv, ReservationInv, TakeLock, pathVars, Goto
<1>0. p \notin heirs
  BY DEF ProcInv, LocksInv
<1>1. /\ NextKey(p) \in Keys /\ fd[p][NextKey(p)] \in Generations
  BY NextKeyWanted, WantedTypes DEF TypeOK, ProcInv, KeysInv, DescriptorInv
<1>2. EntryInv'
  BY DEF EntryInv
<1>3. \A q \in Procs, x \in Keys \X Generations : holder[x] = q => holder'[x] = q
  BY NoProcAssumption DEF TypeOK
<1>4. \A q \in Procs, k \in Keys : Holds(q, k) => Holds(q, k)'
  BY <1>3 DEF Holds, TypeOK
<1>5. ASSUME NEW q \in Procs, q # p PROVE ProcInv(q)'
  BY <1>3, <1>4, <1>5, Frame DEF TypeOK
<1>6. ProcInv(p)'
  <2> USE DEF ProcInv
  <2>1. WantedKeys(p)' = WantedKeys(p) /\ WantedKeys(p) \subseteq Keys
    BY WantedTypes DEF WantedKeys, Wanted, TypeOK
  <2>2. NextKey(p)' = NextKey(p)
    BY <2>1 DEF NextKey
  <2>3. pc'[p] = "locked"
    BY DEF TypeOK
  <2>4. KeysInv(p)' /\ LeftInv(p)'
    BY <2>1, <2>3 DEF KeysInv, LeftInv
  <2>5. LocksInv(p)'
    BY <1>0, <1>4, <2>1, <2>3 DEF LocksInv, Active, KeysInv
  <2>6. holder'[<<NextKey(p), fd[p][NextKey(p)]>>] = p
    BY <1>1 DEF TypeOK
  <2>7. DescriptorInv(p)'
    BY <1>1, <2>2, <2>3, <2>6 DEF DescriptorInv
  <2> QED
    BY <2>4, <2>5, <2>7
<1> QED
  BY <1>2, <1>5, <1>6

\* The second check makes the lock that was taken the lock of the key.
LEMMA CheckKeeps ==
  ASSUME Inv, NEW p \in Procs, CheckLocked(p)
  PROVE  ReservationInv'
<1> USE DEF Inv, ReservationInv, CheckLocked, pathVars, Goto
<1>0. p \notin heirs
  BY DEF ProcInv, LocksInv
<1>1. NextKey(p) \in WantedKeys(p) \ taken[p] /\ WantedKeys(p) \subseteq Keys
  BY NextKeyWanted, WantedTypes DEF TypeOK, ProcInv, KeysInv
<1>2. EntryInv'
  BY DEF EntryInv
<1>3. \A q \in Procs, k \in Keys : Holds(q, k) => Holds(q, k)'
  BY DEF Holds
<1>4. ASSUME NEW q \in Procs, q # p PROVE ProcInv(q)'
  BY <1>3, <1>4, Frame DEF TypeOK
<1>5. Holds(p, NextKey(p))
  BY <1>1 DEF Holds, Current, ProcInv, DescriptorInv, TypeOK
<1>6. ProcInv(p)'
  <2> USE DEF ProcInv
  <2>1. WantedKeys(p)' = WantedKeys(p)
    BY DEF WantedKeys, Wanted
  <2>2. taken'[p] = taken[p] \cup {NextKey(p)}
    BY DEF TypeOK
  <2>3. pc'[p] = IF taken'[p] = WantedKeys(p) THEN "revalidate" ELSE "acquire"
    BY DEF TypeOK
  <2>4. KeysInv(p)'
    BY <1>1, <2>1, <2>2, <2>3 DEF KeysInv
  <2>5. LocksInv(p)'
    BY <1>0, <1>1, <1>3, <1>5, <2>1, <2>2, <2>3, <2>4 DEF LocksInv, Active, KeysInv
  <2>6. DescriptorInv(p)'
    BY <2>3 DEF DescriptorInv
  <2>7. LeftInv(p)'
    <3>1. pc[p] = "locked" /\ left' = left /\ target' = target
      OBVIOUS
    <3>2. left[p] > 0 /\ left[p] <= Len(target[p])
      BY <3>1 DEF LeftInv
    <3> QED
      BY <3>1, <3>2 DEF LeftInv
  <2> QED
    BY <2>4, <2>5, <2>6, <2>7
<1> QED
  BY <1>2, <1>4, <1>6

\* A step of reserve keeps every key that was taken on the current lock file.
LEMMA AcquisitionKeeps ==
  ASSUME Inv, NEW p \in Procs, Acquisition(p)
  PROVE  ReservationInv'
<1>1. CASE RefuseTarget(p) \/ Busy(p) \/ UnsafeLock(p) \/ RefuseLate(p)
  <2>1. CloseAll(p) /\ Goto(p, "done") /\ UNCHANGED <<target, heirs, left>>
    BY <1>1 DEF RefuseTarget, Busy, UnsafeLock, RefuseLate, Finish, pathVars
  <2>2. p \notin heirs
    BY <1>1 DEF RefuseTarget, Busy, UnsafeLock, RefuseLate, Inv,
                ReservationInv, ProcInv, LocksInv
  <2> QED
    BY <2>1, <2>2, CloseKeeps
<1> QED
  BY <1>1, MoveKeeps, OpenKeeps, TakeKeeps, CheckKeeps DEF Acquisition

(***************************************************************************)
(* Descendants, publication and the environment.                           *)
(***************************************************************************)

\* A child shares the locks of its rewrite and releases none but the last.
LEMMA ChildrenKeep ==
  ASSUME Inv, NEW p \in Procs, StartChild(p) \/ ChildrenExit(p)
  PROVE  ReservationInv'
<1> USE DEF Inv, ReservationInv
<1>1. /\ UNCHANGED <<target, entry, latest, fd, taken, pathVars, pc>>
      /\ \A q \in Procs : q # p => (q \in heirs' <=> q \in heirs)
      /\ pc[p] \in {"body", "published", "done", "dead"}
  BY DEF StartChild, ChildrenExit, lockVars, ProcInv, LocksInv
<1>2. \A q \in Procs, x \in Keys \X Generations :
        (holder[x] = q /\ (q # p \/ pc[p] \notin {"done", "dead"})) => holder'[x] = q
  BY DEF StartChild, ChildrenExit, lockVars, TypeOK
<1>3. \A q \in Procs, k \in Keys :
        (Holds(q, k) /\ (q # p \/ pc[p] \notin {"done", "dead"})) => Holds(q, k)'
  BY <1>1, <1>2 DEF Holds, TypeOK
<1>4. EntryInv'
  BY <1>1 DEF EntryInv
<1>5. ASSUME NEW q \in Procs, q # p PROVE ProcInv(q)'
  BY <1>1, <1>2, <1>3, <1>5, Frame DEF pathVars
<1>6. ProcInv(p)'
  <2> USE DEF ProcInv
  <2>1. WantedKeys(p)' = WantedKeys(p) /\ WantedKeys(p) \subseteq Keys
    BY <1>1, WantedTypes DEF WantedKeys, Wanted, TypeOK
  <2>2. KeysInv(p)' /\ LeftInv(p)' /\ DescriptorInv(p)'
    BY <1>1, <2>1 DEF KeysInv, LeftInv, DescriptorInv, pathVars
  <2>3. p \in heirs' => pc[p] = "body"
    BY DEF StartChild, ChildrenExit
  <2>4. LocksInv(p)'
    BY <1>1, <1>3, <2>1, <2>3 DEF LocksInv, KeysInv, Active
  <2> QED
    BY <2>2, <2>4
<1> QED
  BY <1>4, <1>5, <1>6

\* Publishing changes no lock.
LEMMA PublishKeeps ==
  ASSUME Inv, NEW p \in Procs, Publish(p)
  PROVE  ReservationInv'
<1> USE DEF Inv, ReservationInv
<1>1. /\ UNCHANGED <<target, entry, latest, holder, fd, taken, heirs>>
      /\ pc[p] = "body" /\ pc'[p] = (IF left[p] = 1 THEN "published" ELSE "body")
      /\ left'[p] = left[p] - 1
      /\ \A q \in Procs : q # p => pc'[q] = pc[q] /\ left'[q] = left[q]
  BY DEF Publish, lockVars, Goto, TypeOK
<1>2. EntryInv'
  BY <1>1 DEF EntryInv
<1>3. \A q \in Procs, k \in Keys : Holds(q, k) => Holds(q, k)'
  BY <1>1 DEF Holds
<1>4. ASSUME NEW q \in Procs, q # p PROVE ProcInv(q)'
  BY <1>1, <1>3, <1>4, Frame
<1>5. ProcInv(p)'
  <2> USE DEF ProcInv
  <2>1. WantedKeys(p)' = WantedKeys(p) /\ WantedKeys(p) \subseteq Keys
    BY <1>1, WantedTypes DEF WantedKeys, Wanted, TypeOK
  <2>2. KeysInv(p)' /\ DescriptorInv(p)'
    BY <1>1, <2>1 DEF KeysInv, DescriptorInv
  <2>3. LocksInv(p)'
    BY <1>1, <1>3, <2>1 DEF LocksInv, KeysInv, Active
  <2>4. LeftInv(p)'
    <3>1. left[p] \in 0..2 /\ Len(target[p]) \in 1..2
      BY WantedTypes DEF TypeOK
    <3>2. left[p] > 0 /\ left[p] <= Len(target[p])
      BY <1>1 DEF LeftInv
    <3> QED
      BY <1>1, <3>1, <3>2 DEF LeftInv
  <2> QED
    BY <2>2, <2>3, <2>4
<1> QED
  BY <1>2, <1>4, <1>5

\* An administrator removes no lock file that is held; a foreign writer none at all.
LEMMA EnvironmentKeeps ==
  ASSUME Inv, \/ \E k \in Keys : RemoveLock(k)
              \/ \E a \in Paths : ForeignWrite(a)
  PROVE  ReservationInv'
<1> USE DEF Inv, ReservationInv
<1>1. UNCHANGED <<target, latest, holder, fd, taken, heirs, left, pc>>
  BY DEF RemoveLock, ForeignWrite, lockVars, pathVars
<1>2. EntryInv'
  BY <1>1 DEF EntryInv, RemoveLock, ForeignWrite, lockVars, TypeOK
<1>3. \A q \in Procs, k \in Keys : Holds(q, k) => Holds(q, k)'
  BY <1>1, NoProcAssumption DEF Holds, RemoveLock, ForeignWrite, lockVars, TypeOK
<1>4. ASSUME NEW q \in Procs PROVE ProcInv(q)'
  BY <1>1, <1>3, Frame
<1> QED
  BY <1>2, <1>4

(***************************************************************************)
(* Who can hold a lock.                                                    *)
(***************************************************************************)

\* What HeldInv says of one rewrite.
HeldBy(p) ==
  \A x \in Keys \X Generations : holder[x] = p =>
    /\ pc[p] \in Trying \cup Working \/ p \in heirs
    /\ x[1] \in WantedKeys(p)
    /\ pc[p] \in Trying => x[1] \in taken[p] \/ (pc[p] = "locked" /\ x[1] = NextKey(p))

\* It stays true of a rewrite that is left where it is and gains no lock.
LEMMA HeldFrame ==
  ASSUME Inv, NEW q \in Procs, target' = target, pc'[q] = pc[q], taken'[q] = taken[q],
         q \in heirs' <=> q \in heirs,
         \A x \in Keys \X Generations : holder'[x] = q => holder[x] = q
  PROVE  HeldBy(q)'
<1>1. WantedKeys(q)' = WantedKeys(q)
  BY DEF WantedKeys, Wanted
<1>2. NextKey(q)' = NextKey(q)
  BY <1>1 DEF NextKey
<1>3. HeldBy(q)
  BY DEF Inv, HeldInv, HeldBy
<1> QED
  BY <1>1, <1>2, <1>3 DEF HeldBy

\* Leaving the ExitStack leaves locks to descendants only.
LEMMA HeldClose ==
  ASSUME Inv, NEW p \in Procs, CloseAll(p), NEW s \in {"done", "dead"}, Goto(p, s),
         UNCHANGED <<target, heirs>>
  PROVE  HeldInv'
<1>1. \A q \in Procs, x \in Keys \X Generations : holder'[x] = q => holder[x] = q
  BY NoProcAssumption DEF CloseAll, Inv, TypeOK
<1>2. ASSUME NEW q \in Procs, q # p PROVE HeldBy(q)'
  <2>1. pc'[q] = pc[q] /\ taken'[q] = taken[q]
    BY <1>2 DEF Goto, CloseAll, Inv, TypeOK
  <2> QED
    BY <1>1, <2>1, HeldFrame
<1>3. HeldBy(p)'
  <2>1. \A x \in Keys \X Generations : holder'[x] = p => holder[x] = p /\ p \in heirs
    BY NoProcAssumption DEF CloseAll, Inv, TypeOK
  <2>2. WantedKeys(p)' = WantedKeys(p)
    BY DEF WantedKeys, Wanted
  <2>3. pc'[p] = s
    BY DEF Goto, Inv, TypeOK
  <2>4. HeldBy(p)
    BY DEF Inv, HeldInv, HeldBy
  <2> QED
    BY <2>1, <2>2, <2>3, <2>4 DEF HeldBy
<1> QED
  BY <1>2, <1>3 DEF HeldInv, HeldBy

\* A rewrite that goes on without a new lock keeps those it has taken.
LEMMA HeldMove ==
  ASSUME Inv, NEW p \in Procs,
         \/ Validate(p) \/ LockExists(p) \/ CheckOpened(p) \/ Revalidate(p)
         \/ CreateLock(p) \/ OpenLock(p) \/ CheckLocked(p)
         \/ StartChild(p) \/ Publish(p)
  PROVE  HeldInv'
<1>1. target' = target /\ holder' = holder
  BY DEF Validate, LockExists, CheckOpened, Revalidate, CreateLock, OpenLock,
         CheckLocked, StartChild, Publish, lockVars
<1>2. /\ \A q \in Procs : q # p => /\ pc'[q] = pc[q] /\ taken'[q] = taken[q]
                                   /\ q \in heirs' <=> q \in heirs
      /\ pc'[p] \in Trying \cup Working
      /\ pc'[p] # "locked"
      /\ p \notin heirs => pc[p] \in Trying \cup Working \cup {"validate"}
      /\ pc'[p] \in Trying => pc[p] \in Trying \cup {"validate"}
      /\ pc[p] = "validate" => p \notin heirs
      /\ pc[p] = "locked" => CheckLocked(p)
      /\ taken[p] \subseteq taken'[p]
  <2>1. CASE Validate(p) \/ LockExists(p) \/ CheckOpened(p) \/ Revalidate(p)
    BY <2>1 DEF Validate, LockExists, CheckOpened, Revalidate, Goto, lockVars, Inv,
                TypeOK, ReservationInv, ProcInv, LocksInv
  <2>2. CASE CreateLock(p) \/ OpenLock(p)
    BY <2>2 DEF CreateLock, OpenLock, Goto, Inv, TypeOK, ReservationInv, ProcInv,
                LocksInv
  <2>3. CASE CheckLocked(p)
    BY <2>3 DEF CheckLocked, Goto, Inv, TypeOK, ReservationInv, ProcInv, LocksInv
  <2>4. CASE StartChild(p) \/ Publish(p)
    BY <2>4 DEF StartChild, Publish, lockVars, Goto, Inv, TypeOK
  <2> QED
    BY <2>1, <2>2, <2>3, <2>4
<1>3. pc[p] = "locked" => NextKey(p) \in taken'[p]
  BY <1>2 DEF CheckLocked, Inv, TypeOK
<1>4. ASSUME NEW q \in Procs, q # p PROVE HeldBy(q)'
  BY <1>1, <1>2, <1>4, HeldFrame
<1>5. HeldBy(p)'
  <2>1. HeldBy(p)
    BY DEF Inv, HeldInv, HeldBy
  <2>2. WantedKeys(p)' = WantedKeys(p)
    BY <1>1 DEF WantedKeys, Wanted
  <2>3. ASSUME NEW x \in Keys \X Generations, holder[x] = p
        PROVE  /\ x[1] \in WantedKeys(p)
               /\ pc'[p] \in Trying => x[1] \in taken'[p]
    BY <1>2, <1>3, <2>1, <2>3 DEF HeldBy
  <2> QED
    BY <1>1, <1>2, <2>2, <2>3 DEF HeldBy
<1> QED
  BY <1>4, <1>5 DEF HeldInv, HeldBy

\* A lock is taken on the key that comes next.
LEMMA HeldTake ==
  ASSUME Inv, NEW p \in Procs, TakeLock(p)
  PROVE  HeldInv'
<1> DEFINE i == <<NextKey(p), fd[p][NextKey(p)]>>
<1>1. /\ NextKey(p) \in WantedKeys(p) /\ WantedKeys(p) \subseteq Keys
      /\ fd[p][NextKey(p)] \in Generations
  BY NextKeyWanted, WantedTypes
  DEF TakeLock, Inv, ReservationInv, TypeOK, ProcInv, KeysInv, DescriptorInv
<1>2. /\ i \in Keys \X Generations /\ i[1] = NextKey(p)
      /\ \A x \in Keys \X Generations : holder'[x] = (IF x = i THEN p ELSE holder[x])
  BY <1>1 DEF TakeLock, Inv, TypeOK
<1>3. /\ target' = target /\ taken' = taken /\ heirs' = heirs
      /\ pc[p] = "checked" /\ pc'[p] = "locked"
      /\ \A q \in Procs : q # p => pc'[q] = pc[q]
  BY DEF TakeLock, Goto, Inv, TypeOK
<1>4. ASSUME NEW q \in Procs, q # p PROVE HeldBy(q)'
  BY <1>2, <1>3, <1>4, HeldFrame
<1>5. HeldBy(p)'
  <2>1. HeldBy(p)
    BY DEF Inv, HeldInv, HeldBy
  <2>2. WantedKeys(p)' = WantedKeys(p)
    BY <1>3 DEF WantedKeys, Wanted
  <2>3. NextKey(p)' = NextKey(p)
    BY <1>3, <2>2 DEF NextKey
  <2> HIDE DEF i
  <2>4. ASSUME NEW x \in Keys \X Generations, holder'[x] = p
        PROVE  x[1] \in WantedKeys(p) /\ (x[1] \in taken[p] \/ x[1] = NextKey(p))
    <3>1. CASE x = i
      BY <1>1, <1>2, <3>1
    <3>2. CASE x # i
      BY <1>2, <1>3, <2>1, <2>4, <3>2 DEF HeldBy
    <3> QED
      BY <3>1, <3>2
  <2> QED
    BY <1>3, <2>2, <2>3, <2>4 DEF HeldBy
<1> QED
  BY <1>4, <1>5 DEF HeldInv, HeldBy

\* The last descendant gives up what the rewrite left it.
LEMMA HeldExit ==
  ASSUME Inv, NEW p \in Procs, ChildrenExit(p)
  PROVE  HeldInv'
<1>1. /\ target' = target /\ taken' = taken /\ pc' = pc
      /\ \A q \in Procs : q # p => (q \in heirs' <=> q \in heirs)
      /\ pc[p] \in {"body", "published", "done", "dead"}
  BY DEF ChildrenExit, Inv, ReservationInv, ProcInv, LocksInv
<1>2. \A q \in Procs, x \in Keys \X Generations : holder'[x] = q =>
        holder[x] = q /\ (q = p => pc[p] \notin {"done", "dead"})
  BY NoProcAssumption DEF ChildrenExit, Inv, TypeOK
<1>3. ASSUME NEW q \in Procs, q # p PROVE HeldBy(q)'
  BY <1>1, <1>2, <1>3, HeldFrame
<1>4. HeldBy(p)'
  <2>1. HeldBy(p)
    BY DEF Inv, HeldInv, HeldBy
  <2>2. WantedKeys(p)' = WantedKeys(p)
    BY <1>1 DEF WantedKeys, Wanted
  <2> QED
    BY <1>1, <1>2, <2>1, <2>2 DEF HeldBy
<1> QED
  BY <1>3, <1>4 DEF HeldInv, HeldBy

\* Neither an administrator nor another writer takes a lock.
LEMMA HeldElsewhere ==
  ASSUME Inv, UNCHANGED <<target, holder, taken, heirs, pc>>
  PROVE  HeldInv'
BY HeldFrame DEF HeldInv, HeldBy

\* An inode is held by a live rewrite on its way to the lock or past it, or by its heirs.
LEMMA HeldKeeps ==
  ASSUME Inv, [Next]_vars
  PROVE  HeldInv'
<1>1. ASSUME NEW p \in Procs, Acquisition(p) PROVE HeldInv'
  <2>1. CASE RefuseTarget(p) \/ Busy(p) \/ UnsafeLock(p) \/ RefuseLate(p)
    BY <2>1, HeldClose DEF RefuseTarget, Busy, UnsafeLock, RefuseLate, Finish
  <2> QED
    BY <1>1, <2>1, HeldMove, HeldTake DEF Acquisition
<1>2. ASSUME NEW p \in Procs, Succeed(p) \/ Fail(p) \/ Kill(p) PROVE HeldInv'
  BY <1>2, HeldClose DEF Succeed, Fail, Kill, Finish
<1>3. ASSUME NEW p \in Procs, StartChild(p) \/ Publish(p) PROVE HeldInv'
  BY <1>3, HeldMove
<1>4. ASSUME NEW p \in Procs, ChildrenExit(p) PROVE HeldInv'
  BY <1>4, HeldExit
<1>5. ASSUME NEW k \in Keys, RemoveLock(k) PROVE HeldInv'
  BY <1>5, HeldElsewhere DEF RemoveLock
<1>6. ASSUME NEW a \in Paths, ForeignWrite(a) PROVE HeldInv'
  BY <1>6, HeldElsewhere DEF ForeignWrite, lockVars
<1>7. CASE UNCHANGED vars
  BY <1>7, HeldElsewhere DEF vars
<1> QED
  BY <1>1, <1>2, <1>3, <1>4, <1>5, <1>6, <1>7 DEF Next, Body

\* Every step keeps the invariant.
LEMMA StepKeeps == Inv /\ [Next]_vars => Inv'
<1> SUFFICES ASSUME Inv, [Next]_vars PROVE Inv'
  OBVIOUS
<1>0. HeldInv'
  BY HeldKeeps
<1>1. CASE UNCHANGED vars
  <2> USE <1>1 DEF vars
  <2>1. TypeOK'
    BY DEF Inv, TypeOK
  <2>2. EntryInv'
    BY DEF Inv, ReservationInv, EntryInv
  <2>3. ASSUME NEW p \in Procs PROVE ProcInv(p)'
    BY Frame DEF Holds
  <2> QED
    BY <1>0, <2>1, <2>2, <2>3 DEF Inv, ReservationInv
<1>2. ASSUME NEW p \in Procs, Acquisition(p) PROVE Inv'
  BY <1>0, <1>2, AcquisitionTypes, AcquisitionKeeps DEF Inv
<1>3. ASSUME NEW p \in Procs, Succeed(p) \/ Fail(p) \/ Kill(p) PROVE Inv'
  <2>1. PICK s \in {"done", "dead"} : Goto(p, s) /\ CloseAll(p)
                                      /\ UNCHANGED <<target, heirs, left>>
    BY <1>3 DEF Succeed, Fail, Kill, Finish, pathVars
  <2>2. p \in heirs => pc[p] \in {"body", "published"}
    BY <1>3 DEF Succeed, Fail, Kill, Inv, ReservationInv, ProcInv, LocksInv
  <2>3. ReservationInv'
    BY <2>1, <2>2, CloseKeeps
  <2> QED
    BY <1>0, <1>3, <2>3, OtherTypes DEF Inv, Body
<1>4. ASSUME NEW p \in Procs, StartChild(p) \/ ChildrenExit(p) PROVE Inv'
  BY <1>0, <1>4, OtherTypes, ChildrenKeep DEF Inv
<1>5. ASSUME NEW p \in Procs, Publish(p) PROVE Inv'
  BY <1>0, <1>5, OtherTypes, PublishKeeps DEF Inv, Body
<1>6. CASE \/ \E k \in Keys : RemoveLock(k)
           \/ \E a \in Paths : ForeignWrite(a)
  BY <1>0, <1>6, OtherTypes, EnvironmentKeeps DEF Inv
<1> QED
  BY <1>1, <1>2, <1>3, <1>4, <1>5, <1>6 DEF Next, Body

\* It holds before any rewrite starts.
LEMMA InitInv == Init => Inv
<1> SUFFICES ASSUME Init PROVE Inv
  OBVIOUS
<1>1. \A p \in Procs : Len(target[p]) \in 1..2 /\ WantedKeys(p) # {}
  BY WantedTypes DEF Init
<1>2. TypeOK
  BY <1>1, BoundsAssumption DEF Init, TypeOK, Generations
<1>3. EntryInv
  BY BoundsAssumption DEF Init, EntryInv
<1>4. ASSUME NEW p \in Procs PROVE ProcInv(p)
  <2>1. pc[p] = "validate" /\ taken[p] = {} /\ p \notin heirs
    BY DEF Init
  <2>2. KeysInv(p) /\ LocksInv(p) /\ DescriptorInv(p)
    BY <2>1 DEF KeysInv, LocksInv, DescriptorInv, Active
  <2>3. LeftInv(p)
    <3>1. left[p] = Len(target[p]) /\ Len(target[p]) \in 1..2
      BY <1>1 DEF Init
    <3>2. left[p] > 0 /\ left[p] <= Len(target[p])
      BY <3>1
    <3> QED
      BY <3>2 DEF LeftInv
  <2> QED
    BY <2>2, <2>3 DEF ProcInv
<1>5. HeldInv
  BY NoProcAssumption DEF Init, HeldInv
<1> QED
  BY <1>2, <1>3, <1>4, <1>5 DEF Inv, ReservationInv

\* Every variable of the reservations keeps its type.
THEOREM TypeCorrect == Spec => []TypeOK
<1>1. Inv => TypeOK
  BY DEF Inv
<1> QED
  BY InitInv, StepKeeps, <1>1, PTL DEF Spec

\* The keys a rewrite has taken stay locked, on the lock files that are in
\* the directories, until it and its descendants are gone.
THEOREM ReservationInvariant == Spec => []Inv
BY InitInv, StepKeeps, PTL DEF Spec

\* Two active rewrites both hold the lock of a common key.
LEMMA ActiveExcludes == Inv => MutualExclusion
<1> SUFFICES ASSUME Inv, NEW p \in Procs, NEW q \in Procs, p # q,
                    Active(p), Active(q), NEW k \in WantedKeys(p) \cap WantedKeys(q)
             PROVE  FALSE
  BY DEF MutualExclusion
<1>1. Holds(p, k) /\ Holds(q, k)
  BY DEF Inv, ReservationInv, ProcInv, LocksInv
<1> QED
  BY <1>1 DEF Holds

\* reserve() keeps two rewrites, with all they left running, from working on
\* one destination key at once, for any destinations, any number of rewrites
\* and any removals of unlocked lock files between them.
THEOREM MutualExclusionAlways == Spec => []MutualExclusion
BY InitInv, StepKeeps, ActiveExcludes, PTL DEF Spec

(***************************************************************************)
(* Destinations.                                                           *)
(***************************************************************************)

\* Only another rewrite in its body could take a destination from p, and it
\* would have to hold a key p holds.
LEMMA OthersPublishElsewhere ==
  ASSUME Inv, MutualExclusion, NEW p \in Procs, NEW q \in Procs, p # q,
         pc[p] = "body", Publish(q)
  PROVE  target[q][left[q]] \notin Wanted(p)
<1>1. target[q][left[q]] \in Wanted(q)
  <2>1. /\ Len(target[q]) \in 1..2 /\ left[q] \in 0..2
        /\ \A i \in 1..Len(target[q]) : target[q][i] \in Wanted(q)
    BY WantedTypes DEF Inv, TypeOK
  <2>2. left[q] > 0 /\ left[q] <= Len(target[q])
    BY DEF Publish, Inv, ReservationInv, ProcInv, LeftInv
  <2> QED
    BY <2>1, <2>2
<1>2. Active(p) /\ Active(q)
  BY DEF Active, Publish
<1>3. WantedKeys(p) \cap WantedKeys(q) = {}
  BY <1>2 DEF MutualExclusion
<1> QED
  BY <1>1, <1>3 DEF WantedKeys

\* Who publishes does so at the keys it has locked, so no other's destination is taken.
LEMMA PublishKeepsFree ==
  ASSUME Inv, MutualExclusion, DestinationStaysFree, NEW q \in Procs, Publish(q)
  PROVE  DestinationStaysFree'
<1> SUFFICES ASSUME NEW p \in Procs, pc'[p] = "body"
             PROVE  (Wanted(p) \cap exists)' \subseteq (Mine(p) \cup foreign)'
  BY DEF DestinationStaysFree
<1> DEFINE a == target[q][left[q]]
<1>1. /\ target' = target /\ foreign' = foreign /\ exists' = exists \cup {a}
      /\ pc[p] = "body" /\ Wanted(p)' = Wanted(p)
      /\ left'[q] = left[q] - 1 /\ (p # q => left'[p] = left[p])
  BY DEF Publish, Goto, Inv, TypeOK, Wanted
<1>2. Wanted(p) \cap exists \subseteq Mine(p) \cup foreign
  BY <1>1 DEF DestinationStaysFree
<1>3. CASE p # q
  <2>1. a \notin Wanted(p)
    BY <1>1, <1>3, OthersPublishElsewhere
  <2>2. Mine(p)' = Mine(p)
    BY <1>1, <1>3 DEF Mine
  <2> QED
    BY <1>1, <1>2, <2>1, <2>2
<1>4. CASE p = q
  <2>1. left[q] \in 0..2 /\ Len(target[q]) \in 1..2
    BY WantedTypes DEF Inv, TypeOK
  <2>2. left[q] > 0 /\ left[q] <= Len(target[q])
    BY DEF Publish, Inv, ReservationInv, ProcInv, LeftInv
  <2>3. Mine(p) \cup {a} \subseteq Mine(p)'
    <3>1. Mine(p)' = {target[q][i] : i \in (left[q] - 1 + 1)..Len(target[q])}
      BY <1>1, <1>4 DEF Mine
    <3>2. /\ left[q] \in (left[q] - 1 + 1)..Len(target[q])
          /\ (left[q] + 1)..Len(target[q]) \subseteq (left[q] - 1 + 1)..Len(target[q])
      BY <2>1, <2>2
    <3> QED
      BY <1>4, <3>1, <3>2 DEF Mine
  <2> QED
    BY <1>1, <1>2, <2>3
<1> QED
  BY <1>3, <1>4

\* No other step of a rewrite creates an entry at a destination.
LEMMA FreeStep ==
  Inv /\ MutualExclusion /\ DestinationStaysFree /\ [Next]_vars
    => DestinationStaysFree'
<1> SUFFICES ASSUME Inv, MutualExclusion, DestinationStaysFree, [Next]_vars
             PROVE  DestinationStaysFree'
  OBVIOUS
<1>1. ASSUME NEW a \in Paths, ForeignWrite(a) PROVE DestinationStaysFree'
  BY <1>1 DEF ForeignWrite, DestinationStaysFree, Mine, Wanted
<1>2. ASSUME NEW q \in Procs, Revalidate(q) PROVE DestinationStaysFree'
  BY <1>2 DEF Revalidate, DestinationStaysFree, Mine, Wanted, Goto, Inv, TypeOK,
              pathVars
<1>3. ASSUME UNCHANGED <<target, exists, foreign, left>>,
             \A p \in Procs : pc'[p] = "body" => pc[p] = "body"
      PROVE  DestinationStaysFree'
  BY <1>3 DEF DestinationStaysFree, Mine, Wanted
<1>4. ASSUME NEW q \in Procs, Acquisition(q), ~Revalidate(q)
      PROVE  DestinationStaysFree'
  <2>1. UNCHANGED <<target, exists, foreign, left>>
    BY <1>4 DEF Acquisition, Validate, RefuseTarget, CreateLock, LockExists,
       OpenLock, CheckOpened, TakeLock, Busy, CheckLocked, UnsafeLock,
       RefuseLate, pathVars
  <2>2. \E s \in Trying \cup {"revalidate", "done"} : Goto(q, s)
    BY <1>4 DEF Acquisition, Validate, RefuseTarget, CreateLock, LockExists,
       OpenLock, CheckOpened, TakeLock, Busy, CheckLocked, UnsafeLock,
       RefuseLate, Finish
  <2>3. \A p \in Procs : pc'[p] = "body" => pc[p] = "body"
    BY <2>2 DEF Goto, Inv, TypeOK
  <2> QED
    BY <1>3, <2>1, <2>3
<1>5. ASSUME NEW q \in Procs,
             Succeed(q) \/ Fail(q) \/ Kill(q) \/ StartChild(q) \/ ChildrenExit(q)
      PROVE  DestinationStaysFree'
  BY <1>3, <1>5 DEF Succeed, Fail, Kill, StartChild, ChildrenExit, Finish, Goto,
     Inv, TypeOK, pathVars
<1>6. ASSUME NEW k \in Keys, RemoveLock(k) PROVE DestinationStaysFree'
  BY <1>3, <1>6 DEF RemoveLock, pathVars
<1>7. CASE UNCHANGED vars
  BY <1>3, <1>7 DEF vars
<1> QED
  BY <1>1, <1>2, <1>4, <1>5, <1>6, <1>7, PublishKeepsFree DEF Next, Body

\* What a rewrite validated under its reservation stays true until it
\* publishes, but for writers that take no reservation.
THEOREM DestinationStaysFreeAlways == Spec => []DestinationStaysFree
<1>1. Init => DestinationStaysFree
  BY DEF Init, DestinationStaysFree
<1> QED
  BY InitInv, StepKeeps, ActiveExcludes, <1>1, FreeStep, PTL DEF Spec

(***************************************************************************)
(* Who is refused.                                                         *)
(***************************************************************************)

\* The lock that a rewrite finds taken is held by another one that wants the
\* same key and is on its way, at work, or survived by descendants.
LEMMA BusyStep ==
  ASSUME Inv, NEW p \in Procs, Busy(p)
  PROVE  \E q \in Procs \ {p} : /\ pc[q] \in Trying \/ Active(q)
                                /\ NextKey(p) \in WantedKeys(q)
<1> DEFINE i == <<NextKey(p), fd[p][NextKey(p)]>>
<1>1. /\ NextKey(p) \in WantedKeys(p) \ taken[p] /\ WantedKeys(p) \subseteq Keys
      /\ fd[p][NextKey(p)] \in Generations
  BY NextKeyWanted, WantedTypes
  DEF Busy, Inv, ReservationInv, TypeOK, ProcInv, KeysInv, DescriptorInv
<1>2. i \in Keys \X Generations /\ holder[i] \in Procs
  BY <1>1 DEF Busy, Inv, TypeOK
<1>3. PICK q \in Procs : holder[i] = q
  BY <1>2
<1>4. pc[p] = "checked"
  BY DEF Busy
<1>5. /\ pc[q] \in Trying \cup Working \/ q \in heirs
      /\ NextKey(p) \in WantedKeys(q)
      /\ q = p => NextKey(p) \in taken[p]
  BY <1>2, <1>3, <1>4 DEF Inv, HeldInv
<1> QED
  BY <1>1, <1>5 DEF Active

\* Only Busy reports that a destination is in use.
LEMMA OnlyBusyReports ==
  ASSUME Inv, [Next]_vars, NEW p \in Procs, result[p] = "none", result'[p] = "busy"
  PROVE  Busy(p)
<1> DEFINE Answer == result'[p] = result[p] \/ result'[p] \in {"refused", "unsafe", "published", "failed"}
<1>1. ASSUME NEW q \in Procs, Acquisition(q) PROVE Busy(p)
  <2>1. CASE Busy(q)
    <3>1. q # p => result'[p] = result[p]
      BY <2>1 DEF Busy, Finish, Inv, TypeOK
    <3> QED
      BY <2>1, <3>1
  <2>2. CASE RefuseTarget(q) \/ UnsafeLock(q) \/ RefuseLate(q)
    <3>1. Answer
      BY <2>2 DEF RefuseTarget, UnsafeLock, RefuseLate, Finish, Inv, TypeOK
    <3> QED
      BY <3>1
  <2>3. CASE ~(Busy(q) \/ RefuseTarget(q) \/ UnsafeLock(q) \/ RefuseLate(q))
    <3>1. result' = result
      BY <1>1, <2>3 DEF Acquisition, Validate, CreateLock, LockExists, OpenLock,
         CheckOpened, TakeLock, CheckLocked, Revalidate
    <3> QED
      BY <3>1
  <2> QED
    BY <2>1, <2>2, <2>3
<1>2. ASSUME NEW q \in Procs, Body(q) \/ StartChild(q) \/ ChildrenExit(q) \/ Kill(q)
      PROVE Answer
  BY <1>2 DEF Body, Publish, Succeed, Fail, Finish, StartChild, ChildrenExit, Kill,
              Inv, TypeOK
<1>3. CASE \/ \E k \in Keys : RemoveLock(k)
           \/ \E a \in Paths : ForeignWrite(a)
           \/ UNCHANGED vars
  BY <1>3 DEF RemoveLock, ForeignWrite, vars
<1> QED
  BY <1>1, <1>2, <1>3 DEF Next

\* Nobody is refused as busy because of a rewrite that is gone, or one that
\* wants other destinations: the safety half of NobodyIsBlocked.
THEOREM BusyMeansContendedAlways == Spec => BusyMeansContended
<1>1. Inv /\ [Next]_vars =>
        [\A p \in Procs : (result[p] = "none" /\ result'[p] = "busy") =>
           \E q \in Procs \ {p} : /\ pc[q] \in Trying \/ Active(q)
                                  /\ NextKey(p) \in WantedKeys(q)]_vars
  BY OnlyBusyReports, BusyStep
<1> QED
  BY ReservationInvariant, <1>1, PTL DEF Spec, BusyMeansContended
=============================================================================
