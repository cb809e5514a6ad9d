------------------------- MODULE ChildProcessProofs -------------------------
(***************************************************************************)
(* Proofs about ChildProcess for every set of callers, every limit on the  *)
(* output and every bound on failing calls.                                *)
(***************************************************************************)
EXTENDS ChildProcess, TLAPS

(***************************************************************************)
(* Types.                                                                  *)
(***************************************************************************)

\* Types: the steps of the caller.
LEMMA CallerTypes == TypeOK /\ Calling => TypeOK'
<1> SUFFICES ASSUME TypeOK, Calling PROVE TypeOK'
  OBVIOUS
<1> USE DEF children, result, Goto
<1>1. GroupOK'
  <2> USE DEF TypeOK, GroupOK, Group, Alive
  <2>1. CASE Spawn
    BY <2>1 DEF Spawn, CallOK
  <2>2. CASE Register \/ ReadEnd \/ Deadline \/ Abandon \/ Finish
    BY <2>2 DEF Register, ReadEnd, Deadline, Abandon, Finish
  <2>3. CASE Communicate \/ WaitExit \/ Reap
    BY <2>3 DEF Communicate, WaitExit, Reap
  <2>4. CASE Poll \/ AwaitGrace
    BY <2>4 DEF Poll, AwaitGrace, HasEnded, Grace
  <2>5. CASE SendTerm \/ SendKill
    <3>1. PICK signal \in {"TERM", "KILL"}, S \in SUBSET Group : Deliver(signal, S)
      BY <2>5, {"leader"} \in SUBSET Group DEF SendTerm, SendKill, Send
    <3>2. sent' \in [Group -> {"none", "TERM", "KILL"}]
      BY <3>1 DEF Deliver
    <3>3. UNCHANGED <<leader, helper, holds, ignores>>
      BY <2>5 DEF SendTerm, SendKill, Send
    <3> QED
      BY <3>2, <3>3
  <2> QED
    BY <2>1, <2>2, <2>3, <2>4, <2>5 DEF Calling
<1>2. CallOK'
  <2> USE DEF TypeOK, CallOK, Positions, Ended
  <2>1. CASE Spawn \/ Register \/ Communicate \/ ReadEnd \/ WaitExit
    BY <2>1 DEF Spawn, Register, Communicate, ReadEnd, WaitExit
  <2>2. CASE Deadline \/ Abandon
    BY <2>2 DEF Deadline, Abandon, Timed
  <2>3. CASE Poll \/ AwaitGrace \/ Reap
    BY <2>3 DEF Poll, AwaitGrace, Reap, Grace
  <2>4. CASE SendTerm \/ SendKill
    BY <2>4 DEF SendTerm, SendKill, Send
  <2>5. CASE Finish
    BY <2>5 DEF Finish, Told
  <2> QED
    BY <2>1, <2>2, <2>3, <2>4, <2>5 DEF Calling
<1>3. BoundsOK'
  BY LimitAssumption, MaxFaultsAssumption
     DEF TypeOK, BoundsOK, Fault, Calling, Spawn, Register, Communicate, ReadEnd,
         WaitExit, Deadline, Abandon, Poll, SendTerm, SendKill, Send, AwaitGrace,
         Reap, Finish
<1> QED
  BY <1>1, <1>2, <1>3 DEF TypeOK

\* Types: output, failures, the two processes and signals.
LEMMA OtherTypes ==
  TypeOK /\ (ReadChunk \/ Failing \/ Children \/ Signal \/ DeadlySignal) => TypeOK'
<1> SUFFICES ASSUME TypeOK, ReadChunk \/ Failing \/ Children \/ Signal \/ DeadlySignal
             PROVE  TypeOK'
  OBVIOUS
<1> USE DEF TypeOK, children, result, Failing, Children, ReadChunk, SpawnFails,
            WaitFails, SendFails, StartHelper, ClosePipe, Die, Signal, DeadlySignal, Goto
<1>1. GroupOK'
  BY DEF GroupOK, Group, Alive
<1>2. CallOK'
  BY DEF CallOK, Positions, Ended, Unwind, Stopping, Alive
<1>3. BoundsOK'
  BY LimitAssumption, MaxFaultsAssumption DEF BoundsOK, Fault
<1> QED
  BY <1>1, <1>2, <1>3

\* The types hold in every reachable state.
THEOREM TypeCorrect == Spec => []TypeOK
<1>1. Init => TypeOK
  BY LimitAssumption, MaxFaultsAssumption
     DEF Init, TypeOK, GroupOK, CallOK, BoundsOK, Group, Positions, Ended, Alive
<1>2. TypeOK /\ [Next]_vars => TypeOK'
  <2> SUFFICES ASSUME TypeOK, [Next]_vars PROVE TypeOK'
    OBVIOUS
  <2>1. CASE UNCHANGED vars
    BY <2>1 DEF vars, children, result, TypeOK, GroupOK, CallOK, BoundsOK, Ended, Alive
  <2> QED
    BY <2>1, CallerTypes, OtherTypes DEF Next
<1> QED
  BY <1>1, <1>2, PTL DEF Spec

(***************************************************************************)
(* What is known at each position of a call.                               *)
(***************************************************************************)

\* What is known at each position of the call: the steps of the caller.
LEMMA CallerInv == TypeOK /\ CallInv /\ Calling => CallInv'
<1> SUFFICES ASSUME TypeOK, CallInv, Calling PROVE CallInv'
  OBVIOUS
<1> USE LimitAssumption, MaxFaultsAssumption
    DEF TypeOK, GroupOK, CallOK, BoundsOK, CallInv, children, result, Stopping, Goto
<1>1. CASE Spawn \/ Register \/ Communicate \/ ReadEnd \/ WaitExit
  BY <1>1 DEF Spawn, Register, Communicate, ReadEnd, WaitExit, Drained
<1>2. CASE Deadline \/ Abandon
  BY <1>2 DEF Deadline, Abandon, Timed
<1>3. CASE Poll
  <2>1. CASE HasEnded
    BY <1>3, <2>1 DEF Poll, HasEnded
  <2>2. CASE ~HasEnded
    BY <1>3, <2>2 DEF Poll, HasEnded
  <2> QED
    BY <2>1, <2>2
<1>4. CASE AwaitGrace \/ Reap
  BY <1>4 DEF AwaitGrace, Reap, Grace
<1>5. CASE Finish
  BY <1>5 DEF Finish
<1>6. CASE SendTerm \/ SendKill
  BY <1>6 DEF SendTerm, SendKill, Send, Fault
<1> QED
  BY <1>1, <1>2, <1>3, <1>4, <1>5, <1>6 DEF Calling

\* The same for what happens beside it: nothing comes back that was reaped or closed.
LEMMA OtherInv ==
  TypeOK /\ CallInv /\ (ReadChunk \/ Failing \/ Children \/ Signal \/ DeadlySignal)
    => CallInv'
<1> SUFFICES ASSUME TypeOK, CallInv,
                    ReadChunk \/ Failing \/ Children \/ Signal \/ DeadlySignal
             PROVE  CallInv'
  OBVIOUS
<1> USE LimitAssumption, MaxFaultsAssumption
    DEF TypeOK, GroupOK, CallOK, BoundsOK, CallInv, children, result, Stopping, Ended, Goto
<1>1. CASE ReadChunk
  BY <1>1 DEF ReadChunk
<1>2. CASE Failing
  BY <1>2 DEF Failing, SpawnFails, WaitFails, SendFails, Fault
<1>3. CASE Children
  BY <1>3 DEF Children, StartHelper, ClosePipe, Die, Alive, Group
<1>4. CASE Signal \/ DeadlySignal
  BY <1>4 DEF Signal, DeadlySignal, Unwind
<1> QED
  BY <1>1, <1>2, <1>3, <1>4

\* At every position of a call it is known what was raised, who was reaped and
\* who may still write to the pipe.
THEOREM CallInvariant == Spec => []Inv
<1>1. Init => CallInv
  BY LimitAssumption DEF Init, CallInv
<1>2. TypeOK /\ CallInv /\ [Next]_vars => CallInv'
  <2> SUFFICES ASSUME TypeOK, CallInv, [Next]_vars PROVE CallInv'
    OBVIOUS
  <2>1. CASE UNCHANGED vars
    BY <2>1 DEF vars, children, result, CallInv
  <2> QED
    BY <2>1, CallerInv, OtherInv DEF Next
<1> QED
  BY <1>1, <1>2, TypeCorrect, PTL DEF Spec, Inv

(***************************************************************************)
(* What a call promises.                                                   *)
(***************************************************************************)

\* Nothing that ended is ever sent a signal by its old number.
THEOREM OwnGroupOnly == Spec => SignalsOwnGroup
<1>1. Inv /\ [Next]_vars
        => [(pc = "term" /\ pc' = "grace") \/ (pc = "kill" /\ pc' = "reap")
              => leader \in {"running", "exited"}]_vars
  BY DEF Inv, CallInv
<1> QED
  BY <1>1, CallInvariant, PTL DEF Spec, SignalsOwnGroup

\* A call that returns has all of the output, and leaves no process that
\* could still add to it.
THEOREM WholeResults == Spec => []ResultIsWhole
<1>1. Init => ResultIsWhole
  BY DEF Init, ResultIsWhole
<1>2. TypeOK /\ CallInv /\ ResultIsWhole /\ [Next]_vars => ResultIsWhole'
  <2> SUFFICES ASSUME TypeOK, CallInv, ResultIsWhole, [Next]_vars, outcome' = "ok"
               PROVE  leader' = "reaped" /\ holds' = {} /\ output' <= Limit
    BY DEF ResultIsWhole
  <2> USE LimitAssumption DEF children, result, Goto
  <2>1. CASE Finish
    BY <2>1 DEF Finish, Told, CallInv, TypeOK, CallOK, BoundsOK
  <2>2. CASE outcome = "ok"
    <3>1. pc \in {"done", "dead"} /\ leader = "reaped" /\ holds = {} /\ output <= Limit
      BY <2>2 DEF TypeOK, CallOK, Ended, ResultIsWhole
    <3> QED
      BY <3>1 DEF vars, Next, Calling, Failing, Children, Spawn, SpawnFails, Register,
         Communicate, ReadChunk, ReadEnd, WaitExit, Deadline, Abandon, WaitFails,
         Poll, SendTerm, SendKill, Send, SendFails, AwaitGrace, Reap, Finish, Signal,
         DeadlySignal, StartHelper, ClosePipe, Die, Alive, Ended
  <2>3. CASE outcome # "ok" /\ ~Finish
    BY <2>3 DEF vars, Next, Calling, Failing, Children, Spawn, SpawnFails, Register,
       Communicate, ReadChunk, ReadEnd, WaitExit, Deadline, Abandon, WaitFails,
       Poll, SendTerm, SendKill, Send, SendFails, AwaitGrace, Reap, Signal,
       DeadlySignal, StartHelper, ClosePipe, Die
  <2> QED
    BY <2>1, <2>2, <2>3
<1> QED
  BY <1>1, <1>2, CallInvariant, PTL DEF Spec, Inv

\* A command outlives a call only because of a signal that came before the
\* call waited or while it stopped the command, or because of a failing call.
THEOREM OrphansOnlyByLateSignals == Spec => []OnlyLateSignalsOrphan
<1>1. Init => OnlyLateSignalsOrphan
  BY DEF Init, OnlyLateSignalsOrphan
<1>2. TypeOK /\ CallInv /\ OnlyLateSignalsOrphan /\ [Next]_vars => OnlyLateSignalsOrphan'
  <2> SUFFICES ASSUME TypeOK, CallInv, OnlyLateSignalsOrphan, [Next]_vars, pc' = "done",
                      where' \notin {"start", "register"} \cup Stopping, faults' = 0
               PROVE  leader' \in {"none", "reaped"}
    BY DEF OnlyLateSignalsOrphan
  <2> USE DEF children, result, Goto, Stopping
  <2>1. CASE Finish
    BY <2>1 DEF Finish, CallInv
  <2>2. CASE SpawnFails
    BY <2>2 DEF SpawnFails, TypeOK, CallOK
  <2>3. CASE Signal
    BY <2>3 DEF Signal, Unwind, CallInv, TypeOK, CallOK, Positions, Ended
  <2>4. CASE Children
    BY <2>4 DEF Children, StartHelper, ClosePipe, Die, Alive, Group, OnlyLateSignalsOrphan
  <2>5. CASE UNCHANGED vars
    BY <2>5 DEF vars, OnlyLateSignalsOrphan
  <2>6. ~(Calling /\ ~Finish) /\ ~ReadChunk /\ ~WaitFails /\ ~SendFails /\ ~DeadlySignal
    BY DEF Calling, Spawn, Register, Communicate, ReadChunk, ReadEnd, WaitExit, Deadline,
       Abandon, WaitFails, Poll, SendTerm, SendKill, Send, SendFails, AwaitGrace, Grace,
       Reap, DeadlySignal
  <2> QED
    BY <2>1, <2>2, <2>3, <2>4, <2>5, <2>6 DEF Next, Failing
<1> QED
  BY <1>1, <1>2, CallInvariant, PTL DEF Spec, Inv
=============================================================================
