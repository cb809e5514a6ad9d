---------------------------- MODULE ChildProcess ----------------------------
(***************************************************************************)
(* One Git command as git.py's run executes it, one version record as      *)
(* _dependency_output reads it, or one scan of verify.py's                 *)
(* _object_body_chunks: its start, the wait for its output, what stops it  *)
(* after a signal, a failing call, a deadline or a refused output, and the *)
(* exception that the caller then sees.  The command is the leader of a    *)
(* process group of its own, and may leave a helper in it that inherits    *)
(* its pipe.  Either may ignore SIGTERM.                                   *)
(***************************************************************************)
EXTENDS Naturals, FiniteSets

CONSTANTS
  Callers,     \* the functions that start the command: "run", "read", "scan"
  Limit,       \* _dependency_output's limit, in units of what a chunk carries
  MaxFaults    \* bound on failing calls

ASSUME CallersAssumption == Callers \subseteq {"run", "read", "scan"}
ASSUME LimitAssumption == Limit \in Nat
ASSUME MaxFaultsAssumption == MaxFaults \in Nat

VARIABLES
  caller,
  leader,      \* none, running, exited (a zombie) or reaped
  helper,      \* none, running or gone
  holds,       \* the processes that hold the write end of the pipe
  ignores,     \* the processes that ignore SIGTERM
  sent,        \* the last signal that reached each process
  pc, raised,  \* the caller's position, and the exception that is under way
  outcome,     \* what the caller's own caller sees
  output,      \* what was read so far
  where,       \* the caller's position when its first signal came
  faults

children == <<leader, helper, holds>>
result == <<raised, outcome>>
vars == <<caller, children, ignores, sent, pc, result, output, where, faults>>

Group == {"leader", "helper"}
Stopping == {"poll", "term", "grace", "kill", "reap"}
Positions == {"start", "register", "communicate", "read", "exit", "poll", "term",
              "grace", "kill", "reap", "finish", "done", "dead"}
Ended == pc \in {"done", "dead"}
Goto(step) == pc' = step
Fault == faults < MaxFaults /\ faults' = faults + 1
Alive(p) == IF p = "leader" THEN leader = "running" ELSE helper = "running"

Init ==
  /\ caller \in Callers /\ ignores \in SUBSET Group
  /\ leader = "none" /\ helper = "none" /\ holds = {}
  /\ sent = [p \in Group |-> "none"]
  /\ pc = "start" /\ raised = "none" /\ outcome = "none"
  /\ output = 0 /\ where = "none" /\ faults = 0

-----------------------------------------------------------------------------
(* The command.                                                            *)

StartHelper ==
  /\ leader = "running" /\ helper = "none"
  /\ helper' = "running"
  /\ holds' = IF "leader" \in holds THEN Group ELSE holds
  /\ UNCHANGED <<caller, leader, ignores, sent, pc, result, output, where, faults>>

\* A process closes the pipe, as a daemon does, and goes on.
ClosePipe(p) ==
  /\ p \in holds
  /\ holds' = holds \ {p}
  /\ UNCHANGED <<caller, leader, helper, ignores, sent, pc, result, output, where, faults>>

\* It ends by itself, or because of the signal that it was sent.
Die(p) ==
  /\ Alive(p)
  /\ IF p = "leader" THEN leader' = "exited" /\ UNCHANGED helper
                     ELSE helper' = "gone" /\ UNCHANGED leader
  /\ holds' = holds \ {p}
  /\ UNCHANGED <<caller, ignores, sent, pc, result, output, where, faults>>

Doomed(p) == sent[p] = "KILL" \/ (sent[p] = "TERM" /\ p \notin ignores)

-----------------------------------------------------------------------------
(* start_process, and the wait for the command.                            *)

Spawn ==
  /\ pc = "start" /\ Goto("register")
  /\ leader' = "running" /\ holds' = {"leader"}
  /\ UNCHANGED <<caller, helper, ignores, sent, result, output, where, faults>>

SpawnFails ==
  /\ pc = "start" /\ Goto("done") /\ Fault
  /\ outcome' = "startup_failed"
  /\ UNCHANGED <<caller, children, ignores, sent, raised, output, where>>

\* The process enters _ACTIVE_PROCESSES, and the caller its try.
Register ==
  /\ pc = "register" /\ Goto(IF caller = "run" THEN "communicate" ELSE "read")
  /\ UNCHANGED <<caller, children, ignores, sent, result, output, where, faults>>

\* A variant of Drained with a fault: only the command itself is waited for.
DrainedByLeader == "leader" \notin holds

\* The end of the output: nobody is left to write to the pipe.
Drained == holds = {}

\* communicate returns; the command failed if its exit code says so.
Communicate ==
  /\ pc = "communicate" /\ Drained /\ leader = "exited"
  /\ leader' = "reaped" /\ Goto("finish")
  /\ raised' \in {"none", "failed"}
  /\ UNCHANGED <<caller, helper, holds, ignores, sent, outcome, output, where, faults>>

\* The reading loops: a chunk, the end of the output, the exit of the command.
ReadChunk ==
  /\ pc = "read" /\ ~Drained
  /\ caller = "read" => output <= Limit
  /\ output' = IF caller = "read" THEN output + 1 ELSE output
  /\ IF output' > Limit THEN raised' = "invalid_output" /\ Goto("poll")
                        ELSE UNCHANGED <<raised, pc>>
  /\ UNCHANGED <<caller, children, ignores, sent, outcome, where, faults>>

ReadEnd ==
  /\ pc = "read" /\ Drained /\ Goto("exit")
  /\ UNCHANGED <<caller, children, ignores, sent, result, output, where, faults>>

WaitExit ==
  /\ pc = "exit" /\ leader = "exited"
  /\ leader' = "reaped" /\ Goto("poll")
  /\ raised' \in {"none", "failed"}
  /\ UNCHANGED <<caller, helper, holds, ignores, sent, outcome, output, where, faults>>

Timed == pc \in {"read", "exit"}

\* The deadline passes: the version record is not waited for any longer.
Deadline ==
  /\ caller = "read" /\ Timed
  /\ raised' = "failed" /\ Goto("poll")
  /\ UNCHANGED <<caller, children, ignores, sent, outcome, output, where, faults>>

\* The consumer of a scan has found what it looks for: the generator is closed.
Abandon ==
  /\ caller = "scan" /\ pc = "read"
  /\ raised' = "failed" /\ Goto("poll")
  /\ UNCHANGED <<caller, children, ignores, sent, outcome, output, where, faults>>

\* A call fails while the caller waits, or a scan meets a malformed record.
WaitFails ==
  /\ pc \in {"communicate", "read", "exit"}
  /\ raised' = "failed" /\ Goto("poll") /\ Fault
  /\ UNCHANGED <<caller, children, ignores, sent, outcome, output, where>>

-----------------------------------------------------------------------------
(* terminate_process.                                                      *)

\* A variant of HasEnded with a fault: the exit code seen before is forgotten.
HasEndedNow == leader = "exited"

HasEnded == leader \in {"exited", "reaped"}

\* poll; nothing is sent to a command that has ended.
Poll ==
  /\ pc = "poll"
  /\ IF HasEnded THEN leader' = "reaped" /\ Goto("finish")
                 ELSE UNCHANGED leader /\ Goto("term")
  /\ UNCHANGED <<caller, helper, holds, ignores, sent, result, output, where, faults>>

Deliver(signal, S) ==
  sent' = [p \in Group |-> IF p \in S /\ Alive(p) THEN signal ELSE sent[p]]

\* killpg, or when that is not permitted the leader alone.
Send(from, signal, to) ==
  /\ pc = from /\ Goto(to)
  /\ \/ Deliver(signal, Group) /\ UNCHANGED faults
     \/ Deliver(signal, {"leader"}) /\ Fault
  /\ UNCHANGED <<caller, children, ignores, result, output, where>>

SendTerm == Send("term", "TERM", "grace")
SendKill == Send("kill", "KILL", "reap")

\* Neither is permitted.
SendFails ==
  /\ pc \in {"term", "kill"} /\ Goto("finish") /\ Fault
  /\ raised' = IF caller = "run" /\ raised = "interrupted" THEN "not_stopped" ELSE "failed"
  /\ UNCHANGED <<caller, children, ignores, sent, outcome, output, where>>

\* A variant of Grace with a fault: the wait after SIGTERM has no limit.
GraceForever == leader = "exited" /\ leader' = "reaped" /\ Goto("finish")

Grace ==
  \/ leader = "exited" /\ leader' = "reaped" /\ Goto("finish")
  \/ leader = "running" /\ Goto("kill") /\ UNCHANGED leader

AwaitGrace ==
  /\ pc = "grace" /\ Grace
  /\ UNCHANGED <<caller, helper, holds, ignores, sent, result, output, where, faults>>

Reap ==
  /\ pc = "reap" /\ leader = "exited"
  /\ leader' = "reaped" /\ Goto("finish")
  /\ UNCHANGED <<caller, helper, holds, ignores, sent, result, output, where, faults>>

\* What the call returns or raises.
Told == IF raised = "none" THEN "ok" ELSE raised

\* finish_process, and the end of the call.
Finish ==
  /\ pc = "finish" /\ Goto("done")
  /\ outcome' = Told
  /\ UNCHANGED <<caller, children, ignores, sent, raised, output, where, faults>>

-----------------------------------------------------------------------------
(* Signals to the tool.  In a rewrite _rewrite_signals raises for the      *)
(* first one and the second one ends it.  Scans run in verify, which has   *)
(* no such handlers: there Python raises KeyboardInterrupt for SIGINT,     *)
(* which the same finally clauses meet, and SIGTERM ends it at once.       *)

\* A variant with a fault: the exception passes without stopping anything.
UnwindDirectly(from) == "done"

\* What the exception meets: the handlers and finally clauses that stop the
\* command, or none, in start_process and in what stops the command.
Unwind(from) ==
  IF from \in {"communicate", "read", "exit"} THEN "poll" ELSE "done"

\* run has "could not complete" replace what interrupts it at a failing call.
Signal ==
  /\ where = "none" /\ ~Ended
  /\ where' = pc /\ Goto(Unwind(pc))
  /\ raised' = IF caller = "run" /\ pc \in Stopping THEN "failed" ELSE "interrupted"
  /\ outcome' = IF pc' = "done" THEN raised' ELSE outcome
  /\ UNCHANGED <<caller, children, ignores, sent, output, faults>>

\* The second signal of a rewrite, and any SIGTERM during a scan.
DeadlySignal ==
  /\ where # "none" \/ caller = "scan"
  /\ ~Ended
  /\ Goto("dead") /\ outcome' = "killed"
  /\ UNCHANGED <<caller, children, ignores, sent, raised, output, where, faults>>

-----------------------------------------------------------------------------
Calling ==
  \/ Spawn \/ Register \/ Communicate \/ ReadEnd \/ WaitExit \/ Deadline
  \/ Abandon   \/ Poll \/ SendTerm \/ AwaitGrace \/ SendKill \/ Reap \/ Finish

Failing == SpawnFails \/ WaitFails \/ SendFails

Children == StartHelper \/ \E p \in Group : ClosePipe(p) \/ Die(p)

Next == Calling \/ ReadChunk \/ Failing \/ Children \/ Signal \/ DeadlySignal

Spec == Init /\ [][Next]_vars

\* The caller goes on, time passes, and what a signal ends does end.  Nothing
\* makes a command end, or write, that is left alone.
Fairness ==
  /\ WF_vars(Spawn \/ Register \/ Communicate \/ ReadEnd \/ WaitExit)
  /\ WF_vars(Deadline)
  /\ WF_vars(Poll \/ SendTerm \/ AwaitGrace \/ SendKill \/ Reap \/ Finish)
  /\ \A p \in Group : WF_vars(Doomed(p) /\ Die(p))

FairSpec == Spec /\ Fairness

-----------------------------------------------------------------------------
(* Properties.                                                             *)

GroupOK ==
  /\ ignores \subseteq Group /\ holds \subseteq Group
  /\ leader \in {"none", "running", "exited", "reaped"}
  /\ helper \in {"none", "running", "gone"}
  /\ \A p \in holds : Alive(p)
  /\ sent \in [Group -> {"none", "TERM", "KILL"}]

CallOK ==
  /\ caller \in Callers
  /\ pc \in Positions /\ where \in {"none"} \cup (Positions \ {"done", "dead"})
  /\ pc = "start" => leader = "none"
  /\ raised \in {"none", "failed", "invalid_output", "not_stopped", "interrupted"}
  /\ outcome \in {"none", "ok", "failed", "startup_failed", "invalid_output",
                  "not_stopped", "interrupted", "killed"}
  /\ outcome # "none" <=> Ended

BoundsOK == output \in 0..(Limit + 1) /\ faults \in 0..MaxFaults

TypeOK == GroupOK /\ CallOK /\ BoundsOK

\* What makes the properties below inductive: nothing is raised before
\* the wait is over, a call without an exception has all of the output, and
\* terminate_process reaches its signals only with a command it did not reap.
CallInv ==
  /\ pc \in {"start", "register", "communicate", "read", "exit"} => raised = "none"
  /\ pc \notin {"poll", "finish", "done", "dead"} => leader # "reaped"
  /\ pc \notin {"start", "done", "dead"} => leader # "none"
  /\ pc \in {"term", "grace", "kill", "reap"} =>
       leader \in {"running", "exited"} /\ raised # "none"
  /\ pc = "exit" => holds = {}
  /\ output > Limit => raised # "none"
  /\ pc = "finish" /\ faults = 0 => leader = "reaped"
  /\ pc \in {"poll", "finish"} /\ raised = "none" => leader = "reaped" /\ holds = {}

\* What every step of a call keeps, whatever signals and failures come.
Inv == TypeOK /\ CallInv

\* A result is whole: the command was reaped and nobody can still write to
\* its pipe, whichever process of the group held it last (git.py:204, 246).
ResultIsWhole ==
  outcome = "ok" => leader = "reaped" /\ holds = {} /\ output <= Limit

\* A command outlives its caller only when the signal came before the caller
\* was ready for it or while it stopped the command, when a second signal
\* came, or when no signal was permitted (git.py:195-217).
OnlyLateSignalsOrphan ==
  pc = "done" /\ where \notin {"start", "register"} \cup Stopping /\ faults = 0 =>
    leader \in {"none", "reaped"}

\* killpg names a group of this tool: its leader was not yet reaped, so that
\* its number cannot belong to another group by now (git.py:146).
SignalsOwnGroup ==
  [][(pc = "term" /\ pc' = "grace") \/ (pc = "kill" /\ pc' = "reap")
       => leader \in {"running", "exited"}]_vars

\* Stopping is bounded also for a command that ignores SIGTERM: a call that is
\* interrupted, or that has a deadline, does end (git.py:144-173, 239).
InterruptedCallEnds == (where # "none") ~> Ended
VersionReadEnds == (caller = "read" /\ pc = "read") ~> Ended
CallsEnd == InterruptedCallEnds /\ VersionReadEnds

=============================================================================
