------------------------------ MODULE Rewrite ------------------------------
(***************************************************************************)
(* One rewrite under its reservation, from the analysis of the source to   *)
(* the exit code: engine.py's _rewrite_reserved, the two renames and the   *)
(* synchronizations of publication.py, the unwinding of its workspaces and *)
(* what cli.py's main makes of the result.  The source may gain commits at *)
(* any time, other writers may create a destination, any call may fail, a  *)
(* signal, a SIGKILL or a power loss may come at any point.                *)
(***************************************************************************)
EXTENDS Naturals, FiniteSets

CONSTANTS
  Receipts,    \* where a receipt may be asked for, see below
  DirSyncs,    \* whether the file system can synchronize directories
  MaxMoves,    \* bound on commits the source gains
  MaxFaults    \* bound on failing calls

\* A receipt stands beside the output or apart, in another directory.
ASSUME ReceiptsAssumption == Receipts \subseteq {"none", "beside", "apart"}
ASSUME DirSyncsAssumption == DirSyncs \subseteq BOOLEAN
ASSUME BoundsAssumption == MaxMoves \in Nat /\ MaxFaults \in Nat

VARIABLES
  receipt, dirSync,  \* what was asked for, and of which file system
  source,      \* how many commits each part of the source has gained
  analysed,    \* the selected parts as RewriteAnalysis saw them
  head, refs,  \* HEAD, then all parts, as _source_fingerprint saw them
  cloned,      \* HEAD as git clone copied it
  staged,      \* the bare repository in the workspace
  synced,      \* staged entries whose content is durable
  dest,        \* what is at each destination
  durable,     \* published entries whose parent was synchronized
  torn,        \* published entries with content lost in a power loss
  published,   \* the flags receipt_published and output_published
  ws,          \* the workspaces, named for the destination they are beside
  pc, error, told, exit, signals, faults

setup      == <<receipt, dirSync>>
sourceVars == <<source, analysed, head, refs, cloned>>
stageVars  == <<staged, synced>>
destVars   == <<dest, durable, torn, published>>
endVars    == <<error, told, exit>>
budget     == <<signals, faults>>
vars == <<setup, sourceVars, stageVars, destVars, ws, pc, endVars, budget>>

\* The branch of HEAD, which is always selected, the other references that the
\* policy selects, and those it does not.
Parts == {"HEAD", "selected", "other"}
Selected == {"HEAD", "selected"}

Dests == {"receipt", "output"}
Wanted == IF receipt = "none" THEN {"output"} ELSE Dests

Reading == {"analyse", "head", "refs"}
Opening == {"open", "openReceipt"}
Staging == {"clone", "check", "clean", "bare", "evidence", "verifyScope",
            "verifyHead", "verifyRefs", "verify", "sync"}
Publishing == {"publishReceipt", "flagReceipt", "syncReceipt",
               "publishOutput", "flagOutput", "syncOutput", "return"}
Working  == Reading \cup Opening \cup Staging \cup Publishing
Unwinding == {"closeReceipt", "closeOutput"}

Goto(step) == pc' = step
Spend == faults < MaxFaults /\ faults' = faults + 1
Ours(d) == dest[d] = "ours"

\* ExitStack: the receipt's workspace is closed before the output's.
FirstClose ==
  CASE ws["receipt"] = "open" -> "closeReceipt"
    [] ws["receipt"] # "open" /\ ws["output"] = "open" -> "closeOutput"
    [] OTHER -> "convert"

Raise(kind) ==
  /\ error' = kind
  /\ Goto(FirstClose)
  /\ UNCHANGED <<setup, sourceVars, stageVars, destVars, told, exit>>

Init ==
  /\ receipt \in Receipts /\ dirSync \in DirSyncs
  /\ source = [p \in Parts |-> 0] /\ analysed = [p \in Selected |-> 0]
  /\ head = 0 /\ refs = [p \in Parts |-> 0] /\ cloned = 0
  /\ staged = "none" /\ synced = {}
  /\ dest = [d \in Dests |-> "absent"] /\ durable = {} /\ torn = {}
  /\ published = {}
  /\ ws = [w \in Dests |-> "none"]
  /\ pc = "analyse" /\ error = "none" /\ told = "nothing" /\ exit = "none"
  /\ signals = 0 /\ faults = 0

-----------------------------------------------------------------------------
(* Reading the source.  Each read sees the source as it is at that moment. *)

Step(from, to) == pc = from /\ Goto(to)

\* RewriteAnalysis.create; the output is computed from these commits alone.
Analyse ==
  /\ Step("analyse", "head")
  /\ analysed' = [p \in Selected |-> source[p]]
  /\ UNCHANGED <<setup, source, head, refs, cloned, stageVars, destVars, ws, endVars,
                 budget>>

\* _source_fingerprint: head_identity, then direct_refs.
ReadHead ==
  /\ Step("head", "refs")
  /\ head' = source["HEAD"]
  /\ UNCHANGED <<setup, source, analysed, refs, cloned, stageVars, destVars, ws,
                 endVars, budget>>

ReadRefs ==
  /\ Step("refs", "open")
  /\ refs' = source
  /\ UNCHANGED <<setup, source, analysed, head, cloned, stageVars, destVars, ws,
                 endVars, budget>>

-----------------------------------------------------------------------------
(* Staging.                                                                *)

\* Faulty variant: a directory that cannot be synchronized is passed over.
OpenTolerant(w) ==
  /\ IF w = "output" THEN Step("open", "clone") ELSE Step("openReceipt", "evidence")
  /\ ws' = [ws EXCEPT ![w] = "open"]
  /\ UNCHANGED <<setup, sourceVars, stageVars, destVars, endVars, budget>>

\* Workspace.create synchronizes its directory and the parent.
Open(w) ==
  /\ dirSync
  /\ IF w = "output" THEN Step("open", "clone") ELSE Step("openReceipt", "evidence")
  /\ ws' = [ws EXCEPT ![w] = "open"]
  /\ UNCHANGED <<setup, sourceVars, stageVars, destVars, endVars, budget>>

Clone ==
  /\ Step("clone", "check")
  /\ cloned' = source["HEAD"]
  /\ staged' = "raw"
  /\ UNCHANGED <<setup, source, analysed, head, refs, synced, destVars, ws, endVars,
                 budget>>

\* The clone's HEAD is compared, not its other references.
CheckClone ==
  /\ cloned = head
  /\ Step("check", "clean")
  /\ UNCHANGED <<setup, sourceVars, stageVars, destVars, ws, endVars, budget>>

\* retain, compact, filter, restore and cleanup in the clone.
Clean ==
  /\ Step("clean", "bare")
  /\ UNCHANGED <<setup, sourceVars, stageVars, destVars, ws, endVars, budget>>

\* The bare clone of it, with its mode, hooks and scope metadata.
MakeBare ==
  /\ \/ receipt = "none" /\ Step("bare", "verify")
     \/ receipt = "beside" /\ Step("bare", "evidence")
     \/ receipt = "apart" /\ Step("bare", "openReceipt")
  /\ staged' = "clean"
  /\ UNCHANGED <<setup, sourceVars, synced, destVars, ws, endVars, budget>>

\* Receipt.create, written to the workspace and synchronized.
WriteEvidence ==
  /\ Step("evidence", "verifyScope")
  /\ synced' = synced \cup {"receipt"}
  /\ UNCHANGED <<setup, sourceVars, staged, destVars, ws, endVars, budget>>

\* Faulty variant: the receipt's scope is not compared again, as in version 1.
VerifyFingerprintOnly ==
  /\ \/ Step("verifyScope", "verifyHead")
     \/ Step("verifyHead", "verifyRefs") /\ source["HEAD"] = head
     \/ Step("verifyRefs", "verify") /\ source = refs
  /\ UNCHANGED <<setup, sourceVars, stageVars, destVars, ws, endVars, budget>>

\* The scope is compared: the commits and objects of the selected references.
ScopeUnchanged == \A p \in Selected : source[p] = analysed[p]

\* _verify_receipt looks at the source again: scope, HEAD, then refs.
VerifySource ==
  /\ \/ Step("verifyScope", "verifyHead") /\ ScopeUnchanged
     \/ Step("verifyHead", "verifyRefs") /\ source["HEAD"] = head
     \/ Step("verifyRefs", "verify") /\ source = refs
  /\ UNCHANGED <<setup, sourceVars, stageVars, destVars, ws, endVars, budget>>

SourceMismatch ==
  /\ \/ pc = "check" /\ cloned # head
     \/ pc = "verifyScope" /\ ~ScopeUnchanged
     \/ pc = "verifyHead" /\ source["HEAD"] # head
     \/ pc = "verifyRefs" /\ source # refs
  /\ Raise("other")
  /\ UNCHANGED <<setup, ws, budget>>

VerifyOutput ==
  /\ Step("verify", "sync")
  /\ staged' = "verified"
  /\ UNCHANGED <<setup, sourceVars, synced, destVars, ws, endVars, budget>>

\* Faulty variant: only the directories are synchronized, not the contents.
SyncStagedNot ==
  /\ Step("sync", IF receipt = "none" THEN "publishOutput" ELSE "publishReceipt")
  /\ UNCHANGED <<setup, sourceVars, stageVars, destVars, ws, endVars, budget>>

SyncStaged ==
  /\ Step("sync", IF receipt = "none" THEN "publishOutput" ELSE "publishReceipt")
  /\ synced' = synced \cup {"output"}
  /\ UNCHANGED <<setup, sourceVars, staged, destVars, ws, endVars, budget>>

-----------------------------------------------------------------------------
(* Publication.                                                            *)

\* renameat2 with RENAME_NOREPLACE.
Publish(d) ==
  /\ IF d = "receipt" THEN Step("publishReceipt", "flagReceipt")
                      ELSE Step("publishOutput", "flagOutput")
  /\ dest[d] = "absent"
  /\ dest' = [dest EXCEPT ![d] = "ours"]
  /\ UNCHANGED <<setup, sourceVars, stageVars, durable, torn, published, ws,
                 endVars, budget>>

\* Faulty variant: a destination in the way is waited out.
PublishRetried ==
  /\ \/ pc = "publishReceipt" /\ dest["receipt"] # "absent"
     \/ pc = "publishOutput" /\ dest["output"] # "absent"
  /\ UNCHANGED vars

PublishRefused ==
  /\ \/ pc = "publishReceipt" /\ dest["receipt"] # "absent"
     \/ pc = "publishOutput" /\ dest["output"] # "absent"
  /\ Raise("publication")
  /\ UNCHANGED <<ws, budget>>

Flag(d) ==
  /\ IF d = "receipt" THEN Step("flagReceipt", "syncReceipt")
                      ELSE Step("flagOutput", "syncOutput")
  /\ published' = published \cup {d}
  /\ UNCHANGED <<setup, sourceVars, stageVars, dest, durable, torn, ws, endVars,
                 budget>>

\* sync_published_parent: silent where directories cannot be synchronized.
SyncParent(d) ==
  /\ IF d = "receipt" THEN Step("syncReceipt", "publishOutput")
                      ELSE Step("syncOutput", "return")
  /\ durable' = durable \cup
       {e \in Dests : dirSync /\ Ours(e) /\ (e = d \/ receipt = "beside")}
  /\ UNCHANGED <<setup, sourceVars, stageVars, dest, torn, published, ws,
                 endVars, budget>>

Return ==
  /\ pc = "return"
  /\ Goto(FirstClose)
  /\ UNCHANGED <<setup, sourceVars, stageVars, destVars, ws, endVars, budget>>

-----------------------------------------------------------------------------
(* Failures in the body.  Workspace.create cleans up after itself, which   *)
(* may fail too; so a workspace not quite opened may be left behind.       *)

\* What a step can raise: publication.py raises only PublicationError.
Kinds ==
  CASE pc \in {"sync", "publishReceipt", "syncReceipt", "publishOutput",
              "syncOutput"} -> {"publication"}
    [] pc = "bare" -> {"publication", "other"}
    [] pc \in {"flagReceipt", "flagOutput", "return"} -> {}
    [] OTHER -> {"other"}

Opened == CASE pc = "open" -> {"output"} [] pc = "openReceipt" -> {"receipt"}
            [] OTHER -> {}

AbandonOpening ==
  \E left \in SUBSET Opened :
    ws' = [w \in Dests |-> IF w \in left THEN "left" ELSE ws[w]]

Fails ==
  /\ pc \in Working
  /\ Spend
  /\ \E kind \in Kinds : Raise(kind)
  /\ AbandonOpening
  /\ UNCHANGED signals

\* Workspace.create passes no EINVAL over when it synchronizes.
OpenUnsupported ==
  /\ pc \in Opening
  /\ ~dirSync
  /\ Raise("other")
  /\ UNCHANGED <<ws, budget>>

-----------------------------------------------------------------------------
(* Unwinding: ExitStack closes the workspaces, each as Workspace.close.    *)

Closing(w) == pc = IF w = "receipt" THEN "closeReceipt" ELSE "closeOutput"

CloseAs(w, state) ==
  /\ Closing(w)
  /\ ws' = [ws EXCEPT ![w] = state]
  /\ Goto(IF w = "receipt" THEN "closeOutput" ELSE "convert")
  /\ UNCHANGED <<setup, sourceVars, stageVars, destVars, told, exit>>

Close(w) ==
  /\ CloseAs(w, IF error = "interrupted" THEN "marked" ELSE "removed")
  /\ UNCHANGED <<error, budget>>

\* A failing mark is passed over, a failing removal replaces the exception, also
\* if the directory is gone and only its parent could not be synchronized.
CloseFails(w) ==
  /\ \/ CloseAs(w, "left")
     \/ CloseAs(w, "removed") /\ error # "interrupted"
  /\ error' = IF error = "interrupted" THEN error ELSE "other"
  /\ Spend
  /\ UNCHANGED signals

-----------------------------------------------------------------------------
(* The first signal raises InterruptionError wherever the rewrite is.      *)

InterruptBody ==
  /\ pc \in Working
  /\ Raise("interrupted")
  /\ AbandonOpening

\* Faulty variant: what interrupts the removal is passed over.
InterruptCloseIgnored(w) ==
  /\ CloseAs(w, "left")
  /\ UNCHANGED error

\* close() turns what interrupts it into a WorkspaceError, with the directory gone
\* already or not.
InterruptClose(w) ==
  /\ CloseAs(w, "left") \/ CloseAs(w, "removed")
  /\ error' = "other"

\* Between two callbacks of the ExitStack: the next workspace is closed as
\* interrupted, or no further callback runs at all.
InterruptUnwinding ==
  /\ pc \in Unwinding
  /\ error' = "interrupted"
  /\ \/ UNCHANGED <<pc, ws>>
     \/ /\ Goto("convert")
        /\ ws' = [w \in Dests |-> IF ws[w] = "open" THEN "left" ELSE ws[w]]
  /\ UNCHANGED <<setup, sourceVars, stageVars, destVars, told, exit>>

InterruptLate ==
  /\ pc = "convert"
  /\ error' = "interrupted"
  /\ UNCHANGED <<setup, sourceVars, stageVars, destVars, ws, pc, told, exit>>

Signal ==
  /\ signals = 0
  /\ signals' = 1
  /\ \/ InterruptBody \/ InterruptUnwinding \/ InterruptLate
     \/ \E w \in Dests : InterruptClose(w)
  /\ UNCHANGED faults

-----------------------------------------------------------------------------
(* The end: rewrite() returns or raises and main() reports it.             *)

\* Faulty variant: the flags are looked at in the order they are set.
PublicationStateOrder ==
  IF error # "publication" THEN "nothing"
  ELSE IF "receipt" \in published THEN "receipt_published"
  ELSE IF "output" \in published THEN "output_published" ELSE "not_published"

\* `except PublicationError` adds what the two flags say.
PublicationState ==
  IF error # "publication" THEN "nothing"
  ELSE IF "output" \in published THEN "output_published"
  ELSE IF "receipt" \in published THEN "receipt_published" ELSE "not_published"

Report ==
  /\ pc = "convert"
  /\ exit' = CASE error = "none" -> "ok"
               [] error = "interrupted" -> "interrupted"
               [] OTHER -> "failed"
  /\ told' = PublicationState
  /\ Goto("done")
  /\ UNCHANGED <<setup, sourceVars, stageVars, destVars, ws, error, budget>>

\* The success document cannot be written.
ReportFails ==
  /\ pc = "convert" /\ error = "none"
  /\ Spend
  /\ exit' = "failed"
  /\ Goto("done")
  /\ UNCHANGED <<setup, sourceVars, stageVars, destVars, ws, error, told, signals>>

-----------------------------------------------------------------------------
(* The environment.                                                        *)

\* SIGKILL, a second signal, or a signal after the handlers are restored.
Killed ==
  /\ pc \notin {"done", "dead"}
  /\ Goto("dead")
  /\ UNCHANGED <<setup, sourceVars, stageVars, destVars, ws, endVars, budget>>

\* What was not synchronized may be gone, content before entries.
PowerLoss(lost) ==
  /\ \A d \in lost : Ours(d) /\ d \notin durable
  /\ dest' = [d \in Dests |-> IF d \in lost THEN "absent" ELSE dest[d]]
  /\ torn' = {d \in Dests : Ours(d)'} \ synced
  /\ Goto(IF pc = "done" THEN "done" ELSE "dead")
  /\ UNCHANGED <<setup, sourceVars, stageVars, durable, published, ws, endVars,
                 budget>>

SourceMoves(p) ==
  /\ source["HEAD"] + source["selected"] + source["other"] < MaxMoves
  /\ source' = [source EXCEPT ![p] = @ + 1]
  /\ UNCHANGED <<setup, analysed, head, refs, cloned, stageVars, destVars, ws,
                 pc, endVars, budget>>

\* A noncooperating writer creates a destination.
ForeignWrite(d) ==
  /\ d \in Wanted
  /\ dest[d] = "absent"
  /\ dest' = [dest EXCEPT ![d] = "theirs"]
  /\ UNCHANGED <<setup, sourceVars, stageVars, durable, torn, published, ws, pc,
                 endVars, budget>>

\* What the process does next unless something fails.
Proceed ==
  \/ Analyse \/ ReadHead \/ ReadRefs \/ \E w \in Dests : Open(w)
  \/ OpenUnsupported \/ Clone \/ CheckClone \/ Clean \/ MakeBare
  \/ WriteEvidence \/ VerifySource \/ SourceMismatch \/ VerifyOutput
  \/ SyncStaged \/ \E d \in Dests : Publish(d) \/ Flag(d) \/ SyncParent(d)
  \/ PublishRefused \/ Return \/ \E w \in Dests : Close(w)
  \/ Report

Failure == Fails \/ ReportFails \/ \E w \in Dests : CloseFails(w)

Environment ==
  \/ Signal \/ Killed \/ \E p \in Parts : SourceMoves(p)
  \/ \E lost \in SUBSET Dests : PowerLoss(lost)
  \/ \E d \in Dests : ForeignWrite(d)

Next == Proceed \/ Failure \/ Environment

Spec == Init /\ [][Next]_vars

\* The process is scheduled and every subprocess it waits for ends: nothing
\* here relies on a call failing.
FairSpec == Spec /\ WF_vars(Proceed)

-----------------------------------------------------------------------------
\* Every variable keeps its type.
TypeOK ==
  /\ receipt \in Receipts /\ dirSync \in DirSyncs
  /\ source \in [Parts -> 0..MaxMoves] /\ refs \in [Parts -> 0..MaxMoves]
  /\ analysed \in [Selected -> 0..MaxMoves]
  /\ head \in 0..MaxMoves /\ cloned \in 0..MaxMoves
  /\ staged \in {"none", "raw", "clean", "verified"}
  /\ synced \subseteq Dests /\ durable \subseteq Dests
  /\ torn \subseteq Dests /\ published \subseteq Dests
  /\ dest \in [Dests -> {"absent", "ours", "theirs"}]
  /\ ws \in [Dests -> {"none", "open", "removed", "marked", "left"}]
  /\ pc \in Working \cup Unwinding \cup {"convert", "done", "dead"}
  /\ error \in {"none", "publication", "other", "interrupted"}
  /\ told \in {"nothing", "not_published", "receipt_published",
               "output_published"}
  /\ exit \in {"none", "ok", "failed", "interrupted"}
  /\ signals \in 0..1 /\ faults \in 0..MaxFaults

After(steps) == steps \cup Publishing
Ended == {"done", "dead"}

\* The selected references are, in each read that saw them, the same.
ReadsAgree == head = analysed["HEAD"] /\ \A p \in Selected : refs[p] = analysed[p]

\* Every read sees the source no earlier than the one before, and once the scope
\* was compared with the source again, none of them saw a change in it.
ReadInv ==
  /\ pc \in {"head", "refs"} => \A p \in Selected : analysed[p] <= source[p]
  /\ pc = "refs" => analysed["HEAD"] <= head /\ head <= source["HEAD"]
  /\ pc \in Opening \cup Staging \cup Publishing =>
       /\ analysed["HEAD"] <= head /\ head <= refs["HEAD"]
       /\ analysed["selected"] <= refs["selected"]
       /\ \A p \in Parts : refs[p] <= source[p]
  /\ receipt # "none" /\ pc \in After({"verifyHead", "verifyRefs", "verify", "sync"}) =>
       ReadsAgree
  /\ pc \in {"openReceipt", "evidence", "verifyScope", "verifyHead", "verifyRefs",
             "publishReceipt", "flagReceipt", "syncReceipt"} => receipt # "none"

\* What is staged when publication begins, and where it began.
StageInv ==
  /\ pc \in After({"sync"}) => staged = "verified"
  /\ pc \in Publishing => "output" \in synced
  /\ receipt # "none" /\ pc \in After({"verifyScope", "verifyHead", "verifyRefs",
                                     "verify", "sync"}) => "receipt" \in synced
  /\ pc \in Staging \cup Publishing \cup {"openReceipt"} => dirSync

\* What is at the destinations at each step of publication.
PlaceInv ==
  /\ \A d \in Dests : Ours(d) =>
       /\ pc \in Publishing \cup Unwinding \cup {"convert"} \cup Ended
       /\ dirSync /\ d \in Wanted /\ d \in synced /\ staged = "verified"
  /\ Ours("receipt") => ReadsAgree
  /\ Ours("receipt") /\ Ours("output") => "receipt" \in durable
  /\ torn = {}
  /\ pc \in {"publishReceipt", "flagReceipt", "syncReceipt", "publishOutput"} => ~Ours("output")
  /\ receipt # "none" /\ pc \in Publishing \ {"publishReceipt"} => Ours("receipt")
  /\ receipt # "none" /\ pc \in {"publishOutput", "flagOutput", "syncOutput", "return"} =>
       "receipt" \in durable
  /\ pc \in {"flagOutput", "syncOutput", "return"} => Ours("output")
  /\ pc = "return" => "output" \in durable

\* The flags say what is at the destinations, but for the moment between a
\* rename and its flag, in which only a signal can end the body.
FlagInv ==
  /\ pc \in Working \ {"flagReceipt", "flagOutput"} =>
       \A d \in Dests : Ours(d) <=> d \in published
  /\ pc = "flagReceipt" => published = {}
  /\ pc = "flagOutput" => \A d \in Dests : d \in published <=> d = "receipt" /\ Ours(d)
  /\ pc \notin Working \cup Ended /\ error = "publication" =>
       \A d \in Dests : Ours(d) <=> d \in published

\* How the rewrite ends: without an error only if all is published for good
\* and every workspace so far is gone.
EndInv ==
  /\ pc \in Working =>
       error = "none" /\ signals = 0 /\ \A w \in Dests : ws[w] \in {"none", "open"}
  /\ exit # "none" <=> pc = "done"
  /\ pc # "done" => told = "nothing"
  /\ exit = "ok" => error = "none"
  /\ error = "none" /\ pc \in Unwinding \cup {"convert"} => Ours("output")
  /\ error = "none" /\ pc \in Unwinding \cup {"convert", "done"} =>
       /\ signals = 0
       /\ \A d \in Dests : Ours(d) => d \in durable
       /\ pc # "closeReceipt" => ws["receipt"] \in {"none", "removed"}
       /\ pc \notin Unwinding => ws["output"] \in {"none", "removed"}

\* What became of the workspaces, and how the error tells of it: one that was
\* marked was interrupted, and one that is left was reported or interrupted.
CloseInv ==
  /\ pc \in Reading \cup {"open"} => ws["output"] = "none"
  /\ pc \in Working \ (Reading \cup {"open"}) => ws["output"] = "open"
  /\ pc \in Reading \cup Opening \cup {"clone", "check", "clean", "bare"} =>
       ws["receipt"] = "none"
  /\ pc = "closeReceipt" => ws["receipt"] = "open" /\ ws["output"] = "open"
  /\ pc = "closeOutput" => ws["receipt"] # "open" /\ ws["output"] = "open"
  /\ pc \in {"convert", "done"} => \A w \in Dests : ws[w] # "open"
  /\ error \in {"none", "publication"} =>
       signals = 0 /\ \A w \in Dests : ws[w] \in {"none", "open", "removed"}
  /\ error = "interrupted" => signals = 1
  /\ \A w \in Dests : ws[w] = "marked" => error = "interrupted"
  /\ (\E w \in Dests : ws[w] = "left") => faults > 0 \/ signals > 0
  /\ told # "nothing" => error = "publication"
  /\ pc = "done" => /\ exit = "interrupted" <=> error = "interrupted"
                    /\ error # "none" => exit # "ok"

\* Types, and what is known at each step of a rewrite.
Inv == TypeOK /\ ReadInv /\ StageInv /\ PlaceInv /\ FlagInv /\ EndInv /\ CloseInv

\* What README.md promises of the destinations: see Publication.
Outcome ==
  IF pc = "dead" THEN "dead" ELSE IF exit = "none" THEN "running" ELSE exit

Promise == INSTANCE Publication WITH wanted <- Wanted, outcome <- Outcome
PublicationPromise == Promise!Spec

\* A reader never finds a destination that is not verified, or whose content
\* a power loss at any moment could take away.
PublishedIsWhole ==
  /\ \A d \in Dests : Ours(d) => staged = "verified"
  /\ torn = {}

\* A published receipt binds one state of the selected references: what was
\* analysed, and so rewritten, is what its fingerprint was taken of, though
\* commits may arrive, there and elsewhere, between any two of the reads.
EvidenceIsTrue == Ours("receipt") => ReadsAgree

Gone(w) == ws[w] \in {"none", "removed"}

\* What a rewrite that ended has made of its workspaces, and what its exit says.
\* All are gone after a success, and after a publication that failed by itself.
\* No signal is passed over, also if it came during a removal.  Only a rewrite that
\* says it was interrupted has marked one, and only a signal or a call that failed
\* leaves one unmarked: what a failing call leaves without a signal is told as a
\* failure.
StagingIsTold ==
  pc = "done" =>
    /\ exit = "ok" => signals = 0 /\ \A w \in Dests : Gone(w)
    /\ told # "nothing" => signals = 0 /\ \A w \in Dests : Gone(w)
    /\ \A w \in Dests :
         /\ ws[w] # "open"
         /\ ws[w] = "marked" => exit = "interrupted"
         /\ ws[w] = "left" => signals = 1 \/ (faults > 0 /\ exit = "failed")

\* An open workspace is removed if nothing or an ordinary failure ended the body,
\* and never once the rewrite is interrupted; it is marked for inspection if a
\* signal ended the body; and if neither is done, the rewrite goes on to fail.
WorkspacesSettle ==
  [][\A w \in Dests : ws[w] = "open" /\ ws'[w] # "open" =>
       \/ ws'[w] = "removed" /\ error # "interrupted" /\ error' \in {error, "other"}
       \/ ws'[w] = "marked" /\ error = "interrupted"
       \/ ws'[w] = "left" /\ error' \in {"other", "interrupted"}]_vars

\* Nothing unsanitized stays behind silently: every workspace is removed, or kept
\* after an interruption, or left by a rewrite that says it failed, also if a signal
\* comes while one is removed or between two of them.
StagingIsSettled == []StagingIsTold /\ WorkspacesSettle

\* Every rewrite that is not killed reports how it ended.
RewriteEnds == <>(pc \in {"done", "dead"})

=============================================================================
