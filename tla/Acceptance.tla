----------------------------- MODULE Acceptance -----------------------------
(***************************************************************************)
(* One policy file from its text to a verdict: what from_text accepts,     *)
(* what plan reports of a source, what rewrite makes of it with its        *)
(* receipt and scope file, and which output, receipt, source and policy    *)
(* verify accepts together, after any of them changed.  A command is one   *)
(* step here; Rewrite and History have its own steps.                      *)
(* The history is linear.  A source commit has an id, a time in seconds    *)
(* and a tree, which is its set of paths; a commit of an output is the     *)
(* sequence of what it and its ancestors contain, so that equal ids mean   *)
(* equal histories.                                                        *)
(***************************************************************************)
EXTENDS PathRules, FiniteSets, Functions, FiniteSetsExt

CONSTANTS
  Branches, Tags,   \* canonical reference names
  Families,         \* policy texts and sources that occur together
  AnyPath,          \* paths that somebody may add to an output
  MaxEdits, MaxMade

ASSUME PathsAssumption == Segment \subseteq STRING /\ AnyPath \subseteq Path
ASSUME TextsAssumption ==
  \A f \in Families : \A t \in f.texts :
    /\ t.include \in Seq(Seq(STRING)) /\ t.exclude \in Seq(Seq(STRING))
    /\ t.time \in Nat
ASSUME FamiliesAssumption ==
  \A f \in Families : \A s \in f.sources :
    /\ s.branch \in DOMAIN s.refs /\ DOMAIN s.refs \subseteq Branches \cup Tags
    /\ \A n \in DOMAIN s.refs : s.refs[n].at \in DOMAIN s.commits
    /\ DOMAIN s.commits = 1..Len(s.commits)
    /\ \A i \in DOMAIN s.commits : /\ s.commits[i].tree \subseteq Path
                                   /\ IsFiniteSet(s.commits[i].tree)
\* An id names a commit with all of its ancestry, as far as a repository has it,
\* and no commit is an ancestor of itself.
ASSUME IdsAssumption ==
  \A f \in Families : \A s, r \in f.sources :
    \A i \in DOMAIN s.commits, j \in DOMAIN r.commits :
      s.commits[i].id = r.commits[j].id =>
        /\ \A k \in 0..(i - 1) : k < j => s.commits[i - k] = r.commits[j - k]
        /\ \A m \in DOMAIN s.commits, n \in DOMAIN r.commits :
             s.commits[m].id = r.commits[n].id => (m < i <=> n < j)
ASSUME BoundsAssumption == MaxEdits \in Nat /\ MaxMade \in Nat

VARIABLES
  family, text, source,   \* the policy file and the source
  report,                 \* what plan said last
  outcome,                \* how the last rewrite ended
  made,                   \* what rewrites published, and what became of it
  verdict,                \* what verify said last
  edits

vars == <<family, text, source, report, outcome, made, verdict, edits>>

-----------------------------------------------------------------------------
(* policy.py: from_text.                                                   *)

Modes == {"complete", "bounded", "snapshot"}

\* _retained_refs
ValidKeep(t) ==
  /\ t.keep # <<>>
  /\ Range(t.keep) \subseteq {"HEAD"} \cup Branches \cup Tags
  /\ IsInjective(t.keep)
  /\ t.mode = "snapshot" => t.keep = <<"HEAD">>

\* Faulty variant: keys it does not know are passed over.
UnknownKeysPass(t) ==
  /\ t.version = 1 /\ t.mode \in Modes
  /\ IF t.mode = "snapshot" THEN t.time = 0 /\ t.commit = "none" /\ t.prefix # "none"
                            ELSE (t.time = 0) # (t.commit = "none")
  /\ "invalid" \notin {t.commit, t.prefix, t.mixed}
  /\ ValidPaths(t)
  /\ ValidKeep(t)

\* "time" is in half seconds, 0 if there is none; "commit" is "none", an id,
\* or any other hexadecimal text, or is not hexadecimal ("invalid").
Accepted(t) ==
  /\ t.version = 1 /\ ~t.unknown /\ t.mode \in Modes
  /\ IF t.mode = "snapshot" THEN t.time = 0 /\ t.commit = "none" /\ t.prefix # "none"
                            ELSE (t.time = 0) # (t.commit = "none")
  /\ "invalid" \notin {t.commit, t.prefix, t.mixed}
  /\ ValidPaths(t)
  /\ ValidKeep(t)

\* _cutoff_epoch rounds up to the first second that is not before the cutoff.
CutoffEpoch(t) == (t.time + 1) \div 2

Message(m) == IF m = "none" THEN "[sanitized]" ELSE m

-----------------------------------------------------------------------------
(* git.py and source_scope.py: what a repository has for the policy.  A    *)
(* reference has the type of its object and where it leads to.             *)

\* retained_refs
SelectedNames(repo, t) ==
  [i \in DOMAIN t.keep |-> IF t.keep[i] = "HEAD" THEN repo.branch ELSE t.keep[i]]
Selectable(repo, t) ==
  LET names == SelectedNames(repo, t)
  IN  /\ IsInjective(names)
      /\ Range(names) \subseteq DOMAIN repo.refs /\ repo.branch \in Range(names)
      /\ \A n \in Range(names) :
           repo.refs[n].type \in {"commit"} \cup (IF n \in Tags THEN {"tag"} ELSE {})
Kind(n, type) == IF n \in Branches THEN "branch"
                 ELSE IF type = "commit" THEN "lightweight-tag" ELSE "annotated-tag"
Descriptors(repo, t) ==
  LET names == SelectedNames(repo, t)
  IN  [i \in DOMAIN names |-> [name |-> names[i], at |-> repo.refs[names[i]].at,
                               kind |-> Kind(names[i], repo.refs[names[i]].type)]]
Tips(repo, t) == {d.at : d \in Range(Descriptors(repo, t))}

\* Receipt.source_fingerprint: HEAD and every reference.
HeadId(s) == s.commits[s.refs[s.branch].at].id
Fingerprint(s) ==
  [branch |-> s.branch, head |-> HeadId(s),
   refs |-> [n \in DOMAIN s.refs |-> <<s.refs[n].type, s.commits[s.refs[n].at].id>>]]

\* inspect_source; a shallow source has its first commit as the shallow root.
Inspected(s, t) ==
  /\ s.refs[s.branch].type = "commit" /\ Selectable(s, t)
  /\ t.mode = "complete" => ~s.shallow /\ ~s.partial
  /\ t.mode = "bounded" => s.shallow
BoundaryCount(s) == IF s.shallow THEN 1 ELSE 0
ScopeCommits(s, t) ==
  IF t.mode = "snapshot" THEN {s.refs[s.branch].at}
  ELSE {i \in DOMAIN s.commits : \E tip \in Tips(s, t) : i <= tip}
ScopeFingerprint(s, t) ==
  <<t.mode, s.shallow, {s.commits[i] : i \in ScopeCommits(s, t)}>>

\* resolve_cutoff_commit wants the full id of a commit.
Resolved(s, t) == {i \in DOMAIN s.commits : s.commits[i].id = t.commit}

\* rewrite_analysis._retained
RetainedCommits(s, t) ==
  IF t.mode = "snapshot" THEN ScopeCommits(s, t)
  ELSE IF t.commit # "none" THEN {i \in ScopeCommits(s, t) : \E c \in Resolved(s, t) : c <= i}
  ELSE {i \in ScopeCommits(s, t) : s.commits[i].time >= CutoffEpoch(t)}
Analysable(s, t) ==
  /\ Inspected(s, t)
  /\ t.commit # "none" => \E c \in Resolved(s, t) : \A i \in Tips(s, t) : c <= i
  /\ RetainedCommits(s, t) # {}
  /\ t.mode # "snapshot" => Tips(s, t) \subseteq RetainedCommits(s, t)

\* The paths of all retained trees, for the effects of the rules.
RetainedPaths(s, t) == UNION {s.commits[i].tree : i \in RetainedCommits(s, t)}

\* retained_head_path_count
HeadPathCount(s, t) ==
  Cardinality({path \in s.commits[s.refs[s.branch].at].tree : IsRetainedPath(path, t)})

-----------------------------------------------------------------------------
(* engine.rewrite: compaction and filtering along one line of commits, with *)
(* what git filter-repo does: it applies the changes that the callback      *)
(* leaves of each commit, and prunes a commit that is left with none.       *)

RunStart(s, t, i) ==
  Min({a \in RetainedCommits(s, t) : a <= i /\ a..i \subseteq RetainedCommits(s, t)})

\* The commits from one to another.
Run(s, first, last) == SubSeq(s.commits, first, last)

RewriteCommit(run, t, line, k) ==
  LET old     == IF k = 1 THEN {} ELSE run[k - 1].tree
      new     == run[k].tree
      before  == IF line = <<>> THEN {} ELSE Last(line).tree
      removed == {path \in (old \cup new) \ (old \cap new) : IsRemoved(path, t)}
      tree    == IF IsFiltered(t) THEN (before \ ((old \ new) \ removed))
                                       \cup ((new \ old) \ removed)
                 ELSE new
      message == IF k = 1 THEN Message(t.prefix)
                 ELSE IF IsFiltered(t) /\ removed # {} /\ line # <<>> THEN Message(t.mixed)
                 ELSE run[k].id
  IN  IF IsFiltered(t) /\ tree = before THEN line
      ELSE Append(line, [from |-> run[k].id, time |-> run[k].time,
                         tree |-> tree, message |-> message])

\* restore_selected_components replaces a run with an empty root when nothing
\* is left of it.
Restored(run, t) ==
  LET after[k \in 0..Len(run)] ==
        IF k = 0 THEN <<>> ELSE RewriteCommit(run, t, after[k - 1], k)
      line == after[Len(run)]
  IN  IF line # <<>> THEN line
      ELSE <<[from |-> run[1].id, time |-> run[1].time, tree |-> {},
              message |-> Message(t.prefix)]>>

\* What becomes of commit i.
Line(s, t, i) == Restored(Run(s, RunStart(s, t, i), i), t)

Output(s, t) ==
  [branch |-> s.branch,
   refs |-> [n \in Range(SelectedNames(s, t)) |->
               [type |-> s.refs[n].type, at |-> Line(s, t, s.refs[n].at)]]]
RootsOf(o) == {SubSeq(o.refs[n].at, 1, 1) : n \in DOMAIN o.refs}
CommitsOf(o) == UNION {Range(o.refs[n].at) : n \in DOMAIN o.refs}

SourceRefs(s, t) ==
  [i \in DOMAIN t.keep |-> LET d == Descriptors(s, t)[i]
                           IN  [d EXCEPT !.at = s.commits[@].id]]

\* Receipt.create; versions 2 and 3 as the references ask for.
Receipt(s, t, o) ==
  [version |-> IF t.keep = <<"HEAD">> THEN 2 ELSE 3,
   fingerprint |-> Fingerprint(s), cutoff |-> s.commits[Min(RetainedCommits(s, t))].id,
   boundaryTree |-> s.commits[Min(RetainedCommits(s, t))].tree,
   scope |-> ScopeFingerprint(s, t), boundaries |-> BoundaryCount(s),
   sourceRefs |-> SourceRefs(s, t),
   digest |-> t, head |-> o.refs[o.branch].at, roots |-> RootsOf(o),
   outputRefs |-> Descriptors(o, t), whole |-> TRUE]

\* scope_metadata._value
Coverage(mode) == <<mode, "coverage">>
ScopeFile(s, t) ==
  [mode |-> t.mode, coverage |-> Coverage(t.mode), boundaries |-> BoundaryCount(s),
   commits |-> Cardinality(ScopeCommits(s, t))]

-----------------------------------------------------------------------------
(* verify.py.  "with" says that a receipt and a source are given.          *)

\* Faulty variant: any policy of the same meaning will do.
IgnoresDigest(o, t, s, r) ==
  /\ r.whole /\ t.mode # "snapshot" /\ (r.version = 1 => t.mode = "complete")
  /\ Selectable(o, t)
  /\ o.refs[o.branch].at = r.head /\ RootsOf(o) = r.roots
  /\ r.version < 3 => Cardinality(RootsOf(o)) = 1
  /\ r.version = 3 => Descriptors(o, t) = r.outputRefs
  /\ Inspected(s, t) /\ Resolved(s, t) # {}
  /\ t.commit = r.cutoff /\ Fingerprint(s) = r.fingerprint
  /\ r.version > 1 => /\ ScopeFingerprint(s, t) = r.scope
                      /\ BoundaryCount(s) = r.boundaries

\* _verify_receipt, for a commit cutoff with a receipt and a source.
ReceiptBinds(o, t, s, r) ==
  /\ r.whole
  /\ r.version = 1 => t.mode = "complete"
  /\ r.version = 2 => t.mode # "snapshot"
  /\ r.digest = t
  /\ Selectable(o, t)
  /\ o.refs[o.branch].at = r.head
  /\ IF r.version = 3 THEN RootsOf(o) = r.roots /\ Descriptors(o, t) = r.outputRefs
                      ELSE Cardinality(RootsOf(o)) = 1 /\ RootsOf(o) = r.roots
  /\ Inspected(s, t) /\ Resolved(s, t) # {}
  /\ t.commit = r.cutoff /\ Fingerprint(s) = r.fingerprint
  /\ \A c \in Resolved(s, t) : s.commits[c].tree = r.boundaryTree
  /\ r.version > 1 => /\ ScopeFingerprint(s, t) = r.scope
                      /\ BoundaryCount(s) = r.boundaries
  /\ r.version = 3 => SourceRefs(s, t) = r.sourceRefs

\* The options that go with the policy, and what a receipt has to say.
Evidence(o, t, s, r, with) ==
  IF t.commit = "none" THEN ~with ELSE with /\ \E one \in r : ReceiptBinds(o, t, s, one)

\* verify._root
RootSynthetic(o, t) ==
  /\ \A line \in RootsOf(o) : line[1].message = Message(t.prefix)
  /\ t.time # 0 => \A c \in CommitsOf(o) : c.time >= CutoffEpoch(t)

\* verify._refs
RefsRetained(o, t) ==
  Selectable(o, t) /\ DOMAIN o.refs = Range(SelectedNames(o, t))

\* verify._paths
PathsAccepted(o, t) == \A c \in CommitsOf(o) : \A path \in c.tree : PathAccepted(path, t)

\* scope_metadata.read: of the file only the form and the mode count.
\* "legacy" is allow_legacy_complete.
ScopeAccepted(f, t, legacy) ==
  IF f = {} THEN legacy
  ELSE \A one \in f : one.mode = t.mode /\ one.coverage \in {Coverage(m) : m \in Modes}

\* Faulty variant: a receipt of version 1 does not count as legacy.
LegacyByTime(t, r) == t.mode = "complete" /\ t.commit = "none"

Legacy(t, r) ==
  t.mode = "complete" /\ (t.commit = "none" \/ \E one \in r : one.version = 1)

\* verify: the first check that fails.
Judge(o, f, t, s, r, with) ==
  IF ~Accepted(t) THEN "policy"
  ELSE IF ~Evidence(o, t, s, r, with) THEN "receipt"
  ELSE IF o.branch \notin DOMAIN o.refs THEN "head.symbolic"
  ELSE IF ~RootSynthetic(o, t) THEN "root.synthetic"
  ELSE IF ~RefsRetained(o, t) THEN "refs.retained"
  ELSE IF ~PathsAccepted(o, t) THEN "paths"
  ELSE IF ~ScopeAccepted(f, t, Legacy(t, r)) THEN "scope.metadata"
  ELSE "accepted"

-----------------------------------------------------------------------------
NoReport == [ok |-> FALSE, count |-> 0, include |-> <<>>, exclude |-> <<>>]
NotAsked == [result |-> "none", paths |-> 0]
NoVerdict == [output |-> 0, receipt |-> 0, result |-> "none"]

Init ==
  /\ family \in Families /\ text \in family.texts /\ source \in family.sources
  /\ report = NoReport /\ outcome = NotAsked /\ made = <<>>
  /\ verdict = NoVerdict /\ edits = 0

\* Whoever changes the policy or the source starts asking anew.
Forget == report' = NoReport /\ outcome' = NotAsked /\ verdict' = NoVerdict

EditPolicy ==
  /\ edits < MaxEdits /\ edits' = edits + 1
  /\ text' \in family.texts \ {text}
  /\ Forget
  /\ UNCHANGED <<family, source, made>>

ChangeSource ==
  /\ edits < MaxEdits /\ edits' = edits + 1
  /\ source' \in family.sources \ {source}
  /\ Forget
  /\ UNCHANGED <<family, text, made>>

Plan ==
  /\ report' = IF Accepted(text) /\ Analysable(source, text)
               THEN [ok |-> TRUE, count |-> HeadPathCount(source, text),
                     include |-> IncludeEffects(RetainedPaths(source, text), text),
                     exclude |-> ExcludeEffects(RetainedPaths(source, text), text)]
               ELSE [NoReport EXCEPT !.count = 0]
  /\ UNCHANGED <<family, text, source, outcome, made, verdict, edits>>

\* rewrite takes a receipt exactly for a commit cutoff, and verifies what it
\* made before it publishes it.
Artifact(s, t, with) ==
  LET output == Output(s, t)
  IN  [text |-> t, source |-> s, output |-> output,
       receipt |-> IF with THEN {Receipt(s, t, output)} ELSE {}, scope |-> {ScopeFile(s, t)}]

Attempt(s, t, with) ==
  IF ~Accepted(t) THEN "policy"
  ELSE IF with # (t.commit # "none") THEN "usage"
  ELSE IF ~Analysable(s, t) THEN "source"
  ELSE LET new == Artifact(s, t, with)
       IN  Judge(new.output, new.scope, t, s, new.receipt, with)

OutputPaths(o) == Cardinality(Last(o.refs[o.branch].at).tree)

Rewrite(with) ==
  LET result == Attempt(source, text, with)
  IN  /\ outcome = NotAsked /\ Len(made) < MaxMade
      /\ IF result = "accepted"
         THEN /\ outcome' = [result |-> result, paths |-> OutputPaths(Output(source, text))]
              /\ made' = Append(made, Artifact(source, text, with))
         ELSE outcome' = [NotAsked EXCEPT !.result = result] /\ UNCHANGED made
      /\ UNCHANGED <<family, text, source, report, verdict, edits>>

\* The output is from before there were scopes.
OlderRelease(i) ==
  /\ edits < MaxEdits /\ edits' = edits + 1
  /\ made[i].text.mode = "complete" /\ made[i].text.keep = <<"HEAD">>
  /\ made' = [made EXCEPT ![i].scope = {},
                         ![i].receipt = {[r EXCEPT !.version = 1] : r \in @}]
  /\ verdict' = NoVerdict
  /\ UNCHANGED <<family, text, source, report, outcome>>

AddPath(o, n, k, path) == [o EXCEPT !.refs[n].at[k].tree = @ \cup {path}]
RemoveRef(o, n) == [o EXCEPT !.refs = Restrict(@, DOMAIN @ \ {n})]
AddRef(o, new, n) ==
  [o EXCEPT !.refs = [m \in DOMAIN @ \cup {new} |-> @[IF m = new THEN n ELSE m]]]

\* Something happens to what was published: a path is added to a commit, or a
\* reference removed or added,
ChangeOutput(i) ==
  LET o == made[i].output
  IN  \/ \E n \in DOMAIN o.refs, path \in AnyPath : \E k \in DOMAIN o.refs[n].at :
           /\ ~\E q \in o.refs[n].at[k].tree : IsPrefix(q, path) \/ IsPrefix(path, q)
           /\ made' = [made EXCEPT ![i].output = AddPath(o, n, k, path)]
      \/ \E n \in DOMAIN o.refs : made' = [made EXCEPT ![i].output = RemoveRef(o, n)]
      \/ \E new \in (Branches \cup Tags) \ DOMAIN o.refs, n \in DOMAIN o.refs :
           made' = [made EXCEPT ![i].output = AddRef(o, new, n)]

\* the scope file is lost or replaced,
Rescoped(f) ==
  {{}} \cup {{[g EXCEPT !.mode = m, !.boundaries = b] : g \in f} : m \in Modes, b \in 0..1}
ChangeScope(i) ==
  \E f \in Rescoped(made[i].scope) : made' = [made EXCEPT ![i].scope = f]

\* or the receipt is damaged.
DamageReceipt(i) == made' = [made EXCEPT ![i].receipt = {[r EXCEPT !.whole = FALSE] : r \in @}]

Tamper(i) ==
  /\ edits < MaxEdits /\ edits' = edits + 1
  /\ ChangeOutput(i) \/ ChangeScope(i) \/ DamageReceipt(i)
  /\ verdict' = NoVerdict
  /\ UNCHANGED <<family, text, source, report, outcome>>

\* Any output is verified with any receipt, and the source as it is now.
Verify(i, j, with) ==
  /\ verdict' = [output |-> i, receipt |-> IF with THEN j ELSE 0,
                 result |-> Judge(made[i].output, made[i].scope, text, source,
                                  IF with THEN made[j].receipt ELSE {}, with)]
  /\ UNCHANGED <<family, text, source, report, outcome, made, edits>>

Next ==
  \/ EditPolicy \/ ChangeSource \/ Plan
  \/ \E with \in BOOLEAN : Rewrite(with)
  \/ \E i \in DOMAIN made : OlderRelease(i) \/ Tamper(i)
  \/ \E i, j \in DOMAIN made, with \in BOOLEAN : Verify(i, j, with)

Spec == Init /\ [][Next]_vars

-----------------------------------------------------------------------------
Results == {"none", "policy", "usage", "source", "receipt", "head.symbolic",
            "root.synthetic", "refs.retained", "paths", "scope.metadata", "accepted"}

\* Every variable keeps its type, and outputs come from policies of version 1
\* that say nothing the parser does not know.
TypeOK ==
  /\ family \in Families /\ text \in family.texts /\ source \in family.sources
  /\ report.ok \in BOOLEAN /\ report.count \in Nat
  /\ outcome.result \in Results /\ verdict.result \in Results
  /\ made \in Seq(Range(made)) /\ Len(made) <= MaxMade /\ edits \in 0..MaxEdits
  /\ \A i \in DOMAIN made :
       /\ DOMAIN made[i] = {"text", "source", "output", "receipt", "scope"}
       /\ made[i].text \in family.texts /\ made[i].source \in family.sources
       /\ made[i].text.version = 1 /\ ~made[i].text.unknown

\* A receipt as Receipt.create made it, as an older release did, or damaged.
Issued(one, r) ==
  LET new == Receipt(one.source, one.text, Output(one.source, one.text))
  IN  \E version \in {1, new.version}, whole \in BOOLEAN :
        /\ version = 1 => one.text.keep = <<"HEAD">> /\ one.text.mode = "complete"
        /\ r = [new EXCEPT !.version = version, !.whole = whole]

\* A policy, and a source, with which a rewrite publishes.
Publishes(t, s) ==
  Accepted(t) /\ Analysable(s, t) /\ RootSynthetic(Output(s, t), t)

\* Whatever becomes of an artifact, it was made by a policy and from a source
\* with which a rewrite publishes, and its receipt says so.
MadeInv ==
  \A i \in DOMAIN made :
    /\ Publishes(made[i].text, made[i].source)
    /\ made[i].receipt = {} <=> made[i].text.commit = "none"
    /\ \A r \in made[i].receipt : Issued(made[i], r)

\* The receipt that verify is given, if any.
Given == IF verdict.receipt = 0 THEN {} ELSE made[verdict.receipt].receipt

\* A verdict is of everything as it is now.
JudgedInv ==
  verdict # NoVerdict =>
    /\ verdict.output \in DOMAIN made /\ verdict.receipt \in {0} \cup DOMAIN made
    /\ verdict.result = Judge(made[verdict.output].output, made[verdict.output].scope, text,
                              source, Given, verdict.receipt # 0)

\* A report and an outcome are of the policy and the source as they are.
AskedInv ==
  /\ report.ok => /\ Accepted(text) /\ Analysable(source, text)
                  /\ report.count = HeadPathCount(source, text)
  /\ \/ outcome.result \in {"none", "usage"}
     \/ outcome.result = "policy" /\ ~Accepted(text)
     \/ outcome.result = "source" /\ ~Analysable(source, text)
     \/ outcome.result = "root.synthetic" /\ ~RootSynthetic(Output(source, text), text)
     \/ /\ outcome.result = "accepted" /\ Publishes(text, source)
        /\ outcome.paths = OutputPaths(Output(source, text))

Inv == TypeOK /\ MadeInv /\ JudgedInv /\ AskedInv

\* README.md:356: the same rule grammar is used for planning, filtering and
\* verification.
RulesAgree == Accepted(text) => \A path \in AnyPath : DecidersAgree(path, text)

\* What plan says of a rule is true of every retained tree.
EffectsTrue ==
  report.ok =>
    EffectsExact(report.include, report.exclude, RetainedPaths(source, text), text)

\* plan runs the preflight of rewrite: where it says yes, rewrite publishes as
\* many paths of HEAD as it counted, unless filtering prunes a root; where it
\* says no, rewrite publishes nothing.
PlanPredicts ==
  /\ report.ok => outcome.result \in {"none", "usage", "accepted", "root.synthetic"}
  /\ report.ok /\ outcome.result = "root.synthetic" =>
       \E i \in Tips(source, text) :
         Line(source, text, i)[1].from # source.commits[RunStart(source, text, i)].id
  /\ report.ok /\ outcome.result = "accepted" => outcome.paths = report.count
  /\ outcome.result = "accepted" => Accepted(text) /\ Analysable(source, text)

PlanTrue == EffectsTrue /\ PlanPredicts

\* With a commit cutoff, an output is accepted only with the receipt of a
\* rewrite by the same policy file, of a source with the same references, and
\* only if it has what rewriting the source as it is now would make: HEAD and
\* the roots, and unless HEAD is all there is, each reference by its name,
\* whatever was changed, swapped or lost in between.
VerdictBinds ==
  verdict.result = "accepted" /\ text.commit # "none" =>
    LET of  == made[verdict.receipt]
        o   == made[verdict.output].output
        new == Output(source, text)
    IN  /\ of.text = text
        /\ Fingerprint(of.source) = Fingerprint(source)
        /\ o.refs[o.branch].at = new.refs[new.branch].at
        /\ RootsOf(o) = RootsOf(new)
        /\ text.keep # <<"HEAD">> => Descriptors(o, text) = Descriptors(new, text)

\* The seconds that begin before the cutoff.
Before(t) == {second \in Nat : 2 * second < t.time}

\* An accepted output has only what the policy as it is now retains: paths,
\* references, and commits at or after the cutoff, to the half second.
VerdictTrue ==
  verdict.result = "accepted" =>
    LET o == made[verdict.output].output
    IN  /\ \A c \in CommitsOf(o) : /\ \A path \in c.tree : Retained(path, text)
                                  /\ c.time \notin Before(text)
        /\ DOMAIN o.refs = Range(SelectedNames(o, text))

VerdictSound == VerdictBinds /\ VerdictTrue

\* What rewrite published is accepted as long as nothing changes, also if an
\* older release made it.
OwnAccepted ==
  LET one == made[verdict.output]
  IN  /\ verdict.result # "none" /\ verdict.output = Len(made)
      /\ one.text = text /\ one.source = source /\ one.output = Output(source, text)
      /\ IF text.commit = "none" THEN verdict.receipt = 0
         ELSE verdict.receipt = verdict.output /\ \A r \in one.receipt : r.whole
      /\ \/ one.scope = {ScopeFile(source, text)}
         \/ /\ one.scope = {} /\ text.mode = "complete"
            /\ text.commit # "none" => \E r \in one.receipt : r.version = 1
      => verdict.result = "accepted"

\* README.md:697-698: verification rejects missing or tampered scope metadata,
\* except for legacy complete-mode artifacts.
TamperedScopeRejected ==
  verdict.result = "accepted" =>
    LET one == made[verdict.output]
    IN  one.scope \in {{}, {ScopeFile(one.source, one.text)}}
=============================================================================
