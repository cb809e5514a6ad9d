----------------------------- MODULE Forbidden -----------------------------
(***************************************************************************)
(* Forbidden content: how forbidden.py collects patterns from arguments,   *)
(* files and standard input, how Matcher links its trie into an automaton, *)
(* and how verify.py runs that automaton over object and hook bodies,      *)
(* which it reads in chunks.  A node of the trie is the text that leads to *)
(* it, so the root is the empty sequence.                                  *)
(***************************************************************************)
EXTENDS Naturals, Sequences, FiniteSets, SequencesExt

CONSTANTS
  Byte, Newline,
  InputLimit,   \* INPUT_LIMIT: bytes of one record
  ChunkSize,    \* CHUNK_SIZE: bytes of one read
  TotalLimit,   \* TOTAL_LIMIT: bytes of all records
  Cases         \* what a verification may be given

\* The arguments, the contents of the files and of standard input in order,
\* and the bodies of the objects and then of the hooks.
ASSUME CasesAssumption ==
  Cases \subseteq [values: Seq(Seq(Byte)), streams: Seq(Seq(Byte)),
                   bodies: Seq(Seq(Byte))]
ASSUME LimitsAssumption ==
  /\ Newline \in Byte
  /\ InputLimit \in Nat \ {0} /\ ChunkSize \in Nat \ {0} /\ TotalLimit \in Nat

VARIABLES
  given,                     \* the case
  stream, offset, pending,   \* read_records: the stream, what is read of it
  records, total,            \* records of one source and their size
  seen, used, patterns,      \* _validated, sizes so far, collect's result
  nodes, failure, terminal,  \* the automaton
  parent, queue, todo,       \* the node whose children are linked, and others
  child, fall,               \* a failure walk for one child
  body, fed, end, state,     \* Matcher.feed in one chunk of one body
  pc, verdict

inputVars == <<stream, offset, pending, records, total, seen, used, patterns>>
trieVars  == <<nodes, failure, terminal>>
linkVars  == <<parent, queue, todo, child, fall>>
scanVars  == <<body, fed, end, state>>
vars == <<given, inputVars, trieVars, linkVars, scanVars, pc, verdict>>

Root == <<>>
Goto(step) == pc' = step /\ UNCHANGED verdict
Stop(result) == pc' = "done" /\ verdict' = result
Smaller(a, b) == IF a < b THEN a ELSE b

Init ==
  /\ given \in Cases
  /\ stream = 0 /\ offset = 0 /\ pending = <<>>
  /\ records = given.values /\ total = 0
  /\ seen = {} /\ used = 0 /\ patterns = {}
  /\ nodes = {Root} /\ failure = [n \in {Root} |-> Root] /\ terminal = {}
  /\ parent = Root /\ queue = {} /\ todo = {} /\ child = Root /\ fall = Root
  /\ body = 0 /\ fed = 0 /\ end = 0 /\ state = Root
  /\ pc = "validate" /\ verdict = "none"

-----------------------------------------------------------------------------
(* collect: the arguments first, then each stream.                         *)

\* read_records: another chunk, which ends at the end of the stream only.
ReadChunk ==
  LET text == given.streams[stream]
      upto == Smaller(offset + ChunkSize, Len(text))
  IN /\ pc = "read" /\ offset < Len(text)
     /\ pending' = pending \o SubSeq(text, offset + 1, upto)
     /\ offset' = upto
     /\ Goto("cut")
     /\ UNCHANGED <<given, stream, records, total, seen, used, patterns,
                    trieVars, linkVars, scanVars>>

Newlines == {i \in DOMAIN pending : pending[i] = Newline}

\* append(), which counts before anything is deduplicated.
AppendRecord(record, next) ==
  LET size == total + Len(record)
  IN IF Len(record) > InputLimit \/ size > TotalLimit - used
     THEN Stop("rejected") /\ UNCHANGED <<records, total>>
     ELSE /\ records' = Append(records, record) /\ total' = size
          /\ Goto(next)

CutRecord ==
  /\ pc = "cut"
  /\ \E first \in Newlines :
       /\ \A i \in Newlines : first <= i
       /\ AppendRecord(SubSeq(pending, 1, first - 1), "cut")
       /\ pending' = SubSeq(pending, first + 1, Len(pending))
  /\ UNCHANGED <<given, stream, offset, seen, used, patterns, trieVars, linkVars,
                 scanVars>>

\* What is left may still grow into a record, unless it is too long already.
CheckPending ==
  /\ pc = "cut" /\ Newlines = {}
  /\ IF Len(pending) > InputLimit THEN Stop("rejected") ELSE Goto("read")
  /\ UNCHANGED <<given, inputVars, trieVars, linkVars, scanVars>>

\* Faulty variant: only what a newline ends is a record.
LastRecordDropped ==
  /\ pc = "read" /\ offset = Len(given.streams[stream])
  /\ Goto("reset")
  /\ pending' = <<>>
  /\ UNCHANGED <<given, stream, offset, records, total, seen, used, patterns,
                 trieVars, linkVars, scanVars>>

\* The last record needs no newline.
EndStream ==
  /\ pc = "read" /\ offset = Len(given.streams[stream])
  /\ IF pending # <<>> THEN AppendRecord(pending, "reset")
                       ELSE Goto("reset") /\ UNCHANGED <<records, total>>
  /\ pending' = <<>>
  /\ UNCHANGED <<given, stream, offset, seen, used, patterns, trieVars, linkVars,
                 scanVars>>

\* _validated starts counting again.
StartValidation ==
  /\ pc = "reset"
  /\ total' = 0 /\ seen' = {}
  /\ Goto("validate")
  /\ UNCHANGED <<given, stream, offset, pending, records, used, patterns,
                 trieVars, linkVars, scanVars>>

\* One record of _validated; a new one goes to the patterns of collect.
Validate ==
  /\ pc = "validate" /\ records # <<>>
  /\ LET record == Head(records)
         size   == total + Len(record)
     IN IF Len(record) \notin 1..InputLimit \/ size > TotalLimit
        THEN /\ Stop("rejected")
             /\ UNCHANGED <<records, total, seen, used, patterns>>
        ELSE /\ Goto("validate")
             /\ records' = Tail(records) /\ total' = size
             /\ seen' = seen \cup {record}
             /\ used' = IF record \in seen THEN used ELSE used + Len(record)
             /\ patterns' = patterns \cup {record}
  /\ UNCHANGED <<given, stream, offset, pending, trieVars, linkVars, scanVars>>

NextStream ==
  /\ pc = "validate" /\ records = <<>> /\ stream < Len(given.streams)
  /\ stream' = stream + 1
  /\ offset' = 0 /\ total' = 0
  /\ Goto("read")
  /\ UNCHANGED <<given, pending, records, seen, used, patterns, trieVars, linkVars,
                 scanVars>>

\* A file cannot be read, or an argument is not UTF-8.
InputFails ==
  /\ pc \in {"validate", "read"}
  /\ Stop("unreadable")
  /\ UNCHANGED <<given, inputVars, trieVars, linkVars, scanVars>>

\* Faulty variant: the root itself is queued, so that its children are linked
\* by a walk that starts at the root, and to themselves.
RootQueued ==
  /\ pc = "validate" /\ records = <<>> /\ stream = Len(given.streams)
  /\ nodes' = UNION {{SubSeq(p, 1, k) : k \in 0..Len(p)} : p \in patterns}
  /\ failure' = [n \in nodes' |-> Root]
  /\ terminal' = patterns
  /\ queue' = {Root}
  /\ Goto("link")
  /\ UNCHANGED <<given, inputVars, parent, todo, child, fall, scanVars>>

\* collect() validates what it collected; without patterns nothing is scanned,
\* otherwise Matcher enters them in its trie and queues the root's children.
EndCollect ==
  /\ pc = "validate" /\ records = <<>> /\ stream = Len(given.streams)
  /\ \/ used > TotalLimit /\ Stop("rejected") /\ UNCHANGED <<trieVars, queue>>
     \/ /\ used <= TotalLimit /\ patterns = {}
        /\ Stop("clean") /\ UNCHANGED <<trieVars, queue>>
     \/ /\ used <= TotalLimit /\ patterns # {}
        /\ nodes' = UNION {{SubSeq(p, 1, k) : k \in 0..Len(p)} : p \in patterns}
        /\ failure' = [n \in nodes' |-> Root]
        /\ terminal' = patterns
        /\ queue' = {n \in nodes' : Len(n) = 1}
        /\ Goto("link")
  /\ UNCHANGED <<given, inputVars, parent, todo, child, fall, scanVars>>

-----------------------------------------------------------------------------
(* Matcher.__init__: failure links, breadth first.                         *)

Stuck(n, b) == n # Root /\ Append(n, b) \notin nodes
Go(n, b) == IF Append(n, b) \in nodes THEN Append(n, b) ELSE Root

\* Faulty variant: depth first, the next node is any that waits.
DepthFirst ==
  /\ pc = "link" /\ todo = {}
  /\ \E n \in queue :
       /\ \A m \in queue : Len(n) >= Len(m)
       /\ parent' = n /\ queue' = queue \ {n}
       /\ todo' = {m \in nodes : \E b \in Byte : m = Append(n, b)}
  /\ UNCHANGED <<given, inputVars, trieVars, child, fall, scanVars, pc, verdict>>

\* The queue holds what is nearer to the root in front of what is further.
Dequeue ==
  /\ pc = "link" /\ todo = {}
  /\ \E n \in queue :
       /\ \A m \in queue : Len(n) <= Len(m)
       /\ parent' = n /\ queue' = queue \ {n}
       /\ todo' = {m \in nodes : \E b \in Byte : m = Append(n, b)}
  /\ UNCHANGED <<given, inputVars, trieVars, child, fall, scanVars, pc, verdict>>

StartWalk ==
  /\ pc = "link"
  /\ child' \in todo
  /\ fall' = failure[parent]
  /\ Goto("walk")
  /\ UNCHANGED <<given, inputVars, trieVars, parent, queue, todo, scanVars>>

WalkBack ==
  /\ pc = "walk" /\ Stuck(fall, Last(child))
  /\ fall' = failure[fall]
  /\ UNCHANGED <<given, inputVars, trieVars, parent, queue, todo, child, scanVars,
                 pc, verdict>>

Link ==
  LET target == Go(fall, Last(child))
  IN /\ pc = "walk" /\ ~Stuck(fall, Last(child))
     /\ failure' = [failure EXCEPT ![child] = target]
     /\ terminal' = terminal \cup (IF target \in terminal THEN {child} ELSE {})
     /\ queue' = queue \cup {child} /\ todo' = todo \ {child}
     /\ Goto("link")
     /\ UNCHANGED <<given, inputVars, nodes, parent, child, fall, scanVars>>

EndLink ==
  /\ pc = "link" /\ queue = {} /\ todo = {}
  /\ Goto("body")
  /\ UNCHANGED <<given, inputVars, trieVars, linkVars, scanVars>>

-----------------------------------------------------------------------------
(* _scan_object_bodies and _scan_hooks.                                    *)

Body == given.bodies[body]

\* The matcher is reset at each object and each hook.
NextBody ==
  /\ pc = "body" /\ body < Len(given.bodies)
  /\ body' = body + 1 /\ fed' = 0 /\ end' = 0 /\ state' = Root
  /\ Goto("chunk")
  /\ UNCHANGED <<given, inputVars, trieVars, linkVars>>

\* Faulty variant: the matcher starts again with every chunk.
ChunkForgets ==
  /\ pc = "chunk"
  /\ end' = Smaller(fed + ChunkSize, Len(Body)) /\ state' = Root
  /\ Goto(IF fed = Len(Body) THEN "body" ELSE "feed")
  /\ UNCHANGED <<given, inputVars, trieVars, linkVars, body, fed>>

NextChunk ==
  /\ pc = "chunk"
  /\ end' = Smaller(fed + ChunkSize, Len(Body))
  /\ Goto(IF fed = Len(Body) THEN "body" ELSE "feed")
  /\ UNCHANGED <<given, inputVars, trieVars, linkVars, body, fed, state>>

\* Matcher.feed, byte by byte.
FallBack ==
  /\ pc = "feed" /\ fed < end /\ Stuck(state, Body[fed + 1])
  /\ state' = failure[state]
  /\ UNCHANGED <<given, inputVars, trieVars, linkVars, body, fed, end, pc, verdict>>

Advance ==
  /\ pc = "feed" /\ fed < end /\ ~Stuck(state, Body[fed + 1])
  /\ state' = Go(state, Body[fed + 1]) /\ fed' = fed + 1
  /\ IF state' \in terminal THEN Stop("forbidden") ELSE Goto("feed")
  /\ UNCHANGED <<given, inputVars, trieVars, linkVars, body, end>>

EndChunk ==
  /\ pc = "feed" /\ fed = end
  /\ Goto("chunk")
  /\ UNCHANGED <<given, inputVars, trieVars, linkVars, scanVars>>

\* git cat-file ends early or badly, or a hook cannot be read.
ScanFails ==
  /\ pc \in {"body", "chunk"}
  /\ Stop("failed")
  /\ UNCHANGED <<given, inputVars, trieVars, linkVars, scanVars>>

EndScan ==
  /\ pc = "body" /\ body = Len(given.bodies)
  /\ Stop("clean")
  /\ UNCHANGED <<given, inputVars, trieVars, linkVars, scanVars>>

Collect ==
  \/ ReadChunk \/ CutRecord \/ CheckPending \/ EndStream \/ StartValidation
  \/ Validate \/ NextStream \/ EndCollect
Build == Dequeue \/ StartWalk \/ WalkBack \/ Link \/ EndLink
Scan == NextBody \/ NextChunk \/ FallBack \/ Advance \/ EndChunk \/ EndScan

Next == Collect \/ Build \/ Scan \/ InputFails \/ ScanFails

Spec == Init /\ [][Next]_vars

\* One thread that waits for nothing but reads.
FairSpec == Spec /\ WF_vars(Next)

-----------------------------------------------------------------------------
Collecting == {"read", "cut", "reset", "validate"}
Linking == {"link", "walk"}
Scanning == {"body", "chunk", "feed"}

\* Every variable keeps its type, and what is held of a stream is bounded.
TypeOK ==
  /\ given \in Cases
  /\ stream \in 0..Len(given.streams) /\ offset \in Nat
  /\ pending \in Seq(Byte) /\ Len(pending) <= InputLimit + ChunkSize
  /\ records \in Seq(Seq(Byte)) /\ total \in Nat /\ used \in Nat
  /\ seen \subseteq patterns /\ patterns \subseteq Seq(Byte)
  /\ nodes \subseteq Seq(Byte) /\ terminal \subseteq nodes
  /\ failure \in [nodes -> nodes]
  /\ {parent, child, fall, state} \subseteq nodes
  /\ queue \subseteq nodes /\ todo \subseteq nodes
  /\ body \in 0..Len(given.bodies) /\ fed \in Nat /\ end \in Nat
  /\ pc \in Collecting \cup Linking \cup Scanning \cup {"done"}
  /\ verdict \in {"none", "rejected", "unreadable", "clean", "forbidden", "failed"}

\* n is what the first k bytes of t end with.
EndsWith(t, k, n) ==
  Len(n) <= k /\ \A i \in 1..Len(n) : n[i] = t[k - Len(n) + i]
Suffix(n, m) == EndsWith(m, Len(m), n)
Occurs(p, t) == \E k \in 0..Len(t) : EndsWith(t, k, p)

\* failure leads to the longest other node that a node ends with, and a node
\* is terminal when some pattern ends there.
Linked(n) ==
  /\ failure[n] \in nodes
  /\ Len(failure[n]) < Len(n) /\ Suffix(failure[n], n)
  /\ \A m \in nodes : Len(m) < Len(n) /\ Suffix(m, n) => Len(m) <= Len(failure[n])
  /\ n \in terminal <=> \E p \in patterns : Suffix(p, n)

\* The trie holds the patterns and is closed under prefixes; what is terminal
\* already ends with a pattern.
TrieInv ==
  pc \in Linking \cup Scanning =>
    /\ patterns \subseteq terminal /\ Root \in nodes
    /\ \A n \in nodes : \A k \in 0..Len(n) : SubSeq(n, 1, k) \in nodes
    /\ \A n \in terminal : \E p \in patterns : Suffix(p, n)

\* Breadth first: whatever is not linked yet waits, or waits below the queue,
\* and everything a walk can reach is linked.
LinkInv ==
  pc \in Linking =>
    /\ \A n \in queue : Len(n) - Len(parent) \in 0..1 /\ n # Root /\ Linked(n)
    /\ \A n \in nodes \ {Root} : Len(n) <= Len(parent) => Linked(n)
    /\ \A n \in nodes : Len(n) = Len(parent) + 1 =>
         n \in queue \/ n \in todo \/ Front(n) \in queue
    /\ \A n \in todo : n # Root /\ Front(n) = parent /\ parent # Root

\* The walk for a child has not passed the node that continues its parent's
\* longest suffix with the child's last byte.
WalkInv ==
  pc = "walk" =>
    /\ child \in todo /\ Len(fall) < Len(parent) /\ Suffix(fall, parent)
    /\ \A m \in nodes : (/\ Len(m) < Len(parent) /\ Suffix(m, parent)
                         /\ Append(m, Last(child)) \in nodes)
                        => Len(m) <= Len(fall)

\* While a body is read, the state is a suffix of what was read, no longer
\* suffix can be continued with the next byte, and no pattern has ended yet.
ScanInv ==
  /\ pc \in Scanning =>
       /\ \A n \in nodes \ {Root} : Linked(n)
       /\ \A i \in 1..(IF pc = "body" THEN body ELSE body - 1), p \in patterns :
            ~Occurs(p, given.bodies[i])
  /\ pc \in {"chunk", "feed"} =>
       /\ body # 0 /\ (pc = "feed" => fed <= end)
       /\ fed <= Len(Body) /\ end <= Len(Body) /\ EndsWith(Body, fed, state)
       /\ \A k \in 0..fed, p \in patterns : ~EndsWith(Body, k, p)
       /\ \A m \in nodes : (/\ EndsWith(Body, fed, m)
                            /\ fed < Len(Body) => Append(m, Body[fed + 1]) \in nodes)
                           => Len(m) <= Len(state)

\* What is pending between two reads is no longer than a record, no pattern is
\* empty, and nothing is scanned before all is linked.
ReadInv ==
  /\ pc = "done" <=> verdict # "none"
  /\ pc = "read" => Len(pending) <= InputLimit
  /\ pc \in {"read", "cut"} => stream # 0
  /\ pc \in {"reset", "validate"} => pending = <<>>
  /\ Root \notin patterns
  /\ pc \in Collecting \cup Linking => body = 0
  /\ pc \in Collecting =>
       {parent, child, fall, state} = {Root} /\ queue = {} /\ todo = {}

\* The inductive invariant of reading, linking and scanning.
ForbiddenInv == ReadInv /\ TrieInv /\ LinkInv /\ WalkInv /\ ScanInv

\* What a record is: the longest text without a newline; the last one is not
\* empty.  Here, those that end before position c.
RecordsBefore(t, c) ==
  {SubSeq(t, ij[1], ij[2]) : ij \in
     {ij \in (1..Len(t)) \X (0..Len(t)) :
        /\ ij[1] <= ij[2] + 1 /\ ij[2] < c
        /\ \A i \in ij[1]..ij[2] : t[i] # Newline
        /\ ij[1] = 1 \/ t[ij[1] - 1] = Newline
        /\ ij[2] = Len(t) \/ t[ij[2] + 1] = Newline}}
RecordsOf(t) == RecordsBefore(t, Len(t) + 1)

GivenUpTo(k) ==
  ToSet(given.values) \cup UNION {RecordsOf(given.streams[i]) : i \in 1..k}
Given == GivenUpTo(Len(given.streams))

\* Sizes count every byte where it stands, and no newline of a stream.
Content(t, k) == {i \in 1..k : t[i] # Newline}
SizeOf(texts) == Cardinality(UNION {{t} \X DOMAIN t : t \in texts})
ListSize(list) == Cardinality(UNION {{i} \X DOMAIN list[i] : i \in DOMAIN list})
StreamBytes(k) ==
  UNION {{i} \X Content(given.streams[i], Len(given.streams[i])) : i \in 1..k}
SizeUpTo(k) == ListSize(given.values) + Cardinality(StreamBytes(k))
SizeGiven == SizeUpTo(Len(given.streams))

\* While a stream is read: it is cut into records up to where the pending bytes
\* begin, all that came before it are patterns, and no byte is counted twice.
Input == given.streams[stream]
Cut == offset - Len(pending)
CutInv ==
  pc \in {"read", "cut", "reset"} =>
    /\ stream # 0 /\ offset <= Len(Input) /\ EndsWith(Input, offset, pending)
    /\ pc = "read" => Newlines = {}
    /\ IF pc = "reset" THEN offset = Len(Input) ELSE Cut = 0 \/ Input[Cut] = Newline
    /\ ToSet(records) = RecordsBefore(Input, IF pc = "reset" THEN Cut + 1 ELSE Cut)
    /\ ListSize(records) = total /\ total = Cardinality(Content(Input, Cut))
    /\ patterns = GivenUpTo(stream - 1) /\ used <= SizeUpTo(stream - 1)

\* While records are validated: they and the patterns are all that was given so
\* far, and neither sum can grow beyond its size.
ValidatedInv ==
  pc = "validate" =>
    /\ patterns \cup ToSet(records) = GivenUpTo(stream)
    /\ total + ListSize(records) <= SizeUpTo(stream)
    /\ used + ListSize(records) <= SizeUpTo(stream)

PatternsInv ==
  pc \in Collecting =>
    /\ IsFiniteSet(patterns) /\ SizeOf(patterns) <= used
    /\ \A p \in patterns : Len(p) \in 1..InputLimit

\* The inductive invariant of collecting.
InputsInv == CutInv /\ ValidatedInv /\ PatternsInv

\* What every loop of collecting, linking and scanning keeps.
Inv == TypeOK /\ ForbiddenInv /\ InputsInv

\* README.md:581-584: the patterns that are looked for are exactly the records
\* of the arguments, files and standard input, wherever a chunk ends; nothing
\* is refused but an empty or too long record or too many bytes.
InputsExact ==
  /\ (pc \in Linking \cup Scanning \/ verdict \in {"clean", "forbidden", "failed"}) =>
       /\ patterns = Given
       /\ \A r \in Given : Len(r) \in 1..InputLimit
       /\ SizeOf(Given) <= TotalLimit
  /\ verdict = "rejected" =>
       \/ \E r \in Given : Len(r) \notin 1..InputLimit
       \/ SizeGiven > TotalLimit

\* A verification passes exactly if no object and no hook contains a pattern:
\* none is missed where a chunk ends or where one pattern overlaps another, and
\* none is found across two bodies.
VerdictExact ==
  /\ verdict = "clean" =>
       \A i \in DOMAIN given.bodies, p \in patterns : ~Occurs(p, given.bodies[i])
  /\ verdict = "forbidden" =>
       \E i \in DOMAIN given.bodies, p \in patterns : Occurs(p, given.bodies[i])

\* Collecting, linking and scanning end: no walk along failures goes round.
ScanEnds == <>(pc = "done")
=============================================================================
