---------------------------- MODULE Publication ----------------------------
(***************************************************************************)
(* What README.md promises of a rewrite's destinations: each appears whole *)
(* or not at all, replaces nothing, is never rolled back, the receipt      *)
(* comes first, and what the command reports about them is true.           *)
(***************************************************************************)
VARIABLES wanted,      \* the destinations the rewrite was asked for
          dest,        \* what is at each destination
          outcome,     \* how the command ended
          told         \* the publication_state it reported

vars == <<wanted, dest, outcome, told>>

Dests == {"receipt", "output"}
Ours(d) == dest[d] = "ours"

States == {"nothing", "not_published", "receipt_published", "output_published"}

\* What is true when the command reports a publication state.
Holds(state) ==
  CASE state = "output_published"  -> Ours("output")
    [] state = "receipt_published" -> Ours("receipt") /\ ~Ours("output")
    [] state = "not_published"     -> \A d \in Dests : ~Ours(d)

Init ==
  /\ wanted \in {{"output"}, Dests}
  /\ dest = [d \in Dests |-> "absent"]
  /\ outcome = "running" /\ told = "nothing"

\* A writer outside the program's coordination.
Appear(d) ==
  /\ dest[d] = "absent"
  /\ dest' = [dest EXCEPT ![d] = "theirs"]
  /\ UNCHANGED <<wanted, outcome, told>>

Publish(d) ==
  /\ outcome = "running"
  /\ d \in wanted
  /\ dest[d] = "absent"
  /\ d = "output" => \A e \in wanted \ {d} : Ours(e)
  /\ dest' = [dest EXCEPT ![d] = "ours"]
  /\ UNCHANGED <<wanted, outcome, told>>

\* The command ends and, if publishing failed, reports a publication state.
End(how, state) ==
  /\ outcome = "running"
  /\ outcome' = how
  /\ how = "ok" => Ours("output")
  /\ state # "nothing" => how = "failed" /\ Holds(state)
  /\ told' = state
  /\ UNCHANGED <<wanted, dest>>

\* A power loss forgets entries that were not synchronized: never the receipt
\* without the output, and nothing once the command has reported success.
PowerLoss(lost) ==
  /\ outcome # "ok"
  /\ \A d \in lost : Ours(d)
  /\ "receipt" \in lost => ~Ours("output") \/ "output" \in lost
  /\ dest' = [d \in Dests |-> IF d \in lost THEN "absent" ELSE dest[d]]
  /\ outcome' = IF outcome = "running" THEN "dead" ELSE outcome
  /\ UNCHANGED <<wanted, told>>

Next ==
  \/ \E d \in Dests : Appear(d) \/ Publish(d)
  \/ \E how \in {"ok", "failed", "interrupted", "dead"}, state \in States :
       End(how, state)
  \/ \E lost \in SUBSET Dests : PowerLoss(lost)

Spec == Init /\ [][Next]_vars
=============================================================================
