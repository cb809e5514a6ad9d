--------------------------- MODULE RewriteProofs ---------------------------
(***************************************************************************)
(* Proofs about Rewrite, for any placements of the receipt and any bounds, *)
(* and that it implements Publication.                                     *)
(***************************************************************************)
EXTENDS Rewrite, TLAPS

USE DEF Dests, Parts, Selected, Reading, Opening, Staging, Publishing, Working, Unwinding, Ended,
        After, Ours, Step, Goto, Wanted, setup, sourceVars, stageVars, destVars,
        endVars, budget

\* Where leaving the ExitStack begins.
LEMMA FirstCloseCases ==
  /\ ws["receipt"] = "open" => FirstClose = "closeReceipt"
  /\ ws["receipt"] # "open" /\ ws["output"] = "open" => FirstClose = "closeOutput"
  /\ ws["receipt"] # "open" /\ ws["output"] # "open" => FirstClose = "convert"
BY DEF FirstClose

\* What raises in the body: a step that fails, or a signal.
Raises(kind) ==
  /\ pc \in Working /\ Raise(kind) /\ kind \in {"publication", "other", "interrupted"}
  /\ ws' \in [Dests -> {"none", "open", "left"}]
  /\ \A w \in Dests : ws'[w] = "open" <=> ws[w] = "open"
  /\ \A w \in Dests : ws'[w] = "left" => kind # "publication" /\ (faults' > 0 \/ signals' > 0)
  /\ signals' = IF kind = "interrupted" THEN 1 ELSE signals
  /\ kind = "publication" => pc \notin {"flagReceipt", "flagOutput"}
  /\ signals' \in 0..1 /\ faults' \in 0..MaxFaults

\* Each failing call and each first signal in the body raises one of three kinds of error.
LEMMA RaisingSteps ==
  ASSUME Inv, SourceMismatch \/ PublishRefused \/ OpenUnsupported \/ Fails
              \/ (Signal /\ InterruptBody)
  PROVE  \E kind \in {"publication", "other", "interrupted"} : Raises(kind)
<1> USE DEF Inv, TypeOK, EndInv, Raises
<1>1. CASE SourceMismatch
  BY <1>1 DEF SourceMismatch
<1>2. CASE PublishRefused
  BY <1>2 DEF PublishRefused
<1>3. CASE OpenUnsupported
  BY <1>3 DEF OpenUnsupported
<1>4. CASE Fails
  <2>1. PICK kind \in Kinds : Raise(kind)
    BY <1>4 DEF Fails
  <2>2. /\ kind \in {"publication", "other"}
        /\ kind = "publication" => pc \notin Opening \cup {"flagReceipt", "flagOutput"}
    BY <1>4, <2>1 DEF Kinds, Fails
  <2>3. /\ ws' \in [Dests -> {"none", "open", "left"}]
        /\ \A w \in Dests : ws'[w] = "open" <=> ws[w] = "open"
        /\ \A w \in Dests : ws'[w] = "left" => pc \in Opening
    BY <1>4 DEF Fails, AbandonOpening, Opened, CloseInv
  <2>4. faults' \in 0..MaxFaults /\ faults' > 0
    BY <1>4, BoundsAssumption DEF Fails, Spend
  <2> QED BY <1>4, <2>1, <2>2, <2>3, <2>4 DEF Fails
<1>5. CASE Signal /\ InterruptBody
  <2>1. /\ ws' \in [Dests -> {"none", "open", "left"}]
        /\ \A w \in Dests : ws'[w] = "open" <=> ws[w] = "open"
    BY <1>5 DEF InterruptBody, AbandonOpening, Opened, CloseInv
  <2> QED BY <1>5, <2>1 DEF Signal, InterruptBody
<1> QED BY <1>1, <1>2, <1>3, <1>4, <1>5

\* Raising changes nothing but where the rewrite goes on.
LEMMA RaiseKeepsInv ==
  ASSUME Inv, NEW kind \in {"publication", "other", "interrupted"}, Raises(kind)
  PROVE  Inv'
<1> USE DEF Raises, Raise, Inv
<1>1. pc' \in Unwinding \cup {"convert"}
  BY FirstCloseCases
<1>2. TypeOK'  BY <1>1 DEF TypeOK
<1>3. ReadInv'  BY <1>1 DEF ReadInv, ReadsAgree
<1>4. StageInv'  BY <1>1 DEF StageInv
<1>5. PlaceInv'  BY <1>1 DEF PlaceInv, ReadsAgree
<1>6. FlagInv'  BY <1>1 DEF FlagInv
<1>7. EndInv'  BY <1>1 DEF EndInv
<1>8. CloseInv'
  <2>1. /\ pc' = "closeReceipt" => ws["receipt"] = "open" /\ ws["output"] = "open"
        /\ pc' = "closeOutput" => ws["receipt"] # "open" /\ ws["output"] = "open"
    BY <1>1, FirstCloseCases DEF CloseInv
  <2>2. pc' = "convert" => \A w \in Dests : ws[w] # "open"
    BY <1>1, FirstCloseCases
  <2>3. error' = kind /\ told' = "nothing" /\ signals = 0
    BY DEF EndInv
  <2> QED BY <1>1, <2>1, <2>2, <2>3 DEF CloseInv
<1> QED BY <1>2, <1>3, <1>4, <1>5, <1>6, <1>7, <1>8

\* The steps of the body that do not raise.
Advances ==
  \/ Analyse \/ ReadHead \/ ReadRefs \/ \E w \in Dests : Open(w)
  \/ Clone \/ CheckClone \/ Clean \/ MakeBare
  \/ WriteEvidence \/ VerifySource \/ VerifyOutput \/ SyncStaged
  \/ \E d \in Dests : Publish(d) \/ Flag(d) \/ SyncParent(d)

\* What a read saw of a part is the number of commits that it had gained.
LEMMA SourceTypes ==
  ASSUME TypeOK
  PROVE  /\ source \in [Parts -> Nat] /\ refs \in [Parts -> Nat]
         /\ analysed \in [Selected -> Nat] /\ head \in Nat
BY BoundsAssumption DEF TypeOK

\* A step that succeeds does what the invariant says of the next position.
LEMMA AdvancingKeepsInv ==
  ASSUME Inv, Advances PROVE Inv'
<1> USE DEF Inv
<1>1. CASE Analyse
  <2>1. TypeOK'  BY <1>1 DEF Analyse, TypeOK
  <2>2. ReadInv'  BY <1>1, SourceTypes DEF Analyse, ReadInv, ReadsAgree
  <2>3. StageInv'  BY <1>1 DEF Analyse, StageInv
  <2>4. PlaceInv'  BY <1>1 DEF Analyse, PlaceInv, ReadsAgree
  <2>5. FlagInv'  BY <1>1 DEF Analyse, FlagInv
  <2>6. EndInv'  BY <1>1 DEF Analyse, EndInv
  <2>7. CloseInv'  BY <1>1 DEF Analyse, CloseInv, EndInv
  <2> QED BY <2>1, <2>2, <2>3, <2>4, <2>5, <2>6, <2>7
<1>2. CASE ReadHead
  <2>1. TypeOK'  BY <1>2 DEF ReadHead, TypeOK
  <2>2. ReadInv'  BY <1>2, SourceTypes DEF ReadHead, ReadInv, ReadsAgree
  <2>3. StageInv'  BY <1>2 DEF ReadHead, StageInv
  <2>4. PlaceInv'  BY <1>2 DEF ReadHead, PlaceInv, ReadsAgree
  <2>5. FlagInv'  BY <1>2 DEF ReadHead, FlagInv
  <2>6. EndInv'  BY <1>2 DEF ReadHead, EndInv
  <2>7. CloseInv'  BY <1>2 DEF ReadHead, CloseInv, EndInv
  <2> QED BY <2>1, <2>2, <2>3, <2>4, <2>5, <2>6, <2>7
<1>3. CASE ReadRefs
  <2>1. TypeOK'  BY <1>3 DEF ReadRefs, TypeOK
  <2>2. ReadInv'  BY <1>3, SourceTypes DEF ReadRefs, ReadInv, ReadsAgree
  <2>3. StageInv'  BY <1>3 DEF ReadRefs, StageInv
  <2>4. PlaceInv'  BY <1>3 DEF ReadRefs, PlaceInv, ReadsAgree
  <2>5. FlagInv'  BY <1>3 DEF ReadRefs, FlagInv
  <2>6. EndInv'  BY <1>3 DEF ReadRefs, EndInv
  <2>7. CloseInv'  BY <1>3 DEF ReadRefs, CloseInv, EndInv
  <2> QED BY <2>1, <2>2, <2>3, <2>4, <2>5, <2>6, <2>7
<1>4. CASE Clone
  <2>1. TypeOK'  BY <1>4 DEF Clone, TypeOK
  <2>2. ReadInv'  BY <1>4 DEF Clone, ReadInv, ReadsAgree
  <2>3. StageInv'  BY <1>4 DEF Clone, StageInv
  <2>4. PlaceInv'  BY <1>4 DEF Clone, PlaceInv, ReadsAgree
  <2>5. FlagInv'  BY <1>4 DEF Clone, FlagInv
  <2>6. EndInv'  BY <1>4 DEF Clone, EndInv
  <2>7. CloseInv'  BY <1>4 DEF Clone, CloseInv, EndInv
  <2> QED BY <2>1, <2>2, <2>3, <2>4, <2>5, <2>6, <2>7
<1>5. CASE CheckClone
  <2>1. TypeOK'  BY <1>5 DEF CheckClone, TypeOK
  <2>2. ReadInv'  BY <1>5 DEF CheckClone, ReadInv, ReadsAgree
  <2>3. StageInv'  BY <1>5 DEF CheckClone, StageInv
  <2>4. PlaceInv'  BY <1>5 DEF CheckClone, PlaceInv, ReadsAgree
  <2>5. FlagInv'  BY <1>5 DEF CheckClone, FlagInv
  <2>6. EndInv'  BY <1>5 DEF CheckClone, EndInv
  <2>7. CloseInv'  BY <1>5 DEF CheckClone, CloseInv, EndInv
  <2> QED BY <2>1, <2>2, <2>3, <2>4, <2>5, <2>6, <2>7
<1>6. CASE Clean
  <2>1. TypeOK'  BY <1>6 DEF Clean, TypeOK
  <2>2. ReadInv'  BY <1>6 DEF Clean, ReadInv, ReadsAgree
  <2>3. StageInv'  BY <1>6 DEF Clean, StageInv
  <2>4. PlaceInv'  BY <1>6 DEF Clean, PlaceInv, ReadsAgree
  <2>5. FlagInv'  BY <1>6 DEF Clean, FlagInv
  <2>6. EndInv'  BY <1>6 DEF Clean, EndInv
  <2>7. CloseInv'  BY <1>6 DEF Clean, CloseInv, EndInv
  <2> QED BY <2>1, <2>2, <2>3, <2>4, <2>5, <2>6, <2>7
<1>7. CASE MakeBare
  <2>1. TypeOK'  BY <1>7 DEF MakeBare, TypeOK
  <2>2. ReadInv'  BY <1>7 DEF MakeBare, ReadInv, ReadsAgree
  <2>3. StageInv'  BY <1>7 DEF MakeBare, StageInv
  <2>4. PlaceInv'  BY <1>7 DEF MakeBare, PlaceInv, ReadsAgree
  <2>5. FlagInv'  BY <1>7 DEF MakeBare, FlagInv
  <2>6. EndInv'  BY <1>7 DEF MakeBare, EndInv
  <2>7. CloseInv'  BY <1>7 DEF MakeBare, CloseInv, EndInv
  <2> QED BY <2>1, <2>2, <2>3, <2>4, <2>5, <2>6, <2>7
<1>8. CASE WriteEvidence
  <2>1. TypeOK'  BY <1>8 DEF WriteEvidence, TypeOK
  <2>2. ReadInv'  BY <1>8 DEF WriteEvidence, ReadInv, ReadsAgree
  <2>3. StageInv'  BY <1>8 DEF WriteEvidence, StageInv
  <2>4. PlaceInv'  BY <1>8 DEF WriteEvidence, PlaceInv, ReadsAgree
  <2>5. FlagInv'  BY <1>8 DEF WriteEvidence, FlagInv
  <2>6. EndInv'  BY <1>8 DEF WriteEvidence, EndInv
  <2>7. CloseInv'  BY <1>8 DEF WriteEvidence, CloseInv, EndInv
  <2> QED BY <2>1, <2>2, <2>3, <2>4, <2>5, <2>6, <2>7
<1>9. CASE VerifySource
  <2>1. TypeOK'  BY <1>9 DEF VerifySource, TypeOK
  <2>2. ReadInv'  BY <1>9, SourceTypes DEF VerifySource, ScopeUnchanged, ReadInv, ReadsAgree
  <2>3. StageInv'  BY <1>9 DEF VerifySource, StageInv
  <2>4. PlaceInv'  BY <1>9 DEF VerifySource, PlaceInv, ReadsAgree
  <2>5. FlagInv'  BY <1>9 DEF VerifySource, FlagInv
  <2>6. EndInv'  BY <1>9 DEF VerifySource, EndInv
  <2>7. CloseInv'  BY <1>9 DEF VerifySource, CloseInv, EndInv
  <2> QED BY <2>1, <2>2, <2>3, <2>4, <2>5, <2>6, <2>7
<1>10. CASE VerifyOutput
  <2>1. TypeOK'  BY <1>10 DEF VerifyOutput, TypeOK
  <2>2. ReadInv'  BY <1>10 DEF VerifyOutput, ReadInv, ReadsAgree
  <2>3. StageInv'  BY <1>10 DEF VerifyOutput, StageInv
  <2>4. PlaceInv'  BY <1>10 DEF VerifyOutput, PlaceInv, ReadsAgree
  <2>5. FlagInv'  BY <1>10 DEF VerifyOutput, FlagInv
  <2>6. EndInv'  BY <1>10 DEF VerifyOutput, EndInv
  <2>7. CloseInv'  BY <1>10 DEF VerifyOutput, CloseInv, EndInv
  <2> QED BY <2>1, <2>2, <2>3, <2>4, <2>5, <2>6, <2>7
<1>11. CASE SyncStaged
  <2>1. TypeOK'  BY <1>11 DEF SyncStaged, TypeOK
  <2>2. ReadInv'  BY <1>11 DEF SyncStaged, ReadInv, ReadsAgree
  <2>3. StageInv'  BY <1>11 DEF SyncStaged, StageInv
  <2>4. PlaceInv'  BY <1>11 DEF SyncStaged, PlaceInv, ReadsAgree
  <2>5. FlagInv'  BY <1>11 DEF SyncStaged, FlagInv
  <2>6. EndInv'  BY <1>11 DEF SyncStaged, EndInv
  <2>7. CloseInv'  BY <1>11 DEF SyncStaged, CloseInv, EndInv
  <2> QED BY <2>1, <2>2, <2>3, <2>4, <2>5, <2>6, <2>7
<1>12. ASSUME NEW d \in Dests, Open(d) PROVE Inv'
  <2>1. TypeOK'  BY <1>12, ZenonT(30) DEF Open, TypeOK
  <2>2. ReadInv'  BY <1>12 DEF Open, ReadInv, ReadsAgree
  <2>3. StageInv'  BY <1>12 DEF Open, StageInv
  <2>4. PlaceInv'  BY <1>12 DEF Open, PlaceInv, ReadsAgree
  <2>5. FlagInv'  BY <1>12 DEF Open, FlagInv
  <2>6. EndInv'  BY <1>12 DEF Open, EndInv
  <2>7. CloseInv'
    <3>1. CASE d = "output"  BY <1>12, <3>1 DEF Open, CloseInv, EndInv, TypeOK
    <3>2. CASE d = "receipt"  BY <1>12, <3>2 DEF Open, CloseInv, EndInv, TypeOK
    <3> QED BY <3>1, <3>2
  <2> QED BY <2>1, <2>2, <2>3, <2>4, <2>5, <2>6, <2>7
<1>13. ASSUME NEW d \in Dests, Publish(d) PROVE Inv'
  <2>1. TypeOK'  BY <1>13 DEF Publish, TypeOK
  <2>2. ReadInv'  BY <1>13 DEF Publish, ReadInv, ReadsAgree
  <2>3. StageInv'  BY <1>13 DEF Publish, StageInv
  <2> DEFINE Placed == \A e \in Dests : dest'[e] = "ours" <=> e = d \/ dest[e] = "ours"
  <2>7. Placed  BY <1>13 DEF Publish, TypeOK
  <2>8. ASSUME d = "receipt" PROVE PlaceInv' /\ FlagInv'
    <3>1. /\ pc = "publishReceipt" /\ pc' = "flagReceipt" /\ dest["receipt"] = "absent"
          /\ UNCHANGED <<receipt, dirSync, analysed, head, refs, staged, synced, durable,
                         torn, published, error>>
      BY <1>13, <2>8 DEF Publish
    <3> HIDE <1>13
    <3>2. PlaceInv'  BY <2>7, <2>8, <3>1 DEF PlaceInv, ReadInv, StageInv, ReadsAgree
    <3>3. FlagInv'  BY <2>7, <2>8, <3>1 DEF PlaceInv, FlagInv, TypeOK
    <3> QED BY <3>2, <3>3
  <2>9. ASSUME d = "output" PROVE PlaceInv' /\ FlagInv'
    <3>1. /\ pc = "publishOutput" /\ pc' = "flagOutput" /\ dest["output"] = "absent"
          /\ UNCHANGED <<receipt, dirSync, analysed, head, refs, staged, synced, durable,
                         torn, published, error>>
      BY <1>13, <2>9 DEF Publish
    <3> HIDE <1>13
    <3>2. PlaceInv'  BY <2>7, <2>9, <3>1 DEF PlaceInv, ReadInv, StageInv, ReadsAgree
    <3>3. FlagInv'  BY <2>7, <2>9, <3>1 DEF PlaceInv, FlagInv, TypeOK
    <3> QED BY <3>2, <3>3
  <2>4. PlaceInv'  BY <2>8, <2>9
  <2>5. FlagInv'  BY <2>8, <2>9
  <2>6. EndInv'  BY <1>13 DEF Publish, EndInv
  <2>10. CloseInv'  BY <1>13 DEF Publish, CloseInv, EndInv
  <2> QED BY <2>1, <2>2, <2>3, <2>4, <2>5, <2>6, <2>10
<1>14. ASSUME NEW d \in Dests, Flag(d) PROVE Inv'
  <2>1. TypeOK'  BY <1>14 DEF Flag, TypeOK
  <2>2. ReadInv'  BY <1>14 DEF Flag, ReadInv, ReadsAgree
  <2>3. StageInv'  BY <1>14 DEF Flag, StageInv
  <2>4. PlaceInv'  BY <1>14 DEF Flag, PlaceInv, ReadsAgree
  <2>5. FlagInv'
    <3>1. CASE d = "receipt"  BY <1>14, <3>1 DEF Flag, FlagInv, PlaceInv, ReadInv
    <3>2. CASE d = "output"
      <4>1. pc = "flagOutput" /\ pc' = "syncOutput" /\ published' = published \cup {"output"}
            /\ dest' = dest
        BY <1>14, <3>2 DEF Flag
      <4>2. Ours("output") /\ ("receipt" \in published <=> Ours("receipt"))
        BY <4>1 DEF FlagInv, PlaceInv
      <4> HIDE <1>14
      <4> QED BY <4>1, <4>2 DEF FlagInv
    <3> QED BY <3>1, <3>2
  <2>6. EndInv'  BY <1>14 DEF Flag, EndInv
  <2>7. CloseInv'  BY <1>14 DEF Flag, CloseInv, EndInv
  <2> QED BY <2>1, <2>2, <2>3, <2>4, <2>5, <2>6, <2>7
<1>15. ASSUME NEW d \in Dests, SyncParent(d) PROVE Inv'
  <2>1. TypeOK'  BY <1>15, ZenonT(30) DEF SyncParent, TypeOK
  <2>2. ReadInv'  BY <1>15 DEF SyncParent, ReadInv, ReadsAgree
  <2>3. StageInv'  BY <1>15 DEF SyncParent, StageInv
  <2>4. PlaceInv'  BY <1>15 DEF SyncParent, PlaceInv, ReadsAgree
  <2>5. FlagInv'  BY <1>15 DEF SyncParent, FlagInv
  <2>6. EndInv'  BY <1>15 DEF SyncParent, EndInv
  <2>7. CloseInv'  BY <1>15 DEF SyncParent, CloseInv, EndInv
  <2> QED BY <2>1, <2>2, <2>3, <2>4, <2>5, <2>6, <2>7
<1> QED BY <1>1, <1>2, <1>3, <1>4, <1>5, <1>6, <1>7, <1>8, <1>9, <1>10, <1>11, <1>12, <1>13, <1>14, <1>15 DEF Advances

\* The end of a rewrite, and what happens to it.
LEMMA EndingKeepsInv ==
  ASSUME Inv, Return \/ Report \/ ReportFails \/ Killed PROVE Inv'
<1> USE DEF Inv
<1>1. CASE Return
  <2>1. TypeOK'  BY <1>1, FirstCloseCases DEF Return, TypeOK
  <2>2. ReadInv'  BY <1>1, FirstCloseCases DEF Return, ReadInv, ReadsAgree
  <2>3. StageInv'  BY <1>1, FirstCloseCases DEF Return, StageInv
  <2>4. PlaceInv'  BY <1>1, FirstCloseCases DEF Return, PlaceInv, ReadsAgree
  <2>5. FlagInv'  BY <1>1, FirstCloseCases DEF Return, FlagInv
  <2>6. EndInv'  BY <1>1, FirstCloseCases DEF Return, EndInv, PlaceInv
  <2>7. CloseInv'  BY <1>1, FirstCloseCases DEF Return, CloseInv, EndInv, PlaceInv
  <2> QED BY <2>1, <2>2, <2>3, <2>4, <2>5, <2>6, <2>7
<1>2. CASE Report
  <2>1. TypeOK'  BY <1>2 DEF Report, PublicationState, TypeOK
  <2>2. ReadInv'  BY <1>2 DEF Report, PublicationState, ReadInv, ReadsAgree
  <2>3. StageInv'  BY <1>2 DEF Report, PublicationState, StageInv
  <2>4. PlaceInv'  BY <1>2 DEF Report, PublicationState, PlaceInv, ReadsAgree
  <2>5. FlagInv'  BY <1>2 DEF Report, PublicationState, FlagInv
  <2>6. EndInv'  BY <1>2 DEF Report, PublicationState, EndInv
  <2>7. CloseInv'  BY <1>2 DEF Report, PublicationState, CloseInv, EndInv
  <2> QED BY <2>1, <2>2, <2>3, <2>4, <2>5, <2>6, <2>7
<1>3. CASE ReportFails
  <2>1. TypeOK'  BY <1>3, BoundsAssumption DEF ReportFails, Spend, TypeOK
  <2>2. ReadInv'  BY <1>3, BoundsAssumption DEF ReportFails, Spend, ReadInv, ReadsAgree
  <2>3. StageInv'  BY <1>3, BoundsAssumption DEF ReportFails, Spend, StageInv
  <2>4. PlaceInv'  BY <1>3, BoundsAssumption DEF ReportFails, Spend, PlaceInv, ReadsAgree
  <2>5. FlagInv'  BY <1>3, BoundsAssumption DEF ReportFails, Spend, FlagInv
  <2>6. EndInv'  BY <1>3, BoundsAssumption DEF ReportFails, Spend, EndInv
  <2>7. CloseInv'  BY <1>3, BoundsAssumption DEF ReportFails, Spend, CloseInv, EndInv
  <2> QED BY <2>1, <2>2, <2>3, <2>4, <2>5, <2>6, <2>7
<1>4. CASE Killed
  <2>1. TypeOK'  BY <1>4 DEF Killed, TypeOK
  <2>2. ReadInv'  BY <1>4 DEF Killed, ReadInv, ReadsAgree
  <2>3. StageInv'  BY <1>4 DEF Killed, StageInv
  <2>4. PlaceInv'  BY <1>4 DEF Killed, PlaceInv, ReadsAgree
  <2>5. FlagInv'  BY <1>4 DEF Killed, FlagInv
  <2>6. EndInv'  BY <1>4 DEF Killed, EndInv
  <2>7. CloseInv'  BY <1>4 DEF Killed, CloseInv, EndInv
  <2> QED BY <2>1, <2>2, <2>3, <2>4, <2>5, <2>6, <2>7
<1> QED BY <1>1, <1>2, <1>3, <1>4

\* So does __exit__ of each workspace, whether it removes, fails or is interrupted.
LEMMA ClosingKeepsInv ==
  ASSUME Inv, NEW w \in Dests, Close(w) \/ CloseFails(w) \/ (Signal /\ InterruptClose(w))
  PROVE  Inv'
<1> USE DEF Inv
<1>1. CASE Close(w)
  <2>1. TypeOK'  BY <1>1 DEF Close, CloseAs, Closing, TypeOK
  <2>2. ReadInv'  BY <1>1 DEF Close, CloseAs, Closing, ReadInv, ReadsAgree
  <2>3. StageInv'  BY <1>1 DEF Close, CloseAs, Closing, StageInv
  <2>4. PlaceInv'  BY <1>1 DEF Close, CloseAs, Closing, PlaceInv, ReadsAgree
  <2>5. FlagInv'  BY <1>1 DEF Close, CloseAs, Closing, FlagInv
  <2>6. EndInv'  BY <1>1 DEF Close, CloseAs, Closing, EndInv, TypeOK
  <2>7. CloseInv'  BY <1>1 DEF Close, CloseAs, Closing, CloseInv, EndInv, TypeOK
  <2> QED BY <2>1, <2>2, <2>3, <2>4, <2>5, <2>6, <2>7
<1>2. CASE CloseFails(w)
  <2>1. TypeOK'
    <3>1. CASE CloseAs(w, "left")
      BY <1>2, <3>1, BoundsAssumption DEF CloseFails, CloseAs, Closing, Spend, TypeOK
    <3>2. CASE CloseAs(w, "removed")
      BY <1>2, <3>2, BoundsAssumption DEF CloseFails, CloseAs, Closing, Spend, TypeOK
    <3> QED BY <1>2, <3>1, <3>2 DEF CloseFails
  <2>2. ReadInv'  BY <1>2, BoundsAssumption DEF CloseFails, CloseAs, Closing, Spend, ReadInv, ReadsAgree
  <2>3. StageInv'  BY <1>2, BoundsAssumption DEF CloseFails, CloseAs, Closing, Spend, StageInv
  <2>4. PlaceInv'  BY <1>2, BoundsAssumption DEF CloseFails, CloseAs, Closing, Spend, PlaceInv, ReadsAgree
  <2>5. FlagInv'  BY <1>2, BoundsAssumption DEF CloseFails, CloseAs, Closing, Spend, FlagInv
  <2>6. EndInv'  BY <1>2, BoundsAssumption DEF CloseFails, CloseAs, Closing, Spend, EndInv
  <2>7. CloseInv'
    <3>1. CASE w = "receipt"  BY <1>2, BoundsAssumption, <3>1 DEF CloseFails, CloseAs, Closing, Spend, CloseInv, EndInv, TypeOK
    <3>2. CASE w = "output"  BY <1>2, BoundsAssumption, <3>2 DEF CloseFails, CloseAs, Closing, Spend, CloseInv, EndInv, TypeOK
    <3> QED BY <3>1, <3>2
  <2> QED BY <2>1, <2>2, <2>3, <2>4, <2>5, <2>6, <2>7
<1>3. CASE Signal /\ InterruptClose(w)
  <2>1. TypeOK'
    <3>1. CASE CloseAs(w, "left")
      BY <1>3, <3>1 DEF InterruptClose, CloseAs, Closing, Signal, TypeOK
    <3>2. CASE CloseAs(w, "removed")
      BY <1>3, <3>2 DEF InterruptClose, CloseAs, Closing, Signal, TypeOK
    <3> QED BY <1>3, <3>1, <3>2 DEF InterruptClose
  <2>2. ReadInv'  BY <1>3 DEF InterruptClose, CloseAs, Closing, Signal, ReadInv, ReadsAgree
  <2>3. StageInv'  BY <1>3 DEF InterruptClose, CloseAs, Closing, Signal, StageInv
  <2>4. PlaceInv'  BY <1>3 DEF InterruptClose, CloseAs, Closing, Signal, PlaceInv, ReadsAgree
  <2>5. FlagInv'  BY <1>3 DEF InterruptClose, CloseAs, Closing, Signal, FlagInv
  <2>6. EndInv'  BY <1>3 DEF InterruptClose, CloseAs, Closing, Signal, EndInv
  <2>7. CloseInv'
    <3>1. CASE w = "receipt"  BY <1>3, <3>1 DEF InterruptClose, CloseAs, Closing, Signal, CloseInv, EndInv, TypeOK
    <3>2. CASE w = "output"  BY <1>3, <3>2 DEF InterruptClose, CloseAs, Closing, Signal, CloseInv, EndInv, TypeOK
    <3> QED BY <3>1, <3>2
  <2> QED BY <2>1, <2>2, <2>3, <2>4, <2>5, <2>6, <2>7
<1> QED BY <1>1, <1>2, <1>3

\* A signal while unwinding or afterwards.
LEMMA LateSignalKeepsInv ==
  ASSUME Inv, Signal, InterruptUnwinding \/ InterruptLate PROVE Inv'
<1> USE DEF Inv
<1>1. CASE InterruptUnwinding
  <2>1. TypeOK'  BY <1>1 DEF InterruptUnwinding, Signal, TypeOK
  <2>2. ReadInv'  BY <1>1 DEF InterruptUnwinding, Signal, ReadInv, ReadsAgree
  <2>3. StageInv'  BY <1>1 DEF InterruptUnwinding, Signal, StageInv
  <2>4. PlaceInv'  BY <1>1 DEF InterruptUnwinding, Signal, PlaceInv, ReadsAgree
  <2>5. FlagInv'  BY <1>1 DEF InterruptUnwinding, Signal, FlagInv
  <2>6. EndInv'  BY <1>1 DEF InterruptUnwinding, Signal, EndInv
  <2>7. CloseInv'  BY <1>1 DEF InterruptUnwinding, Signal, CloseInv, EndInv
  <2> QED BY <2>1, <2>2, <2>3, <2>4, <2>5, <2>6, <2>7
<1>2. CASE InterruptLate
  <2>1. TypeOK'  BY <1>2 DEF InterruptLate, Signal, TypeOK
  <2>2. ReadInv'  BY <1>2 DEF InterruptLate, Signal, ReadInv, ReadsAgree
  <2>3. StageInv'  BY <1>2 DEF InterruptLate, Signal, StageInv
  <2>4. PlaceInv'  BY <1>2 DEF InterruptLate, Signal, PlaceInv, ReadsAgree
  <2>5. FlagInv'  BY <1>2 DEF InterruptLate, Signal, FlagInv
  <2>6. EndInv'  BY <1>2 DEF InterruptLate, Signal, EndInv
  <2>7. CloseInv'  BY <1>2 DEF InterruptLate, Signal, CloseInv, EndInv
  <2> QED BY <2>1, <2>2, <2>3, <2>4, <2>5, <2>6, <2>7
<1> QED BY <1>1, <1>2

\* A source that moves, a foreign writer and a power loss take nothing from it.
LEMMA EnvironmentKeepsInv ==
  ASSUME Inv,
         (\E p \in Parts : SourceMoves(p)) \/ (\E d \in Dests : ForeignWrite(d))
           \/ \E lost \in SUBSET Dests : PowerLoss(lost)
  PROVE  Inv'
<1> USE DEF Inv
<1>1. ASSUME NEW p \in Parts, SourceMoves(p) PROVE Inv'
  <2>1. TypeOK'  BY <1>1, SourceTypes, BoundsAssumption DEF SourceMoves, TypeOK
  <2>2. ReadInv'  BY <1>1, SourceTypes, BoundsAssumption DEF SourceMoves, ReadInv, ReadsAgree
  <2>3. StageInv'  BY <1>1, SourceTypes, BoundsAssumption DEF SourceMoves, StageInv
  <2>4. PlaceInv'  BY <1>1, SourceTypes, BoundsAssumption DEF SourceMoves, PlaceInv, ReadsAgree
  <2>5. FlagInv'  BY <1>1, SourceTypes, BoundsAssumption DEF SourceMoves, FlagInv
  <2>6. EndInv'  BY <1>1, SourceTypes, BoundsAssumption DEF SourceMoves, EndInv
  <2>7. CloseInv'  BY <1>1, SourceTypes, BoundsAssumption DEF SourceMoves, CloseInv, EndInv
  <2> QED BY <2>1, <2>2, <2>3, <2>4, <2>5, <2>6, <2>7
<1>2. ASSUME NEW d \in Dests, ForeignWrite(d) PROVE Inv'
  <2>1. TypeOK'  BY <1>2 DEF ForeignWrite, TypeOK
  <2>2. ReadInv'  BY <1>2 DEF ForeignWrite, ReadInv, ReadsAgree
  <2>3. StageInv'  BY <1>2 DEF ForeignWrite, StageInv
  <2>4. PlaceInv'  BY <1>2 DEF ForeignWrite, PlaceInv, ReadsAgree
  <2>5. FlagInv'  BY <1>2 DEF ForeignWrite, FlagInv
  <2>6. EndInv'  BY <1>2 DEF ForeignWrite, EndInv
  <2>7. CloseInv'  BY <1>2 DEF ForeignWrite, CloseInv, EndInv
  <2> QED BY <2>1, <2>2, <2>3, <2>4, <2>5, <2>6, <2>7
<1>3. ASSUME NEW lost \in SUBSET Dests, PowerLoss(lost) PROVE Inv'
  <2>1. TypeOK'  BY <1>3 DEF PowerLoss, TypeOK
  <2>2. ReadInv'  BY <1>3 DEF PowerLoss, ReadInv, ReadsAgree
  <2>3. StageInv'  BY <1>3 DEF PowerLoss, StageInv
  <2>4. PlaceInv'  BY <1>3 DEF PowerLoss, PlaceInv, ReadsAgree
  <2>5. FlagInv'  BY <1>3 DEF PowerLoss, FlagInv
  <2>6. EndInv'  BY <1>3 DEF PowerLoss, EndInv
  <2>7. CloseInv'  BY <1>3 DEF PowerLoss, CloseInv, EndInv
  <2> QED BY <2>1, <2>2, <2>3, <2>4, <2>5, <2>6, <2>7
<1> QED BY <1>1, <1>2, <1>3

-----------------------------------------------------------------------------
(* The invariant and what follows from it.                                 *)

\* Types, and what is known at each step of a rewrite: the order of the reads,
\* what is staged, placed, flagged and closed.
THEOREM RewriteInvariant == Spec => []Inv
<1>1. Init => Inv
  BY BoundsAssumption, ReceiptsAssumption
     DEF Init, Inv, TypeOK, ReadInv, StageInv, PlaceInv, FlagInv, EndInv, CloseInv
<1>2. Inv /\ [Next]_vars => Inv'
  <2> SUFFICES ASSUME Inv, [Next]_vars PROVE Inv'
    OBVIOUS
  <2>1. CASE Proceed
    <3>1. CASE Advances  BY <3>1, AdvancingKeepsInv
    <3>2. CASE SourceMismatch \/ PublishRefused \/ OpenUnsupported
      BY <3>2, RaisingSteps, RaiseKeepsInv
    <3>3. CASE Return \/ Report  BY <3>3, EndingKeepsInv
    <3>4. CASE \E w \in Dests : Close(w)  BY <3>4, ClosingKeepsInv
    <3> QED BY <2>1, <3>1, <3>2, <3>3, <3>4 DEF Proceed, Advances
  <2>2. CASE Failure
    <3>1. CASE Fails  BY <3>1, RaisingSteps, RaiseKeepsInv
    <3>2. CASE ReportFails  BY <3>2, EndingKeepsInv
    <3>3. CASE \E w \in Dests : CloseFails(w)  BY <3>3, ClosingKeepsInv
    <3> QED BY <2>2, <3>1, <3>2, <3>3 DEF Failure
  <2>3. CASE Environment
    <3>1. CASE Signal
      <4>1. CASE InterruptBody  BY <3>1, <4>1, RaisingSteps, RaiseKeepsInv
      <4>2. CASE InterruptUnwinding \/ InterruptLate  BY <3>1, <4>2, LateSignalKeepsInv
      <4>3. CASE \E w \in Dests : InterruptClose(w)  BY <3>1, <4>3, ClosingKeepsInv
      <4> QED BY <3>1, <4>1, <4>2, <4>3 DEF Signal
    <3>2. CASE Killed  BY <3>2, EndingKeepsInv
    <3>3. CASE \/ \E p \in Parts : SourceMoves(p)
               \/ \E d \in Dests : ForeignWrite(d)
               \/ \E lost \in SUBSET Dests : PowerLoss(lost)
      BY <3>3, EnvironmentKeepsInv
    <3> QED BY <2>3, <3>1, <3>2, <3>3 DEF Environment
  <2>4. CASE UNCHANGED vars
    <3> USE <2>4 DEF vars, Inv
    <3>1. TypeOK'  BY DEF TypeOK
    <3>2. ReadInv' /\ PlaceInv'  BY DEF ReadInv, PlaceInv, ReadsAgree
    <3>3. StageInv' /\ FlagInv'  BY DEF StageInv, FlagInv
    <3>4. EndInv' /\ CloseInv'  BY DEF EndInv, CloseInv
    <3> QED BY <3>1, <3>2, <3>3, <3>4
  <2> QED BY <2>1, <2>2, <2>3, <2>4 DEF Next
<1> QED BY <1>1, <1>2, PTL DEF Spec

\* No reader ever finds a destination that is not verified or not durable.
THEOREM PublishedIsWholeAlways == Spec => []PublishedIsWhole
<1>1. Inv => PublishedIsWhole  BY DEF Inv, PlaceInv, PublishedIsWhole
<1> QED BY <1>1, RewriteInvariant, PTL

\* A published receipt binds the state of the source that was rewritten.
THEOREM EvidenceIsTrueAlways == Spec => []EvidenceIsTrue
<1>1. Inv => EvidenceIsTrue  BY DEF Inv, PlaceInv, EvidenceIsTrue
<1> QED BY <1>1, RewriteInvariant, PTL

\* What a step may make of an open workspace.
Settles(w) ==
  ws[w] = "open" /\ ws'[w] # "open" =>
    \/ ws'[w] = "removed" /\ error # "interrupted" /\ error' \in {error, "other"}
    \/ ws'[w] = "marked" /\ error = "interrupted"
    \/ ws'[w] = "left" /\ error' \in {"other", "interrupted"}

\* No step makes anything else of it, whether it closes, fails or is interrupted.
LEMMA StepsSettle ==
  ASSUME Inv, Next, NEW w \in Dests PROVE Settles(w)
<1> USE DEF Settles
<1>1. /\ ws \in [Dests -> {"none", "open", "removed", "marked", "left"}]
      /\ error \in {"none", "publication", "other", "interrupted"}
  BY DEF Inv, TypeOK
<1>2. CASE ws' = ws  BY <1>2
<1>3. ASSUME NEW v \in Dests, Close(v) \/ CloseFails(v) \/ (Signal /\ InterruptClose(v))
      PROVE  Settles(w)
  <2>1. CASE v # w
    <3>1. ws'[w] = ws[w]
      BY <1>1, <1>3, <2>1 DEF Close, CloseFails, InterruptClose, CloseAs
    <3> QED BY <3>1
  <2>2. CASE Close(v) /\ v = w
    BY <1>1, <2>2 DEF Close, CloseAs
  <2>3. CASE CloseFails(v) /\ v = w
    BY <1>1, <2>3 DEF CloseFails, CloseAs
  <2>4. CASE Signal /\ InterruptClose(v) /\ v = w
    <3>1. error' = "other" /\ (ws'[w] = "left" \/ ws'[w] = "removed")
      BY <1>1, <2>4 DEF InterruptClose, CloseAs
    <3>2. error # "interrupted"  BY <2>4 DEF Signal, Inv, CloseInv
    <3> QED BY <3>1, <3>2
  <2> QED BY <1>3, <2>1, <2>2, <2>3, <2>4
<1>4. CASE InterruptUnwinding  BY <1>1, <1>4 DEF InterruptUnwinding
<1>5. CASE AbandonOpening
  <2>1. ws[w] = "open" => w \notin Opened  BY DEF Opened, Inv, CloseInv
  <2>2. ws[w] = "open" => ws'[w] = "open"  BY <1>5, <2>1 DEF AbandonOpening
  <2> QED BY <2>2
<1>6. CASE Proceed
  BY <1>1, <1>2, <1>3, <1>6
     DEF Proceed, Analyse, ReadHead, ReadRefs, Open, OpenUnsupported, Clone, CheckClone,
         Clean, MakeBare, WriteEvidence, VerifySource, SourceMismatch, VerifyOutput,
         SyncStaged, Publish, Flag, SyncParent, PublishRefused, Return, Report
<1>7. CASE Failure
  BY <1>2, <1>3, <1>5, <1>7 DEF Failure, Fails, ReportFails
<1>8. CASE Environment
  BY <1>2, <1>3, <1>4, <1>5, <1>8
     DEF Environment, Signal, InterruptBody, InterruptLate, Killed, SourceMoves,
         PowerLoss, ForeignWrite
<1> QED BY <1>6, <1>7, <1>8 DEF Next

\* A rewrite that ended has removed its workspaces, or was interrupted and keeps
\* them, or says that it failed; and no signal goes untold.
THEOREM StagingIsSettledAlways == Spec => StagingIsSettled
<1>1. Inv => StagingIsTold
  <2> SUFFICES ASSUME Inv, pc = "done" PROVE StagingIsTold
    BY DEF StagingIsTold
  <2> USE DEF Inv, TypeOK, EndInv, CloseInv
  <2>1. signals \in 0..1 /\ exit \in {"ok", "failed", "interrupted"}
    OBVIOUS
  <2>2. exit = "ok" => signals = 0 /\ \A w \in Dests : Gone(w)
    BY DEF Gone
  <2>3. told # "nothing" => signals = 0 /\ \A w \in Dests : Gone(w)
    BY DEF Gone
  <2>4. ASSUME NEW w \in Dests
        PROVE  /\ ws[w] # "open"
               /\ ws[w] = "marked" => exit = "interrupted"
               /\ ws[w] = "left" => signals = 1 \/ (faults > 0 /\ exit = "failed")
    <3>1. ws[w] # "open" /\ (ws[w] = "marked" => exit = "interrupted")
      OBVIOUS
    <3>2. ASSUME ws[w] = "left", signals # 1 PROVE faults > 0 /\ exit = "failed"
      <4>1. signals = 0 /\ faults > 0  BY <2>1, <3>2
      <4>2. error \notin {"none", "publication", "interrupted"}  BY <3>2, <4>1
      <4> QED BY <2>1, <4>1, <4>2
    <3> QED BY <3>1, <3>2
  <2> QED BY <2>2, <2>3, <2>4 DEF StagingIsTold
<1>2. Inv /\ [Next]_vars => [\A w \in Dests : Settles(w)]_vars
  BY StepsSettle
<1>3. Spec => [][\A w \in Dests : Settles(w)]_vars
  BY <1>2, RewriteInvariant, PTL DEF Spec
<1> QED BY <1>1, <1>3, RewriteInvariant, PTL DEF StagingIsSettled, WorkspacesSettle, Settles

-----------------------------------------------------------------------------
(* Rewrite implements Publication.                                         *)

\* Nothing that Publication speaks of changes.
Silent == UNCHANGED <<receipt, dest, exit, told>> /\ (pc' = "dead" <=> pc = "dead")

\* A step that touches no destination, loses nothing and reports nothing is a stutter of
\* the abstract publication.
LEMMA SilentStutters == Silent => UNCHANGED Promise!vars
BY DEF Silent, Promise!vars, Outcome

\* The state that is reported is true of the flags.
LEMMA PublicationStateCases ==
  /\ error # "publication" => PublicationState = "nothing"
  /\ error = "publication" /\ "output" \in published => PublicationState = "output_published"
  /\ error = "publication" /\ "output" \notin published /\ "receipt" \in published =>
       PublicationState = "receipt_published"
  /\ error = "publication" /\ "output" \notin published /\ "receipt" \notin published =>
       PublicationState = "not_published"
BY DEF PublicationState

\* The three publication states that PublicationState tells apart are true when it does.
LEMMA HoldsCases ==
  /\ Ours("output") => Promise!Holds("output_published")
  /\ Ours("receipt") /\ ~Ours("output") => Promise!Holds("receipt_published")
  /\ (\A d \in Dests : ~Ours(d)) => Promise!Holds("not_published")
<1>1. Ours("output") => Promise!Holds("output_published")
  BY DEF Promise!Holds, Promise!Ours
<1>2. Ours("receipt") /\ ~Ours("output") => Promise!Holds("receipt_published")
  BY DEF Promise!Holds, Promise!Ours
<1>3. (\A d \in Dests : ~Ours(d)) => Promise!Holds("not_published")
  BY DEF Promise!Holds, Promise!Ours, Promise!Dests
<1> QED BY <1>1, <1>2, <1>3

\* A step that succeeds is a step of the promise or a stutter.
LEMMA ProceedingRefines ==
  ASSUME Inv, Proceed PROVE [Promise!Next]_(Promise!vars)
<1> USE DEF Inv
<1>1. CASE Advances /\ ~\E d \in Dests : Publish(d)
  <2>1. Silent
    BY <1>1 DEF Advances, Silent, Analyse, ReadHead, ReadRefs, Open, Clone, CheckClone,
           Clean, MakeBare, WriteEvidence, VerifySource, VerifyOutput, SyncStaged, Flag, SyncParent
  <2> QED BY <2>1, SilentStutters
<1>2. ASSUME NEW d \in Dests, Publish(d) PROVE Promise!Publish(d)
  <2>1. exit = "none" /\ pc # "dead" /\ pc' # "dead"
    BY <1>2 DEF Publish, EndInv
  <2>2. d = "receipt" => receipt # "none"
    BY <1>2 DEF Publish, ReadInv
  <2>3. d = "output" /\ receipt # "none" => Ours("receipt")
    BY <1>2 DEF Publish, PlaceInv
  <2> QED BY <1>2, <2>1, <2>2, <2>3 DEF Publish, Promise!Publish, Promise!Ours, Outcome
<1>3. CASE SourceMismatch \/ PublishRefused \/ OpenUnsupported
  <2>1. Silent
    BY <1>3, FirstCloseCases DEF Silent, SourceMismatch, PublishRefused, OpenUnsupported, Raise
  <2> QED BY <2>1, SilentStutters
<1>4. CASE Return \/ \E w \in Dests : Close(w)
  <2>1. Silent
    BY <1>4, FirstCloseCases DEF Silent, Return, Close, CloseAs, Closing
  <2> QED BY <2>1, SilentStutters
<1>5. CASE Report
  <2>1. pc = "convert" /\ pc' = "done" /\ exit = "none" /\ UNCHANGED <<receipt, dest>>
        /\ told' = PublicationState
    BY <1>5 DEF Report, EndInv
  <2>2. /\ exit' \in {"ok", "failed", "interrupted"}
        /\ exit' = "ok" => Ours("output")
        /\ error \in {"publication", "other"} => exit' = "failed"
    BY <1>5, <2>1 DEF Report, EndInv, TypeOK
  <2>3. told' # "nothing" => error = "publication"
    BY <2>1, PublicationStateCases
  <2>4. error = "publication" => \A d \in Dests : Ours(d) <=> d \in published
    BY <2>1 DEF FlagInv
  <2>5. told' \in Promise!States /\ (told' # "nothing" => Promise!Holds(told'))
    <3>1. CASE error # "publication"
      BY <2>1, <3>1, PublicationStateCases DEF Promise!States
    <3>2. CASE error = "publication"
      BY <2>1, <2>4, <3>2, PublicationStateCases, HoldsCases DEF Promise!States
    <3> QED BY <3>1, <3>2
  <2>6. Promise!End(exit', told')
    BY <2>1, <2>2, <2>3, <2>5 DEF Promise!End, Promise!Ours, Outcome
  <2> QED BY <2>2, <2>5, <2>6 DEF Promise!Next
<1>6. ASSUME NEW d \in Dests, Publish(d) PROVE Promise!Next
  BY <1>2, <1>6 DEF Promise!Next, Promise!Dests
<1> QED BY <1>1, <1>3, <1>4, <1>5, <1>6 DEF Proceed, Advances

\* So is a failing call and what the exit then reports.
LEMMA FailingRefines ==
  ASSUME Inv, Failure PROVE [Promise!Next]_(Promise!vars)
<1> USE DEF Inv
<1>1. CASE Fails \/ \E w \in Dests : CloseFails(w)
  <2>1. Silent
    BY <1>1, FirstCloseCases DEF Silent, Fails, Raise, CloseFails, CloseAs, Closing
  <2> QED BY <2>1, SilentStutters
<1>2. CASE ReportFails
  <2>1. Promise!End("failed", "nothing")
    BY <1>2 DEF ReportFails, EndInv, Promise!End, Outcome
  <2> QED BY <2>1 DEF Promise!Next, Promise!States
<1> QED BY <1>1, <1>2 DEF Failure

\* So are signals, other writers and the loss of power.
LEMMA EnvironmentRefines ==
  ASSUME Inv, Environment PROVE [Promise!Next]_(Promise!vars)
<1> USE DEF Inv
<1>1. CASE Signal \/ \E p \in Parts : SourceMoves(p)
  <2>1. Silent
    BY <1>1, FirstCloseCases
       DEF Silent, SourceMoves, Signal, InterruptBody, InterruptUnwinding, InterruptLate,
           InterruptClose, Raise, CloseAs, Closing
  <2> QED BY <2>1, SilentStutters
<1>2. CASE Killed
  <2>1. Promise!End("dead", "nothing")
    BY <1>2 DEF Killed, EndInv, Promise!End, Outcome
  <2> QED BY <2>1 DEF Promise!Next, Promise!States
<1>3. ASSUME NEW d \in Dests, ForeignWrite(d) PROVE Promise!Next
  <2>1. Promise!Appear(d)
    BY <1>3 DEF ForeignWrite, Promise!Appear, Outcome
  <2> QED BY <2>1 DEF Promise!Next, Promise!Dests
<1>4. ASSUME NEW lost \in SUBSET Dests, PowerLoss(lost)
      PROVE  [Promise!Next]_(Promise!vars)
  <2>1. \A d \in lost : Ours(d) /\ d \notin durable  BY <1>4 DEF PowerLoss
  <2>2. CASE exit = "ok" /\ pc = "done"
    <3>1. lost = {}  BY <2>1, <2>2 DEF EndInv
    <3>2. Silent  BY <1>4, <2>2, <3>1 DEF Silent, PowerLoss, TypeOK
    <3> QED BY <3>2, SilentStutters
  <2>3. CASE ~(exit = "ok" /\ pc = "done")
    <3>1. Outcome # "ok"  BY <2>3 DEF Outcome, EndInv
    <3>2. "receipt" \in lost => ~Ours("output")
      BY <2>1 DEF PlaceInv
    <3>3. Outcome' = IF Outcome = "running" THEN "dead" ELSE Outcome
      BY <1>4 DEF PowerLoss, Outcome, EndInv, TypeOK
    <3>4. Promise!PowerLoss(lost)
      BY <1>4, <2>1, <3>1, <3>2, <3>3 DEF PowerLoss, Promise!PowerLoss, Promise!Ours, Promise!Dests
    <3> QED BY <3>4 DEF Promise!Next, Promise!Dests
  <2> QED BY <2>2, <2>3
<1> QED BY <1>1, <1>2, <1>3, <1>4 DEF Environment

\* The destinations of a rewrite behave as README.md promises, whatever fails,
\* and what it reports of them is true.
THEOREM ImplementsPublication == Spec => PublicationPromise
<1>1. Init => Promise!Init
  BY DEF Init, Promise!Init, Outcome, Promise!Dests
<1>2. Inv /\ [Next]_vars => [Promise!Next]_(Promise!vars)
  <2>1. ASSUME UNCHANGED vars PROVE UNCHANGED Promise!vars
    BY <2>1, SilentStutters DEF vars, Silent
  <2> QED BY <2>1, ProceedingRefines, FailingRefines, EnvironmentRefines DEF Next
<1> QED BY <1>1, <1>2, RewriteInvariant, PTL DEF Spec, PublicationPromise, Promise!Spec
=============================================================================
